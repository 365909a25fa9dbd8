------------------------- MODULE IntegrationsProofs -------------------------
(***************************************************************************)
(* Proofs about Integrations, for every set of integrations, workspaces,   *)
(* repositories, syncs and request slots.                                  *)
(***************************************************************************)
EXTENDS Integrations, TLAPS

-----------------------------------------------------------------------------
(* The inductive invariant *)

\* Steps at which the worker holds the workspace it read.
Reading == {"repos", "branches", "delete", "create", "members",
            "deleteMembers", "createMembers", "complete"}

\* Steps after the last repository was copied.
PastBranches == {"members", "deleteMembers", "createMembers", "complete"}

\* What the worker holds outside of a job.
AtRest ==
    worker.pc = "idle" =>
        worker.sync = None /\ worker.integration = None

\* What a job holds: its sync and integration, and, from there on, how far the
\* copy of one workspace has come.
InHand ==
    worker.pc # "idle" =>
        /\ worker.sync \in SyncId /\ worker.integration \in Integration
        /\ syncOf[worker.sync] = worker.integration
        /\ status[worker.integration] # "ABSENT"
        /\ worker.pc \in Reading => worker.workspace \in Workspace
        /\ worker.pc \in {"delete", "create"} =>
              worker.repo \in worker.todo /\ worker.repo \in RepositoriesOf[worker.workspace]
        /\ worker.pc \in PastBranches => worker.todo = {}
        /\ worker.pc \notin Reading => worker.repos = {}
        /\ worker.pc = "repos" => worker.repos = {}
        /\ worker.repos # {} => worker.workspace \in Workspace

Copied ==
    worker.pc # "idle" =>
        /\ worker.todo \subseteq worker.repos
        /\ \A g \in worker.repos \ worker.todo : g \in RepositoriesOf[worker.workspace]
        /\ StillThere =>
              /\ \A g \in worker.repos : selection[worker.integration][g] # "ABSENT"
              /\ \A g \in worker.repos \ worker.todo :
                    branches[worker.integration][g] = worker.workspace
              /\ worker.pc = "complete" => members[worker.integration] = worker.workspace

\* Handlers hold the ids of their next step.
RequestsHold ==
    \A r \in Request :
        /\ req[r].pc = "listing" =>
              req[r].integration \in Integration /\ req[r].workspace \in Workspace
        /\ req[r].pc = "enqueue" => req[r].sync \in SyncId

\* A sync that somebody still refers to has, or had, a row.
SyncsKnown ==
    /\ \A s \in SyncId : syncStatus[s] # "ABSENT" => syncOf[s] \in Integration
    /\ worker.pc # "idle" => syncStatus[worker.sync] # "ABSENT"
    /\ \A n \in DOMAIN queue : syncStatus[queue[n]] # "ABSENT"
    /\ \A s \in stalled : syncStatus[s] # "ABSENT"
    /\ \A r \in Request : req[r].pc = "enqueue" => syncStatus[req[r].sync] # "ABSENT"

\* Nothing is left of an integration that is not there.
RowsGo ==
    \A i \in Integration : ~Exists(i) =>
        /\ errorOf[i] = None /\ lastSynced[i] = None
        /\ members[i] = "NONE" /\ \A g \in Slug : branches[i][g] = "NONE"

CopyInvariant == TypeOK /\ AtRest /\ InHand /\ Copied /\ RequestsHold /\ SyncsKnown /\ RowsGo

-----------------------------------------------------------------------------
(* Types *)

RowTypes ==
    /\ status \in [Integration -> {"ABSENT", "CONNECTED", "ERROR", "REMOVED"}]
    /\ workspaceSlug \in [Integration -> Workspace \cup {None}]
    /\ errorOf \in [Integration -> SyncId \cup {None}]
    /\ lastSynced \in [Integration -> SyncId \cup {None}]
    /\ selection \in [Integration -> [Slug -> {"ABSENT", "LISTED", "SELECTED"}]]
    /\ branches \in [Integration -> [Slug -> Copy]]
    /\ members \in [Integration -> Copy]

SyncTypes ==
    /\ syncStatus \in [SyncId -> {"ABSENT", "QUEUED", "RUNNING", "COMPLETED",
                                  "FAILED", "REMOVED"}]
    /\ syncOf \in [SyncId -> Integration \cup {None}]

JobTypes == queue \in Seq(SyncId) /\ stalled \in SUBSET SyncId

SyncRows ==
    \A s \in SyncId :
        syncStatus[s] \in {"QUEUED", "RUNNING", "COMPLETED", "FAILED"} =>
            syncOf[s] \in Integration /\ Exists(syncOf[s])

BranchRows ==
    \A i \in Integration, g \in Slug :
        selection[i][g] = "ABSENT" => branches[i][g] = "NONE"

Parts ==
    /\ RowTypes /\ SyncTypes /\ JobTypes
    /\ worker \in WorkerRecord /\ req \in [Request -> RequestRecord]
    /\ SyncRows /\ BranchRows

LEMMA TypeParts == (TypeOK <=> Parts) /\ (TypeOK' <=> Parts')
BY DEF TypeOK, Parts, RowTypes, SyncTypes, JobTypes, SyncRows, BranchRows

LEMMA InitCopies == Init => CopyInvariant
<1> SUFFICES ASSUME Init PROVE CopyInvariant
  OBVIOUS
<1>1. RowTypes /\ SyncTypes /\ JobTypes /\ SyncRows /\ BranchRows
  BY DEF Init, RowTypes, SyncTypes, JobTypes, SyncRows, BranchRows, Copy
<1>2. worker \in WorkerRecord /\ worker.pc = "idle"
      /\ worker.sync = None /\ worker.integration = None
  BY DEF Init, IdleWorker, WorkerRecord
<1>3. req \in [Request -> RequestRecord] /\ \A r \in Request : req[r].pc = "idle"
  BY DEF Init, Idle, RequestRecord
<1>4. SyncsKnown /\ RowsGo
  BY <1>2, <1>3 DEF Init, SyncsKnown, RowsGo
<1> QED
  BY <1>1, <1>2, <1>3, <1>4, TypeParts DEF Parts, CopyInvariant, AtRest, InHand, Copied, RequestsHold

-----------------------------------------------------------------------------
(* Steps of requests: the worker keeps what it holds *)

LEMMA CopyHandleCallback ==
    ASSUME CopyInvariant, NEW i \in Integration, HandleCallback(i)
    PROVE  CopyInvariant'
<1>0. TypeOK /\ RowTypes /\ status[i] = "ABSENT" /\ status' = [status EXCEPT ![i] = "CONNECTED"]
      /\ UNCHANGED <<workspaceSlug, errorOf, lastSynced, dataVars, syncVars, jobVars, req>>
  BY TypeParts DEF Parts, CopyInvariant, HandleCallback
<1>1. \A j \in Integration : j # i => status'[j] = status[j]
  BY <1>0 DEF RowTypes
<1>2. status'[i] = "CONNECTED"
  BY <1>0 DEF RowTypes
<1>3. TypeOK'
  <2>1. RowTypes'
    BY <1>0 DEF RowTypes, dataVars
  <2>2. SyncRows'
    BY <1>0, <1>1, <1>2, TypeParts DEF Parts, SyncRows, Exists, syncVars
  <2> QED
    BY <1>0, <2>1, <2>2, TypeParts DEF Parts, SyncTypes, JobTypes, BranchRows, syncVars, jobVars, dataVars
<1>4. worker.pc # "idle" => worker.integration \in Integration /\ worker.integration # i
  BY <1>0 DEF CopyInvariant, InHand
<1>5. InHand' /\ Copied' /\ AtRest'
  BY <1>0, <1>1, <1>4 DEF CopyInvariant, AtRest, InHand, Copied, StillThere, Exists,
                          syncVars, jobVars, dataVars
<1>6. RequestsHold' /\ SyncsKnown'
  BY <1>0 DEF CopyInvariant, RequestsHold, SyncsKnown, syncVars, jobVars
<1>7. RowsGo'
  BY <1>0, <1>1, <1>2 DEF CopyInvariant, RowsGo, Exists, dataVars
<1> QED
  BY <1>3, <1>5, <1>6, <1>7 DEF CopyInvariant

LEMMA CopyRemove ==
    ASSUME CopyInvariant, NEW i \in Integration, Remove(i)
    PROVE  CopyInvariant'
<1>0. TypeOK /\ RowTypes /\ SyncTypes /\ status' = [status EXCEPT ![i] = "REMOVED"]
      /\ UNCHANGED <<syncOf, jobVars, req>>
  BY TypeParts DEF Parts, CopyInvariant, Remove
<1>1. /\ status'[i] = "REMOVED" /\ errorOf'[i] = None /\ lastSynced'[i] = None
      /\ members'[i] = "NONE" /\ \A g \in Slug : branches'[i][g] = "NONE"
  BY <1>0 DEF RowTypes, Remove
<1>2. \A j \in Integration : j # i =>
        /\ status'[j] = status[j] /\ errorOf'[j] = errorOf[j]
        /\ lastSynced'[j] = lastSynced[j] /\ selection'[j] = selection[j]
        /\ branches'[j] = branches[j] /\ members'[j] = members[j]
  BY <1>0 DEF RowTypes, Remove
<1>3. \A s \in SyncId :
        /\ syncStatus'[s] = IF syncOf[s] = i THEN "REMOVED" ELSE syncStatus[s]
  BY DEF Remove
<1>4. TypeOK'
  <2>1. RowTypes'
    BY <1>0 DEF Remove, RowTypes, Copy
  <2>2. SyncTypes'
    BY <1>0 DEF Remove, SyncTypes
  <2>3. SyncRows'
    BY <1>0, <1>2, <1>3, TypeParts DEF Parts, SyncRows, Exists
  <2>4. BranchRows'
    BY <1>0, <1>1, <1>2, TypeParts DEF Parts, BranchRows
  <2> QED
    BY <1>0, <2>1, <2>2, <2>3, <2>4, TypeParts DEF Parts, JobTypes, jobVars
<1>5. InHand' /\ AtRest'
  BY <1>0, <1>1, <1>2 DEF CopyInvariant, AtRest, InHand, jobVars
<1>6. Copied'
  <2>1. CASE worker.integration = i
    BY <1>0, <1>1, <2>1 DEF CopyInvariant, InHand, Copied, StillThere, Exists, jobVars
  <2>2. CASE worker.integration # i
    BY <1>0, <1>2, <2>2 DEF CopyInvariant, InHand, Copied, StillThere, Exists, jobVars
  <2> QED
    BY <2>1, <2>2
<1>7. RequestsHold'
  BY <1>0 DEF CopyInvariant, RequestsHold
<1>8. SyncsKnown'
  <2>1. \A s \in SyncId : /\ syncStatus[s] # "ABSENT" => syncStatus'[s] # "ABSENT"
                          /\ syncStatus'[s] # "ABSENT" => syncStatus[s] # "ABSENT" \/ syncOf[s] = i
    BY <1>3
  <2>2. /\ worker.pc # "idle" => worker.sync \in SyncId
        /\ \A n \in DOMAIN queue : queue[n] \in SyncId
        /\ stalled \subseteq SyncId
        /\ \A r \in Request : req[r].pc = "enqueue" => req[r].sync \in SyncId
    BY <1>0, TypeParts DEF Parts, CopyInvariant, InHand, RequestsHold, JobTypes
  <2>3. SyncsKnown
    BY DEF CopyInvariant
  <2>4. UNCHANGED <<syncOf, queue, stalled, worker, req>>
    BY <1>0 DEF jobVars
  <2>5. \A s \in SyncId : syncStatus'[s] # "ABSENT" => syncOf[s] \in Integration
    BY <2>1, <2>3 DEF SyncsKnown
  <2>6. /\ worker.pc # "idle" => syncStatus'[worker.sync] # "ABSENT"
        /\ \A n \in DOMAIN queue : syncStatus'[queue[n]] # "ABSENT"
        /\ \A s \in stalled : syncStatus'[s] # "ABSENT"
        /\ \A r \in Request : req[r].pc = "enqueue" => syncStatus'[req[r].sync] # "ABSENT"
    BY <2>1, <2>2, <2>3 DEF SyncsKnown
  <2> QED
    BY <2>4, <2>5, <2>6 DEF SyncsKnown
<1>9. RowsGo'
  BY <1>1, <1>2 DEF CopyInvariant, RowsGo, Exists
<1> QED
  BY <1>4, <1>5, <1>6, <1>7, <1>8, <1>9 DEF CopyInvariant

LEMMA CopySelect ==
    ASSUME CopyInvariant, NEW i \in Integration,
           \/ \E w \in Workspace : SelectWorkspace(i, w)
           \/ \E g \in Slug, selected \in BOOLEAN : ToggleRepositorySelection(i, g, selected)
    PROVE  CopyInvariant'
<1>0. /\ TypeOK /\ RowTypes
      /\ UNCHANGED <<status, errorOf, lastSynced, branches, members, syncVars, jobVars, req>>
  BY TypeParts DEF Parts, CopyInvariant, SelectWorkspace, ToggleRepositorySelection, rowVars, dataVars
<1>1. \A j \in Integration, g \in Slug :
        selection'[j][g] = "ABSENT" <=> selection[j][g] = "ABSENT"
  <2>1. CASE selection' = selection
    BY <2>1
  <2>2. ASSUME NEW g \in Slug, NEW v \in {"LISTED", "SELECTED"}, selection[i][g] # "ABSENT",
               selection' = [selection EXCEPT ![i][g] = v]
        PROVE  <1>1
    BY <1>0, <2>2 DEF RowTypes
  <2>3. \/ selection' = selection
        \/ \E g \in Slug, v \in {"LISTED", "SELECTED"} :
              selection[i][g] # "ABSENT" /\ selection' = [selection EXCEPT ![i][g] = v]
    BY DEF SelectWorkspace, ToggleRepositorySelection, dataVars
  <2> QED
    BY <2>1, <2>2, <2>3
<1>2. RowTypes'
  <2>1. CASE \E w \in Workspace : SelectWorkspace(i, w)
    BY <1>0, <2>1 DEF RowTypes, SelectWorkspace, dataVars
  <2>2. ASSUME NEW g \in Slug, NEW selected \in BOOLEAN,
               ToggleRepositorySelection(i, g, selected)
        PROVE  RowTypes'
    BY <1>0, <2>2 DEF RowTypes, ToggleRepositorySelection, rowVars
  <2> QED
    BY <2>1, <2>2
<1>3. TypeOK'
  BY <1>0, <1>1, <1>2, TypeParts
     DEF Parts, SyncTypes, JobTypes, SyncRows, BranchRows, Exists, syncVars, jobVars
<1>4. Copied'
  <2>1. worker.pc # "idle" => worker.repos \subseteq Slug
    BY <1>0 DEF TypeOK, WorkerRecord
  <2> QED
    BY <1>0, <1>1, <2>1 DEF CopyInvariant, InHand, Copied, StillThere, Exists, jobVars
<1> QED
  BY <1>0, <1>3, <1>4
     DEF CopyInvariant, AtRest, InHand, RequestsHold, SyncsKnown, RowsGo, Exists,
         syncVars, jobVars

\* Listing: rows may be added, none that is selected is lost.
LEMMA CopyListing ==
    ASSUME CopyInvariant, NEW r \in Request,
           StoreLive(r) \/ \E i \in Integration : ReadLive(r, i)
    PROVE  CopyInvariant'
<1>0. /\ TypeOK /\ RowTypes
      /\ UNCHANGED <<rowVars, branches, members, syncVars, jobVars>>
  BY TypeParts DEF Parts, CopyInvariant, StoreLive, ReadLive, dataVars
<1>1. req' \in [Request -> RequestRecord]
      /\ \A q \in Request : \/ req'[q] = req[q]
                            \/ req'[q].pc = "idle"
                            \/ /\ req'[q].pc = "listing" /\ req'[q].integration \in Integration
                               /\ req'[q].workspace \in Workspace
  <2>1. CASE StoreLive(r)
    BY <1>0, <2>1 DEF StoreLive, Finish, Idle, TypeOK, RequestRecord
  <2>2. ASSUME NEW i \in Integration, ReadLive(r, i)
        PROVE  <1>1!1 /\ <1>1!2
    <3> DEFINE x == [Idle EXCEPT !.pc = "listing", !.integration = i,
                                 !.workspace = workspaceSlug[i]]
    <3>1. workspaceSlug[i] \in Workspace
      BY <1>0, <2>2 DEF RowTypes, ReadLive
    <3>2. x \in RequestRecord /\ x.pc = "listing" /\ x.integration = i /\ x.workspace \in Workspace
      BY <3>1 DEF Idle, RequestRecord
    <3>3. req' = [req EXCEPT ![r] = x]
      BY <2>2 DEF ReadLive
    <3> HIDE DEF x
    <3> QED
      BY <1>0, <3>2, <3>3 DEF TypeOK
  <2> QED
    BY <2>1, <2>2
<1>2. /\ selection' \in [Integration -> [Slug -> {"ABSENT", "LISTED", "SELECTED"}]]
      /\ \A j \in Integration, g \in Slug :
            selection[j][g] # "ABSENT" => selection'[j][g] = selection[j][g]
  <2>1. CASE selection' = selection
    BY <1>0, <2>1 DEF RowTypes
  <2>2. ASSUME NEW i \in Integration, NEW row \in [Slug -> {"ABSENT", "LISTED", "SELECTED"}],
               selection' = [selection EXCEPT ![i] = row],
               \A g \in Slug : selection[i][g] # "ABSENT" => row[g] = selection[i][g]
        PROVE  <1>2!1 /\ <1>2!2
    BY <1>0, <2>2 DEF RowTypes
  <2>3. CASE StoreLive(r) /\ selection' # selection
    <3> DEFINE i == req[r].integration
               row == [g \in Slug |-> IF g \in RepositoriesOf[req[r].workspace]
                                         /\ selection[i][g] = "ABSENT"
                                      THEN "LISTED" ELSE selection[i][g]]
    <3>1. i \in Integration
      BY <2>3 DEF CopyInvariant, RequestsHold, StoreLive
    <3>2. row \in [Slug -> {"ABSENT", "LISTED", "SELECTED"}]
      BY <1>0, <3>1 DEF RowTypes
    <3>3. selection' = [selection EXCEPT ![i] = row]
      BY <2>3 DEF StoreLive
    <3>4. \A g \in Slug : selection[i][g] # "ABSENT" => row[g] = selection[i][g]
      OBVIOUS
    <3> HIDE DEF i, row
    <3> QED
      BY <2>2, <3>1, <3>2, <3>3, <3>4
  <2> QED
    BY <2>1, <2>3 DEF ReadLive, dataVars
<1>3. TypeOK'
  <2>1. RowTypes' /\ BranchRows'
    BY <1>0, <1>2, TypeParts DEF Parts, RowTypes, BranchRows, rowVars
  <2> QED
    BY <1>0, <1>1, <2>1, TypeParts
       DEF Parts, SyncTypes, JobTypes, SyncRows, Exists, rowVars, syncVars, jobVars
<1>4. Copied'
  <2>1. worker.repos \subseteq Slug
    BY <1>0 DEF TypeOK, WorkerRecord
  <2> QED
    BY <1>0, <1>2, <2>1 DEF CopyInvariant, InHand, Copied, StillThere, Exists, jobVars, rowVars
<1>5. RequestsHold' /\ SyncsKnown'
  BY <1>0, <1>1 DEF CopyInvariant, RequestsHold, SyncsKnown, syncVars, jobVars
<1> QED
  BY <1>0, <1>3, <1>4, <1>5
     DEF CopyInvariant, AtRest, InHand, RowsGo, Exists, syncVars, jobVars, rowVars

LEMMA CopyTrigger ==
    ASSUME CopyInvariant, NEW r \in Request, NEW i \in Integration, NEW s \in SyncId,
           TriggerSync(r, i, s)
    PROVE  CopyInvariant'
<1> DEFINE x == [Idle EXCEPT !.pc = "enqueue", !.sync = s]
<1>0. /\ TypeOK /\ SyncTypes /\ syncStatus[s] = "ABSENT" /\ Exists(i)
      /\ syncStatus' = [syncStatus EXCEPT ![s] = "QUEUED"]
      /\ syncOf' = [syncOf EXCEPT ![s] = i]
      /\ req' = [req EXCEPT ![r] = x]
      /\ UNCHANGED <<rowVars, dataVars, jobVars>>
  BY TypeParts DEF Parts, CopyInvariant, TriggerSync
<1>1. x \in RequestRecord /\ x.pc = "enqueue" /\ x.sync = s
  BY DEF Idle, RequestRecord
<1> HIDE DEF x
<1>2. /\ syncStatus'[s] = "QUEUED" /\ syncOf'[s] = i
      /\ \A t \in SyncId : t # s => syncStatus'[t] = syncStatus[t] /\ syncOf'[t] = syncOf[t]
  BY <1>0 DEF SyncTypes
<1>3. req' \in [Request -> RequestRecord]
      /\ \A q \in Request : \/ req'[q] = req[q]
                            \/ req'[q].pc = "enqueue" /\ req'[q].sync = s
  BY <1>0, <1>1 DEF TypeOK
<1>4. TypeOK'
  <2>1. SyncTypes'
    BY <1>0 DEF SyncTypes
  <2>2. SyncRows'
    BY <1>0, <1>2, TypeParts DEF Parts, SyncRows, Exists, rowVars
  <2> QED
    BY <1>0, <1>3, <2>1, <2>2, TypeParts DEF Parts, RowTypes, JobTypes, BranchRows, rowVars, dataVars, jobVars
<1>5. worker.pc # "idle" => worker.sync \in SyncId /\ worker.sync # s
  BY <1>0 DEF CopyInvariant, InHand, SyncsKnown
<1>6. InHand' /\ Copied' /\ AtRest' /\ RowsGo'
  BY <1>0, <1>2, <1>5
     DEF CopyInvariant, AtRest, InHand, Copied, RowsGo, StillThere, Exists,
         rowVars, dataVars, jobVars
<1>7. RequestsHold'
  BY <1>3 DEF CopyInvariant, RequestsHold
<1>8. SyncsKnown'
  <2>1. \A t \in SyncId : syncStatus[t] # "ABSENT" => syncStatus'[t] # "ABSENT"
    BY <1>2
  <2> QED
    BY <1>0, <1>2, <1>3, <2>1, TypeParts
       DEF Parts, CopyInvariant, SyncsKnown, InHand, RequestsHold, JobTypes, jobVars
<1> QED
  BY <1>4, <1>6, <1>7, <1>8 DEF CopyInvariant

LEMMA CopyEnqueue ==
    ASSUME CopyInvariant, NEW r \in Request, Enqueue(r)
    PROVE  CopyInvariant'
<1>0. /\ TypeOK /\ JobTypes /\ req[r].pc = "enqueue" /\ queue' = Append(queue, req[r].sync)
      /\ UNCHANGED <<rowVars, dataVars, syncVars, stalled, worker>>
      /\ req[r].sync \in SyncId /\ syncStatus[req[r].sync] # "ABSENT"
  BY TypeParts DEF Parts, CopyInvariant, Enqueue, RequestsHold, SyncsKnown
<1>1. req' \in [Request -> RequestRecord]
      /\ \A q \in Request : req'[q] = req[q] \/ req'[q].pc = "idle"
  BY <1>0 DEF Enqueue, Finish, Idle, RequestRecord, TypeOK
<1>2. /\ queue' \in Seq(SyncId)
      /\ \A n \in DOMAIN queue' : queue'[n] = req[r].sync \/ \E m \in DOMAIN queue : queue'[n] = queue[m]
  BY <1>0 DEF JobTypes
<1>3. TypeOK'
  BY <1>0, <1>1, <1>2, TypeParts
     DEF Parts, RowTypes, SyncTypes, JobTypes, SyncRows, BranchRows, Exists, rowVars, dataVars, syncVars
<1>4. SyncsKnown'
  BY <1>0, <1>1, <1>2 DEF CopyInvariant, SyncsKnown, syncVars
<1> QED
  BY <1>0, <1>1, <1>3, <1>4
     DEF CopyInvariant, AtRest, InHand, Copied, RequestsHold, RowsGo, StillThere, Exists,
         rowVars, dataVars, syncVars

-----------------------------------------------------------------------------
(* Steps of the worker *)

PCs == {"idle", "picked", "token", "repos", "branches", "delete", "create",
        "members", "deleteMembers", "createMembers", "complete",
        "connected", "catch", "error", "ack"}

LEMMA GotoFields ==
    ASSUME worker \in WorkerRecord, NEW pc \in PCs, WorkerGoto(pc)
    PROVE  /\ worker' \in WorkerRecord /\ worker'.pc = pc
           /\ worker'.sync = worker.sync /\ worker'.integration = worker.integration
           /\ worker'.workspace = worker.workspace /\ worker'.repos = worker.repos
           /\ worker'.todo = worker.todo /\ worker'.repo = worker.repo
BY DEF WorkerRecord, WorkerGoto, PCs

LEMMA ForgetFields ==
    ASSUME worker \in WorkerRecord, NEW pc \in PCs, Forget(pc)
    PROVE  /\ worker' \in WorkerRecord /\ worker'.pc = pc
           /\ worker'.sync = worker.sync /\ worker'.integration = worker.integration
           /\ worker'.repos = {} /\ worker'.todo = {}
BY DEF WorkerRecord, Forget, IdleWorker, PCs

\* After Forget the worker holds nothing of Bitbucket any more.
LEMMA CopyForget ==
    ASSUME CopyInvariant, NEW pc \in PCs \ (Reading \cup {"idle"}), Forget(pc),
           worker.pc # "idle", UNCHANGED syncOf, status[worker.integration] # "ABSENT" =>
               status'[worker.integration] # "ABSENT"
    PROVE  /\ worker' \in WorkerRecord /\ AtRest' /\ InHand' /\ Copied'
           /\ worker'.pc # "idle" /\ worker'.sync = worker.sync
           /\ worker'.integration = worker.integration
<1>1. worker \in WorkerRecord
  BY DEF CopyInvariant, TypeOK
<1>2. /\ worker' \in WorkerRecord /\ worker'.pc = pc
      /\ worker'.sync = worker.sync /\ worker'.integration = worker.integration
      /\ worker'.repos = {} /\ worker'.todo = {}
  BY <1>1, ForgetFields
<1>3. pc \notin Reading /\ pc # "idle" /\ pc \notin PastBranches /\ pc # "complete"
      /\ pc \notin {"delete", "create", "repos"}
  BY DEF Reading, PastBranches
<1>4. AtRest'
  BY <1>2, <1>3 DEF AtRest
<1>5. InHand'
  BY <1>2, <1>3 DEF CopyInvariant, InHand
<1>6. Copied'
  BY <1>2, <1>3 DEF Copied
<1> QED
  BY <1>2, <1>3, <1>4, <1>5, <1>6

\* What the other parts of the invariant need of a step of the worker.
LEMMA CopyWorker ==
    ASSUME CopyInvariant, UNCHANGED <<queue, stalled, req>>,
           worker.pc # "idle", worker'.pc # "idle", worker'.sync = worker.sync,
           syncOf' = syncOf,
           \A s \in SyncId : syncStatus[s] # "ABSENT" <=> syncStatus'[s] # "ABSENT"
    PROVE  RequestsHold' /\ SyncsKnown' /\ JobTypes' /\ req' \in [Request -> RequestRecord]
<1>1. Parts
  BY TypeParts DEF CopyInvariant
<1> QED
  BY <1>1 DEF Parts, CopyInvariant, InHand, RequestsHold, SyncsKnown, JobTypes

\* Steps that only read from Bitbucket or from the rows.
LEMMA CopyRead ==
    ASSUME CopyInvariant, GetToken \/ ReadRepositories \/ FetchBranches \/ FetchMembers
    PROVE  CopyInvariant'
<1>0. /\ Parts /\ worker \in WorkerRecord /\ worker.pc # "idle"
      /\ UNCHANGED <<rowVars, dataVars, syncVars, queue, stalled, req>>
  BY TypeParts
     DEF CopyInvariant, Parts, GetToken, Refused, ReadRepositories, FetchBranches, FetchMembers, At
<1>1. RowTypes' /\ SyncTypes' /\ JobTypes' /\ SyncRows' /\ BranchRows' /\ RowsGo'
  BY <1>0 DEF CopyInvariant, Parts, RowTypes, SyncTypes, JobTypes, SyncRows, BranchRows, RowsGo,
              Exists, rowVars, dataVars, syncVars
<1> DEFINE Holds == /\ worker' \in WorkerRecord /\ AtRest' /\ InHand' /\ Copied'
                    /\ worker'.pc # "idle" /\ worker'.sync = worker.sync
<1>2. ASSUME Forget("catch") PROVE Holds
  BY <1>0, <1>2, CopyForget DEF PCs, Reading, syncVars, rowVars
<1>3. ASSUME GetToken, WorkerGoto("repos"), worker.workspace # None PROVE Holds
  <2>1. /\ worker' \in WorkerRecord /\ worker'.pc = "repos"
        /\ worker'.sync = worker.sync /\ worker'.integration = worker.integration
        /\ worker'.workspace = worker.workspace /\ worker'.repos = worker.repos
        /\ worker'.todo = worker.todo
    BY <1>0, <1>3, GotoFields DEF PCs
  <2>2. worker.workspace \in Workspace /\ worker.repos = {}
    BY <1>0, <1>3 DEF Refused, WorkerRecord, CopyInvariant, InHand, GetToken, At, Reading
  <2>3. InHand'
    BY <1>0, <2>1, <2>2 DEF CopyInvariant, InHand, PastBranches, Reading, rowVars, syncVars
  <2>4. Copied'
    BY <1>0, <2>1, <2>2 DEF CopyInvariant, Copied
  <2> QED
    BY <2>1, <2>3, <2>4 DEF AtRest
<1>4. ASSUME ReadRepositories PROVE Holds
  <2> DEFINE chosen == { g \in Slug : selection[worker.integration][g] = "SELECTED" }
  <2>1. /\ worker' \in WorkerRecord /\ worker'.pc = "branches"
        /\ worker'.sync = worker.sync /\ worker'.integration = worker.integration
        /\ worker'.workspace = worker.workspace /\ worker'.repos = chosen
        /\ worker'.todo = chosen
    BY <1>0, <1>4 DEF ReadRepositories, WorkerRecord
  <2>2. worker.workspace \in Workspace
    BY <1>4 DEF CopyInvariant, InHand, ReadRepositories, At, Reading
  <2>3. InHand'
    BY <1>0, <2>1, <2>2 DEF CopyInvariant, InHand, PastBranches, Reading, rowVars, syncVars
  <2>4. Copied'
    BY <1>0, <2>1, <2>2 DEF CopyInvariant, Copied, dataVars
  <2> QED
    BY <2>1, <2>3, <2>4 DEF AtRest
<1>5. ASSUME NEW g \in worker.todo, g \in RepositoriesOf[worker.workspace], At("branches"),
             worker' = [worker EXCEPT !.pc = "delete", !.repo = g]
      PROVE  Holds
  <2>1. /\ worker' \in WorkerRecord /\ worker'.pc = "delete" /\ worker'.repo = g
        /\ worker'.sync = worker.sync /\ worker'.integration = worker.integration
        /\ worker'.workspace = worker.workspace /\ worker'.repos = worker.repos
        /\ worker'.todo = worker.todo
    BY <1>0, <1>5 DEF WorkerRecord
  <2>2. worker.workspace \in Workspace
    BY <1>5 DEF CopyInvariant, InHand, At, Reading
  <2>3. InHand'
    BY <1>0, <1>5, <2>1, <2>2 DEF CopyInvariant, InHand, PastBranches, Reading, rowVars, syncVars
  <2>4. Copied'
    BY <1>0, <2>1, <2>2 DEF CopyInvariant, Copied, StillThere, Exists, dataVars, rowVars
  <2> QED
    BY <2>1, <2>3, <2>4 DEF AtRest
<1>6. ASSUME NEW pc \in {"members", "deleteMembers"}, WorkerGoto(pc), worker.todo = {},
             worker.pc \in {"branches", "members"}
      PROVE  Holds
  <2>1. /\ worker' \in WorkerRecord /\ worker'.pc = pc
        /\ worker'.sync = worker.sync /\ worker'.integration = worker.integration
        /\ worker'.workspace = worker.workspace /\ worker'.repos = worker.repos
        /\ worker'.todo = worker.todo
    BY <1>0, <1>6, GotoFields DEF PCs
  <2>2. worker.workspace \in Workspace
    BY <1>6 DEF CopyInvariant, InHand, At, Reading
  <2>3. InHand'
    BY <1>0, <1>6, <2>1, <2>2 DEF CopyInvariant, InHand, PastBranches, Reading, rowVars, syncVars
  <2>4. Copied'
    BY <1>0, <1>6, <2>1, <2>2 DEF CopyInvariant, Copied, StillThere, Exists, dataVars, rowVars
  <2> QED
    BY <1>6, <2>1, <2>3, <2>4 DEF AtRest
<1>7. Holds
  <2> HIDE DEF Holds
  <2>1. CASE GetToken
    BY <1>2, <1>3, <2>1 DEF GetToken, Refused
  <2>2. CASE FetchBranches
    BY <1>2, <1>5, <1>6, <2>2 DEF Refused, FetchBranches, At
  <2>3. CASE FetchMembers
    <3>1. worker.todo = {}
      BY <2>3 DEF Refused, FetchMembers, At, CopyInvariant, InHand, PastBranches
    <3> QED
      BY <1>2, <1>6, <2>3, <3>1 DEF Refused, FetchMembers, At
  <2> QED
    BY <1>4, <2>1, <2>2, <2>3
<1>8. RequestsHold' /\ SyncsKnown' /\ req' \in [Request -> RequestRecord]
  BY <1>0, <1>7, CopyWorker DEF syncVars
<1> QED
  BY <1>1, <1>7, <1>8, TypeParts DEF CopyInvariant, Parts

LEMMA CopyPickUp ==
    ASSUME CopyInvariant, PickUp
    PROVE  CopyInvariant'
<1>0. /\ Parts /\ worker.pc = "idle" /\ queue \in Seq(SyncId) /\ queue # <<>>
      /\ UNCHANGED <<rowVars, dataVars, syncVars, stalled, req>>
  BY TypeParts DEF CopyInvariant, Parts, PickUp, At, JobTypes
<1>1. /\ Head(queue) = queue[1] /\ 1 \in DOMAIN queue /\ queue[1] \in SyncId
      /\ queue' \in Seq(SyncId)
      /\ \A n \in DOMAIN queue' : n + 1 \in DOMAIN queue /\ queue'[n] = queue[n + 1]
  BY <1>0 DEF PickUp
<1>2. \A n \in DOMAIN queue' : \E m \in DOMAIN queue : queue'[n] = queue[m]
  BY <1>1
<1> DEFINE s == queue[1]
<1>3. syncStatus[s] # "ABSENT" /\ s \in SyncId
  BY <1>1 DEF CopyInvariant, SyncsKnown
<1>4. syncOf[s] \in Integration
  BY <1>3 DEF CopyInvariant, SyncsKnown
<1>5. worker' \in WorkerRecord /\ AtRest' /\ InHand' /\ Copied'
      /\ (worker'.pc # "idle" => worker'.sync = s)
  <2>1. CASE Exists(syncOf[s])
    <3>1. worker' = [IdleWorker EXCEPT !.pc = "picked", !.sync = s, !.integration = syncOf[s],
                                       !.workspace = workspaceSlug[syncOf[s]]]
      BY <1>1, <2>1 DEF PickUp
    <3>2. workspaceSlug[syncOf[s]] \in Workspace \cup {None}
      BY <1>0, <1>4 DEF Parts, RowTypes
    <3>3. /\ worker' \in WorkerRecord /\ worker'.pc = "picked" /\ worker'.sync = s
          /\ worker'.integration = syncOf[s] /\ worker'.repos = {} /\ worker'.todo = {}
      BY <1>3, <1>4, <3>1, <3>2 DEF IdleWorker, WorkerRecord
    <3>4. AtRest' /\ Copied'
      BY <3>3 DEF AtRest, Copied
    <3>5. InHand'
      BY <1>0, <1>3, <1>4, <2>1, <3>3
         DEF InHand, Exists, Reading, PastBranches, syncVars, rowVars
    <3> QED
      BY <3>3, <3>4, <3>5
  <2>2. CASE ~Exists(syncOf[s])
    <3>1. worker' = IdleWorker
      BY <1>1, <2>2 DEF PickUp
    <3> QED
      BY <3>1 DEF IdleWorker, WorkerRecord, AtRest, InHand, Copied
  <2> QED
    BY <2>1, <2>2
<1>6. RowTypes' /\ SyncTypes' /\ JobTypes' /\ SyncRows' /\ BranchRows' /\ RowsGo'
      /\ RequestsHold' /\ req' \in [Request -> RequestRecord]
  BY <1>0, <1>1
     DEF CopyInvariant, Parts, RowTypes, SyncTypes, JobTypes, SyncRows, BranchRows, RowsGo,
         RequestsHold, Exists, rowVars, dataVars, syncVars
<1>7. SyncsKnown'
  BY <1>0, <1>2, <1>3, <1>5 DEF CopyInvariant, SyncsKnown, syncVars
<1> QED
  BY <1>5, <1>6, <1>7, TypeParts DEF CopyInvariant, Parts

\* What a step of the worker writes of the copied rows, and where.
BranchesGet(v) ==
    /\ StillThere /\ worker.pc \in {"delete", "create"}
    /\ branches' = [branches EXCEPT ![worker.integration][worker.repo] = v]
    /\ members' = members

MembersGet(v) ==
    /\ StillThere /\ worker.pc # "idle"
    /\ members' = [members EXCEPT ![worker.integration] = v]
    /\ branches' = branches

LEMMA CopyRows ==
    ASSUME CopyInvariant, UNCHANGED <<rowVars, selection>>,
           \/ UNCHANGED <<branches, members>>
           \/ \E v \in Copy : BranchesGet(v) \/ MembersGet(v)
    PROVE  RowTypes' /\ BranchRows' /\ RowsGo'
<1> DEFINE i == worker.integration
<1>0. /\ Parts /\ worker \in WorkerRecord
      /\ worker.pc # "idle" => i \in Integration
  BY TypeParts DEF CopyInvariant, Parts, InHand
<1>1. ASSUME NEW v \in Copy, BranchesGet(v)
      PROVE  RowTypes' /\ BranchRows' /\ RowsGo'
  <2>0. /\ worker.pc \in {"delete", "create"} /\ StillThere /\ i \in Integration
        /\ worker.repo \in worker.repos /\ worker.repo \in Slug
        /\ branches' = [branches EXCEPT ![i][worker.repo] = v] /\ members' = members
    BY <1>0, <1>1 DEF CopyInvariant, InHand, Copied, WorkerRecord, BranchesGet
  <2>1. /\ branches' \in [Integration -> [Slug -> Copy]]
        /\ \A j \in Integration, g \in Slug :
              branches'[j][g] = IF j = i /\ g = worker.repo THEN v ELSE branches[j][g]
    BY <1>0, <2>0 DEF Parts, RowTypes
  <2>2. selection[i][worker.repo] # "ABSENT"
    BY <2>0 DEF CopyInvariant, Copied
  <2>3. BranchRows'
    BY <1>0, <2>1, <2>2 DEF Parts, BranchRows
  <2>4. RowsGo'
    BY <1>0, <2>0, <2>1 DEF CopyInvariant, RowsGo, StillThere, Exists, rowVars
  <2> QED
    BY <1>0, <2>0, <2>1, <2>3, <2>4 DEF Parts, RowTypes, rowVars
<1>2. ASSUME NEW v \in Copy, MembersGet(v)
      PROVE  RowTypes' /\ BranchRows' /\ RowsGo'
  <2>0. /\ StillThere /\ i \in Integration
        /\ members' = [members EXCEPT ![i] = v] /\ branches' = branches
    BY <1>0, <1>2 DEF MembersGet
  <2>1. /\ members' \in [Integration -> Copy]
        /\ \A j \in Integration : j # i => members'[j] = members[j]
    BY <1>0, <2>0 DEF Parts, RowTypes
  <2>2. RowsGo'
    BY <1>0, <2>0, <2>1 DEF CopyInvariant, RowsGo, StillThere, Exists, rowVars
  <2> QED
    BY <1>0, <2>0, <2>1, <2>2 DEF Parts, RowTypes, BranchRows, rowVars
<1>3. ASSUME UNCHANGED <<branches, members>> PROVE RowTypes' /\ BranchRows' /\ RowsGo'
  BY <1>0, <1>3 DEF Parts, RowTypes, BranchRows, CopyInvariant, RowsGo, Exists, rowVars
<1> QED
  BY <1>1, <1>2, <1>3

\* Rows whose insert does not follow.
LEMMA CopyTear ==
    ASSUME CopyInvariant, UNCHANGED <<rowVars, selection>>, Tear
    PROVE  RowTypes' /\ BranchRows' /\ RowsGo'
<1>1. \/ UNCHANGED <<branches, members>>
      \/ \E v \in Copy : BranchesGet(v) \/ MembersGet(v)
  BY DEF Tear, At, Copy, BranchesGet, MembersGet
<1> QED
  BY <1>1, CopyRows

\* Writes of copied rows.
LEMMA CopyWrite ==
    ASSUME CopyInvariant, DeleteBranches \/ CreateBranches \/ DeleteMembers \/ CreateMembers
    PROVE  CopyInvariant'
<1> DEFINE i == worker.integration
<1>0. /\ Parts /\ worker \in WorkerRecord /\ worker.pc # "idle" /\ i \in Integration
      /\ worker.pc \in Reading /\ worker.workspace \in Workspace
      /\ UNCHANGED <<rowVars, selection, syncVars, queue, stalled, req>>
  BY TypeParts
     DEF CopyInvariant, Parts, InHand, DeleteBranches, CreateBranches, DeleteMembers,
         CreateMembers, At, Reading
<1>1. /\ worker.pc \in {"delete", "create"} =>
            /\ worker.repo \in worker.todo /\ worker.repo \in Slug /\ worker.repo \in worker.repos
            /\ worker.repo \in RepositoriesOf[worker.workspace]
      /\ worker.pc \in PastBranches => worker.todo = {}
      /\ worker.repos \subseteq Slug /\ worker.todo \subseteq worker.repos
  BY <1>0 DEF CopyInvariant, InHand, Copied, WorkerRecord
<1>6. RowTypes' /\ BranchRows' /\ RowsGo' /\ SyncTypes' /\ SyncRows'
  <2>1. SyncTypes' /\ SyncRows'
    BY <1>0 DEF Parts, SyncTypes, SyncRows, Exists, rowVars, syncVars
  <2>2. \/ Tear
        \/ UNCHANGED <<branches, members>>
        \/ \E v \in Copy : BranchesGet(v) \/ MembersGet(v)
    BY <1>0 DEF DeleteBranches, CreateBranches, DeleteMembers, CreateMembers, InsertRejected,
                At, Copy, BranchesGet, MembersGet
  <2> QED
    BY <1>0, <2>1, <2>2, CopyRows, CopyTear
<1> DEFINE Holds == /\ worker' \in WorkerRecord /\ AtRest' /\ InHand' /\ Copied'
                    /\ worker'.pc # "idle" /\ worker'.sync = worker.sync
<1>7. ASSUME Forget("catch") PROVE Holds
  BY <1>0, <1>7, CopyForget DEF PCs, Reading, syncVars, rowVars
<1>8. ASSUME DeleteBranches PROVE Holds
  <2>1. /\ worker' \in WorkerRecord /\ worker'.pc = "create" /\ worker'.repo = worker.repo
        /\ worker'.sync = worker.sync /\ worker'.integration = worker.integration
        /\ worker'.workspace = worker.workspace /\ worker'.repos = worker.repos
        /\ worker'.todo = worker.todo
    BY <1>0, <1>8, GotoFields DEF PCs, DeleteBranches
  <2>2. InHand'
    BY <1>0, <1>1, <1>8, <2>1
       DEF CopyInvariant, InHand, DeleteBranches, At, PastBranches, Reading, rowVars, syncVars
  <2>3. StillThere => \A g \in worker.repos \ worker.todo : branches'[i][g] = branches[i][g]
    BY <1>0, <1>1, <1>8 DEF DeleteBranches, At, Parts, RowTypes
  <2>4. Copied'
    BY <1>0, <1>1, <2>1, <2>3 DEF CopyInvariant, Copied, StillThere, Exists, rowVars
  <2> QED
    BY <2>1, <2>2, <2>4 DEF AtRest
<1>9. ASSUME CreateBranches, ~InsertRejected PROVE Holds
  <2>1. /\ worker' \in WorkerRecord /\ worker'.pc = "branches"
        /\ worker'.sync = worker.sync /\ worker'.integration = worker.integration
        /\ worker'.workspace = worker.workspace /\ worker'.repos = worker.repos
        /\ worker'.todo = worker.todo \ {worker.repo}
    <3>1. worker.todo \ {worker.repo} \in SUBSET Slug
      BY <1>1
    <3>2. worker' = [worker EXCEPT !.pc = "branches", !.repo = None,
                                   !.todo = worker.todo \ {worker.repo}]
      BY <1>0, <1>9 DEF CreateBranches, WorkerRecord
    <3> QED
      BY <1>0, <3>1, <3>2 DEF WorkerRecord
  <2>2. InHand'
    BY <1>0, <1>1, <1>9, <2>1
       DEF CopyInvariant, InHand, PastBranches, Reading, rowVars, syncVars
  <2>3. StillThere => \A g \in Slug :
          branches'[i][g] = IF g = worker.repo THEN worker.workspace ELSE branches[i][g]
    BY <1>0, <1>1, <1>9 DEF CreateBranches, At, Parts, RowTypes
  <2>4. worker.repo \in RepositoriesOf[worker.workspace]
    BY <1>1, <1>9 DEF CreateBranches, At
  <2>5. Copied'
    BY <1>0, <1>1, <1>9, <2>1, <2>3, <2>4 DEF CopyInvariant, Copied, StillThere, Exists, rowVars
  <2> QED
    BY <2>1, <2>2, <2>5 DEF AtRest
<1>10. ASSUME NEW pc \in {"createMembers", "complete"}, WorkerGoto(pc),
              worker.pc \in {"deleteMembers", "createMembers"}, branches' = branches,
              pc = "complete" /\ StillThere =>
                  members' = [members EXCEPT ![i] = worker.workspace]
       PROVE  Holds
  <2>1. /\ worker' \in WorkerRecord /\ worker'.pc = pc
        /\ worker'.sync = worker.sync /\ worker'.integration = worker.integration
        /\ worker'.workspace = worker.workspace /\ worker'.repos = worker.repos
        /\ worker'.todo = worker.todo
    BY <1>0, <1>10, GotoFields DEF PCs
  <2>2. InHand'
    BY <1>0, <1>1, <1>10, <2>1
       DEF CopyInvariant, InHand, PastBranches, Reading, rowVars, syncVars
  <2>3. pc = "complete" /\ StillThere => members'[i] = worker.workspace
    BY <1>0, <1>10 DEF Parts, RowTypes
  <2>4. Copied'
    BY <1>0, <1>10, <2>1, <2>3 DEF CopyInvariant, Copied, StillThere, Exists, rowVars
  <2> QED
    BY <1>10, <2>1, <2>2, <2>4 DEF AtRest
<1>11. Holds
  <2> HIDE DEF Holds
  <2>1. CASE CreateBranches
    BY <1>7, <1>9, <2>1 DEF InsertRejected, Refused
  <2>2. CASE DeleteMembers
    BY <1>10, <2>2 DEF DeleteMembers, At
  <2>3. CASE CreateMembers
    BY <1>7, <1>10, <2>3 DEF CreateMembers, InsertRejected, Refused, At
  <2> QED
    BY <1>8, <2>1, <2>2, <2>3
<1>12. RequestsHold' /\ SyncsKnown' /\ JobTypes' /\ req' \in [Request -> RequestRecord]
  BY <1>0, <1>11, CopyWorker DEF syncVars
<1> QED
  BY <1>6, <1>11, <1>12, TypeParts DEF CopyInvariant, Parts

\* Writes of the status of the sync.
LEMMA CopyMarkSync ==
    ASSUME CopyInvariant, MarkRunning \/ MarkCompleted \/ MarkFailed
    PROVE  CopyInvariant'
<1>0. /\ Parts /\ worker \in WorkerRecord /\ worker.pc # "idle"
      /\ worker.sync \in SyncId /\ worker.integration \in Integration
      /\ syncOf[worker.sync] = worker.integration /\ syncStatus[worker.sync] # "ABSENT"
      /\ UNCHANGED <<rowVars, dataVars, syncOf, queue, stalled, req>>
  BY TypeParts
     DEF CopyInvariant, Parts, InHand, SyncsKnown, MarkRunning, MarkCompleted, MarkFailed, At
<1>1. \/ syncStatus' = syncStatus
      \/ /\ StillThere
         /\ \E v \in {"RUNNING", "COMPLETED", "FAILED"} :
               syncStatus' = [syncStatus EXCEPT ![worker.sync] = v]
  BY DEF MarkRunning, MarkCompleted, MarkFailed
<1>2. /\ SyncTypes'
      /\ \A s \in SyncId : syncStatus[s] # "ABSENT" <=> syncStatus'[s] # "ABSENT"
      /\ \A s \in SyncId : syncStatus'[s] = syncStatus[s] \/ (s = worker.sync /\ StillThere)
  <2>1. CASE syncStatus' = syncStatus
    BY <1>0, <2>1 DEF Parts, SyncTypes
  <2>2. ASSUME NEW v \in {"RUNNING", "COMPLETED", "FAILED"}, StillThere,
               syncStatus' = [syncStatus EXCEPT ![worker.sync] = v]
        PROVE  <1>2
    BY <1>0, <2>2 DEF Parts, SyncTypes
  <2> QED
    BY <1>1, <2>1, <2>2
<1>3. RowTypes' /\ SyncRows' /\ BranchRows' /\ RowsGo'
  <2>1. SyncRows'
    BY <1>0, <1>2 DEF Parts, SyncRows, StillThere, Exists, rowVars
  <2> QED
    BY <1>0, <2>1
       DEF Parts, RowTypes, BranchRows, CopyInvariant, RowsGo, Exists, rowVars, dataVars
<1> DEFINE Holds == /\ worker' \in WorkerRecord /\ AtRest' /\ InHand' /\ Copied'
                    /\ worker'.pc # "idle" /\ worker'.sync = worker.sync
<1>4. ASSUME NEW pc \in {"ack", "connected", "catch"}, Forget(pc) PROVE Holds
  BY <1>0, <1>4, CopyForget DEF PCs, Reading, rowVars
<1>5. ASSUME NEW pc \in {"token", "error"}, WorkerGoto(pc), worker.pc \in {"picked", "catch"}
      PROVE  Holds
  <2>1. /\ worker' \in WorkerRecord /\ worker'.pc = pc
        /\ worker'.sync = worker.sync /\ worker'.integration = worker.integration
        /\ worker'.workspace = worker.workspace /\ worker'.repos = worker.repos
        /\ worker'.todo = worker.todo
    BY <1>0, <1>5, GotoFields DEF PCs
  <2>2. worker.repos = {} /\ worker.todo = {}
    BY <1>5, <1>0 DEF CopyInvariant, InHand, Copied, Reading
  <2>3. InHand'
    BY <1>0, <1>5, <2>1, <2>2 DEF CopyInvariant, InHand, PastBranches, Reading, rowVars
  <2>4. Copied'
    BY <1>5, <2>1, <2>2 DEF Copied
  <2> QED
    BY <1>5, <2>1, <2>3, <2>4 DEF AtRest
<1>6. Holds
  <2> HIDE DEF Holds
  <2>1. CASE MarkRunning
    BY <1>4, <1>5, <2>1 DEF MarkRunning, At
  <2>2. CASE MarkCompleted
    BY <1>4, <2>2 DEF MarkCompleted
  <2>3. CASE MarkFailed
    BY <1>4, <1>5, <2>3 DEF MarkFailed, At
  <2> QED
    BY <2>1, <2>2, <2>3
<1>7. RequestsHold' /\ SyncsKnown' /\ JobTypes' /\ req' \in [Request -> RequestRecord]
  BY <1>0, <1>2, <1>6, CopyWorker
<1> QED
  BY <1>2, <1>3, <1>6, <1>7, TypeParts DEF CopyInvariant, Parts

\* Writes of the status of the integration.
LEMMA CopyMarkRow ==
    ASSUME CopyInvariant, MarkConnected \/ MarkError
    PROVE  CopyInvariant'
<1> DEFINE i == worker.integration
<1>0. /\ Parts /\ worker \in WorkerRecord /\ worker.pc # "idle"
      /\ worker.sync \in SyncId /\ i \in Integration
      /\ UNCHANGED <<workspaceSlug, dataVars, syncVars, queue, stalled, req>>
  BY TypeParts DEF CopyInvariant, Parts, InHand, MarkConnected, MarkError, At
<1>1. /\ RowTypes'
      /\ \A j \in Integration : (Exists(j)' <=> Exists(j))
                                /\ (status'[j] = "ABSENT" <=> status[j] = "ABSENT")
      /\ \A j \in Integration : ~Exists(j) => errorOf'[j] = errorOf[j] /\ lastSynced'[j] = lastSynced[j]
  BY <1>0 DEF Parts, RowTypes, MarkConnected, MarkError, StillThere, Exists, dataVars
<1>2. SyncTypes' /\ SyncRows' /\ BranchRows' /\ RowsGo'
  BY <1>0, <1>1 DEF Parts, SyncTypes, SyncRows, BranchRows, CopyInvariant, RowsGo, dataVars, syncVars
<1>3. PICK pc \in {"ack", "catch"} : Forget(pc)
  BY DEF MarkConnected, MarkError
<1>4. /\ worker' \in WorkerRecord /\ AtRest' /\ InHand' /\ Copied'
      /\ worker'.pc # "idle" /\ worker'.sync = worker.sync
  BY <1>0, <1>1, <1>3, CopyForget DEF PCs, Reading, syncVars
<1>5. RequestsHold' /\ SyncsKnown' /\ JobTypes' /\ req' \in [Request -> RequestRecord]
  BY <1>0, <1>4, CopyWorker DEF syncVars
<1> QED
  BY <1>1, <1>2, <1>4, <1>5, TypeParts DEF CopyInvariant, Parts

\* The worker lets go of its job; after a restart the job is in the queue.
LEMMA CopyRelease ==
    ASSUME CopyInvariant, Acknowledge \/ Restart
    PROVE  CopyInvariant'
<1>0. /\ Parts /\ UNCHANGED <<rowVars, selection, syncVars>> /\ worker' = IdleWorker
      /\ UNCHANGED <<branches, members>> \/ Tear
  BY TypeParts DEF CopyInvariant, Acknowledge, Restart, dataVars
<1>1. /\ queue \in Seq(SyncId) /\ stalled \in SUBSET SyncId
      /\ worker.pc # "idle" => worker.sync \in SyncId /\ syncStatus[worker.sync] # "ABSENT"
  BY <1>0 DEF Parts, JobTypes, CopyInvariant, InHand, SyncsKnown
<1>2. \/ UNCHANGED <<queue, stalled>>
      \/ /\ worker.pc # "idle" /\ queue' = <<worker.sync>> \o queue
         /\ stalled' = stalled \cup {worker.sync}
  BY DEF Acknowledge, Restart, At
<1>3. /\ JobTypes'
      /\ \A n \in DOMAIN queue' : \/ \E m \in DOMAIN queue : queue'[n] = queue[m]
                                  \/ worker.pc # "idle" /\ queue'[n] = worker.sync
  <2>1. CASE UNCHANGED <<queue, stalled>>
    BY <1>1, <2>1 DEF JobTypes
  <2>2. CASE /\ worker.pc # "idle" /\ queue' = <<worker.sync>> \o queue
             /\ stalled' = stalled \cup {worker.sync}
    <3>1. <<worker.sync>> \in Seq(SyncId) /\ <<worker.sync>> \o queue \in Seq(SyncId)
      BY <1>1, <2>2
    <3>2. \A n \in DOMAIN queue' : \/ n - 1 \in DOMAIN queue /\ queue'[n] = queue[n - 1]
                                   \/ queue'[n] = worker.sync
      BY <1>1, <2>2
    <3>3. stalled' \in SUBSET SyncId
      BY <1>1, <2>2
    <3>4. JobTypes'
      BY <2>2, <3>1, <3>3 DEF JobTypes
    <3> QED
      BY <2>2, <3>2, <3>4
  <2> QED
    BY <1>2, <2>1, <2>2
<1>4. /\ req' \in [Request -> RequestRecord]
      /\ \A r \in Request : req'[r] = req[r] \/ req'[r].pc = "idle"
  BY <1>0 DEF Parts, Acknowledge, Restart, Idle, RequestRecord
<1>5. worker' \in WorkerRecord /\ AtRest' /\ InHand' /\ Copied' /\ worker'.pc = "idle"
  BY <1>0 DEF IdleWorker, WorkerRecord, AtRest, InHand, Copied
<1>6. RowTypes' /\ SyncTypes' /\ SyncRows' /\ BranchRows' /\ RowsGo'
  <2>1. RowTypes' /\ BranchRows' /\ RowsGo'
    BY <1>0, CopyRows, CopyTear
  <2> QED
    BY <1>0, <2>1 DEF Parts, SyncTypes, SyncRows, Exists, rowVars, syncVars
<1>7. RequestsHold'
  BY <1>4 DEF CopyInvariant, RequestsHold
<1>8. SyncsKnown'
  <2>1. \A s \in stalled' : syncStatus[s] # "ABSENT"
    BY <1>1, <1>2 DEF CopyInvariant, SyncsKnown
  <2> QED
    BY <1>0, <1>1, <1>3, <1>4, <1>5, <2>1 DEF CopyInvariant, SyncsKnown, syncVars
<1> QED
  BY <1>3, <1>4, <1>5, <1>6, <1>7, <1>8, TypeParts DEF CopyInvariant, Parts

LEMMA NextCopies ==
    ASSUME CopyInvariant, [Next]_vars
    PROVE  CopyInvariant'
<1>1. CASE UNCHANGED vars
  BY <1>1 DEF vars, rowVars, dataVars, syncVars, jobVars, CopyInvariant, TypeOK, AtRest, InHand,
              Copied, RequestsHold, SyncsKnown, RowsGo, StillThere, Exists
<1>2. ASSUME NEW r \in Request, Call(r) \/ Continue(r) PROVE CopyInvariant'
  BY <1>2, CopyListing, CopyTrigger, CopyEnqueue DEF Call, Continue
<1>3. CASE Manage
  BY <1>3, CopyHandleCallback, CopyRemove, CopySelect DEF Manage
<1>4. CASE Work
  BY <1>4, CopyPickUp, CopyRead, CopyWrite, CopyMarkSync, CopyMarkRow, CopyRelease DEF Work
<1> QED
  BY <1>1, <1>2, <1>3, <1>4, CopyRelease DEF Next

\* What a sync copies, for any number of syncs, handlers and removals.
THEOREM CopyInvariance == Spec => []CopyInvariant
BY InitCopies, NextCopies, PTL DEF Spec

\* Rows, jobs and handlers keep their shape, and no row outlives its integration.
THEOREM TypeCorrectness == Spec => []TypeOK
<1>1. CopyInvariant => TypeOK
  BY DEF CopyInvariant
<1> QED
  BY <1>1, CopyInvariance, PTL

\* A completed sync copied one workspace, whatever was selected meanwhile.
THEOREM OneWorkspaceCopied == Spec => []SyncCopiesOneWorkspace
<1>1. CopyInvariant => SyncCopiesOneWorkspace
  BY DEF CopyInvariant, InHand, Copied, SyncCopiesOneWorkspace, At, PastBranches
<1> QED
  BY <1>1, CopyInvariance, PTL

-----------------------------------------------------------------------------
(* Failed syncs *)

LEMMA EmptiedFrame ==
    ASSUME RefusalKeepsData,
           \A i \in Integration :
               /\ members'[i] = "EMPTIED" => members[i] = "EMPTIED"
               /\ \A g \in Slug : branches'[i][g] = "EMPTIED" => branches[i][g] = "EMPTIED",
           worker' = worker \/ worker.pc \notin {"create", "createMembers"}
    PROVE  RefusalKeepsData'
BY DEF RefusalKeepsData, Busy, At

\* Where the worker stops or fails, no deletion is left that its insert may follow.
LEMMA EmptiedTear ==
    ASSUME CopyInvariant, RefusalKeepsData, Tear
    PROVE  RefusalKeepsData'
<1> DEFINE i == worker.integration
<1>0. /\ branches \in [Integration -> [Slug -> Copy]] /\ members \in [Integration -> Copy]
      /\ worker.pc # "idle" => i \in Integration
  BY DEF CopyInvariant, TypeOK, InHand
<1>1. ASSUME NEW j \in Integration, members[j] = "EMPTIED" PROVE members'[j] = "TORN"
  <2>1. j = i /\ At("createMembers") /\ StillThere
    BY <1>1 DEF RefusalKeepsData, Busy, CopyInvariant, RowsGo, StillThere
  <2> QED
    BY <1>0, <2>1 DEF Tear
<1>2. ASSUME NEW j \in Integration, NEW g \in Slug, branches[j][g] = "EMPTIED"
      PROVE  branches'[j][g] = "TORN"
  <2>1. j = i /\ g = worker.repo /\ At("create") /\ StillThere
    BY <1>2 DEF RefusalKeepsData, Busy, CopyInvariant, RowsGo, StillThere
  <2> QED
    BY <1>0, <2>1 DEF Tear
<1>3. /\ \A j \in Integration : members'[j] \in {members[j], "TORN"}
      /\ \A j \in Integration, g \in Slug : branches'[j][g] \in {branches[j][g], "TORN"}
  BY <1>0 DEF Tear, At
<1>4. \A j \in Integration :
        members'[j] # "EMPTIED" /\ \A g \in Slug : branches'[j][g] # "EMPTIED"
  BY <1>1, <1>2, <1>3
<1> QED
  BY <1>4 DEF RefusalKeepsData

LEMMA EmptiedStep ==
    ASSUME CopyInvariant, RefusalKeepsData, [Next]_vars
    PROVE  RefusalKeepsData'
<1>0. /\ Parts /\ worker \in WorkerRecord
      /\ branches \in [Integration -> [Slug -> Copy]] /\ members \in [Integration -> Copy]
      /\ worker.pc # "idle" => worker.integration \in Integration
  BY TypeParts DEF CopyInvariant, Parts, RowTypes, InHand
<1>1. ASSUME UNCHANGED <<branches, members>>,
             worker' = worker \/ worker.pc \notin {"create", "createMembers"}
      PROVE  RefusalKeepsData'
  BY <1>1, EmptiedFrame
<1>2. ASSUME NEW i \in Integration, Remove(i) PROVE RefusalKeepsData'
  <2>1. /\ \A j \in Integration : members'[j] = "EMPTIED" => members[j] = "EMPTIED"
        /\ \A j \in Integration, g \in Slug :
              branches'[j][g] = "EMPTIED" => branches[j][g] = "EMPTIED"
    BY <1>0, <1>2 DEF Remove
  <2> QED
    BY <1>2, <2>1, EmptiedFrame DEF Remove, jobVars
<1>4. CASE DeleteBranches
  <2> DEFINE i == worker.integration
  <2>1. /\ worker.pc = "delete" /\ i \in Integration /\ members' = members
        /\ worker'.pc = "create" /\ worker'.integration = i /\ worker'.repo = worker.repo
    BY <1>0, <1>4, GotoFields DEF DeleteBranches, At, PCs
  <2>2. \A j \in Integration, g \in Slug :
          branches'[j][g] = "EMPTIED" => branches[j][g] = "EMPTIED" \/ (j = i /\ g = worker.repo)
    BY <1>0, <1>4, <2>1 DEF DeleteBranches
  <2> QED
    BY <2>1, <2>2 DEF RefusalKeepsData, Busy, At
<1>5. ASSUME CreateBranches, ~InsertRejected PROVE RefusalKeepsData'
  <2> DEFINE i == worker.integration
  <2>1. /\ worker.pc = "create" /\ i \in Integration /\ members' = members
        /\ worker.workspace \in Workspace
    BY <1>0, <1>5 DEF CreateBranches, At, CopyInvariant, InHand, Reading
  <2>2. ASSUME NEW j \in Integration, NEW g \in Slug, branches'[j][g] = "EMPTIED"
        PROVE  branches[j][g] = "EMPTIED" /\ ~(j = i /\ g = worker.repo)
    <3>1. CASE StillThere
      <4>1. branches' = [branches EXCEPT ![i][worker.repo] = worker.workspace]
        BY <1>5, <3>1 DEF CreateBranches
      <4>2. branches'[j][g] = IF j = i /\ g = worker.repo THEN worker.workspace ELSE branches[j][g]
        BY <1>0, <2>1, <4>1
      <4> QED
        BY <2>1, <2>2, <4>2, CopyAssumption
    <3>2. CASE ~StillThere
      <4>1. branches' = branches
        BY <1>5, <3>2 DEF CreateBranches
      <4> QED
        BY <1>0, <2>1, <2>2, <3>2, <4>1 DEF CopyInvariant, RowsGo, StillThere
    <3> QED
      BY <3>1, <3>2
  <2> QED
    BY <2>1, <2>2 DEF RefusalKeepsData, Busy, At
<1>6. CASE DeleteMembers
  <2> DEFINE i == worker.integration
  <2>1. /\ worker.pc = "deleteMembers" /\ i \in Integration /\ branches' = branches
        /\ worker'.pc = "createMembers" /\ worker'.integration = i
    BY <1>0, <1>6, GotoFields DEF DeleteMembers, At, PCs
  <2>2. \A j \in Integration : members'[j] = "EMPTIED" => members[j] = "EMPTIED" \/ j = i
    BY <1>0, <1>6, <2>1 DEF DeleteMembers
  <2> QED
    BY <2>1, <2>2 DEF RefusalKeepsData, Busy, At
<1>7. ASSUME CreateMembers, ~InsertRejected PROVE RefusalKeepsData'
  <2> DEFINE i == worker.integration
  <2>1. /\ worker.pc = "createMembers" /\ i \in Integration /\ branches' = branches
        /\ worker.workspace \in Workspace
    BY <1>0, <1>7 DEF CreateMembers, At, CopyInvariant, InHand, Reading
  <2>2. ASSUME NEW j \in Integration, members'[j] = "EMPTIED"
        PROVE  members[j] = "EMPTIED" /\ j # i
    <3>1. CASE StillThere
      BY <1>0, <1>7, <2>1, <2>2, <3>1, CopyAssumption DEF CreateMembers
    <3>2. CASE ~StillThere
      BY <1>0, <1>7, <2>1, <2>2, <3>2 DEF CreateMembers, CopyInvariant, RowsGo, StillThere
    <3> QED
      BY <3>1, <3>2
  <2> QED
    BY <2>1, <2>2 DEF RefusalKeepsData, Busy, At
<1>8. CASE Restart
  BY <1>8, EmptiedTear DEF Restart
<1>9. CASE Work
  BY <1>1, <1>4, <1>5, <1>6, <1>7, <1>9, EmptiedTear
     DEF InsertRejected, Refused, Work, PickUp, MarkRunning, GetToken, ReadRepositories,
         FetchBranches, FetchMembers,
         MarkCompleted, MarkConnected, MarkFailed, MarkError, Acknowledge, At, dataVars
<1>10. ASSUME NEW r \in Request, Call(r) \/ Continue(r) PROVE RefusalKeepsData'
  BY <1>1, <1>10
     DEF Call, Continue, ReadLive, StoreLive, TriggerSync, Enqueue, dataVars, jobVars
<1>11. CASE Manage
  BY <1>1, <1>2, <1>11
     DEF Manage, HandleCallback, SelectWorkspace, ToggleRepositorySelection, dataVars, jobVars
<1> QED
  BY <1>1, <1>8, <1>9, <1>10, <1>11 DEF Next, vars, dataVars, jobVars

\* Whatever Bitbucket refuses, whatever is removed and whichever workspace is
\* selected meanwhile, branches and members are missing only while the worker is
\* about to insert them, or since it was rejected or died just there.
THEOREM RefusalsKeepData == Spec => []RefusalKeepsData
<1>1. Init => RefusalKeepsData
  <2> SUFFICES ASSUME Init PROVE RefusalKeepsData
    OBVIOUS
  <2>1. /\ members = [i \in Integration |-> "NONE"]
        /\ branches = [i \in Integration |-> [g \in Slug |-> "NONE"]]
    BY DEF Init
  <2>2. ASSUME NEW i \in Integration, NEW g \in Slug
        PROVE  members[i] # "EMPTIED" /\ branches[i][g] # "EMPTIED"
    BY <2>1
  <2>3. ASSUME NEW i \in Integration PROVE members[i] # "EMPTIED"
    BY <2>1
  <2> QED
    BY <2>2, <2>3 DEF RefusalKeepsData
<1>2. CopyInvariant /\ RefusalKeepsData /\ [Next]_vars => RefusalKeepsData'
  BY EmptiedStep
<1> QED
  BY <1>1, <1>2, CopyInvariance, PTL DEF Spec

-----------------------------------------------------------------------------
(* The status of an integration *)

\* Jobs are not shared: a sync is with one handler, once in the queue, or with
\* the worker.
Held(r) == req[r].pc = "enqueue"
OneJob ==
    /\ \A m, n \in DOMAIN queue : queue[m] = queue[n] => m = n
    /\ worker.pc # "idle" => \A n \in DOMAIN queue : queue[n] # worker.sync
    /\ \A r \in Request : Held(r) =>
          /\ req[r].sync # worker.sync /\ req[r].sync \notin stalled
          /\ \A n \in DOMAIN queue : queue[n] # req[r].sync
          /\ \A q \in Request : Held(q) /\ q # r => req[q].sync # req[r].sync

\* No row shows a result of this sync.
Fresh(s) == \A i \in Integration : errorOf[i] # s /\ lastSynced[i] # s

\* A sync that runs for the first time has left no result; one that runs again
\* is in stalled.
FirstRun ==
    /\ \A s \in SyncId : syncStatus[s] = "ABSENT" => Fresh(s)
    /\ \A r \in Request : Held(r) => Fresh(req[r].sync)
    /\ \A n \in DOMAIN queue : queue[n] \in stalled \/ Fresh(queue[n])
    /\ worker.pc \notin {"idle", "ack"} => worker.sync \in stalled \/ Fresh(worker.sync)

Results ==
    /\ \A i \in Integration : Exists(i) =>
          /\ status[i] = "ERROR" <=> errorOf[i] # None
          /\ errorOf[i] # None =>
                /\ syncOf[errorOf[i]] = i
                /\ \/ syncStatus[errorOf[i]] = "FAILED"
                   \/ worker.pc \notin {"idle", "ack"} /\ worker.sync = errorOf[i]
          /\ lastSynced[i] # None =>
                /\ syncOf[lastSynced[i]] = i
                /\ lastSynced[i] \in stalled \/ syncStatus[lastSynced[i]] = "COMPLETED"
    /\ worker.pc = "connected" /\ StillThere => syncStatus[worker.sync] = "COMPLETED"
    /\ worker.pc = "error" /\ StillThere => syncStatus[worker.sync] = "FAILED"

StatusInvariant == OneJob /\ FirstRun /\ Results
LEMMA InitStatus == Init => StatusInvariant
<1> SUFFICES ASSUME Init PROVE StatusInvariant
  OBVIOUS
<1>1. /\ queue = <<>> /\ worker.pc = "idle" /\ \A r \in Request : ~Held(r)
      /\ \A i \in Integration : status[i] = "ABSENT" /\ errorOf[i] = None /\ lastSynced[i] = None
  BY DEF Init, IdleWorker, Idle, Held
<1>2. \A s \in SyncId : Fresh(s)
  BY <1>1, NoneAssumption DEF Fresh
<1> QED
  BY <1>1, <1>2 DEF StatusInvariant, OneJob, FirstRun, Results, Exists

\* Steps that leave jobs, results and what the worker is at alone.
LEMMA JobsFrame ==
    ASSUME OneJob, UNCHANGED <<queue, stalled>>, worker'.sync = worker.sync,
           worker.pc = "idle" => worker'.pc = "idle",
           \A r \in Request : Held(r)' => Held(r) /\ req'[r].sync = req[r].sync
    PROVE  OneJob'
BY DEF OneJob, Held

LEMMA FirstRunFrame ==
    ASSUME FirstRun, UNCHANGED <<queue, stalled>>, worker'.sync = worker.sync,
           worker.pc \in {"idle", "ack"} => worker'.pc \in {"idle", "ack"},
           \A r \in Request : Held(r)' => Held(r) /\ req'[r].sync = req[r].sync,
           \A s \in SyncId : syncStatus'[s] = "ABSENT" => syncStatus[s] = "ABSENT",
           \A s : Fresh(s) => Fresh(s)'
    PROVE  FirstRun'
BY DEF FirstRun, Held

LEMMA FreshFrame ==
    ASSUME NEW s, Fresh(s), \A i \in Integration :
               /\ errorOf'[i] = errorOf[i] \/ errorOf'[i] # s
               /\ lastSynced'[i] = lastSynced[i] \/ lastSynced'[i] # s
    PROVE  Fresh(s)'
BY DEF Fresh

LEMMA StatusFrame ==
    ASSUME CopyInvariant, StatusInvariant,
           UNCHANGED <<status, errorOf, lastSynced, syncVars, queue, stalled>>,
           \/ worker' = worker
           \/ /\ worker'.sync = worker.sync
              /\ worker.pc \notin {"idle", "ack"}
              /\ worker'.pc \notin {"idle", "ack", "connected", "error"},
           \A r \in Request : Held(r)' => req'[r] = req[r]
    PROVE  StatusInvariant'
<1>1. OneJob'
  BY JobsFrame DEF StatusInvariant, Held
<1>2. FirstRun'
  BY FirstRunFrame DEF StatusInvariant, Held, Fresh, syncVars
<1>3. Results'
  BY DEF StatusInvariant, Results, StillThere, Exists, syncVars
<1> QED
  BY <1>1, <1>2, <1>3 DEF StatusInvariant

LEMMA StatusHandleCallback ==
    ASSUME CopyInvariant, StatusInvariant, NEW i \in Integration, HandleCallback(i)
    PROVE  StatusInvariant'
<1>0. /\ Parts /\ status[i] = "ABSENT" /\ status' = [status EXCEPT ![i] = "CONNECTED"]
      /\ UNCHANGED <<errorOf, lastSynced, syncVars, jobVars, req>>
  BY TypeParts DEF CopyInvariant, HandleCallback
<1>1. \A j \in Integration : j # i => status'[j] = status[j]
  BY <1>0 DEF Parts, RowTypes
<1>2. status'[i] = "CONNECTED" /\ errorOf[i] = None /\ lastSynced[i] = None
  BY <1>0 DEF Parts, RowTypes, CopyInvariant, RowsGo, Exists
<1>3. worker.pc # "idle" => worker.integration \in Integration /\ worker.integration # i
  BY <1>0 DEF CopyInvariant, InHand
<1>4. Results'
  BY <1>0, <1>1, <1>2, <1>3 DEF StatusInvariant, Results, StillThere, Exists, syncVars, jobVars
<1>5. OneJob' /\ FirstRun'
  BY <1>0 DEF StatusInvariant, OneJob, FirstRun, Held, Fresh, syncVars, jobVars
<1> QED
  BY <1>4, <1>5 DEF StatusInvariant

LEMMA StatusRemove ==
    ASSUME CopyInvariant, StatusInvariant, NEW i \in Integration, Remove(i)
    PROVE  StatusInvariant'
<1>0. Parts /\ UNCHANGED <<syncOf, jobVars, req>>
  BY TypeParts DEF CopyInvariant, Remove
<1>1. status'[i] = "REMOVED" /\ errorOf'[i] = None /\ lastSynced'[i] = None
  BY <1>0 DEF Parts, RowTypes, Remove
<1>2. \A j \in Integration : j # i =>
        status'[j] = status[j] /\ errorOf'[j] = errorOf[j] /\ lastSynced'[j] = lastSynced[j]
  BY <1>0 DEF Parts, RowTypes, Remove
<1>3. \A s \in SyncId : syncStatus'[s] = IF syncOf[s] = i THEN "REMOVED" ELSE syncStatus[s]
  BY DEF Remove
<1>4. OneJob'
  BY <1>0, JobsFrame DEF StatusInvariant, Held, jobVars
<1>5. ASSUME NEW s \in SyncId, Fresh(s) PROVE Fresh(s)'
  BY <1>1, <1>2, <1>5, NoneAssumption DEF Fresh
<1>6. FirstRun'
  <2>1. /\ \A n \in DOMAIN queue : queue[n] \in SyncId
        /\ worker.pc # "idle" => worker.sync \in SyncId
        /\ \A r \in Request : Held(r) => req[r].sync \in SyncId
    BY <1>0 DEF Parts, JobTypes, CopyInvariant, InHand, RequestsHold, Held
  <2>2. FirstRun
    BY DEF StatusInvariant
  <2>3. /\ \A s \in SyncId : syncStatus'[s] = "ABSENT" => Fresh(s)'
        /\ \A r \in Request : Held(r) => Fresh(req[r].sync)'
    BY <1>0, <1>3, <1>5, <2>1, <2>2 DEF FirstRun, Fresh, jobVars
  <2>4. /\ \A n \in DOMAIN queue : queue[n] \in stalled \/ Fresh(queue[n])'
        /\ worker.pc \notin {"idle", "ack"} => worker.sync \in stalled \/ Fresh(worker.sync)'
    BY <1>0, <1>5, <2>1, <2>2 DEF FirstRun, Fresh, jobVars
  <2> QED
    BY <1>0, <2>3, <2>4 DEF FirstRun, Held, Fresh, jobVars
<1>7. Results'
  <2>1. ASSUME NEW j \in Integration, Exists(j)'
        PROVE  /\ j # i /\ Exists(j) /\ status'[j] = status[j]
               /\ errorOf'[j] = errorOf[j] /\ lastSynced'[j] = lastSynced[j]
               /\ errorOf[j] # None => syncStatus'[errorOf[j]] = syncStatus[errorOf[j]]
               /\ lastSynced[j] # None => syncStatus'[lastSynced[j]] = syncStatus[lastSynced[j]]
    <3>1. j # i /\ Exists(j)
      BY <1>1, <1>2, <2>1 DEF Exists
    <3>2. /\ errorOf[j] # None => errorOf[j] \in SyncId /\ syncOf[errorOf[j]] = j
          /\ lastSynced[j] # None => lastSynced[j] \in SyncId /\ syncOf[lastSynced[j]] = j
      BY <1>0, <3>1 DEF Parts, RowTypes, StatusInvariant, Results
    <3> QED
      BY <1>2, <1>3, <3>1, <3>2
  <2>2. ASSUME worker.pc # "idle", StillThere'
        PROVE  StillThere /\ syncStatus'[worker.sync] = syncStatus[worker.sync]
    <3>1. /\ worker.sync \in SyncId /\ syncOf[worker.sync] = worker.integration
          /\ worker.integration \in Integration /\ worker' = worker
      BY <1>0, <2>2 DEF CopyInvariant, InHand, jobVars
    <3>2. worker.integration # i
      BY <1>1, <2>2, <3>1 DEF StillThere, Exists
    <3> QED
      BY <1>2, <1>3, <2>2, <3>1, <3>2 DEF StillThere, Exists
  <2> QED
    BY <1>0, <2>1, <2>2 DEF StatusInvariant, Results, jobVars
<1> QED
  BY <1>4, <1>6, <1>7 DEF StatusInvariant

LEMMA StatusTrigger ==
    ASSUME CopyInvariant, StatusInvariant, NEW r \in Request, NEW i \in Integration,
           NEW s \in SyncId, TriggerSync(r, i, s)
    PROVE  StatusInvariant'
<1>0. /\ Parts /\ syncStatus[s] = "ABSENT"
      /\ syncStatus' = [syncStatus EXCEPT ![s] = "QUEUED"]
      /\ syncOf' = [syncOf EXCEPT ![s] = i]
      /\ UNCHANGED <<rowVars, dataVars, jobVars>>
  BY TypeParts DEF CopyInvariant, TriggerSync
<1>1. /\ \A t \in SyncId : t # s => syncStatus'[t] = syncStatus[t] /\ syncOf'[t] = syncOf[t]
      /\ syncStatus'[s] = "QUEUED"
  BY <1>0 DEF Parts, SyncTypes
<1>2. /\ req'[r].pc = "enqueue" /\ req'[r].sync = s
      /\ \A q \in Request \ {r} : req'[q] = req[q]
  BY <1>0 DEF TriggerSync, Parts, Idle
<1>3. /\ Fresh(s) /\ s \notin stalled
      /\ worker.pc # "idle" => worker.sync # s
      /\ \A n \in DOMAIN queue : queue[n] # s
      /\ \A q \in Request : Held(q) => req[q].sync # s
  BY <1>0 DEF StatusInvariant, FirstRun, CopyInvariant, SyncsKnown, Held
<1>4. worker.sync # s
  BY <1>3, NoneAssumption DEF CopyInvariant, AtRest
<1>5. OneJob'
  <2>1. ASSUME NEW q \in Request, Held(q)'
        PROVE  /\ req'[q].sync # worker.sync /\ req'[q].sync \notin stalled
               /\ \A n \in DOMAIN queue : queue[n] # req'[q].sync
               /\ \A p \in Request : Held(p)' /\ p # q => req'[p].sync # req'[q].sync
    BY <1>2, <1>3, <1>4, <2>1 DEF StatusInvariant, OneJob, Held
  <2> QED
    BY <1>0, <2>1 DEF StatusInvariant, OneJob, jobVars
<1>6. \A t : Fresh(t)' <=> Fresh(t)
  BY <1>0 DEF Fresh, rowVars
<1>7. FirstRun'
  <2>1. \A q \in Request : Held(q)' => Fresh(req'[q].sync)
    BY <1>2, <1>3 DEF StatusInvariant, FirstRun, Held
  <2>2. \A t \in SyncId : syncStatus'[t] = "ABSENT" => Fresh(t)
    BY <1>1 DEF StatusInvariant, FirstRun
  <2> QED
    BY <1>0, <2>1, <2>2 DEF StatusInvariant, FirstRun, Fresh, rowVars, jobVars
<1>8. Results'
  <2>1. ASSUME NEW j \in Integration
        PROVE  /\ errorOf[j] # None => /\ syncStatus'[errorOf[j]] = syncStatus[errorOf[j]]
                                       /\ syncOf'[errorOf[j]] = syncOf[errorOf[j]]
               /\ lastSynced[j] # None => /\ syncStatus'[lastSynced[j]] = syncStatus[lastSynced[j]]
                                          /\ syncOf'[lastSynced[j]] = syncOf[lastSynced[j]]
    <3>1. errorOf[j] \in SyncId \cup {None} /\ lastSynced[j] \in SyncId \cup {None}
      BY <1>0 DEF Parts, RowTypes
    <3> QED
      BY <1>1, <1>3, <3>1 DEF Fresh
  <2>2. worker.pc # "idle" => syncStatus'[worker.sync] = syncStatus[worker.sync]
    BY <1>1, <1>4 DEF CopyInvariant, InHand
  <2> QED
    BY <1>0, <2>1, <2>2 DEF StatusInvariant, Results, StillThere, Exists, rowVars, jobVars
<1> QED
  BY <1>5, <1>7, <1>8 DEF StatusInvariant

LEMMA StatusEnqueue ==
    ASSUME CopyInvariant, StatusInvariant, NEW r \in Request, Enqueue(r)
    PROVE  StatusInvariant'
<1> DEFINE s == req[r].sync
<1>0. /\ Parts /\ queue \in Seq(SyncId) /\ s \in SyncId /\ Held(r)
      /\ queue' = Append(queue, s)
      /\ UNCHANGED <<rowVars, dataVars, syncVars, stalled, worker>>
  BY TypeParts DEF CopyInvariant, Parts, JobTypes, RequestsHold, Enqueue, Held
<1>1. ~Held(r)' /\ \A q \in Request \ {r} : req'[q] = req[q]
  BY <1>0 DEF Enqueue, Finish, Idle, Held, Parts
<1>2. /\ DOMAIN queue' = DOMAIN queue \cup {Len(queue) + 1} /\ Len(queue) + 1 \notin DOMAIN queue
      /\ queue'[Len(queue) + 1] = s /\ \A n \in DOMAIN queue : queue'[n] = queue[n]
  BY <1>0
<1>3. /\ s # worker.sync /\ \A n \in DOMAIN queue : queue[n] # s
      /\ \A q \in Request : Held(q) /\ q # r => req[q].sync # s
  BY <1>0 DEF StatusInvariant, OneJob
<1>4. OneJob'
  <2>1. \A m, n \in DOMAIN queue' : queue'[m] = queue'[n] => m = n
    BY <1>2, <1>3 DEF StatusInvariant, OneJob
  <2>2. \A q \in Request : Held(q)' => q # r /\ Held(q) /\ req'[q] = req[q]
    BY <1>1 DEF Held
  <2>3. worker.pc # "idle" => \A n \in DOMAIN queue' : queue'[n] # worker.sync
    BY <1>2, <1>3 DEF StatusInvariant, OneJob
  <2>4. ASSUME NEW q \in Request, Held(q)'
        PROVE  \A n \in DOMAIN queue' : queue'[n] # req'[q].sync
    BY <1>2, <1>3, <2>2, <2>4 DEF StatusInvariant, OneJob
  <2> QED
    BY <1>0, <2>1, <2>2, <2>3, <2>4 DEF StatusInvariant, OneJob
<1>5. FirstRun'
  <2>1. Fresh(s)
    BY <1>0 DEF StatusInvariant, FirstRun
  <2>2. \A n \in DOMAIN queue' : queue'[n] \in stalled \/ Fresh(queue'[n])
    BY <1>2, <2>1 DEF StatusInvariant, FirstRun
  <2>3. \A q \in Request : Held(q)' => Fresh(req'[q].sync)
    BY <1>1 DEF StatusInvariant, FirstRun, Held
  <2> QED
    BY <1>0, <2>2, <2>3 DEF StatusInvariant, FirstRun, Fresh, rowVars, syncVars
<1>6. Results'
  BY <1>0 DEF StatusInvariant, Results, StillThere, Exists, rowVars, syncVars
<1> QED
  BY <1>4, <1>5, <1>6 DEF StatusInvariant

LEMMA StatusPickUp ==
    ASSUME CopyInvariant, StatusInvariant, PickUp
    PROVE  StatusInvariant'
<1>0. /\ Parts /\ worker.pc = "idle" /\ queue \in Seq(SyncId) /\ queue # <<>>
      /\ queue' = Tail(queue)
      /\ UNCHANGED <<rowVars, dataVars, syncVars, stalled, req>>
  BY TypeParts DEF CopyInvariant, Parts, PickUp, At, JobTypes
<1>1. /\ Head(queue) = queue[1] /\ 1 \in DOMAIN queue /\ queue[1] \in SyncId
      /\ \A n \in DOMAIN queue' : n + 1 \in DOMAIN queue /\ n + 1 # 1 /\ n \in Nat
                                  /\ queue'[n] = queue[n + 1]
  BY <1>0
<1>2. \/ worker'.pc = "picked" /\ worker'.sync = queue[1]
      \/ worker'.pc = "idle" /\ worker'.sync = None
  BY <1>1 DEF PickUp, IdleWorker
<1>3. OneJob'
  <2>1. \A m, n \in DOMAIN queue' : queue'[m] = queue'[n] => m = n
    <3>1. \A m, n \in DOMAIN queue' : queue[m + 1] = queue[n + 1] => m + 1 = n + 1
      BY <1>1 DEF StatusInvariant, OneJob
    <3>2. \A m, n \in Nat : m + 1 = n + 1 => m = n
      OBVIOUS
    <3> QED
      BY <1>1, <3>1, <3>2
  <2>2. \A n \in DOMAIN queue' : queue'[n] # queue[1]
    BY <1>1 DEF StatusInvariant, OneJob
  <2>3. ASSUME NEW q \in Request, Held(q)
        PROVE  /\ req[q].sync # worker'.sync
               /\ \A n \in DOMAIN queue' : queue'[n] # req[q].sync
    BY <1>1, <1>2, <2>3, NoneAssumption DEF StatusInvariant, OneJob, CopyInvariant, RequestsHold, Held
  <2> QED
    BY <1>0, <1>2, <2>1, <2>2, <2>3 DEF StatusInvariant, OneJob, Held
<1>4. FirstRun'
  <2>1. \A n \in DOMAIN queue : queue[n] \in stalled \/ Fresh(queue[n])
    BY DEF StatusInvariant, FirstRun
  <2>2. \A n \in DOMAIN queue' : queue'[n] \in stalled \/ Fresh(queue'[n])
    BY <1>1, <2>1
  <2>3. worker'.pc # "idle" => worker'.sync \in stalled \/ Fresh(worker'.sync)
    BY <1>1, <1>2, <2>1
  <2> QED
    BY <1>0, <2>2, <2>3 DEF StatusInvariant, FirstRun, Fresh, Held, rowVars, syncVars
<1>5. Results'
  BY <1>0, <1>2 DEF StatusInvariant, Results, StillThere, Exists, rowVars, syncVars
<1> QED
  BY <1>3, <1>4, <1>5 DEF StatusInvariant

LEMMA StatusMarkSync ==
    ASSUME CopyInvariant, StatusInvariant, MarkRunning \/ MarkCompleted \/ MarkFailed
    PROVE  StatusInvariant'
<1> DEFINE s == worker.sync
           i == worker.integration
<1>0. /\ Parts /\ worker \in WorkerRecord /\ worker.pc \in {"picked", "complete", "catch"}
      /\ s \in SyncId /\ i \in Integration /\ syncOf[s] = i /\ syncStatus[s] # "ABSENT"
      /\ UNCHANGED <<rowVars, dataVars, syncOf, queue, stalled, req>>
  BY TypeParts
     DEF CopyInvariant, Parts, InHand, SyncsKnown, MarkRunning, MarkCompleted, MarkFailed, At
<1>1. \/ /\ ~StillThere /\ UNCHANGED syncStatus /\ Forget("ack")
         /\ worker.pc \in {"picked", "catch"}
      \/ /\ ~StillThere /\ UNCHANGED syncStatus /\ Forget("catch")
      \/ /\ StillThere /\ syncStatus' = [syncStatus EXCEPT ![s] = "RUNNING"] /\ WorkerGoto("token")
      \/ /\ StillThere /\ syncStatus' = [syncStatus EXCEPT ![s] = "COMPLETED"] /\ Forget("connected")
      \/ /\ StillThere /\ syncStatus' = [syncStatus EXCEPT ![s] = "FAILED"] /\ WorkerGoto("error")
  BY DEF MarkRunning, MarkCompleted, MarkFailed, At
<1>2. PICK pc \in {"ack", "catch", "token", "connected", "error"} :
        /\ worker'.pc = pc /\ worker'.sync = s /\ worker'.integration = i
        /\ pc = "ack" => ~StillThere
        /\ pc = "connected" => StillThere /\ syncStatus' = [syncStatus EXCEPT ![s] = "COMPLETED"]
        /\ pc = "error" => StillThere /\ syncStatus' = [syncStatus EXCEPT ![s] = "FAILED"]
  BY <1>0, <1>1, ForgetFields, GotoFields DEF PCs
<1>3. /\ \A t \in SyncId : t # s => syncStatus'[t] = syncStatus[t]
      /\ \A t \in SyncId : syncStatus'[t] = "ABSENT" => syncStatus[t] = "ABSENT"
      /\ pc = "connected" => syncStatus'[s] = "COMPLETED"
      /\ pc = "error" => syncStatus'[s] = "FAILED"
  BY <1>0, <1>1, <1>2 DEF Parts, SyncTypes
<1>4. s \in stalled \/ Fresh(s)
  BY <1>0 DEF StatusInvariant, FirstRun
<1>5. OneJob'
  BY <1>0, <1>2, JobsFrame DEF StatusInvariant, Held
<1>6. FirstRun'
  BY <1>0, <1>2, <1>3, FirstRunFrame DEF StatusInvariant, Held, Fresh, rowVars
<1>7. ASSUME NEW j \in Integration, Exists(j)
      PROVE  /\ errorOf[j] # None =>
                   \/ syncStatus'[errorOf[j]] = "FAILED"
                   \/ pc # "ack" /\ s = errorOf[j]
             /\ lastSynced[j] # None =>
                   lastSynced[j] \in stalled \/ syncStatus'[lastSynced[j]] = "COMPLETED"
  <2>1. /\ errorOf[j] # None => errorOf[j] \in SyncId /\ syncOf[errorOf[j]] = j
        /\ lastSynced[j] # None => lastSynced[j] \in SyncId
    BY <1>0, <1>7 DEF Parts, RowTypes, StatusInvariant, Results
  <2>2. errorOf[j] = s /\ errorOf[j] # None => pc # "ack"
    BY <1>0, <1>2, <1>7, <2>1 DEF StillThere
  <2>3. lastSynced[j] = s => s \in stalled
    BY <1>4, <1>7 DEF Fresh
  <2>4. errorOf[j] # None /\ errorOf[j] # s => syncStatus[errorOf[j]] = "FAILED"
    BY <1>7 DEF StatusInvariant, Results
  <2>5. lastSynced[j] # None => lastSynced[j] \in stalled \/ syncStatus[lastSynced[j]] = "COMPLETED"
    BY <1>7 DEF StatusInvariant, Results
  <2> QED
    BY <1>3, <2>1, <2>2, <2>3, <2>4, <2>5
<1>8. Results'
  BY <1>0, <1>2, <1>3, <1>7 DEF StatusInvariant, Results, StillThere, Exists, rowVars
<1> QED
  BY <1>5, <1>6, <1>8 DEF StatusInvariant

LEMMA StatusMarkRow ==
    ASSUME CopyInvariant, StatusInvariant, MarkConnected \/ MarkError
    PROVE  StatusInvariant'
<1> DEFINE s == worker.sync
           i == worker.integration
<1>0. /\ Parts /\ worker \in WorkerRecord /\ worker.pc \in {"connected", "error"}
      /\ s \in SyncId /\ i \in Integration /\ syncOf[s] = i /\ syncStatus[s] # "ABSENT"
      /\ UNCHANGED <<workspaceSlug, dataVars, syncVars, queue, stalled, req>>
  BY TypeParts DEF CopyInvariant, Parts, InHand, SyncsKnown, MarkConnected, MarkError, At
<1>1. CASE MarkConnected /\ ~StillThere
  <2>1. Forget("catch") /\ UNCHANGED <<status, errorOf, lastSynced>>
    BY <1>1 DEF MarkConnected
  <2>2. worker'.sync = worker.sync /\ worker'.pc = "catch"
    BY <1>0, <2>1, ForgetFields DEF PCs
  <2> QED
    BY <1>0, <2>1, <2>2, StatusFrame
<1>2. ASSUME Forget("ack"),
             \/ ~StillThere /\ UNCHANGED <<status, errorOf, lastSynced>>
             \/ /\ StillThere /\ syncStatus[s] = "COMPLETED"
                /\ status' = [status EXCEPT ![i] = "CONNECTED"]
                /\ lastSynced' = [lastSynced EXCEPT ![i] = s]
                /\ errorOf' = [errorOf EXCEPT ![i] = None]
             \/ /\ StillThere /\ syncStatus[s] = "FAILED"
                /\ status' = [status EXCEPT ![i] = "ERROR"]
                /\ errorOf' = [errorOf EXCEPT ![i] = s]
                /\ lastSynced' = lastSynced
      PROVE  StatusInvariant'
  <2>1. worker'.pc = "ack" /\ worker'.sync = s /\ worker'.integration = i
    BY <1>0, <1>2, ForgetFields DEF PCs
  <2>2. \A j \in Integration : j # i =>
          status'[j] = status[j] /\ errorOf'[j] = errorOf[j] /\ lastSynced'[j] = lastSynced[j]
    BY <1>0, <1>2 DEF Parts, RowTypes
  <2>3. \/ ~StillThere /\ UNCHANGED <<status, errorOf, lastSynced>>
        \/ /\ status'[i] = "CONNECTED" /\ errorOf'[i] = None /\ lastSynced'[i] = s
           /\ syncStatus[s] = "COMPLETED"
        \/ /\ status'[i] = "ERROR" /\ errorOf'[i] = s /\ syncStatus[s] = "FAILED"
           /\ lastSynced'[i] = lastSynced[i] /\ Exists(i)
    BY <1>0, <1>2 DEF Parts, RowTypes, StillThere
  <2>4. OneJob'
    BY <1>0, <2>1, JobsFrame DEF StatusInvariant, Held
  <2>5. ASSUME NEW t, t # s, Fresh(t), t # None PROVE Fresh(t)'
    BY <2>2, <2>3, <2>5 DEF Fresh
  <2>6. FirstRun'
    <3>1. FirstRun /\ OneJob
      BY DEF StatusInvariant
    <3>2. \A t \in SyncId : syncStatus[t] = "ABSENT" => t # s /\ t # None /\ Fresh(t)
      BY <1>0, <3>1, NoneAssumption DEF FirstRun
    <3>3. \A r \in Request : Held(r) =>
            req[r].sync # s /\ req[r].sync # None /\ Fresh(req[r].sync)
      BY <3>1, NoneAssumption DEF FirstRun, OneJob, CopyInvariant, RequestsHold, Held
    <3>4. \A n \in DOMAIN queue :
            /\ queue[n] # s /\ queue[n] # None
            /\ queue[n] \in stalled \/ Fresh(queue[n])
      BY <1>0, <3>1, NoneAssumption DEF FirstRun, OneJob, Parts, JobTypes
    <3>5. /\ \A t \in SyncId : syncStatus'[t] = "ABSENT" => Fresh(t)'
          /\ \A r \in Request : Held(r)' => Fresh(req[r].sync)'
          /\ \A n \in DOMAIN queue' : queue'[n] \in stalled' \/ Fresh(queue[n])'
      BY <1>0, <2>5, <3>2, <3>3, <3>4 DEF Held, Fresh, syncVars
    <3> QED
      BY <2>1, <3>5 DEF FirstRun
  <2>7. Results'
    <3>1. ASSUME NEW j \in Integration, Exists(j)'
          PROVE  /\ status'[j] = "ERROR" <=> errorOf'[j] # None
                 /\ errorOf'[j] # None =>
                       syncOf[errorOf'[j]] = j /\ syncStatus[errorOf'[j]] = "FAILED"
                 /\ lastSynced'[j] # None =>
                       /\ syncOf[lastSynced'[j]] = j
                       /\ lastSynced'[j] \in stalled \/ syncStatus[lastSynced'[j]] = "COMPLETED"
      <4>1. CASE j = i
        <5>1. ~(~StillThere /\ UNCHANGED <<status, errorOf, lastSynced>>)
          BY <3>1, <4>1 DEF StillThere, Exists
        <5>2. Exists(i) => (lastSynced[i] # None =>
                /\ syncOf[lastSynced[i]] = i
                /\ lastSynced[i] \in stalled \/ syncStatus[lastSynced[i]] = "COMPLETED")
          BY <1>0 DEF StatusInvariant, Results
        <5> QED
          BY <1>0, <2>3, <4>1, <5>1, <5>2, NoneAssumption
      <4>2. CASE j # i
        <5>1. Exists(j)
          BY <2>2, <3>1, <4>2 DEF Exists
        <5>2. errorOf[j] # None => errorOf[j] # s
          BY <1>0, <4>2, <5>1 DEF StatusInvariant, Results
        <5> QED
          BY <2>2, <4>2, <5>1, <5>2 DEF StatusInvariant, Results
      <4> QED
        BY <4>1, <4>2
    <3> QED
      BY <1>0, <2>1, <3>1 DEF Results, syncVars
  <2> QED
    BY <2>4, <2>6, <2>7 DEF StatusInvariant
<1>3. CASE ~(MarkConnected /\ ~StillThere)
  <2>1. /\ MarkConnected => syncStatus[s] = "COMPLETED"
        /\ MarkError /\ StillThere => syncStatus[s] = "FAILED"
    BY <1>3 DEF StatusInvariant, Results, MarkConnected, MarkError, At
  <2> QED
    BY <1>2, <1>3, <2>1 DEF MarkConnected, MarkError
<1> QED
  BY <1>1, <1>3

LEMMA StatusRelease ==
    ASSUME CopyInvariant, StatusInvariant, Acknowledge \/ Restart
    PROVE  StatusInvariant'
<1>0. /\ Parts /\ UNCHANGED <<rowVars, syncVars>>
      /\ worker'.pc = "idle" /\ worker'.sync = None
      /\ \A r \in Request : Held(r)' => Held(r) /\ req'[r] = req[r]
  BY TypeParts DEF CopyInvariant, Parts, Acknowledge, Restart, IdleWorker, Idle, Held
<1>1. \A r \in Request : Held(r) => req[r].sync # None
  BY NoneAssumption DEF CopyInvariant, RequestsHold, Held
<1>2. CASE UNCHANGED <<queue, stalled>> /\ worker.pc \in {"idle", "ack"}
  <2>1. OneJob'
    BY <1>0, <1>1, <1>2 DEF StatusInvariant, OneJob, Held
  <2>2. FirstRun'
    BY <1>0, <1>2 DEF StatusInvariant, FirstRun, Fresh, Held, rowVars, syncVars
  <2>3. Results'
    BY <1>0, <1>2 DEF StatusInvariant, Results, Exists, rowVars, syncVars
  <2> QED
    BY <2>1, <2>2, <2>3 DEF StatusInvariant
<1>3. CASE /\ Restart /\ worker.pc # "idle" /\ stalled = {}
           /\ queue' = <<worker.sync>> \o queue /\ stalled' = stalled \cup {worker.sync}
  <2> DEFINE s == worker.sync
  <2>1. queue \in Seq(SyncId) /\ s \in SyncId
    BY <1>0, <1>3 DEF Parts, JobTypes, CopyInvariant, InHand
  <2>2. \A n \in DOMAIN queue' : \/ n = 1 /\ queue'[n] = s
                                 \/ /\ n - 1 \in DOMAIN queue /\ queue'[n] = queue[n - 1]
                                    /\ n \in Nat
    BY <1>3, <2>1
  <2>3. \A n \in DOMAIN queue : queue[n] # s
    BY <1>3 DEF StatusInvariant, OneJob
  <2>4. \A r \in Request : ~Held(r)'
    BY <1>3 DEF Restart, Idle, Held
  <2>5. \A m, n \in DOMAIN queue' : queue'[m] = queue'[n] => m = n
    <3>1. SUFFICES ASSUME NEW m \in DOMAIN queue', NEW n \in DOMAIN queue', queue'[m] = queue'[n]
                   PROVE  m = n
      OBVIOUS
    <3> DEFINE Old(k) == k - 1 \in DOMAIN queue /\ queue'[k] = queue[k - 1] /\ k \in Nat
    <3>0. /\ (m = 1 /\ queue'[m] = s) \/ Old(m)
          /\ (n = 1 /\ queue'[n] = s) \/ Old(n)
      BY <2>2
    <3>2. CASE m = 1 \/ n = 1
      <4>1. \A k \in {m, n} : Old(k) => queue'[k] # s
        BY <2>3
      <4> HIDE DEF Old
      <4>2. (queue'[m] = s => m = 1) /\ (queue'[n] = s => n = 1)
        BY <3>0, <4>1
      <4>3. queue'[1] = s
        <5>1. queue'[1] = s \/ Old(1)
          BY <3>0, <3>2
        <5>2. ~Old(1)
          BY <2>1 DEF Old
        <5> QED
          BY <5>1, <5>2
      <4> QED
        BY <3>1, <3>2, <4>2, <4>3
    <3>3. CASE m # 1 /\ n # 1
      <4>1. m - 1 \in DOMAIN queue /\ n - 1 \in DOMAIN queue /\ m \in Nat /\ n \in Nat
            /\ queue[m - 1] = queue[n - 1]
        BY <3>0, <3>1, <3>3
      <4>2. m - 1 = n - 1
        BY <4>1 DEF StatusInvariant, OneJob
      <4> QED
        BY <4>1, <4>2
    <3> QED
      BY <3>2, <3>3
  <2>6. OneJob'
    BY <1>0, <2>4, <2>5 DEF OneJob
  <2>7. worker.pc # "ack" => Fresh(s)
    BY <1>3 DEF StatusInvariant, FirstRun
  <2>8. FirstRun'
    <3>1. \A n \in DOMAIN queue' : queue'[n] \in stalled' \/ Fresh(queue'[n])
      BY <1>3, <2>2 DEF StatusInvariant, FirstRun
    <3> QED
      BY <1>0, <2>4, <3>1 DEF StatusInvariant, FirstRun, Fresh, rowVars, syncVars
  <2>9. \A j \in Integration : Exists(j) /\ errorOf[j] # None => syncStatus[errorOf[j]] = "FAILED"
    BY <2>7 DEF StatusInvariant, Results, Fresh
  <2>10. Results'
    BY <1>0, <1>3, <2>9 DEF StatusInvariant, Results, Exists, rowVars, syncVars
  <2> QED
    BY <2>6, <2>8, <2>10 DEF StatusInvariant
<1> QED
  BY <1>2, <1>3 DEF Acknowledge, Restart, At

LEMMA NextStatus ==
    ASSUME CopyInvariant, StatusInvariant, [Next]_vars
    PROVE  StatusInvariant'
<1>0. /\ worker \in WorkerRecord /\ req \in [Request -> RequestRecord]
  BY DEF CopyInvariant, TypeOK
<1>1. ASSUME UNCHANGED <<status, errorOf, lastSynced, syncVars, jobVars, req>>
      PROVE  StatusInvariant'
  BY <1>1, StatusFrame DEF jobVars, Held
<1>2. ASSUME NEW r \in Request, StoreLive(r) \/ \E i \in Integration : ReadLive(r, i)
      PROVE  StatusInvariant'
  <2>1. CASE StoreLive(r)
    <3>1. \A q \in Request : Held(q)' => req'[q] = req[q]
      BY <1>0, <2>1 DEF StoreLive, Finish, Idle, Held
    <3> QED
      BY <2>1, <3>1, StatusFrame DEF StoreLive, rowVars, jobVars
  <2>2. ASSUME NEW i \in Integration, ReadLive(r, i) PROVE StatusInvariant'
    <3>1. \A q \in Request : Held(q)' => req'[q] = req[q]
      BY <1>0, <2>2 DEF ReadLive, Idle, Held
    <3> QED
      BY <2>2, <3>1, StatusFrame DEF ReadLive, rowVars, jobVars
  <2> QED
    BY <1>2, <2>1, <2>2
<1>3. ASSUME \/ GetToken \/ ReadRepositories \/ FetchBranches \/ DeleteBranches \/ CreateBranches
             \/ FetchMembers \/ DeleteMembers \/ CreateMembers
      PROVE  StatusInvariant'
  <2>1. worker.pc \notin {"idle", "ack"}
    BY <1>3 DEF GetToken, Refused, ReadRepositories, FetchBranches, DeleteBranches, CreateBranches,
                FetchMembers, DeleteMembers, CreateMembers, InsertRejected, At
  <2>2. UNCHANGED <<status, errorOf, lastSynced, syncVars, queue, stalled, req>>
    BY <1>3 DEF GetToken, Refused, ReadRepositories, FetchBranches, DeleteBranches, CreateBranches,
                FetchMembers, DeleteMembers, CreateMembers, InsertRejected, rowVars
  <2>3. worker'.sync = worker.sync /\ worker'.pc \notin {"idle", "ack", "connected", "error"}
    <3>1. ASSUME NEW pc \in PCs, Forget(pc) \/ WorkerGoto(pc)
          PROVE  worker'.sync = worker.sync /\ worker'.pc = pc
      BY <1>0, <3>1, ForgetFields, GotoFields
    <3>2. \/ \E pc \in PCs \ {"idle", "ack", "connected", "error"} : Forget(pc) \/ WorkerGoto(pc)
          \/ ReadRepositories
          \/ \E g \in Slug : worker' = [worker EXCEPT !.pc = "delete", !.repo = g]
          \/ (CreateBranches /\ ~InsertRejected)
      BY <1>0, <1>3 DEF GetToken, Refused, FetchBranches, DeleteBranches, CreateBranches,
                  FetchMembers, DeleteMembers, CreateMembers, InsertRejected, PCs, WorkerRecord
    <3>3. ReadRepositories \/ (CreateBranches /\ ~InsertRejected) =>
            worker'.sync = worker.sync /\ worker'.pc = "branches"
      BY <1>0 DEF ReadRepositories, CreateBranches, WorkerRecord
    <3>4. ASSUME NEW g \in Slug, worker' = [worker EXCEPT !.pc = "delete", !.repo = g]
          PROVE  worker'.sync = worker.sync /\ worker'.pc = "delete"
      BY <1>0, <3>4 DEF WorkerRecord
    <3> QED
      BY <3>1, <3>2, <3>3, <3>4
  <2> QED
    BY <2>1, <2>2, <2>3, StatusFrame
<1>4. CASE Work
  BY <1>3, <1>4, StatusPickUp, StatusMarkSync, StatusMarkRow, StatusRelease DEF Work
<1>5. CASE Manage
  BY <1>1, <1>5, StatusHandleCallback, StatusRemove
     DEF Manage, SelectWorkspace, ToggleRepositorySelection, rowVars
<1>6. ASSUME NEW r \in Request, Call(r) \/ Continue(r) PROVE StatusInvariant'
  BY <1>2, <1>6, StatusTrigger, StatusEnqueue DEF Call, Continue
<1> QED
  BY <1>1, <1>4, <1>5, <1>6, StatusRelease DEF Next, vars, rowVars

\* An integration shows an error exactly in ERROR, and the error and the date it
\* shows are those of syncs that failed and completed, for any number of syncs,
\* removals and one crash.
THEOREM StatusOfSyncs == Spec => []StatusFollowsSyncs
<1>1. CopyInvariant /\ StatusInvariant => StatusFollowsSyncs
  BY DEF CopyInvariant, InHand, StatusInvariant, Results, StatusFollowsSyncs, Busy
<1>2. CopyInvariant /\ StatusInvariant /\ [Next]_vars => StatusInvariant'
  BY NextStatus
<1> QED
  BY <1>1, <1>2, InitStatus, CopyInvariance, PTL DEF Spec
=============================================================================
