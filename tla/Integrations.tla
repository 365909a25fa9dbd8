---------------------------- MODULE Integrations ----------------------------
(***************************************************************************)
(* Bitbucket integrations and the worker that copies branches and members  *)
(* of a workspace into the database (integrations.service.ts and           *)
(* bitbucket-sync.processor.ts under backend/src).                         *)
(*                                                                         *)
(* Bitbucket may refuse any request. An integration may be removed while  *)
(* a handler or the worker is busy with it: its rows go with it (the       *)
(* schema cascades), and the next update of one of them throws.  A handler *)
(* whose only read is that a row exists, and whose update throws when it   *)
(* does not, is one step.                                                  *)
(***************************************************************************)
EXTENDS Naturals, Sequences

CONSTANTS
    Integration, SyncId,    \* ids of rows
    Workspace, Slug,        \* Bitbucket's workspaces and repository slugs
    RepositoriesOf,         \* the repositories each workspace has
    Request,                \* slots for requests in flight
    None

ASSUME RepositoriesAssumption == RepositoriesOf \in [Workspace -> SUBSET Slug]
ASSUME CopyAssumption == Workspace \cap {"NONE", "EMPTIED", "TORN"} = {}
ASSUME NoneAssumption == None \notin Integration \cup SyncId \cup Workspace

VARIABLES
    status,         \* of an Integration row; "ABSENT" before, "REMOVED" after
    workspaceSlug,
    errorOf,        \* the sync whose error the row shows; None: errorMessage is null
    lastSynced,     \* the sync lastSyncedAt dates; None: null
    selection,      \* of a BitbucketRepository: "ABSENT", "LISTED" or "SELECTED"
    branches,       \* where a repository's branch rows come from
    members,        \* where an integration's member rows come from
    syncStatus,     \* of an IntegrationSync row
    syncOf,
    queue,          \* the queue 'bitbucket-sync'
    stalled,        \* syncs whose job was recovered from a dead worker
    worker,
    req

rowVars == <<status, workspaceSlug, errorOf, lastSynced>>
dataVars == <<selection, branches, members>>
syncVars == <<syncStatus, syncOf>>
jobVars == <<queue, stalled, worker>>
vars == <<rowVars, dataVars, syncVars, jobVars, req>>

-----------------------------------------------------------------------------

\* Copied rows: none yet, those of a workspace, or deleted to be replaced.  Deleted
\* rows whose insert did not follow are called TORN (history: there are no rows).
Copy == {"NONE", "EMPTIED", "TORN"} \cup Workspace

\* integration, workspace, todo: what process read; repo: the one it is at.
WorkerRecord ==
    [pc : {"idle", "picked", "token", "repos", "branches", "delete", "create",
           "members", "deleteMembers", "createMembers", "complete",
           "connected", "catch", "error", "ack"},
     sync : SyncId \cup {None}, integration : Integration \cup {None},
     workspace : Workspace \cup {None}, repos : SUBSET Slug,
     todo : SUBSET Slug, repo : Slug \cup {None}]

IdleWorker ==
    [pc |-> "idle", sync |-> None, integration |-> None, workspace |-> None,
     repos |-> {}, todo |-> {}, repo |-> None]

RequestRecord ==
    [pc : {"idle", "listing", "enqueue"}, integration : Integration \cup {None},
     workspace : Workspace \cup {None}, sync : SyncId \cup {None}]

Idle == [pc |-> "idle", integration |-> None, workspace |-> None, sync |-> None]

Init ==
    /\ status = [i \in Integration |-> "ABSENT"]
    /\ workspaceSlug = [i \in Integration |-> None]
    /\ errorOf = [i \in Integration |-> None]
    /\ lastSynced = [i \in Integration |-> None]
    /\ selection = [i \in Integration |-> [g \in Slug |-> "ABSENT"]]
    /\ branches = [i \in Integration |-> [g \in Slug |-> "NONE"]]
    /\ members = [i \in Integration |-> "NONE"]
    /\ syncStatus = [s \in SyncId |-> "ABSENT"]
    /\ syncOf = [s \in SyncId |-> None]
    /\ queue = <<>>
    /\ stalled = {}
    /\ worker = IdleWorker
    /\ req = [r \in Request |-> Idle]

Exists(i) == status[i] \in {"CONNECTED", "ERROR"}

Finish(r) == req' = [req EXCEPT ![r] = Idle]

-----------------------------------------------------------------------------
(* IntegrationsService *)

\* handleCallback: the signed state is the caller's and Bitbucket took the code.
HandleCallback(i) ==
    /\ status[i] = "ABSENT"
    /\ status' = [status EXCEPT ![i] = "CONNECTED"]
    /\ UNCHANGED <<workspaceSlug, errorOf, lastSynced, dataVars, syncVars, jobVars, req>>

\* Mutant: the sync rows stay.
Remove_KeepsSyncs(i) ==
    /\ Exists(i)
    /\ status' = [status EXCEPT ![i] = "REMOVED"]
    /\ workspaceSlug' = [workspaceSlug EXCEPT ![i] = None]
    /\ errorOf' = [errorOf EXCEPT ![i] = None]
    /\ lastSynced' = [lastSynced EXCEPT ![i] = None]
    /\ selection' = [selection EXCEPT ![i] = [g \in Slug |-> "ABSENT"]]
    /\ branches' = [branches EXCEPT ![i] = [g \in Slug |-> "NONE"]]
    /\ members' = [members EXCEPT ![i] = "NONE"]
    /\ UNCHANGED <<syncVars, jobVars, req>>

Remove(i) ==
    /\ Exists(i)
    /\ status' = [status EXCEPT ![i] = "REMOVED"]
    /\ workspaceSlug' = [workspaceSlug EXCEPT ![i] = None]
    /\ errorOf' = [errorOf EXCEPT ![i] = None]
    /\ lastSynced' = [lastSynced EXCEPT ![i] = None]
    /\ selection' = [selection EXCEPT ![i] = [g \in Slug |-> "ABSENT"]]
    /\ branches' = [branches EXCEPT ![i] = [g \in Slug |-> "NONE"]]
    /\ members' = [members EXCEPT ![i] = "NONE"]
    /\ syncStatus' = [s \in SyncId |-> IF syncOf[s] = i THEN "REMOVED" ELSE syncStatus[s]]
    /\ UNCHANGED <<syncOf, jobVars, req>>

\* The repositories of the old workspace, and their selection, stay.
SelectWorkspace(i, w) ==
    /\ Exists(i)
    /\ workspaceSlug' = [workspaceSlug EXCEPT ![i] = w]
    /\ UNCHANGED <<status, errorOf, lastSynced, dataVars, syncVars, jobVars, req>>

\* listLiveRepositories: the workspace is read before Bitbucket is asked.
ReadLive(r, i) ==
    /\ req[r].pc = "idle"
    /\ Exists(i) /\ workspaceSlug[i] # None
    /\ req' = [req EXCEPT ![r] = [Idle EXCEPT !.pc = "listing", !.integration = i,
                                              !.workspace = workspaceSlug[i]]]
    /\ UNCHANGED <<rowVars, dataVars, syncVars, jobVars>>

\* The upserts touch nothing a listed row says of its selection, so the loop
\* over them is one step.  It throws when the integration is gone, and does
\* not start when Bitbucket refuses.
StoreLive(r) ==
    LET i == req[r].integration
        listed == RepositoriesOf[req[r].workspace]
    IN  /\ req[r].pc = "listing"
        /\ \/ UNCHANGED selection
           \/ /\ Exists(i)
              /\ selection' = [selection EXCEPT ![i] =
                     [g \in Slug |-> IF g \in listed /\ @[g] = "ABSENT" THEN "LISTED" ELSE @[g]]]
        /\ Finish(r)
        /\ UNCHANGED <<rowVars, branches, members, syncVars, jobVars>>

ToggleRepositorySelection(i, g, selected) ==
    /\ Exists(i) /\ selection[i][g] # "ABSENT"
    /\ selection' = [selection EXCEPT ![i][g] = IF selected THEN "SELECTED" ELSE "LISTED"]
    /\ UNCHANGED <<rowVars, branches, members, syncVars, jobVars, req>>

TriggerSync(r, i, s) ==
    /\ req[r].pc = "idle"
    /\ Exists(i) /\ workspaceSlug[i] # None
    /\ syncStatus[s] = "ABSENT"
    /\ syncStatus' = [syncStatus EXCEPT ![s] = "QUEUED"]
    /\ syncOf' = [syncOf EXCEPT ![s] = i]
    /\ req' = [req EXCEPT ![r] = [Idle EXCEPT !.pc = "enqueue", !.sync = s]]
    /\ UNCHANGED <<rowVars, dataVars, jobVars>>

Enqueue(r) ==
    /\ req[r].pc = "enqueue"
    /\ queue' = Append(queue, req[r].sync)
    /\ Finish(r)
    /\ UNCHANGED <<rowVars, dataVars, syncVars, stalled, worker>>

-----------------------------------------------------------------------------
(* BitbucketSyncProcessor.process: one worker of concurrency 1             *)

WorkerGoto(pc) == worker' = [worker EXCEPT !.pc = pc]

\* What was read from Bitbucket is of no use any more.
Forget(pc) ==
    worker' = [IdleWorker EXCEPT !.pc = pc, !.sync = worker.sync,
                                 !.integration = worker.integration]

\* Bitbucket does not answer a request with 200, or no workspace was selected:
\* the job throws, and what earlier pages listed is lost.  The catch block takes over.
Refused == Forget("catch")

At(pc) == worker.pc = pc

\* The row an update in the try block needs is there, or the update throws.
StillThere == Exists(worker.integration)

\* findUniqueOrThrow fails the job when the integration is gone.
PickUp ==
    /\ At("idle") /\ queue # <<>>
    /\ queue' = Tail(queue)
    /\ LET s == Head(queue)
           i == syncOf[s]
       IN  worker' = IF Exists(i)
                     THEN [IdleWorker EXCEPT !.pc = "picked", !.sync = s,
                                !.integration = i, !.workspace = workspaceSlug[i]]
                     ELSE IdleWorker
    /\ UNCHANGED <<rowVars, dataVars, syncVars, stalled, req>>

MarkRunning ==
    /\ At("picked")
    /\ IF StillThere
       THEN /\ syncStatus' = [syncStatus EXCEPT ![worker.sync] = "RUNNING"]
            /\ WorkerGoto("token")
       ELSE /\ Forget("ack")
            /\ UNCHANGED syncStatus
    /\ UNCHANGED <<rowVars, dataVars, syncOf, queue, stalled, req>>

\* refreshIfNeeded: Bitbucket may refuse to renew an expired token.
GetToken ==
    /\ At("token")
    /\ \/ worker.workspace # None /\ WorkerGoto("repos")
       \/ Refused
    /\ UNCHANGED <<rowVars, dataVars, syncVars, queue, stalled, req>>

ReadRepositories ==
    /\ At("repos")
    /\ LET chosen == { g \in Slug : selection[worker.integration][g] = "SELECTED" }
       IN  worker' = [worker EXCEPT !.pc = "branches", !.repos = chosen, !.todo = chosen]
    /\ UNCHANGED <<rowVars, dataVars, syncVars, queue, stalled, req>>

\* Mutant: the old rows are deleted before Bitbucket is asked.
FetchBranches_DeletesFirst ==
    /\ At("branches")
    /\ IF worker.todo = {} THEN WorkerGoto("members") /\ UNCHANGED branches
       ELSE \E g \in worker.todo :
              /\ branches' = IF StillThere
                             THEN [branches EXCEPT ![worker.integration][g] = "EMPTIED"]
                             ELSE branches
              /\ \/ /\ g \in RepositoriesOf[worker.workspace]
                    /\ worker' = [worker EXCEPT !.pc = "delete", !.repo = g]
                 \/ Refused
    /\ UNCHANGED <<rowVars, selection, members, syncVars, queue, stalled, req>>

\* Bitbucket answers for a repository of the workspace, or refuses.
FetchBranches ==
    /\ At("branches")
    /\ IF worker.todo = {} THEN WorkerGoto("members")
       ELSE \E g \in worker.todo :
              \/ /\ g \in RepositoriesOf[worker.workspace]
                 /\ worker' = [worker EXCEPT !.pc = "delete", !.repo = g]
              \/ Refused
    /\ UNCHANGED <<rowVars, dataVars, syncVars, queue, stalled, req>>

DeleteBranches ==
    /\ At("delete")
    /\ branches' = IF StillThere
                   THEN [branches EXCEPT ![worker.integration][worker.repo] = "EMPTIED"]
                   ELSE branches
    /\ WorkerGoto("create")
    /\ UNCHANGED <<rowVars, selection, members, syncVars, queue, stalled, req>>

\* The deletion of the worker stays committed, its insert does not happen.
Tear ==
    /\ branches' = IF At("create") /\ StillThere
                   THEN [branches EXCEPT ![worker.integration][worker.repo] = "TORN"]
                   ELSE branches
    /\ members' = IF At("createMembers") /\ StillThere
                  THEN [members EXCEPT ![worker.integration] = "TORN"]
                  ELSE members

\* The insert of what Bitbucket listed is rejected: the integration is gone, a
\* branch was listed on two pages (the key is repository and name), or the
\* database is at fault.
InsertRejected == Refused /\ Tear

\* Without branches there is nothing to insert: the copy of none is complete.
CreateBranches ==
    /\ At("create")
    /\ \/ /\ branches' = IF StillThere
                          THEN [branches EXCEPT ![worker.integration][worker.repo] =
                                                    worker.workspace]
                          ELSE branches
          /\ worker' = [worker EXCEPT !.pc = "branches", !.repo = None,
                                        !.todo = @ \ {worker.repo}]
          /\ UNCHANGED members
       \/ InsertRejected
    /\ UNCHANGED <<rowVars, selection, syncVars, queue, stalled, req>>

\* Mutant: the members are asked for with the workspace of the row as it is now.
FetchMembers_Rereads ==
    /\ At("members")
    /\ \/ worker' = [worker EXCEPT !.pc = "deleteMembers",
                                   !.workspace = workspaceSlug[worker.integration]]
       \/ Refused
    /\ UNCHANGED <<rowVars, dataVars, syncVars, queue, stalled, req>>

FetchMembers ==
    /\ At("members")
    /\ WorkerGoto("deleteMembers") \/ Refused
    /\ UNCHANGED <<rowVars, dataVars, syncVars, queue, stalled, req>>

DeleteMembers ==
    /\ At("deleteMembers")
    /\ members' = IF StillThere THEN [members EXCEPT ![worker.integration] = "EMPTIED"]
                                ELSE members
    /\ WorkerGoto("createMembers")
    /\ UNCHANGED <<rowVars, selection, branches, syncVars, queue, stalled, req>>

CreateMembers ==
    /\ At("createMembers")
    /\ \/ /\ members' = IF StillThere
                         THEN [members EXCEPT ![worker.integration] = worker.workspace]
                         ELSE members
          /\ WorkerGoto("complete")
          /\ UNCHANGED branches
       \/ InsertRejected
    /\ UNCHANGED <<rowVars, selection, syncVars, queue, stalled, req>>

MarkCompleted ==
    /\ At("complete")
    /\ IF StillThere
       THEN /\ syncStatus' = [syncStatus EXCEPT ![worker.sync] = "COMPLETED"]
            /\ Forget("connected")
       ELSE /\ Forget("catch")
            /\ UNCHANGED syncStatus
    /\ UNCHANGED <<rowVars, dataVars, syncOf, queue, stalled, req>>

\* Mutant: the error of an earlier sync stays in the row.
MarkConnected_KeepsError ==
    /\ At("connected")
    /\ IF StillThere
       THEN /\ status' = [status EXCEPT ![worker.integration] = "CONNECTED"]
            /\ lastSynced' = [lastSynced EXCEPT ![worker.integration] = worker.sync]
            /\ Forget("ack")
       ELSE /\ Forget("catch")
            /\ UNCHANGED <<status, lastSynced>>
    /\ UNCHANGED <<workspaceSlug, errorOf, dataVars, syncVars, queue, stalled, req>>

MarkConnected ==
    /\ At("connected")
    /\ IF StillThere
       THEN /\ status' = [status EXCEPT ![worker.integration] = "CONNECTED"]
            /\ lastSynced' = [lastSynced EXCEPT ![worker.integration] = worker.sync]
            /\ errorOf' = [errorOf EXCEPT ![worker.integration] = None]
            /\ Forget("ack")
       ELSE /\ Forget("catch")
            /\ UNCHANGED <<status, lastSynced, errorOf>>
    /\ UNCHANGED <<workspaceSlug, dataVars, syncVars, queue, stalled, req>>

\* Mutant: the error is only logged.
MarkFailed_Swallowed ==
    /\ At("catch")
    /\ Forget("ack")
    /\ UNCHANGED <<rowVars, dataVars, syncVars, queue, stalled, req>>

\* The catch block.  Its updates throw out of process when the rows are gone.
MarkFailed ==
    /\ At("catch")
    /\ IF StillThere
       THEN /\ syncStatus' = [syncStatus EXCEPT ![worker.sync] = "FAILED"]
            /\ WorkerGoto("error")
       ELSE /\ Forget("ack")
            /\ UNCHANGED syncStatus
    /\ UNCHANGED <<rowVars, dataVars, syncOf, queue, stalled, req>>

MarkError ==
    /\ At("error")
    /\ IF StillThere
       THEN /\ status' = [status EXCEPT ![worker.integration] = "ERROR"]
            /\ errorOf' = [errorOf EXCEPT ![worker.integration] = worker.sync]
       ELSE UNCHANGED <<status, errorOf>>
    /\ Forget("ack")
    /\ UNCHANGED <<workspaceSlug, lastSynced, dataVars, syncVars, queue, stalled, req>>

\* BullMQ removes the job; it is not tried again, whether process threw or not.
Acknowledge ==
    /\ At("ack")
    /\ worker' = IdleWorker
    /\ UNCHANGED <<rowVars, dataVars, syncVars, queue, stalled, req>>

\* The process restarts.  BullMQ puts the job of the dead worker back in front
\* of the queue once; a bound: one crash of a busy worker.  (A second one of the
\* same job would fail it.)
Restart ==
    /\ At("idle") \/ stalled = {}
    /\ req' = [r \in Request |-> Idle]
    /\ worker' = IdleWorker
    /\ IF At("idle") THEN UNCHANGED <<queue, stalled>>
       ELSE /\ queue' = <<worker.sync>> \o queue
            /\ stalled' = stalled \cup {worker.sync}
    /\ Tear
    /\ UNCHANGED <<rowVars, selection, syncVars>>

-----------------------------------------------------------------------------
Call(r) ==
    \E i \in Integration : ReadLive(r, i) \/ \E s \in SyncId : TriggerSync(r, i, s)

Manage ==
    \E i \in Integration :
        \/ HandleCallback(i)
        \/ Remove(i)
        \/ \E w \in Workspace : SelectWorkspace(i, w)
        \/ \E g \in Slug, selected \in BOOLEAN : ToggleRepositorySelection(i, g, selected)

Continue(r) == StoreLive(r) \/ Enqueue(r)

Work ==
    \/ PickUp \/ MarkRunning \/ GetToken \/ ReadRepositories
    \/ FetchBranches \/ DeleteBranches \/ CreateBranches
    \/ FetchMembers \/ DeleteMembers \/ CreateMembers
    \/ MarkCompleted \/ MarkConnected \/ MarkFailed \/ MarkError \/ Acknowledge

Next ==
    \/ \E r \in Request : Call(r) \/ Continue(r)
    \/ Manage
    \/ Work
    \/ Restart

Spec == Init /\ [][Next]_vars

\* The worker keeps processing: Bitbucket's client answers or throws.
FairSpec == Spec /\ WF_vars(Work)

-----------------------------------------------------------------------------
(* Properties *)

\* Rows, jobs and handlers keep their shape; rows of an integration exist only
\* while it does.
TypeOK ==
    /\ status \in [Integration -> {"ABSENT", "CONNECTED", "ERROR", "REMOVED"}]
    /\ workspaceSlug \in [Integration -> Workspace \cup {None}]
    /\ errorOf \in [Integration -> SyncId \cup {None}]
    /\ lastSynced \in [Integration -> SyncId \cup {None}]
    /\ selection \in [Integration -> [Slug -> {"ABSENT", "LISTED", "SELECTED"}]]
    /\ branches \in [Integration -> [Slug -> Copy]]
    /\ members \in [Integration -> Copy]
    /\ syncStatus \in [SyncId -> {"ABSENT", "QUEUED", "RUNNING", "COMPLETED",
                                  "FAILED", "REMOVED"}]
    /\ syncOf \in [SyncId -> Integration \cup {None}]
    /\ queue \in Seq(SyncId)
    /\ stalled \in SUBSET SyncId
    /\ worker \in WorkerRecord
    /\ req \in [Request -> RequestRecord]
    /\ \A s \in SyncId :
          syncStatus[s] \in {"QUEUED", "RUNNING", "COMPLETED", "FAILED"} =>
              syncOf[s] \in Integration /\ Exists(syncOf[s])
    /\ \A i \in Integration, g \in Slug :
          selection[i][g] = "ABSENT" => branches[i][g] = "NONE"

Busy(i) == worker.integration = i

\* A sync that Bitbucket refuses, at any request, loses nothing, and neither
\* does one whose workspace is changed on the way: the rows of a repository, or
\* the members, are missing only while the worker is about to insert the new
\* ones, or since an insert that was rejected or a death of the process just there.
RefusalKeepsData ==
    \A i \in Integration :
        /\ members[i] = "EMPTIED" => Busy(i) /\ At("createMembers")
        /\ \A g \in Slug :
              branches[i][g] = "EMPTIED" => Busy(i) /\ At("create") /\ worker.repo = g

\* All rows a completed sync copied are of one workspace, the one it was
\* started with, although the workspace may be changed while it runs.
SyncCopiesOneWorkspace ==
    At("complete") /\ StillThere =>
        /\ members[worker.integration] = worker.workspace
        /\ \A g \in worker.repos : branches[worker.integration][g] = worker.workspace
        /\ worker.repos \subseteq RepositoriesOf[worker.workspace]

\* The integration shows an error exactly when it is in ERROR, and the error is
\* that of a sync that is FAILED, unless the worker is just correcting it.
StatusFollowsSyncs ==
    \A i \in Integration : Exists(i) /\ ~Busy(i) =>
        /\ status[i] = "ERROR" <=> errorOf[i] # None
        /\ errorOf[i] # None => syncStatus[errorOf[i]] = "FAILED"
        /\ lastSynced[i] # None /\ lastSynced[i] \notin stalled =>
              syncStatus[lastSynced[i]] = "COMPLETED"

\* A sync whose job was queued ends for good, whatever Bitbucket answers, even
\* when the process dies on the way once, unless its integration is removed.
SyncSettles ==
    \A s \in SyncId :
        (\E n \in DOMAIN queue : queue[n] = s) ~>
            [](syncStatus[s] \in {"COMPLETED", "FAILED", "REMOVED"})
=============================================================================
