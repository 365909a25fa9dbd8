------------------------------ MODULE Findings ------------------------------
(***************************************************************************)
(* The compliance core: findings reported by scans, the workflow that      *)
(* resolves them, evidence, and the verification scans that may decide it  *)
(* without a reviewer (findings.service.ts, scans.service.ts,              *)
(* scan.processor.ts, settings.service.ts under backend/src).              *)
(*                                                                         *)
(* The HTTP handlers are asynchronous: every await of the database, the    *)
(* object store or the job queue lets other handlers and the scan worker   *)
(* run, and what a handler read before it is a snapshot afterwards.  So an *)
(* action is what a handler does between two awaits, and a request keeps   *)
(* its snapshot in its record.  A handler that rejects a call changes      *)
(* nothing and is not a step.                                              *)
(***************************************************************************)
EXTENDS FindingTransitions, Naturals, Sequences, FiniteSets

CONSTANTS
    User,           \* accounts of one owner (an organisation, or one person)
    role,           \* the role each account's token resolves to
    Finding,        \* ids of Finding rows
    ScanId,         \* ids of Scan rows
    Request,        \* slots for requests in flight: bounds the concurrency
    Modes,          \* verification modes the settings are switched between
    OrgAccount,     \* FALSE: an individual account, which only self-assigns
    MaxEvidence,    \* bound on the Evidence rows of a finding
    Faults,         \* TRUE: awaits may reject and the process may restart
    None

VerificationMode == {"AUTO_WITH_FALLBACK", "AUTO_ONLY", "MANUAL_ONLY"}

ASSUME RoleAssumption == role \in [User -> Role]
ASSUME ModesAssumption == Modes \subseteq VerificationMode
ASSUME NoneAssumption == None \notin User \cup Finding \cup ScanId
ASSUME FlagAssumption == OrgAccount \in BOOLEAN /\ Faults \in BOOLEAN

VARIABLES
    (* Finding rows *)
    status,         \* a FindingStatus, or "ABSENT" before the row exists
    assignee,
    resolvedAt,     \* TRUE iff the column is set
    rejectionReason,\* TRUE iff the column is set
    evidence,       \* the Evidence rows of a finding, oldest first
    (* Scan rows *)
    scanStatus,
    verifiesFinding,
    verifiesEvidence,   \* index into evidence, 0 for null
    (* settings *)
    mode,
    (* the BullMQ queue 'scans' and its worker *)
    queue,          \* waiting jobs, each the id of its scan
    stalled,        \* scans whose job was recovered from a dead worker once
    worker,
    (* handlers in flight *)
    req

findingVars == <<status, assignee, resolvedAt, rejectionReason>>
scanVars == <<scanStatus, verifiesFinding, verifiesEvidence>>
jobVars == <<queue, stalled, worker>>
vars == <<findingVars, evidence, scanVars, mode, jobVars, req>>

-----------------------------------------------------------------------------
(* Rows and records *)

ScanStatus == {"QUEUED", "RUNNING", "COMPLETED", "FAILED"}

EvidenceRow ==
    [version : Nat \ {0},
     verification : {"PENDING", "APPROVED", "REJECTED",
                     "AUTO_VERIFIED", "VERIFICATION_FAILED"}]

RequestPC ==
    {"idle", "assign", "count", "status", "mode", "latest", "createScan",
     "startVerification", "enqueue", "reviewEvidence", "decide",
     "head", "store", "newScan"}

\* to: the status to write; target: the new assignee; seen: an evidence
\* count or index read; scan: the scan row created.
RequestRecord ==
    [pc : RequestPC, finding : Finding \cup {None},
     to : FindingStatus \cup {None}, target : User \cup {None},
     seen : Nat, scan : ScanId \cup {None}]

Idle ==
    [pc |-> "idle", finding |-> None, to |-> None, target |-> None,
     seen |-> 0, scan |-> None]

WorkerPC ==
    {"idle", "picked", "scanning", "completing", "verify", "pass",
     "failed", "verifyFailure", "failureMode", "sendBack", "fallback", "ack"}

\* failing: the report shows the verified condition again.
WorkerRecord ==
    [pc : WorkerPC, scan : ScanId \cup {None}, failing : BOOLEAN]

IdleWorker == [pc |-> "idle", scan |-> None, failing |-> FALSE]

Init ==
    /\ status = [f \in Finding |-> "ABSENT"]
    /\ assignee = [f \in Finding |-> None]
    /\ resolvedAt = [f \in Finding |-> FALSE]
    /\ rejectionReason = [f \in Finding |-> FALSE]
    /\ evidence = [f \in Finding |-> <<>>]
    /\ scanStatus = [s \in ScanId |-> "ABSENT"]
    /\ verifiesFinding = [s \in ScanId |-> None]
    /\ verifiesEvidence = [s \in ScanId |-> 0]
    /\ mode \in Modes
    /\ queue = <<>>
    /\ stalled = {}
    /\ worker = IdleWorker
    /\ req = [r \in Request |-> Idle]

-----------------------------------------------------------------------------
(* Steps shared by the handlers *)

Goto(r, pc) == req' = [req EXCEPT ![r].pc = pc]

Finish(r) == req' = [req EXCEPT ![r] = Idle]

Begin(r, pc, f, to, target) ==
    /\ req[r].pc = "idle"
    /\ req' = [req EXCEPT ![r] =
                  [Idle EXCEPT !.pc = pc, !.finding = f, !.to = to,
                               !.target = target]]

\* finding.update by id, whatever the status is now.  The activity row of the
\* same transaction is read by nothing and left out.
WriteStatus(f, to) == status' = [status EXCEPT ![f] = to]

\* The row a query "newest evidence first" returns: 0 when there is none.
LatestEvidence(f) == Len(evidence[f])

Verify(f, i, verdict) ==
    IF i = 0 THEN UNCHANGED evidence
    ELSE evidence' = [evidence EXCEPT ![f][i].verification = verdict]

\* Bounds: a handler that will insert a row starts only while the model has
\* one left for it.
WillCreateScan(q) ==
    \/ req[q].pc = "newScan"
    \/ /\ req[q].to = "EVIDENCE_SUBMITTED"
       /\ req[q].pc \in {"count", "status", "mode", "latest", "createScan"}
ScanRowLeft ==
    Cardinality({q \in Request : WillCreateScan(q)}) <
    Cardinality({s \in ScanId : scanStatus[s] = "ABSENT"})
EvidenceRowLeft(f) ==
    Len(evidence[f]) + Cardinality({q \in Request :
        req[q].finding = f /\ req[q].pc \in {"head", "store"}}) < MaxEvidence

-----------------------------------------------------------------------------
(* FindingsService.assign *)

\* Mutant: the status of the finding is not looked at.
ReadAssign_AnyStatus(r, u, f, v) ==
    /\ hasPermission(role[u], "FINDINGS_ASSIGN")
    /\ status[f] # "ABSENT"
    /\ OrgAccount \/ v = u
    /\ Begin(r, "assign", f, "ASSIGNED", v)
    /\ UNCHANGED <<findingVars, evidence, scanVars, mode, jobVars>>

ReadAssign(r, u, f, v) ==
    /\ hasPermission(role[u], "FINDINGS_ASSIGN")
    /\ status[f] \notin {"ABSENT", "RESOLVED"}
    /\ OrgAccount \/ v = u
    /\ Begin(r, "assign", f, "ASSIGNED", v)
    /\ UNCHANGED <<findingVars, evidence, scanVars, mode, jobVars>>

\* Mutant: the update forgets the assignee.
CommitAssign_StatusOnly(r) ==
    /\ req[r].pc = "assign"
    /\ WriteStatus(req[r].finding, "ASSIGNED")
    /\ Finish(r)
    /\ UNCHANGED <<assignee, resolvedAt, rejectionReason,
                   evidence, scanVars, mode, jobVars>>

CommitAssign(r) ==
    LET f == req[r].finding IN
    /\ req[r].pc = "assign"
    /\ WriteStatus(f, "ASSIGNED")
    /\ assignee' = [assignee EXCEPT ![f] = req[r].target]
    /\ Finish(r)
    /\ UNCHANGED <<resolvedAt, rejectionReason, evidence, scanVars, mode, jobVars>>

(* FindingsService.updateStatus *)

ReadUpdateStatus(r, u, f, to) ==
    /\ \E t \in FINDING_TRANSITIONS :
          /\ t.from = status[f] /\ t.to = to
          /\ canActorTransition(t, role[u], u = assignee[f])
    /\ to = "EVIDENCE_SUBMITTED" => ScanRowLeft
    /\ Begin(r, IF to = "EVIDENCE_SUBMITTED" THEN "count" ELSE "status",
             f, to, None)
    /\ UNCHANGED <<findingVars, evidence, scanVars, mode, jobVars>>

\* Mutant: the count of evidence is not checked.
CountEvidence_Unchecked(r) ==
    /\ req[r].pc = "count"
    /\ Goto(r, "status")
    /\ UNCHANGED <<findingVars, evidence, scanVars, mode, jobVars>>

CountEvidence(r) ==
    /\ req[r].pc = "count"
    /\ IF evidence[req[r].finding] = <<>> THEN Finish(r) ELSE Goto(r, "status")
    /\ UNCHANGED <<findingVars, evidence, scanVars, mode, jobVars>>

CommitStatus(r) ==
    /\ req[r].pc = "status"
    /\ WriteStatus(req[r].finding, req[r].to)
    /\ IF req[r].to = "EVIDENCE_SUBMITTED" THEN Goto(r, "mode") ELSE Finish(r)
    /\ UNCHANGED <<assignee, resolvedAt, rejectionReason,
                   evidence, scanVars, mode, jobVars>>

ReadMode(r) ==
    /\ req[r].pc = "mode"
    /\ IF mode = "MANUAL_ONLY" THEN Finish(r) ELSE Goto(r, "latest")
    /\ UNCHANGED <<findingVars, evidence, scanVars, mode, jobVars>>

(* FindingsService.startAutomaticVerification *)

ReadLatestForScan(r) ==
    /\ req[r].pc = "latest"
    /\ req' = [req EXCEPT ![r].pc = "createScan",
                          ![r].seen = LatestEvidence(req[r].finding)]
    /\ UNCHANGED <<findingVars, evidence, scanVars, mode, jobVars>>

\* Mutant: the job is queued with the scan row, before the status is written.
CreateVerificationScan_QueuesJob(r, s) ==
    /\ req[r].pc = "createScan"
    /\ scanStatus[s] = "ABSENT"
    /\ scanStatus' = [scanStatus EXCEPT ![s] = "QUEUED"]
    /\ verifiesFinding' = [verifiesFinding EXCEPT ![s] = req[r].finding]
    /\ verifiesEvidence' = [verifiesEvidence EXCEPT ![s] = req[r].seen]
    /\ queue' = Append(queue, s)
    /\ req' = [req EXCEPT ![r].pc = "startVerification", ![r].scan = s]
    /\ UNCHANGED <<findingVars, evidence, mode, stalled, worker>>

CreateVerificationScan(r, s) ==
    /\ req[r].pc = "createScan"
    /\ scanStatus[s] = "ABSENT"
    /\ scanStatus' = [scanStatus EXCEPT ![s] = "QUEUED"]
    /\ verifiesFinding' = [verifiesFinding EXCEPT ![s] = req[r].finding]
    /\ verifiesEvidence' = [verifiesEvidence EXCEPT ![s] = req[r].seen]
    /\ req' = [req EXCEPT ![r].pc = "startVerification", ![r].scan = s]
    /\ UNCHANGED <<findingVars, evidence, mode, jobVars>>

CommitStartVerification(r) ==
    /\ req[r].pc = "startVerification"
    /\ WriteStatus(req[r].finding, "UNDER_REVIEW")
    /\ Goto(r, "enqueue")
    /\ UNCHANGED <<assignee, resolvedAt, rejectionReason,
                   evidence, scanVars, mode, jobVars>>

\* scansQueue.add, here and at the end of ScansService.create.
Enqueue(r) ==
    /\ req[r].pc = "enqueue"
    /\ queue' = Append(queue, req[r].scan)
    /\ Finish(r)
    /\ UNCHANGED <<findingVars, evidence, scanVars, mode, stalled, worker>>

(* FindingsService.review *)

ReadReview(r, u, f, decision) ==
    /\ hasPermission(role[u], "FINDINGS_REVIEW")
    /\ status[f] = "UNDER_REVIEW"
    /\ Begin(r, "reviewEvidence", f,
             IF decision = "APPROVE" THEN "RESOLVED" ELSE "IN_PROGRESS", None)
    /\ UNCHANGED <<findingVars, evidence, scanVars, mode, jobVars>>

ReadLatestForReview(r) ==
    /\ req[r].pc = "reviewEvidence"
    /\ req' = [req EXCEPT ![r].pc = "decide",
                          ![r].seen = LatestEvidence(req[r].finding)]
    /\ UNCHANGED <<findingVars, evidence, scanVars, mode, jobVars>>

CommitApprove(r) ==
    LET f == req[r].finding IN
    /\ req[r].pc = "decide" /\ req[r].to = "RESOLVED"
    /\ WriteStatus(f, "RESOLVED")
    /\ resolvedAt' = [resolvedAt EXCEPT ![f] = TRUE]
    /\ rejectionReason' = [rejectionReason EXCEPT ![f] = FALSE]
    /\ Verify(f, req[r].seen, "APPROVED")
    /\ Finish(r)
    /\ UNCHANGED <<assignee, scanVars, mode, jobVars>>

\* Mutant: rejected evidence is deleted.
CommitReject_DropsEvidence(r) ==
    LET f == req[r].finding IN
    /\ req[r].pc = "decide" /\ req[r].to = "IN_PROGRESS"
    /\ WriteStatus(f, "IN_PROGRESS")
    /\ rejectionReason' = [rejectionReason EXCEPT ![f] = TRUE]
    /\ evidence' = [evidence EXCEPT ![f] = <<>>]
    /\ Finish(r)
    /\ UNCHANGED <<assignee, resolvedAt, scanVars, mode, jobVars>>

CommitReject(r) ==
    LET f == req[r].finding IN
    /\ req[r].pc = "decide" /\ req[r].to = "IN_PROGRESS"
    /\ WriteStatus(f, "IN_PROGRESS")
    /\ rejectionReason' = [rejectionReason EXCEPT ![f] = TRUE]
    /\ Verify(f, req[r].seen, "REJECTED")
    /\ Finish(r)
    /\ UNCHANGED <<assignee, resolvedAt, scanVars, mode, jobVars>>

(* FindingsService.confirmEvidenceUpload.  A missing or oversized object   *)
(* ends the request at "head" without touching a row of this module.       *)

ReadConfirm(r, u, f) ==
    /\ status[f] # "ABSENT"
    /\ canUploadEvidence(status[f], role[u], u = assignee[f])
    /\ EvidenceRowLeft(f)
    /\ Begin(r, "head", f, None, None)
    /\ UNCHANGED <<findingVars, evidence, scanVars, mode, jobVars>>

HeadRejected(r) ==
    /\ req[r].pc = "head"
    /\ Finish(r)
    /\ UNCHANGED <<findingVars, evidence, scanVars, mode, jobVars>>

\* Mutant: only evidence that still waits for a verdict is counted.
CountVersions_PendingOnly(r) ==
    /\ req[r].pc = "head"
    /\ req' = [req EXCEPT ![r].pc = "store",
                          ![r].seen = Cardinality({i \in DOMAIN evidence[req[r].finding] :
                              evidence[req[r].finding][i].verification = "PENDING"})]
    /\ UNCHANGED <<findingVars, evidence, scanVars, mode, jobVars>>

CountVersions(r) ==
    /\ req[r].pc = "head"
    /\ req' = [req EXCEPT ![r].pc = "store",
                          ![r].seen = Len(evidence[req[r].finding])]
    /\ UNCHANGED <<findingVars, evidence, scanVars, mode, jobVars>>

CommitEvidence(r) ==
    LET f == req[r].finding
        row == [version |-> req[r].seen + 1, verification |-> "PENDING"] IN
    /\ req[r].pc = "store"
    /\ evidence' = [evidence EXCEPT ![f] = Append(@, row)]
    /\ Finish(r)
    /\ UNCHANGED <<findingVars, scanVars, mode, jobVars>>

(* ScansService.create *)

ReadCreateScan(r, u) ==
    /\ req[r].pc = "idle"
    /\ hasPermission(role[u], "CLOUD_ACCOUNTS_MANAGE")
    /\ ScanRowLeft
    /\ req' = [req EXCEPT ![r] = [Idle EXCEPT !.pc = "newScan"]]
    /\ UNCHANGED <<findingVars, evidence, scanVars, mode, jobVars>>

CreateScan(r, s) ==
    /\ req[r].pc = "newScan"
    /\ scanStatus[s] = "ABSENT"
    /\ scanStatus' = [scanStatus EXCEPT ![s] = "QUEUED"]
    /\ req' = [req EXCEPT ![r].pc = "enqueue", ![r].scan = s]
    /\ UNCHANGED <<findingVars, evidence, verifiesFinding, verifiesEvidence,
                   mode, jobVars>>

(* SettingsService.updateEvidenceVerificationMode *)

SetMode(u, m) ==
    /\ hasPermission(role[u], "USERS_WRITE")
    /\ mode' = m
    /\ UNCHANGED <<findingVars, evidence, scanVars, jobVars, req>>

-----------------------------------------------------------------------------
(* ScanProcessor.process: one worker of concurrency 1 over the queue.      *)

WorkerGoto(pc) == worker' = [worker EXCEPT !.pc = pc]

\* BullMQ hands over the oldest job; process loads the scan row.
PickUp ==
    /\ worker.pc = "idle" /\ queue # <<>>
    /\ worker' = [pc |-> "picked", scan |-> Head(queue), failing |-> FALSE]
    /\ queue' = Tail(queue)
    /\ UNCHANGED <<findingVars, evidence, scanVars, mode, stalled, req>>

MarkRunning ==
    /\ worker.pc = "picked"
    /\ scanStatus' = [scanStatus EXCEPT ![worker.scan] = "RUNNING"]
    /\ WorkerGoto("scanning")
    /\ UNCHANGED <<findingVars, evidence, verifiesFinding, verifiesEvidence,
                   mode, queue, stalled, req>>

\* Prowler reported: its failing rows become new OPEN findings, also the row
\* that shows the condition a verification scan looks for again.
ImportFindings(rows, failing) ==
    /\ worker.pc = "scanning"
    /\ failing => verifiesFinding[worker.scan] # None
    /\ \A f \in rows : status[f] = "ABSENT"
    /\ status' = [f \in Finding |-> IF f \in rows THEN "OPEN" ELSE status[f]]
    /\ worker' = [worker EXCEPT !.pc = "completing", !.failing = failing]
    /\ UNCHANGED <<assignee, resolvedAt, rejectionReason, evidence,
                   scanVars, mode, queue, stalled, req>>

\* Mutant: the catch block forgets the scan row.
ScanError_Swallowed ==
    /\ worker.pc \in {"scanning", "completing"}
    /\ worker.pc = "completing" => Faults
    /\ WorkerGoto("ack")
    /\ UNCHANGED <<findingVars, evidence, scanVars, mode, queue, stalled, req>>

\* Prowler, its report or the credentials are unusable, or an update threw:
\* the catch block takes over.
ScanError ==
    /\ worker.pc \in {"scanning", "completing"}
    /\ worker.pc = "completing" => Faults
    /\ WorkerGoto("failed")
    /\ UNCHANGED <<findingVars, evidence, scanVars, mode, queue, stalled, req>>

MarkCompleted ==
    /\ worker.pc = "completing"
    /\ scanStatus' = [scanStatus EXCEPT ![worker.scan] = "COMPLETED"]
    /\ WorkerGoto(IF verifiesFinding[worker.scan] = None THEN "ack" ELSE "verify")
    /\ UNCHANGED <<findingVars, evidence, verifiesFinding, verifiesEvidence,
                   mode, queue, stalled, req>>

MarkFailed ==
    /\ worker.pc = "failed"
    /\ scanStatus' = [scanStatus EXCEPT ![worker.scan] = "FAILED"]
    /\ WorkerGoto(IF verifiesFinding[worker.scan] = None
                  THEN "ack" ELSE "verifyFailure")
    /\ UNCHANGED <<findingVars, evidence, verifiesFinding, verifiesEvidence,
                   mode, queue, stalled, req>>

\* Mutant: the report is not compared with the finding.
ReadVerified_IgnoresReport ==
    /\ worker.pc = "verify"
    /\ WorkerGoto(IF assignee[verifiesFinding[worker.scan]] = None THEN "ack" ELSE "pass")
    /\ UNCHANGED <<findingVars, evidence, scanVars, mode, queue, stalled, req>>

\* applyVerificationResult reads the finding: nobody assigned, nothing done.
ReadVerified ==
    /\ worker.pc = "verify"
    /\ WorkerGoto(IF assignee[verifiesFinding[worker.scan]] = None THEN "ack"
                  ELSE IF worker.failing THEN "failureMode" ELSE "pass")
    /\ UNCHANGED <<findingVars, evidence, scanVars, mode, queue, stalled, req>>

\* The catch block does the same before applyFailureOutcome.
ReadVerifiedAfterError ==
    /\ worker.pc = "verifyFailure"
    /\ WorkerGoto(IF assignee[verifiesFinding[worker.scan]] = None THEN "ack"
                  ELSE "failureMode")
    /\ UNCHANGED <<findingVars, evidence, scanVars, mode, queue, stalled, req>>

\* Mutant: the rejection reason of an earlier round stays.
CommitPass_KeepsReason ==
    LET f == verifiesFinding[worker.scan] IN
    /\ worker.pc = "pass"
    /\ WriteStatus(f, "RESOLVED")
    /\ resolvedAt' = [resolvedAt EXCEPT ![f] = TRUE]
    /\ Verify(f, verifiesEvidence[worker.scan], "AUTO_VERIFIED")
    /\ WorkerGoto("ack")
    /\ UNCHANGED <<assignee, rejectionReason, scanVars, mode, queue, stalled, req>>

CommitPass ==
    LET f == verifiesFinding[worker.scan] IN
    /\ worker.pc = "pass"
    /\ WriteStatus(f, "RESOLVED")
    /\ resolvedAt' = [resolvedAt EXCEPT ![f] = TRUE]
    /\ rejectionReason' = [rejectionReason EXCEPT ![f] = FALSE]
    /\ Verify(f, verifiesEvidence[worker.scan], "AUTO_VERIFIED")
    /\ WorkerGoto("ack")
    /\ UNCHANGED <<assignee, scanVars, mode, queue, stalled, req>>

\* Mutant: the two modes are mixed up.
ReadFailureMode_Swapped ==
    /\ worker.pc = "failureMode"
    /\ WorkerGoto(IF mode = "AUTO_ONLY" THEN "fallback" ELSE "sendBack")
    /\ UNCHANGED <<findingVars, evidence, scanVars, mode, queue, stalled, req>>

\* applyFailureOutcome: the mode is read now, not when evidence was submitted.
ReadFailureMode ==
    /\ worker.pc = "failureMode"
    /\ WorkerGoto(IF mode = "AUTO_ONLY" THEN "sendBack" ELSE "fallback")
    /\ UNCHANGED <<findingVars, evidence, scanVars, mode, queue, stalled, req>>

CommitSendBack ==
    LET f == verifiesFinding[worker.scan] IN
    /\ worker.pc = "sendBack"
    /\ WriteStatus(f, "IN_PROGRESS")
    /\ rejectionReason' = [rejectionReason EXCEPT ![f] = TRUE]
    /\ Verify(f, verifiesEvidence[worker.scan], "VERIFICATION_FAILED")
    /\ WorkerGoto("ack")
    /\ UNCHANGED <<assignee, resolvedAt, scanVars, mode, queue, stalled, req>>

\* Only an activity row without statuses: a reviewer is expected to decide.
LogFallback ==
    /\ worker.pc = "fallback"
    /\ WorkerGoto("ack")
    /\ UNCHANGED <<findingVars, evidence, scanVars, mode, queue, stalled, req>>

\* BullMQ removes the job that process returned from.
Acknowledge ==
    /\ worker.pc = "ack"
    /\ worker' = IdleWorker
    /\ UNCHANGED <<findingVars, evidence, scanVars, mode, queue, stalled, req>>

-----------------------------------------------------------------------------
(* Faults *)

\* An await of a handler rejects: the caller gets a 500, what was committed
\* before it stays.
Abort(r) ==
    /\ Faults
    /\ req[r].pc # "idle"
    /\ Finish(r)
    /\ UNCHANGED <<findingVars, evidence, scanVars, mode, jobVars>>

\* An update outside the try block throws and fails the job, which is not
\* retried; one in the verification bookkeeping is logged and swallowed.
\* Either way this job changes nothing more.
WorkerGivesUp ==
    /\ Faults
    /\ worker.pc \notin {"idle", "scanning", "completing"}
    /\ worker' = IdleWorker
    /\ UNCHANGED <<findingVars, evidence, scanVars, mode, queue, stalled, req>>

\* The process restarts.  BullMQ puts the job of the dead worker back in
\* front of the queue the first time and fails it the second time.
Restart ==
    /\ Faults
    /\ req' = [r \in Request |-> Idle]
    /\ worker' = IdleWorker
    /\ IF worker.pc # "idle" /\ worker.scan \notin stalled
       THEN /\ queue' = <<worker.scan>> \o queue
            /\ stalled' = stalled \cup {worker.scan}
       ELSE UNCHANGED <<queue, stalled>>
    /\ UNCHANGED <<findingVars, evidence, scanVars, mode>>

-----------------------------------------------------------------------------
Continue(r) ==
    \/ CommitAssign(r)
    \/ CountEvidence(r)
    \/ CommitStatus(r)
    \/ ReadMode(r)
    \/ ReadLatestForScan(r)
    \/ \E s \in ScanId : CreateVerificationScan(r, s)
    \/ CommitStartVerification(r)
    \/ Enqueue(r)
    \/ ReadLatestForReview(r)
    \/ CommitApprove(r)
    \/ CommitReject(r)
    \/ HeadRejected(r)
    \/ CountVersions(r)
    \/ CommitEvidence(r)
    \/ \E s \in ScanId : CreateScan(r, s)

Call(r, u) ==
    \/ \E f \in Finding, v \in User : ReadAssign(r, u, f, v)
    \/ \E f \in Finding, to \in FindingStatus : ReadUpdateStatus(r, u, f, to)
    \/ \E f \in Finding, d \in {"APPROVE", "REJECT"} : ReadReview(r, u, f, d)
    \/ \E f \in Finding : ReadConfirm(r, u, f)
    \/ ReadCreateScan(r, u)

Work ==
    \/ PickUp
    \/ MarkRunning
    \/ \E rows \in SUBSET Finding, failing \in BOOLEAN : ImportFindings(rows, failing)
    \/ ScanError
    \/ MarkCompleted
    \/ MarkFailed
    \/ ReadVerified
    \/ ReadVerifiedAfterError
    \/ CommitPass
    \/ ReadFailureMode
    \/ CommitSendBack
    \/ LogFallback
    \/ Acknowledge

Next ==
    \/ \E r \in Request :
          \/ req[r].pc = "idle" /\ \E u \in User : Call(r, u)
          \/ Continue(r)
          \/ Abort(r)
    \/ \E u \in User, m \in Modes : SetMode(u, m)
    \/ Work
    \/ WorkerGivesUp
    \/ Restart

Spec == Init /\ [][Next]_vars

\* Node's event loop resumes every handler whose await has settled, and the
\* BullMQ worker keeps taking and processing jobs.
FairSpec ==
    /\ Spec
    /\ \A r \in Request : WF_vars(Continue(r))
    /\ WF_vars(Work)

-----------------------------------------------------------------------------
(* Properties *)

RowTypes ==
    /\ status \in [Finding -> FindingStatus \cup {"ABSENT"}]
    /\ assignee \in [Finding -> User \cup {None}]
    /\ resolvedAt \in [Finding -> BOOLEAN]
    /\ rejectionReason \in [Finding -> BOOLEAN]
    /\ evidence \in [Finding -> Seq(EvidenceRow)]
    /\ scanStatus \in [ScanId -> ScanStatus \cup {"ABSENT"}]
    /\ verifiesFinding \in [ScanId -> Finding \cup {None}]
    /\ verifiesEvidence \in [ScanId -> Nat]
    /\ mode \in Modes

JobTypes ==
    /\ queue \in Seq(ScanId)
    /\ stalled \in SUBSET ScanId
    /\ worker \in WorkerRecord
    /\ worker.pc # "idle" => worker.scan \in ScanId
    /\ worker.pc \in {"verify", "pass", "verifyFailure", "failureMode",
                      "sendBack", "fallback"} =>
          verifiesFinding[worker.scan] \in Finding

CarriesIds(x) ==
    /\ x.pc \notin {"idle", "newScan", "enqueue"} => x.finding \in Finding
    /\ x.pc = "assign" => x.target \in User
    /\ x.pc \in {"count", "status"} => \E t \in FINDING_TRANSITIONS : x.to = t.to
    /\ x.pc \in {"reviewEvidence", "decide"} => x.to \in {"RESOLVED", "IN_PROGRESS"}
    /\ x.pc \in {"startVerification", "enqueue"} => x.scan \in ScanId

RequestTypes ==
    /\ req \in [Request -> RequestRecord]
    /\ \A r \in Request : CarriesIds(req[r])

\* Every variable keeps the shape the schema and the handlers give it, and a
\* handler or the worker holds the ids its next step will use.
TypeOK == RowTypes /\ JobTypes /\ RequestTypes

Submitted == {"EVIDENCE_SUBMITTED", "UNDER_REVIEW", "RESOLVED"}

Started(f) == status[f] \in FindingStatus \ {"OPEN"}

\* Nothing is submitted, reviewed or resolved without evidence, however late
\* the write of a handler or of the scan worker lands: the count before a
\* submission (updateStatus) is the only check there is.
SubmittedHasEvidence ==
    \A f \in Finding : status[f] \in Submitted => evidence[f] # <<>>

\* A finding that left OPEN has an assignee, so the worker, which does
\* nothing for a finding nobody owns, decides every scan that verifies one.
WorkHasOwner ==
    \A f \in Finding : Started(f) => assignee[f] # None

\* Handlers that act on a status they read earlier, and verification scans,
\* exist only for findings that were started, and from the count of evidence
\* on only for findings that have some: what they read can be stale, this
\* much of it stays true.
SnapshotHolds(x) ==
    /\ x.pc \in {"count", "status", "mode", "latest", "createScan",
                 "startVerification", "reviewEvidence", "decide"} =>
          Started(x.finding)
    /\ \/ x.pc = "status" /\ x.to \in Submitted
       \/ x.pc \in {"mode", "latest", "createScan", "startVerification",
                    "reviewEvidence", "decide"}
       => evidence[x.finding] # <<>>

SnapshotsHold ==
    /\ \A r \in Request : SnapshotHolds(req[r])
    /\ \A s \in ScanId : verifiesFinding[s] # None =>
          Started(verifiesFinding[s]) /\ evidence[verifiesFinding[s]] # <<>>

\* The inductive invariant: the two properties above rest on what requests in
\* flight and scans carry.
WorkflowInvariant ==
    TypeOK /\ SubmittedHasEvidence /\ WorkHasOwner /\ SnapshotsHold

\* However reviews, rejections and scan results overlap, a resolved finding
\* shows its resolution date and no rejection reason.
ResolutionIsRecorded ==
    \A f \in Finding :
        status[f] = "RESOLVED" => resolvedAt[f] /\ ~rejectionReason[f]

\* A verification scan has no job before its finding was put under review,
\* so startAutomaticVerification never overwrites the verdict of its scan.
JobFollowsSubmission ==
    \A r \in Request :
        req[r].pc \in {"startVerification", "enqueue"} =>
            /\ scanStatus[req[r].scan] = "QUEUED"
            /\ req[r].scan # worker.scan
            /\ \A i \in DOMAIN queue : queue[i] # req[r].scan

\* The comment on the table: OPEN is left by an assignment and by nothing else.
OpenOnlyAssigned ==
    [][\A f \in Finding :
          status[f] = "OPEN" => status'[f] \in {"OPEN", "ASSIGNED"}]_vars

\* Evidence becomes AUTO_VERIFIED only by a scan of that very evidence that
\* is COMPLETED and did not show the condition again.
VerdictOfCompletedScan ==
    [][\A f \in Finding : \A i \in DOMAIN evidence[f] :
          /\ evidence[f][i].verification # "AUTO_VERIFIED"
          /\ evidence'[f][i].verification = "AUTO_VERIFIED"
          => /\ scanStatus[worker.scan] = "COMPLETED" /\ ~worker.failing
             /\ verifiesFinding[worker.scan] = f
             /\ verifiesEvidence[worker.scan] = i]_vars

\* Without overlapping uploads the versions of a finding's evidence are
\* 1, 2, 3, ...: a count, not a sequence in the database, provides them.
VersionsSequential ==
    \A f \in Finding : \A i \in DOMAIN evidence[f] : evidence[f][i].version = i

\* A scan row that exists is eventually COMPLETED or FAILED.
ScanSettles ==
    \A s \in ScanId :
        scanStatus[s] = "QUEUED" ~> scanStatus[s] \in {"COMPLETED", "FAILED"}

\* With automatic verification only, a finding does not wait in review.
AutomaticReviewEnds ==
    \A f \in Finding : status[f] = "UNDER_REVIEW" ~> status[f] # "UNDER_REVIEW"

Lifecycle == INSTANCE FindingLifecycle WITH
    stage <- status, evidenced <- [f \in Finding |-> evidence[f] # <<>>]

\* With manual verification and no two handlers overlapping, the service
\* implements the documented lifecycle.
ImplementsLifecycle == Lifecycle!Spec
=============================================================================
