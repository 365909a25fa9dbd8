--------------------------- MODULE FindingsProofs ---------------------------
(***************************************************************************)
(* Proofs about Findings, for every set of users, findings, scans and      *)
(* request slots, with and without faults.                                 *)
(***************************************************************************)
EXTENDS Findings, TLAPS

-----------------------------------------------------------------------------
(* Type correctness *)

LEMMA InitTypes == Init => TypeOK
<1> SUFFICES ASSUME Init PROVE TypeOK
    OBVIOUS
<1>1. RowTypes
    BY DEF Init, RowTypes
<1>2. JobTypes
    BY DEF Init, JobTypes, WorkerRecord, WorkerPC, IdleWorker
<1>3. RequestTypes
    BY DEF Init, RequestTypes, RequestRecord, RequestPC, Idle, CarriesIds
<1> QED
    BY <1>1, <1>2, <1>3 DEF TypeOK

LEMMA FinishTypes ==
    ASSUME RequestTypes, NEW r \in Request, Finish(r)
    PROVE  RequestTypes'
<1>1. Idle \in RequestRecord /\ CarriesIds(Idle)
    BY DEF Idle, RequestRecord, RequestPC, CarriesIds
<1> QED
    BY <1>1 DEF RequestTypes, Finish

LEMMA GotoTypes ==
    ASSUME RequestTypes, NEW r \in Request, NEW pc \in RequestPC, Goto(r, pc),
           CarriesIds([req[r] EXCEPT !.pc = pc])
    PROVE  RequestTypes'
<1> DEFINE x == [req[r] EXCEPT !.pc = pc]
<1>1. x \in RequestRecord
    BY DEF RequestTypes, RequestRecord
<1>2. req' = [req EXCEPT ![r] = x]
    BY DEF Goto
<1> HIDE DEF x
<1>3. CarriesIds(x)
    BY DEF x
<1> QED
    BY <1>1, <1>2, <1>3 DEF RequestTypes

LEMMA BeginTypes ==
    ASSUME RequestTypes, NEW r \in Request, NEW pc \in RequestPC, NEW f \in Finding,
           NEW to \in FindingStatus \cup {None}, NEW v \in User \cup {None},
           Begin(r, pc, f, to, v),
           CarriesIds([Idle EXCEPT !.pc = pc, !.finding = f, !.to = to, !.target = v])
    PROVE  RequestTypes'
<1> DEFINE x == [Idle EXCEPT !.pc = pc, !.finding = f, !.to = to, !.target = v]
<1>1. x \in RequestRecord
    BY DEF RequestRecord, Idle
<1>2. req' = [req EXCEPT ![r] = x]
    BY DEF Begin
<1> HIDE DEF x
<1>3. CarriesIds(x)
    BY DEF x
<1> QED
    BY <1>1, <1>2, <1>3 DEF RequestTypes

LEMMA VerifyTypes ==
    ASSUME RowTypes, NEW f \in Finding, NEW i \in Nat,
           NEW verdict \in {"APPROVED", "REJECTED", "AUTO_VERIFIED", "VERIFICATION_FAILED"},
           Verify(f, i, verdict)
    PROVE  /\ evidence' \in [Finding -> Seq(EvidenceRow)]
           /\ \A g \in Finding : Len(evidence'[g]) = Len(evidence[g])
<1>1. CASE i = 0
    BY <1>1 DEF Verify, RowTypes
<1>2. CASE i # 0
  <2> DEFINE new == [evidence[f] EXCEPT ![i].verification = verdict]
  <2>1. evidence[f] \in Seq(EvidenceRow)
    BY DEF RowTypes
  <2>2. ASSUME NEW j \in 1 .. Len(evidence[f]) PROVE new[j] \in EvidenceRow
    <3>1. evidence[f][j] \in EvidenceRow
      BY <2>1
    <3>2. [evidence[f][j] EXCEPT !.verification = verdict] \in EvidenceRow
      BY <3>1 DEF EvidenceRow
    <3>3. new[j] = IF j = i THEN [evidence[f][j] EXCEPT !.verification = verdict]
                   ELSE evidence[f][j]
      BY <2>1
    <3> QED
      BY <3>1, <3>2, <3>3
  <2>3. /\ DOMAIN new = 1 .. Len(evidence[f])
        /\ Len(evidence[f]) \in Nat
        /\ new = [j \in 1 .. Len(evidence[f]) |-> new[j]]
    BY <2>1
  <2>5. new \in Seq(EvidenceRow) /\ Len(new) = Len(evidence[f])
    <3> HIDE DEF new
    <3> QED
      BY <2>2, <2>3
  <2>4. evidence' = [evidence EXCEPT ![f] = new]
    BY <1>2 DEF Verify
  <2> HIDE DEF new
  <2> QED
    BY <2>5, <2>4 DEF RowTypes
<1> QED
    BY <1>1, <1>2

LEMMA RowFrame ==
    ASSUME RowTypes, UNCHANGED <<findingVars, evidence, scanVars, mode>>
    PROVE  RowTypes'
BY DEF RowTypes, findingVars, scanVars

LEMMA JobFrame ==
    ASSUME JobTypes, UNCHANGED <<jobVars, verifiesFinding>>
    PROVE  JobTypes'
BY DEF JobTypes, jobVars

\* The worker moves on to a step that needs no other id than it has.
LEMMA WorkerGotoTypes ==
    ASSUME JobTypes, NEW pc \in WorkerPC, WorkerGoto(pc), worker.pc # "idle",
           UNCHANGED <<queue, stalled, verifiesFinding>>,
           pc \in {"verify", "pass", "verifyFailure", "failureMode",
                   "sendBack", "fallback"} => verifiesFinding[worker.scan] \in Finding
    PROVE  JobTypes'
BY DEF JobTypes, WorkerGoto, WorkerRecord

LEMMA CallTypes ==
    ASSUME TypeOK, NEW r \in Request, NEW u \in User, Call(r, u)
    PROVE  TypeOK'
<1> USE DEF TypeOK
<1>1. ASSUME NEW f \in Finding, NEW v \in User, ReadAssign(r, u, f, v)
      PROVE  RequestTypes'
  <2>1. Begin(r, "assign", f, "ASSIGNED", v)
    BY <1>1 DEF ReadAssign
  <2> QED
    BY <2>1, BeginTypes DEF CarriesIds, Idle, RequestPC, FindingStatus
<1>2. ASSUME NEW f \in Finding, NEW to \in FindingStatus, ReadUpdateStatus(r, u, f, to)
      PROVE  RequestTypes'
  <2> DEFINE pc == IF to = "EVIDENCE_SUBMITTED" THEN "count" ELSE "status"
  <2>1. Begin(r, pc, f, to, None) /\ \E t \in FINDING_TRANSITIONS : to = t.to
    BY <1>2 DEF ReadUpdateStatus
  <2>2. pc \in RequestPC /\ pc \in {"count", "status"}
    BY DEF RequestPC
  <2> HIDE DEF pc
  <2>3. CarriesIds([Idle EXCEPT !.pc = pc, !.finding = f, !.to = to, !.target = None])
    BY <2>1, <2>2 DEF CarriesIds, Idle
  <2> QED
    BY <2>1, <2>2, <2>3, BeginTypes
<1>3. ASSUME NEW f \in Finding, NEW d \in {"APPROVE", "REJECT"}, ReadReview(r, u, f, d)
      PROVE  RequestTypes'
  <2> DEFINE to == IF d = "APPROVE" THEN "RESOLVED" ELSE "IN_PROGRESS"
  <2>1. Begin(r, "reviewEvidence", f, to, None)
    BY <1>3 DEF ReadReview
  <2>2. to \in {"RESOLVED", "IN_PROGRESS"}
    OBVIOUS
  <2> HIDE DEF to
  <2> QED
    BY <2>1, <2>2, BeginTypes DEF CarriesIds, Idle, RequestPC, FindingStatus
<1>4. ASSUME NEW f \in Finding, ReadConfirm(r, u, f)
      PROVE  RequestTypes'
  <2>1. Begin(r, "head", f, None, None)
    BY <1>4 DEF ReadConfirm
  <2> QED
    BY <2>1, BeginTypes DEF CarriesIds, Idle, RequestPC
<1>5. ASSUME ReadCreateScan(r, u)
      PROVE  RequestTypes'
  <2>1. [Idle EXCEPT !.pc = "newScan"] \in RequestRecord
    BY DEF Idle, RequestRecord, RequestPC
  <2>2. CarriesIds([Idle EXCEPT !.pc = "newScan"])
    BY DEF Idle, CarriesIds
  <2> QED
    BY <1>5, <2>1, <2>2 DEF ReadCreateScan, RequestTypes
<1>6. UNCHANGED <<findingVars, evidence, scanVars, mode, jobVars>>
  BY DEF Call, ReadAssign, ReadUpdateStatus, ReadReview, ReadConfirm, ReadCreateScan
<1>7. RowTypes' /\ JobTypes'
  BY <1>6, RowFrame, JobFrame DEF scanVars
<1> QED
  BY <1>1, <1>2, <1>3, <1>4, <1>5, <1>7 DEF Call

LEMMA ContinueTypes ==
    ASSUME TypeOK, NEW r \in Request, Continue(r)
    PROVE  TypeOK'
<1> USE DEF TypeOK
<1>0. req[r] \in RequestRecord /\ CarriesIds(req[r])
  BY DEF RequestTypes
<1>1. CASE CommitAssign(r)
  <2>1. RequestTypes'
    BY <1>1, FinishTypes DEF CommitAssign
  <2>2. RowTypes'
    BY <1>0, <1>1 DEF CommitAssign, WriteStatus, RowTypes, CarriesIds, scanVars, FindingStatus
  <2> QED
    BY <1>1, <2>1, <2>2, JobFrame DEF CommitAssign, scanVars
<1>2. CASE CountEvidence(r)
  <2>1. RequestTypes'
    BY <1>0, <1>2, FinishTypes, GotoTypes
       DEF CountEvidence, CarriesIds, RequestPC, RequestRecord
  <2> QED
    BY <1>2, <2>1, RowFrame, JobFrame DEF CountEvidence, scanVars
<1>3. CASE CommitStatus(r)
  <2>1. RequestTypes'
    BY <1>0, <1>3, FinishTypes, GotoTypes
       DEF CommitStatus, CarriesIds, RequestPC, RequestRecord
  <2>2. req[r].to \in FindingStatus
    BY <1>0, <1>3 DEF CommitStatus, CarriesIds, FINDING_TRANSITIONS, FindingStatus
  <2>3. RowTypes'
    BY <1>3, <2>2 DEF CommitStatus, WriteStatus, RowTypes, scanVars
  <2> QED
    BY <1>3, <2>1, <2>3, JobFrame DEF CommitStatus, scanVars
<1>4. CASE ReadMode(r)
  <2>1. RequestTypes'
    BY <1>0, <1>4, FinishTypes, GotoTypes
       DEF ReadMode, CarriesIds, RequestPC, RequestRecord
  <2> QED
    BY <1>4, <2>1, RowFrame, JobFrame DEF ReadMode, scanVars
<1>5. CASE ReadLatestForScan(r) \/ ReadLatestForReview(r) \/ CountVersions(r)
  <2> DEFINE n == Len(evidence[req[r].finding])
  <2>1. req[r].finding \in Finding /\ n \in Nat
    BY <1>0, <1>5 DEF ReadLatestForScan, ReadLatestForReview, CountVersions,
                      CarriesIds, RowTypes
  <2>2. PICK pc \in {"createScan", "decide", "store"} :
          /\ req' = [req EXCEPT ![r].pc = pc, ![r].seen = n]
          /\ pc = "decide" => req[r].pc = "reviewEvidence"
    BY <1>5 DEF ReadLatestForScan, ReadLatestForReview, CountVersions, LatestEvidence
  <2> HIDE DEF n
  <2> DEFINE x == [req[r] EXCEPT !.pc = pc, !.seen = n]
  <2>3. x \in RequestRecord /\ CarriesIds(x)
    BY <1>0, <2>1, <2>2 DEF RequestRecord, RequestPC, CarriesIds
  <2>4. req' = [req EXCEPT ![r] = x]
    BY <2>2
  <2> HIDE DEF x
  <2>5. RequestTypes'
    BY <2>3, <2>4 DEF RequestTypes
  <2> QED
    BY <1>5, <2>5, RowFrame, JobFrame
       DEF ReadLatestForScan, ReadLatestForReview, CountVersions, scanVars
<1>6. ASSUME NEW s \in ScanId, CreateVerificationScan(r, s) \/ CreateScan(r, s)
      PROVE  TypeOK'
  <2>1. PICK pc \in {"startVerification", "enqueue"} :
          /\ req' = [req EXCEPT ![r].pc = pc, ![r].scan = s]
          /\ pc = "startVerification" => req[r].pc = "createScan"
    BY <1>6 DEF CreateVerificationScan, CreateScan
  <2> DEFINE x == [req[r] EXCEPT !.pc = pc, !.scan = s]
  <2>2. x \in RequestRecord /\ CarriesIds(x)
    BY <1>0, <2>1 DEF RequestRecord, RequestPC, CarriesIds
  <2>3. req' = [req EXCEPT ![r] = x]
    BY <2>1
  <2> HIDE DEF x
  <2>4. RequestTypes'
    BY <2>2, <2>3 DEF RequestTypes
  <2>5. RowTypes' /\ JobTypes'
    <3>1. CASE CreateVerificationScan(r, s)
      <4>1. req[r].finding \in Finding /\ req[r].seen \in Nat
        BY <1>0, <3>1 DEF CreateVerificationScan, CarriesIds, RequestRecord
      <4>2. RowTypes'
        BY <3>1, <4>1 DEF CreateVerificationScan, RowTypes, findingVars, ScanStatus
      <4>3. JobTypes'
        BY <3>1, <4>1 DEF CreateVerificationScan, JobTypes, RowTypes, jobVars
      <4> QED
        BY <4>2, <4>3
    <3>2. CASE CreateScan(r, s)
      BY <3>2, JobFrame DEF CreateScan, RowTypes, findingVars, ScanStatus
    <3> QED
      BY <1>6, <3>1, <3>2
  <2> QED
    BY <2>4, <2>5
<1>7. CASE CommitStartVerification(r)
  <2>1. RequestTypes'
    BY <1>0, <1>7, GotoTypes DEF CommitStartVerification, CarriesIds, RequestPC, RequestRecord
  <2>2. RowTypes'
    BY <1>7 DEF CommitStartVerification, WriteStatus, RowTypes, scanVars, FindingStatus
  <2> QED
    BY <1>7, <2>1, <2>2, JobFrame DEF CommitStartVerification, scanVars
<1>8. CASE Enqueue(r)
  <2>1. RequestTypes'
    BY <1>8, FinishTypes DEF Enqueue
  <2>2. RowTypes'
    BY <1>8, RowFrame DEF Enqueue
  <2>3. JobTypes'
    BY <1>0, <1>8 DEF Enqueue, JobTypes, CarriesIds, scanVars
  <2> QED
    BY <2>1, <2>2, <2>3
<1>9. CASE CommitApprove(r) \/ CommitReject(r)
  <2>1. RequestTypes'
    BY <1>9, FinishTypes DEF CommitApprove, CommitReject
  <2>2. req[r].finding \in Finding /\ req[r].seen \in Nat
    BY <1>0, <1>9 DEF CommitApprove, CommitReject, CarriesIds, RequestRecord
  <2>3. evidence' \in [Finding -> Seq(EvidenceRow)]
    BY <1>9, <2>2, VerifyTypes DEF CommitApprove, CommitReject
  <2>4. RowTypes'
    BY <1>9, <2>3 DEF CommitApprove, CommitReject, WriteStatus, RowTypes, scanVars, FindingStatus
  <2> QED
    BY <1>9, <2>1, <2>4, JobFrame DEF CommitApprove, CommitReject, scanVars
<1>10. CASE HeadRejected(r)
  BY <1>10, FinishTypes, RowFrame, JobFrame DEF HeadRejected, scanVars
<1>11. CASE CommitEvidence(r)
  <2>1. RequestTypes'
    BY <1>11, FinishTypes DEF CommitEvidence
  <2>2. req[r].finding \in Finding /\ req[r].seen \in Nat
    BY <1>0, <1>11 DEF CommitEvidence, CarriesIds, RequestRecord
  <2>3. [version |-> req[r].seen + 1, verification |-> "PENDING"] \in EvidenceRow
    BY <2>2 DEF EvidenceRow
  <2>4. RowTypes'
    BY <1>11, <2>2, <2>3 DEF CommitEvidence, RowTypes, findingVars, scanVars
  <2> QED
    BY <1>11, <2>1, <2>4, JobFrame DEF CommitEvidence, scanVars
<1> QED
  BY <1>1, <1>2, <1>3, <1>4, <1>5, <1>6, <1>7, <1>8, <1>9, <1>10, <1>11 DEF Continue

LEMMA WorkTypes ==
    ASSUME TypeOK, Work
    PROVE  TypeOK'
<1> USE DEF TypeOK
<1>1. CASE PickUp
  <2>1. Head(queue) \in ScanId /\ Tail(queue) \in Seq(ScanId)
    BY <1>1 DEF PickUp, JobTypes
  <2>2. JobTypes'
    BY <1>1, <2>1 DEF PickUp, JobTypes, WorkerRecord, WorkerPC, scanVars
  <2> QED
    BY <1>1, <2>2, RowFrame DEF PickUp, RequestTypes
<1>2. CASE MarkRunning \/ MarkCompleted \/ MarkFailed
  <2>1. worker.scan \in ScanId
    BY <1>2 DEF MarkRunning, MarkCompleted, MarkFailed, JobTypes
  <2>2. RowTypes'
    BY <1>2, <2>1 DEF MarkRunning, MarkCompleted, MarkFailed, RowTypes, findingVars, ScanStatus
  <2>3. PICK pc \in {"scanning", "ack", "verify", "verifyFailure"} :
          /\ WorkerGoto(pc)
          /\ pc \in {"verify", "verifyFailure"} => verifiesFinding[worker.scan] # None
    BY <1>2 DEF MarkRunning, MarkCompleted, MarkFailed
  <2>4. pc \in {"verify", "verifyFailure"} => verifiesFinding[worker.scan] \in Finding
    BY <2>1, <2>3 DEF RowTypes
  <2>5. JobTypes'
    BY <1>2, <2>3, <2>4, WorkerGotoTypes
       DEF MarkRunning, MarkCompleted, MarkFailed, WorkerPC
  <2> QED
    BY <1>2, <2>2, <2>5 DEF MarkRunning, MarkCompleted, MarkFailed, RequestTypes
<1>3. ASSUME NEW rows \in SUBSET Finding, NEW failing \in BOOLEAN, ImportFindings(rows, failing)
      PROVE  TypeOK'
  <2>1. RowTypes'
    BY <1>3 DEF ImportFindings, RowTypes, scanVars, FindingStatus
  <2>2. JobTypes'
    BY <1>3 DEF ImportFindings, JobTypes, WorkerRecord, WorkerPC, scanVars
  <2> QED
    BY <1>3, <2>1, <2>2 DEF ImportFindings, RequestTypes
<1>4. CASE ScanError
  <2>1. JobTypes'
    BY <1>4, WorkerGotoTypes DEF ScanError, WorkerPC, scanVars
  <2> QED
    BY <1>4, <2>1, RowFrame DEF ScanError, RequestTypes
<1>5. CASE ReadVerified \/ ReadVerifiedAfterError \/ ReadFailureMode \/ LogFallback
  <2>1. PICK pc \in {"ack", "failureMode", "pass", "sendBack", "fallback"} : WorkerGoto(pc)
    BY <1>5 DEF ReadVerified, ReadVerifiedAfterError, ReadFailureMode, LogFallback
  <2>2. worker.pc # "idle" /\ verifiesFinding[worker.scan] \in Finding
    BY <1>5 DEF ReadVerified, ReadVerifiedAfterError, ReadFailureMode, LogFallback, JobTypes
  <2>3. JobTypes'
    BY <1>5, <2>1, <2>2, WorkerGotoTypes
       DEF ReadVerified, ReadVerifiedAfterError, ReadFailureMode, LogFallback, WorkerPC, scanVars
  <2> QED
    BY <1>5, <2>3, RowFrame
       DEF ReadVerified, ReadVerifiedAfterError, ReadFailureMode, LogFallback, RequestTypes
<1>6. CASE CommitPass \/ CommitSendBack
  <2>1. /\ worker.pc # "idle"
        /\ verifiesFinding[worker.scan] \in Finding
        /\ verifiesEvidence[worker.scan] \in Nat
    BY <1>6 DEF CommitPass, CommitSendBack, JobTypes, RowTypes
  <2>2. evidence' \in [Finding -> Seq(EvidenceRow)]
    BY <1>6, <2>1, VerifyTypes DEF CommitPass, CommitSendBack
  <2>3. RowTypes'
    BY <1>6, <2>1, <2>2
       DEF CommitPass, CommitSendBack, WriteStatus, RowTypes, scanVars, FindingStatus
  <2>4. WorkerGoto("ack") /\ UNCHANGED <<queue, stalled, verifiesFinding, req>>
    BY <1>6 DEF CommitPass, CommitSendBack, scanVars
  <2>5. JobTypes'
    BY <2>1, <2>4, WorkerGotoTypes DEF WorkerPC
  <2> QED
    BY <2>3, <2>4, <2>5 DEF RequestTypes
<1>7. CASE Acknowledge
  <2>1. JobTypes'
    BY <1>7 DEF Acknowledge, JobTypes, IdleWorker, WorkerRecord, WorkerPC
  <2> QED
    BY <1>7, <2>1, RowFrame DEF Acknowledge, RequestTypes
<1> QED
  BY <1>1, <1>2, <1>3, <1>4, <1>5, <1>6, <1>7 DEF Work

LEMMA FaultTypes ==
    ASSUME TypeOK,
           \/ \E r \in Request : Abort(r)
           \/ WorkerGivesUp
           \/ Restart
    PROVE  TypeOK'
<1> USE DEF TypeOK
<1>1. ASSUME NEW r \in Request, Abort(r)
      PROVE  TypeOK'
  BY <1>1, FinishTypes, RowFrame, JobFrame DEF Abort, scanVars
<1>2. CASE WorkerGivesUp
  <2>1. JobTypes'
    BY <1>2 DEF WorkerGivesUp, JobTypes, IdleWorker, WorkerRecord, WorkerPC
  <2> QED
    BY <1>2, <2>1, RowFrame DEF WorkerGivesUp, RequestTypes
<1>3. CASE Restart
  <2>1. queue' \in Seq(ScanId) /\ stalled' \in SUBSET ScanId
    <3>1. CASE worker.pc # "idle" /\ worker.scan \notin stalled
      <4>1. <<worker.scan>> \in Seq(ScanId)
        BY <3>1 DEF JobTypes
      <4>2. queue \in Seq(ScanId) /\ stalled \in SUBSET ScanId /\ worker.scan \in ScanId
        BY <3>1 DEF JobTypes
      <4>3. queue' = <<worker.scan>> \o queue /\ stalled' = stalled \cup {worker.scan}
        BY <1>3, <3>1 DEF Restart
      <4>4. <<worker.scan>> \o queue \in Seq(ScanId)
        BY <4>1, <4>2
      <4> QED
        BY <4>2, <4>3, <4>4
    <3>2. CASE ~(worker.pc # "idle" /\ worker.scan \notin stalled)
      BY <1>3, <3>2 DEF Restart, JobTypes
    <3> QED
      BY <3>1, <3>2
  <2>2. JobTypes'
    BY <1>3, <2>1 DEF Restart, JobTypes, IdleWorker, WorkerRecord, WorkerPC
  <2>3. RequestTypes'
    BY <1>3 DEF Restart, RequestTypes, Idle, RequestRecord, RequestPC, CarriesIds
  <2> QED
    BY <1>3, <2>2, <2>3, RowFrame DEF Restart
<1> QED
  BY <1>1, <1>2, <1>3

LEMMA NextTypes == TypeOK /\ [Next]_vars => TypeOK'
<1> SUFFICES ASSUME TypeOK, [Next]_vars
             PROVE  TypeOK'
  OBVIOUS
<1>1. ASSUME NEW u \in User, NEW m \in Modes, SetMode(u, m)
      PROVE  TypeOK'
  <2>1. RowTypes'
    BY <1>1 DEF SetMode, TypeOK, RowTypes, findingVars, scanVars
  <2> QED
    BY <1>1, <2>1, JobFrame DEF SetMode, TypeOK, RequestTypes, scanVars
<1>2. CASE UNCHANGED vars
  BY <1>2, RowFrame, JobFrame DEF vars, TypeOK, RequestTypes, scanVars
<1> QED
  BY <1>1, <1>2, CallTypes, ContinueTypes, WorkTypes, FaultTypes DEF Next

\* Type correctness: rows, jobs and requests keep their shape, and every step
\* finds the ids it uses, whatever the interleaving.
THEOREM TypeCorrectness == Spec => []TypeOK
BY InitTypes, NextTypes, PTL DEF Spec

-----------------------------------------------------------------------------
(* The evidence gate and the owner of work *)

\* What one step can do to a finding.
Effect(f) ==
    /\ evidence[f] # <<>> => evidence'[f] # <<>>
    /\ assignee[f] # None => assignee'[f] # None
    /\ status'[f] # status[f] =>
          \/ status[f] = "ABSENT" /\ status'[f] = "OPEN"
          \/ status'[f] = "ASSIGNED" /\ assignee'[f] # None
          \/ /\ \E r \in Request :
                   /\ req[r].finding = f
                   /\ \/ req[r].pc = "status" /\ req[r].to = status'[f]
                      \/ req[r].pc \in {"startVerification", "decide"}
             /\ status'[f] \in FindingStatus \ {"OPEN"}
          \/ /\ worker.pc \in {"pass", "sendBack"}
             /\ verifiesFinding[worker.scan] = f
             /\ status'[f] \in FindingStatus \ {"OPEN"}

LEMMA VerifyKeepsEvidence ==
    ASSUME RowTypes, NEW f \in Finding, NEW i \in Nat,
           NEW verdict \in {"APPROVED", "REJECTED", "AUTO_VERIFIED", "VERIFICATION_FAILED"},
           Verify(f, i, verdict), NEW g \in Finding, evidence[g] # <<>>
    PROVE  evidence'[g] # <<>>
<1>1. /\ evidence'[g] \in Seq(EvidenceRow) /\ evidence[g] \in Seq(EvidenceRow)
      /\ Len(evidence'[g]) = Len(evidence[g])
  BY VerifyTypes DEF RowTypes
<1> QED
  BY <1>1

LEMMA ContinueEffect ==
    ASSUME TypeOK, NEW r \in Request, Continue(r), NEW f \in Finding
    PROVE  Effect(f)
<1>0. RowTypes /\ req[r] \in RequestRecord /\ CarriesIds(req[r])
  BY DEF TypeOK, RequestTypes
<1>1. CASE CommitAssign(r)
  <2>1. req[r].target \in User /\ req[r].finding \in Finding
    BY <1>0, <1>1 DEF CommitAssign, CarriesIds
  <2> QED
    BY <1>0, <1>1, <2>1, NoneAssumption DEF CommitAssign, WriteStatus, Effect, RowTypes
<1>2. CASE CommitStatus(r)
  <2>1. req[r].finding \in Finding /\ req[r].to \in FindingStatus \ {"OPEN"}
    BY <1>0, <1>2 DEF CommitStatus, CarriesIds, FINDING_TRANSITIONS, FindingStatus
  <2> QED
    BY <1>0, <1>2, <2>1 DEF CommitStatus, WriteStatus, Effect, RowTypes
<1>3. CASE CommitStartVerification(r)
  <2>1. req[r].finding \in Finding
    BY <1>0, <1>3 DEF CommitStartVerification, CarriesIds
  <2> QED
    BY <1>0, <1>3, <2>1
       DEF CommitStartVerification, WriteStatus, Effect, RowTypes, FindingStatus
<1>4. CASE CommitApprove(r) \/ CommitReject(r)
  <2>1. req[r].finding \in Finding /\ req[r].seen \in Nat
    BY <1>0, <1>4 DEF CommitApprove, CommitReject, CarriesIds, RequestRecord
  <2>2. evidence[f] # <<>> => evidence'[f] # <<>>
    BY <1>0, <1>4, <2>1, VerifyKeepsEvidence DEF CommitApprove, CommitReject
  <2> QED
    BY <1>0, <1>4, <2>1, <2>2
       DEF CommitApprove, CommitReject, WriteStatus, Effect, RowTypes, FindingStatus
<1>5. CASE CommitEvidence(r)
  <2>1. req[r].finding \in Finding
    BY <1>0, <1>5 DEF CommitEvidence, CarriesIds
  <2>2. evidence[f] # <<>> => evidence'[f] # <<>>
    <3> DEFINE row == [version |-> req[r].seen + 1, verification |-> "PENDING"]
    <3>1. evidence' = [evidence EXCEPT ![req[r].finding] = Append(@, row)]
      BY <1>5 DEF CommitEvidence
    <3>3. row \in EvidenceRow
      BY <1>0, <1>5 DEF CommitEvidence, RequestRecord, EvidenceRow
    <3> HIDE DEF row
    <3>2. ASSUME NEW q \in Seq(EvidenceRow) PROVE Append(q, row) # <<>>
      <4>1. Len(Append(q, row)) = Len(q) + 1 /\ Len(q) \in Nat
        BY <3>3
      <4> QED
        BY <4>1
    <3> QED
      BY <1>0, <2>1, <3>1, <3>2 DEF RowTypes
  <2> QED
    BY <1>5, <2>2 DEF CommitEvidence, Effect, findingVars
<1>6. ASSUME UNCHANGED <<findingVars, evidence>>
      PROVE  Effect(f)
  BY <1>6 DEF Effect, findingVars
<1> QED
  BY <1>1, <1>2, <1>3, <1>4, <1>5, <1>6
     DEF Continue, CountEvidence, ReadMode, ReadLatestForScan, CreateVerificationScan,
         Enqueue, ReadLatestForReview, HeadRejected, CountVersions, CreateScan

LEMMA WorkEffect ==
    ASSUME TypeOK, Work, NEW f \in Finding
    PROVE  Effect(f)
<1>0. RowTypes /\ JobTypes
  BY DEF TypeOK
<1>1. ASSUME NEW rows \in SUBSET Finding, NEW failing \in BOOLEAN, ImportFindings(rows, failing)
      PROVE  Effect(f)
  BY <1>0, <1>1 DEF ImportFindings, Effect, RowTypes
<1>2. CASE CommitPass \/ CommitSendBack
  <2>1. /\ verifiesFinding[worker.scan] \in Finding
        /\ verifiesEvidence[worker.scan] \in Nat
    BY <1>0, <1>2 DEF CommitPass, CommitSendBack, JobTypes, RowTypes
  <2>2. evidence[f] # <<>> => evidence'[f] # <<>>
    BY <1>0, <1>2, <2>1, VerifyKeepsEvidence DEF CommitPass, CommitSendBack
  <2> QED
    BY <1>0, <1>2, <2>1, <2>2
       DEF CommitPass, CommitSendBack, WriteStatus, Effect, RowTypes, FindingStatus
<1>3. ASSUME UNCHANGED <<findingVars, evidence>>
      PROVE  Effect(f)
  BY <1>3 DEF Effect, findingVars
<1> QED
  BY <1>1, <1>2, <1>3
     DEF Work, PickUp, MarkRunning, ScanError, MarkCompleted, MarkFailed, ReadVerified,
         ReadVerifiedAfterError, ReadFailureMode, LogFallback, Acknowledge

LEMMA NextEffect ==
    ASSUME TypeOK, [Next]_vars, NEW f \in Finding
    PROVE  Effect(f)
<1>1. ASSUME UNCHANGED <<findingVars, evidence>>
      PROVE  Effect(f)
  BY <1>1 DEF Effect, findingVars
<1> QED
  BY <1>1, ContinueEffect, WorkEffect
     DEF Next, vars, Call, ReadAssign, ReadUpdateStatus, ReadReview, ReadConfirm,
         ReadCreateScan, SetMode, Abort, WorkerGivesUp, Restart

LEMMA InitWorkflow == Init => WorkflowInvariant
<1> SUFFICES ASSUME Init PROVE WorkflowInvariant
  OBVIOUS
<1>1. SubmittedHasEvidence /\ WorkHasOwner
  BY DEF Init, SubmittedHasEvidence, WorkHasOwner, Submitted, Started, FindingStatus
<1>2. SnapshotsHold
  BY DEF Init, SnapshotsHold, SnapshotHolds, Idle
<1> QED
  BY <1>1, <1>2, InitTypes DEF WorkflowInvariant

LEMMA StartedStays ==
    ASSUME WorkflowInvariant, [Next]_vars, NEW f \in Finding, Started(f)
    PROVE  Started(f)'
<1>1. Effect(f)
  BY NextEffect DEF WorkflowInvariant
<1> QED
  BY <1>1 DEF Effect, Started, FindingStatus

LEMMA GateStep ==
    ASSUME WorkflowInvariant, [Next]_vars
    PROVE  SubmittedHasEvidence'
<1> SUFFICES ASSUME NEW f \in Finding, status'[f] \in Submitted
             PROVE  evidence'[f] # <<>>
  BY DEF SubmittedHasEvidence
<1>1. Effect(f)
  BY NextEffect DEF WorkflowInvariant
<1>2. CASE status'[f] = status[f]
  BY <1>1, <1>2 DEF Effect, WorkflowInvariant, SubmittedHasEvidence
<1>3. ASSUME NEW r \in Request, req[r].finding = f,
             \/ req[r].pc = "status" /\ req[r].to = status'[f]
             \/ req[r].pc \in {"startVerification", "decide"}
      PROVE  evidence'[f] # <<>>
  BY <1>1, <1>3 DEF Effect, WorkflowInvariant, SnapshotsHold, SnapshotHolds
<1>4. ASSUME worker.pc \in {"pass", "sendBack"}, verifiesFinding[worker.scan] = f
      PROVE  evidence'[f] # <<>>
  BY <1>1, <1>4, NoneAssumption
     DEF Effect, WorkflowInvariant, SnapshotsHold, TypeOK, JobTypes
<1> QED
  BY <1>1, <1>2, <1>3, <1>4 DEF Effect, Submitted

LEMMA OwnerStep ==
    ASSUME WorkflowInvariant, [Next]_vars
    PROVE  WorkHasOwner'
<1> SUFFICES ASSUME NEW f \in Finding, Started(f)'
             PROVE  assignee'[f] # None
  BY DEF WorkHasOwner
<1>1. Effect(f)
  BY NextEffect DEF WorkflowInvariant
<1>2. CASE Started(f)
  BY <1>1, <1>2 DEF Effect, WorkflowInvariant, WorkHasOwner
<1>3. CASE ~Started(f)
  <2>1. status'[f] # status[f]
    BY <1>3 DEF Started
  <2>2. \A r \in Request :
          req[r].pc \in {"status", "startVerification", "decide"} => req[r].finding # f
    BY <1>3 DEF WorkflowInvariant, SnapshotsHold, SnapshotHolds
  <2>3. worker.pc \in {"pass", "sendBack"} => verifiesFinding[worker.scan] # f
    BY <1>3, NoneAssumption DEF WorkflowInvariant, SnapshotsHold, TypeOK, JobTypes
  <2> QED
    BY <1>1, <2>1, <2>2, <2>3 DEF Effect, Started
<1> QED
  BY <1>2, <1>3

\* What a handler's own step puts into its record is true when it does.
LEMMA OwnSnapshot ==
    ASSUME WorkflowInvariant, NEW r \in Request,
           Continue(r) \/ \E u \in User : Call(r, u)
    PROVE  SnapshotHolds(req[r])'
<1>0. /\ req \in [Request -> RequestRecord] /\ CarriesIds(req[r])
      /\ SnapshotHolds(req[r])
      /\ status \in [Finding -> FindingStatus \cup {"ABSENT"}]
  BY DEF WorkflowInvariant, TypeOK, RequestTypes, SnapshotsHold, RowTypes
<1>1. ASSUME Finish(r)
      PROVE  SnapshotHolds(req[r])'
  BY <1>0, <1>1 DEF Finish, Idle, SnapshotHolds
<1>2. CASE CountEvidence(r)
  BY <1>0, <1>1, <1>2 DEF CountEvidence, Goto, SnapshotHolds, RequestRecord, Started, findingVars
<1>3. CASE CommitStatus(r)
  <2>1. CASE req[r].to = "EVIDENCE_SUBMITTED"
    <3>1. req' = [req EXCEPT ![r].pc = "mode"] /\ evidence' = evidence
      BY <1>3, <2>1 DEF CommitStatus, Goto
    <3>2. evidence[req[r].finding] # <<>>
      BY <1>0, <1>3, <2>1 DEF CommitStatus, SnapshotHolds, Submitted
    <3>3. req'[r].pc = "mode" /\ req'[r].finding = req[r].finding
      BY <1>0, <3>1 DEF RequestRecord
    <3>4. status'[req[r].finding] = "EVIDENCE_SUBMITTED"
      BY <1>0, <1>3, <2>1 DEF CommitStatus, WriteStatus, CarriesIds
    <3> QED
      BY <3>1, <3>2, <3>3, <3>4 DEF SnapshotHolds, Started, FindingStatus
  <2> QED
    BY <1>1, <1>3, <2>1 DEF CommitStatus
<1>4. CASE ReadMode(r) \/ ReadLatestForScan(r) \/ ReadLatestForReview(r)
           \/ CountVersions(r) \/ (\E s \in ScanId : CreateVerificationScan(r, s))
           \/ (\E s \in ScanId : CreateScan(r, s))
  BY <1>0, <1>1, <1>4
     DEF ReadMode, ReadLatestForScan, ReadLatestForReview, CountVersions,
         CreateVerificationScan, CreateScan, Goto, SnapshotHolds, RequestRecord,
         Started, findingVars
<1>5. CASE CommitStartVerification(r)
  BY <1>0, <1>5 DEF CommitStartVerification, Goto, SnapshotHolds, RequestRecord
<1>6. ASSUME NEW u \in User, NEW f \in Finding, NEW to \in FindingStatus,
             ReadUpdateStatus(r, u, f, to)
      PROVE  SnapshotHolds(req[r])'
  <2> DEFINE pc == IF to = "EVIDENCE_SUBMITTED" THEN "count" ELSE "status"
             x == [Idle EXCEPT !.pc = pc, !.finding = f, !.to = to, !.target = None]
  <2>1. PICK t \in FINDING_TRANSITIONS : t.from = status[f] /\ t.to = to
    BY <1>6 DEF ReadUpdateStatus
  <2>2. Started(f) /\ (to = "UNDER_REVIEW" => status[f] = "EVIDENCE_SUBMITTED")
        /\ to \in {"IN_PROGRESS", "EVIDENCE_SUBMITTED", "UNDER_REVIEW"}
    BY <2>1 DEF FINDING_TRANSITIONS, Started, FindingStatus
  <2>3. SnapshotHolds(x)
    BY <2>2 DEF SnapshotHolds, Idle, WorkflowInvariant, SubmittedHasEvidence, Submitted
  <2>4. req' = [req EXCEPT ![r] = x] /\ status' = status /\ evidence' = evidence
    BY <1>6 DEF ReadUpdateStatus, Begin, findingVars
  <2> HIDE DEF x
  <2> QED
    BY <1>0, <2>3, <2>4 DEF SnapshotHolds, Started
<1>7. ASSUME NEW u \in User, NEW f \in Finding, NEW d \in {"APPROVE", "REJECT"},
             ReadReview(r, u, f, d)
      PROVE  SnapshotHolds(req[r])'
  <2>1. Started(f) /\ evidence[f] # <<>>
    BY <1>7 DEF ReadReview, Started, FindingStatus, WorkflowInvariant,
                SubmittedHasEvidence, Submitted
  <2> QED
    BY <1>0, <1>7, <2>1
       DEF ReadReview, Begin, SnapshotHolds, Idle, Started, findingVars
<1>8. ASSUME NEW u \in User,
             \/ \E f \in Finding, v \in User : ReadAssign(r, u, f, v)
             \/ \E f \in Finding : ReadConfirm(r, u, f)
             \/ ReadCreateScan(r, u)
      PROVE  SnapshotHolds(req[r])'
  <2>1. req'[r].pc \in {"assign", "head", "newScan"}
    BY <1>0, <1>8 DEF ReadAssign, ReadConfirm, ReadCreateScan, Begin, Idle
  <2> QED
    BY <2>1 DEF SnapshotHolds
<1> QED
  BY <1>1, <1>2, <1>3, <1>4, <1>5, <1>6, <1>7, <1>8
     DEF Continue, Call, CommitAssign, Enqueue, CommitApprove, CommitReject,
         HeadRejected, CommitEvidence

\* A snapshot another step leaves alone stays true: findings stay started and
\* evidence is never taken away.
LEMMA SnapshotsStep ==
    ASSUME WorkflowInvariant, [Next]_vars
    PROVE  SnapshotsHold'
<1>0. /\ req \in [Request -> RequestRecord] /\ \A r \in Request : CarriesIds(req[r])
      /\ verifiesFinding \in [ScanId -> Finding \cup {None}]
      /\ SnapshotsHold
  BY DEF WorkflowInvariant, TypeOK, RequestTypes, RowTypes
<1>1. \A f \in Finding : /\ Started(f) => Started(f)'
                         /\ evidence[f] # <<>> => evidence'[f] # <<>>
  BY StartedStays, NextEffect DEF WorkflowInvariant, Effect
<1>2. ASSUME NEW r \in Request, req'[r] = req[r]
      PROVE  SnapshotHolds(req[r])'
  <2>1. SnapshotHolds(req[r]) /\ CarriesIds(req[r])
    BY <1>0 DEF SnapshotsHold
  <2> QED
    BY <1>1, <1>2, <2>1 DEF SnapshotHolds, CarriesIds, Started
<1>3. ASSUME NEW r \in Request, req'[r] = Idle
      PROVE  SnapshotHolds(req[r])'
  BY <1>3 DEF SnapshotHolds, Idle
<1>4. ASSUME NEW r \in Request, Continue(r) \/ \E u \in User : Call(r, u)
      PROVE  \A q \in Request : SnapshotHolds(req[q])'
  <2>1. \A q \in Request \ {r} : req'[q] = req[q]
    BY <1>0, <1>4
       DEF Continue, Call, Finish, Goto, Begin, CommitAssign, CountEvidence, CommitStatus,
           ReadMode, ReadLatestForScan, CreateVerificationScan, CommitStartVerification,
           Enqueue, ReadLatestForReview, CommitApprove, CommitReject, HeadRejected,
           CountVersions, CommitEvidence, CreateScan, ReadAssign, ReadUpdateStatus,
           ReadReview, ReadConfirm, ReadCreateScan
  <2> QED
    BY <1>2, <1>4, <2>1, OwnSnapshot
<1>5. ASSUME \/ \E r \in Request : Abort(r)
             \/ Restart
      PROVE  \A q \in Request : SnapshotHolds(req[q])'
  <2>1. \A q \in Request : req'[q] = req[q] \/ req'[q] = Idle
    BY <1>0, <1>5 DEF Abort, Restart, Finish
  <2> QED
    BY <1>2, <1>3, <2>1
<1>6. ASSUME req' = req
      PROVE  \A q \in Request : SnapshotHolds(req[q])'
  BY <1>2, <1>6
<1>7. \A q \in Request : SnapshotHolds(req[q])'
  BY <1>4, <1>5, <1>6
     DEF Next, vars, SetMode, Work, PickUp, MarkRunning, ImportFindings, ScanError,
         MarkCompleted, MarkFailed, ReadVerified, ReadVerifiedAfterError, CommitPass,
         ReadFailureMode, CommitSendBack, LogFallback, Acknowledge, WorkerGivesUp
<1>8. ASSUME NEW s \in ScanId, verifiesFinding'[s] # None
      PROVE  /\ Started(verifiesFinding[s])'
             /\ evidence'[verifiesFinding'[s]] # <<>>
  <2>1. CASE verifiesFinding'[s] = verifiesFinding[s]
    <3>1. verifiesFinding[s] \in Finding /\ Started(verifiesFinding[s])
          /\ evidence[verifiesFinding[s]] # <<>>
      BY <1>0, <1>8, <2>1 DEF SnapshotsHold
    <3> QED
      BY <1>1, <2>1, <3>1 DEF Started
  <2>2. ASSUME NEW r \in Request, CreateVerificationScan(r, s)
        PROVE  /\ Started(verifiesFinding[s])'
               /\ evidence'[verifiesFinding'[s]] # <<>>
    <3>1. req[r].finding \in Finding /\ Started(req[r].finding)
          /\ evidence[req[r].finding] # <<>>
      BY <1>0, <2>2 DEF CreateVerificationScan, CarriesIds, SnapshotsHold, SnapshotHolds
    <3>2. verifiesFinding'[s] = req[r].finding
      BY <1>0, <2>2 DEF CreateVerificationScan
    <3> QED
      BY <1>1, <3>1, <3>2 DEF Started
  <2>3. \/ verifiesFinding'[s] = verifiesFinding[s]
        \/ \E r \in Request : CreateVerificationScan(r, s)
    <3>1. ASSUME NEW r \in Request, NEW q \in ScanId, CreateVerificationScan(r, q)
          PROVE  verifiesFinding'[s] = verifiesFinding[s] \/ q = s
      BY <1>0, <3>1 DEF CreateVerificationScan
    <3>2. ASSUME NEW r \in Request, Continue(r)
          PROVE  \/ verifiesFinding' = verifiesFinding
                 \/ \E q \in ScanId : CreateVerificationScan(r, q)
      BY <3>2
         DEF scanVars, Continue, CommitAssign, CountEvidence, CommitStatus, ReadMode,
             ReadLatestForScan, CommitStartVerification, Enqueue, ReadLatestForReview,
             CommitApprove, CommitReject, HeadRejected, CountVersions, CommitEvidence,
             CreateScan
    <3>3. ASSUME NEW r \in Request, NEW u \in User, Call(r, u)
          PROVE  verifiesFinding' = verifiesFinding
      BY <3>3
         DEF scanVars, Call, ReadAssign, ReadUpdateStatus, ReadReview, ReadConfirm,
             ReadCreateScan
    <3>4. ASSUME Work
          PROVE  verifiesFinding' = verifiesFinding
      BY <3>4
         DEF scanVars, Work, PickUp, MarkRunning, ImportFindings, ScanError,
             MarkCompleted, MarkFailed, ReadVerified, ReadVerifiedAfterError,
             CommitPass, ReadFailureMode, CommitSendBack, LogFallback, Acknowledge
    <3>5. \/ verifiesFinding' = verifiesFinding
          \/ \E r \in Request, q \in ScanId : CreateVerificationScan(r, q)
      BY <3>2, <3>3, <3>4
         DEF Next, vars, scanVars, SetMode, WorkerGivesUp, Abort, Restart
    <3> QED
      BY <3>1, <3>5
  <2> QED
    BY <2>1, <2>2, <2>3
<1> QED
  BY <1>7, <1>8 DEF SnapshotsHold

LEMMA NextWorkflow == WorkflowInvariant /\ [Next]_vars => WorkflowInvariant'
BY NextTypes, GateStep, OwnerStep, SnapshotsStep DEF WorkflowInvariant

\* The strengthened invariant holds in every state of every instance.
THEOREM WorkflowInvariance == Spec => []WorkflowInvariant
BY InitWorkflow, NextWorkflow, PTL DEF Spec

\* Nothing is submitted, under review or resolved without evidence, for any
\* number of overlapping requests, faults and redelivered jobs.
THEOREM EvidenceGate == Spec => []SubmittedHasEvidence
<1>1. WorkflowInvariant => SubmittedHasEvidence
  BY DEF WorkflowInvariant
<1> QED
  BY <1>1, WorkflowInvariance, PTL

\* A finding that left OPEN always has an assignee.
THEOREM OwnedWork == Spec => []WorkHasOwner
<1>1. WorkflowInvariant => WorkHasOwner
  BY DEF WorkflowInvariant
<1> QED
  BY <1>1, WorkflowInvariance, PTL

\* No stale write takes a finding out of OPEN: only an assignment does.
THEOREM OpenByAssignment == Spec => OpenOnlyAssigned
<1>1. ASSUME WorkflowInvariant, [Next]_vars, NEW f \in Finding, status[f] = "OPEN"
      PROVE  status'[f] \in {"OPEN", "ASSIGNED"}
  <2>1. Effect(f)
    BY <1>1, NextEffect DEF WorkflowInvariant
  <2>2. ~Started(f)
    BY <1>1 DEF Started
  <2>3. \A r \in Request :
          req[r].pc \in {"status", "startVerification", "decide"} => req[r].finding # f
    BY <1>1, <2>2 DEF WorkflowInvariant, SnapshotsHold, SnapshotHolds
  <2>4. worker.pc \in {"pass", "sendBack"} => verifiesFinding[worker.scan] # f
    BY <1>1, <2>2, NoneAssumption DEF WorkflowInvariant, SnapshotsHold, TypeOK, JobTypes
  <2> QED
    BY <1>1, <2>1, <2>3, <2>4 DEF Effect
<1>2. WorkflowInvariant /\ [Next]_vars =>
        [\A f \in Finding : status[f] = "OPEN" => status'[f] \in {"OPEN", "ASSIGNED"}]_vars
  BY <1>1
<1> QED
  BY <1>2, WorkflowInvariance, PTL DEF Spec, OpenOnlyAssigned
-----------------------------------------------------------------------------
(* Resolutions *)

\* Writes of columns that are read by id, in whatever order they land.
LEMMA ResolutionStep ==
    ASSUME TypeOK, ResolutionIsRecorded, [Next]_vars
    PROVE  ResolutionIsRecorded'
<1>0. /\ status \in [Finding -> FindingStatus \cup {"ABSENT"}]
      /\ resolvedAt \in [Finding -> BOOLEAN] /\ rejectionReason \in [Finding -> BOOLEAN]
      /\ \A r \in Request : CarriesIds(req[r])
      /\ JobTypes
  BY DEF TypeOK, RowTypes, RequestTypes
<1>1. ASSUME NEW f \in Finding, status'[f] = "RESOLVED" => status[f] = "RESOLVED",
             resolvedAt'[f] = resolvedAt[f], rejectionReason'[f] = rejectionReason[f]
      PROVE  status'[f] = "RESOLVED" => resolvedAt'[f] /\ ~rejectionReason'[f]
  BY <1>1 DEF ResolutionIsRecorded
<1>2. ASSUME NEW r \in Request, CommitApprove(r) PROVE ResolutionIsRecorded'
  <2>1. req[r].finding \in Finding
    BY <1>0, <1>2 DEF CommitApprove, CarriesIds
  <2> QED
    BY <1>0, <1>1, <1>2, <2>1 DEF CommitApprove, WriteStatus, ResolutionIsRecorded
<1>3. ASSUME NEW r \in Request, CommitReject(r) PROVE ResolutionIsRecorded'
  <2>1. req[r].finding \in Finding
    BY <1>0, <1>3 DEF CommitReject, CarriesIds
  <2> QED
    BY <1>0, <1>1, <1>3, <2>1 DEF CommitReject, WriteStatus, ResolutionIsRecorded
<1>4. CASE CommitPass
  <2>1. verifiesFinding[worker.scan] \in Finding
    BY <1>0, <1>4 DEF CommitPass, JobTypes
  <2> QED
    BY <1>0, <1>1, <1>4, <2>1 DEF CommitPass, WriteStatus, ResolutionIsRecorded
<1>5. CASE CommitSendBack
  <2>1. verifiesFinding[worker.scan] \in Finding
    BY <1>0, <1>5 DEF CommitSendBack, JobTypes
  <2> QED
    BY <1>0, <1>1, <1>5, <2>1 DEF CommitSendBack, WriteStatus, ResolutionIsRecorded
<1>6. ASSUME NEW r \in Request, CommitAssign(r) \/ CommitStatus(r) \/ CommitStartVerification(r)
      PROVE  ResolutionIsRecorded'
  <2>1. /\ req[r].finding \in Finding
        /\ req[r].pc = "status" => req[r].to # "RESOLVED"
    BY <1>0, <1>6 DEF CommitAssign, CommitStatus, CommitStartVerification, CarriesIds,
                      FINDING_TRANSITIONS
  <2>2. /\ UNCHANGED <<resolvedAt, rejectionReason>>
        /\ \A f \in Finding : status'[f] = "RESOLVED" => status[f] = "RESOLVED"
    BY <1>0, <1>6, <2>1 DEF CommitAssign, CommitStatus, CommitStartVerification, WriteStatus
  <2> QED
    BY <1>1, <2>2 DEF ResolutionIsRecorded
<1>7. ASSUME NEW rows \in SUBSET Finding, NEW failing \in BOOLEAN, ImportFindings(rows, failing)
      PROVE  ResolutionIsRecorded'
  BY <1>1, <1>7 DEF ImportFindings, ResolutionIsRecorded
<1>8. ASSUME UNCHANGED findingVars PROVE ResolutionIsRecorded'
  BY <1>8 DEF findingVars, ResolutionIsRecorded
<1>9. ASSUME NEW r \in Request, Continue(r) PROVE ResolutionIsRecorded'
  BY <1>2, <1>3, <1>6, <1>8, <1>9
     DEF Continue, CountEvidence, ReadMode, ReadLatestForScan, CreateVerificationScan,
         Enqueue, ReadLatestForReview, HeadRejected, CountVersions, CommitEvidence, CreateScan
<1>10. ASSUME NEW r \in Request, NEW u \in User, Call(r, u) PROVE ResolutionIsRecorded'
  BY <1>8, <1>10 DEF Call, ReadAssign, ReadUpdateStatus, ReadReview, ReadConfirm, ReadCreateScan
<1>11. CASE Work
  BY <1>4, <1>5, <1>7, <1>8, <1>11
     DEF Work, PickUp, MarkRunning, ScanError, MarkCompleted, MarkFailed, ReadVerified,
         ReadVerifiedAfterError, ReadFailureMode, LogFallback, Acknowledge
<1> QED
  BY <1>8, <1>9, <1>10, <1>11 DEF Next, vars, SetMode, Abort, WorkerGivesUp, Restart

\* A resolved finding shows its resolution date and no rejection reason.
THEOREM RecordedResolution == Spec => []ResolutionIsRecorded
<1>1. Init => ResolutionIsRecorded
  BY DEF Init, ResolutionIsRecorded
<1>2. TypeOK /\ ResolutionIsRecorded /\ [Next]_vars => ResolutionIsRecorded'
  BY ResolutionStep
<1> QED
  BY <1>1, <1>2, TypeCorrectness, PTL DEF Spec

-----------------------------------------------------------------------------
(* Jobs of verification scans *)

\* The steps in which a handler holds a scan row whose job is not queued yet.
Holding == {"startVerification", "enqueue"}

\* Every such row belongs to one handler, and what the queue and the worker
\* have are rows that exist, so a new row is none of theirs.
JobInvariant ==
    /\ JobFollowsSubmission
    /\ \A r, q \in Request :
          req[r].pc \in Holding /\ req[q].pc \in Holding /\ r # q =>
              req[r].scan # req[q].scan
    /\ \A i \in DOMAIN queue : scanStatus[queue[i]] # "ABSENT"
    /\ worker.scan # None => scanStatus[worker.scan] # "ABSENT"
    /\ worker.pc # "idle" => worker.scan # None

LEMMA InitJobs == Init => JobInvariant
BY DEF Init, JobInvariant, JobFollowsSubmission, Holding, Idle, IdleWorker

\* A step that leaves rows, queue and the job in hand alone.
LEMMA JobsFrame ==
    ASSUME JobInvariant, UNCHANGED <<scanStatus, queue>>,
           worker'.scan = worker.scan, worker.pc = "idle" => worker'.pc = "idle",
           \A r \in Request : req'[r].pc \in Holding =>
               req[r].pc \in Holding /\ req'[r].scan = req[r].scan
    PROVE  JobInvariant'
BY DEF JobInvariant, JobFollowsSubmission, Holding

\* The worker marks the row of its own job, which no handler holds.
LEMMA JobsMark ==
    ASSUME TypeOK, JobInvariant, NEW v \in ScanStatus,
           worker.pc # "idle", worker'.scan = worker.scan,
           scanStatus' = [scanStatus EXCEPT ![worker.scan] = v],
           UNCHANGED <<queue, req>>
    PROVE  JobInvariant'
<1>1. scanStatus \in [ScanId -> ScanStatus \cup {"ABSENT"}] /\ worker.scan \in ScanId
  BY DEF TypeOK, RowTypes, JobTypes
<1>2. v # "ABSENT"
  BY DEF ScanStatus
<1>3. /\ scanStatus'[worker.scan] # "ABSENT"
      /\ \A s : s # worker.scan => scanStatus'[s] = scanStatus[s]
  BY <1>1, <1>2
<1>4. \A i \in DOMAIN queue : scanStatus'[queue[i]] # "ABSENT"
  BY <1>3 DEF JobInvariant
<1>5. JobFollowsSubmission'
  BY <1>3 DEF JobInvariant, JobFollowsSubmission
<1> QED
  BY <1>3, <1>4, <1>5 DEF JobInvariant

\* A handler takes a row that did not exist.
LEMMA JobsCreate ==
    ASSUME TypeOK, JobInvariant, NEW r \in Request, NEW s \in ScanId,
           CreateVerificationScan(r, s) \/ CreateScan(r, s)
    PROVE  JobInvariant'
<1>1. /\ scanStatus \in [ScanId -> ScanStatus \cup {"ABSENT"}]
      /\ req \in [Request -> RequestRecord]
  BY DEF TypeOK, RowTypes, RequestTypes
<1>2. /\ scanStatus[s] = "ABSENT" /\ scanStatus' = [scanStatus EXCEPT ![s] = "QUEUED"]
      /\ UNCHANGED <<queue, worker>>
  BY DEF CreateVerificationScan, CreateScan, jobVars
<1>3. /\ req'[r].scan = s
      /\ \A q \in Request \ {r} : req'[q] = req[q]
  <2>1. PICK pc \in Holding : req' = [req EXCEPT ![r].pc = pc, ![r].scan = s]
    BY DEF CreateVerificationScan, CreateScan, Holding
  <2> QED
    BY <1>1, <2>1 DEF RequestRecord
<1>4. /\ scanStatus'[s] = "QUEUED"
      /\ \A t : t # s => scanStatus'[t] = scanStatus[t]
  BY <1>1, <1>2
<1>5. /\ worker.scan # None => worker.scan # s
      /\ \A i \in DOMAIN queue : queue[i] # s
      /\ \A q \in Request : req[q].pc \in Holding => req[q].scan # s
  BY <1>2 DEF JobInvariant, JobFollowsSubmission, Holding
<1>6. s # None
  BY NoneAssumption
<1>7. JobFollowsSubmission'
  <2> SUFFICES ASSUME NEW q \in Request, req'[q].pc \in Holding
               PROVE  /\ scanStatus'[req'[q].scan] = "QUEUED"
                      /\ req'[q].scan # worker.scan
                      /\ \A i \in DOMAIN queue : queue[i] # req'[q].scan
    BY <1>2 DEF JobFollowsSubmission, Holding
  <2>1. CASE q = r
    BY <1>3, <1>4, <1>5, <1>6, <2>1
  <2>2. CASE q # r
    BY <1>3, <1>4, <1>5, <2>2 DEF JobInvariant, JobFollowsSubmission, Holding
  <2> QED
    BY <2>1, <2>2
<1>8. \A p, q \in Request :
        req'[p].pc \in Holding /\ req'[q].pc \in Holding /\ p # q =>
            req'[p].scan # req'[q].scan
  BY <1>3, <1>5 DEF JobInvariant
<1>9. \A i \in DOMAIN queue : scanStatus'[queue[i]] # "ABSENT"
  BY <1>4, <1>5 DEF JobInvariant
<1>10. worker.scan # None => scanStatus'[worker.scan] # "ABSENT"
  BY <1>4, <1>5 DEF JobInvariant
<1> QED
  BY <1>2, <1>7, <1>8, <1>9, <1>10 DEF JobInvariant

\* A handler hands its row over to the queue.
LEMMA JobsEnqueue ==
    ASSUME TypeOK, JobInvariant, NEW r \in Request, Enqueue(r)
    PROVE  JobInvariant'
<1>1. /\ queue \in Seq(ScanId) /\ req[r].scan \in ScanId
      /\ req \in [Request -> RequestRecord]
  BY DEF TypeOK, JobTypes, RequestTypes, CarriesIds, Enqueue
<1>2. /\ req[r].pc \in Holding /\ req'[r].pc = "idle"
      /\ \A q \in Request \ {r} : req'[q] = req[q]
      /\ UNCHANGED <<scanStatus, worker>>
  BY <1>1 DEF Enqueue, Finish, Idle, Holding, scanVars
<1>3. \A i \in DOMAIN queue' : queue'[i] = req[r].scan \/ \E j \in DOMAIN queue : queue'[i] = queue[j]
  BY <1>1 DEF Enqueue
<1>4. scanStatus[req[r].scan] = "QUEUED"
  BY <1>2 DEF JobInvariant, JobFollowsSubmission, Holding
<1>5. \A q \in Request : req'[q].pc \in Holding =>
        q # r /\ req[q].pc \in Holding /\ req'[q] = req[q]
  BY <1>2 DEF Holding
<1>6. JobFollowsSubmission'
  BY <1>2, <1>3, <1>5 DEF JobInvariant, JobFollowsSubmission, Holding
<1>7. \A i \in DOMAIN queue' : scanStatus[queue'[i]] # "ABSENT"
  BY <1>3, <1>4 DEF JobInvariant
<1> QED
  BY <1>2, <1>5, <1>6, <1>7 DEF JobInvariant

\* The worker takes the oldest job.
LEMMA JobsPickUp ==
    ASSUME TypeOK, JobInvariant, PickUp
    PROVE  JobInvariant'
<1>1. queue \in Seq(ScanId) /\ queue # <<>>
  BY DEF TypeOK, JobTypes, PickUp
<1>2. /\ worker'.scan = queue[1] /\ 1 \in DOMAIN queue /\ queue[1] \in ScanId
      /\ UNCHANGED <<scanStatus, req>>
  BY <1>1 DEF PickUp, scanVars
<1>3. \A i \in DOMAIN queue' : \E j \in DOMAIN queue : queue'[i] = queue[j]
  <2>1. \A i \in DOMAIN queue' : i + 1 \in DOMAIN queue /\ queue'[i] = queue[i + 1]
    BY <1>1 DEF PickUp
  <2> QED
    BY <2>1
<1>4. JobFollowsSubmission'
  BY <1>2, <1>3 DEF JobInvariant, JobFollowsSubmission
<1>5. worker'.scan # None
  BY <1>2, NoneAssumption
<1> QED
  BY <1>2, <1>3, <1>4, <1>5 DEF JobInvariant

\* The worker lets go of its job; nothing holds a row without an id.
LEMMA JobsRelease ==
    ASSUME TypeOK, JobInvariant, worker' = IdleWorker,
           UNCHANGED <<scanStatus, queue, req>>
    PROVE  JobInvariant'
<1>1. \A r \in Request : req[r].pc \in Holding => req[r].scan # None
  BY NoneAssumption DEF TypeOK, RequestTypes, CarriesIds, Holding
<1> QED
  BY <1>1 DEF JobInvariant, JobFollowsSubmission, Holding, IdleWorker

\* Handlers are lost with the process, and the job of the worker comes back.
LEMMA JobsRestart ==
    ASSUME TypeOK, JobInvariant, Restart
    PROVE  JobInvariant'
<1>1. /\ queue \in Seq(ScanId)
      /\ worker.pc # "idle" => worker.scan \in ScanId
  BY DEF TypeOK, JobTypes
<1>2. /\ \A r \in Request : req'[r].pc \notin Holding
      /\ worker'.pc = "idle" /\ worker'.scan = None /\ UNCHANGED scanStatus
  BY DEF Restart, Idle, IdleWorker, Holding, scanVars
<1>3. \A i \in DOMAIN queue' : scanStatus[queue'[i]] # "ABSENT"
  <2>1. CASE queue' = queue
    BY <2>1 DEF JobInvariant
  <2>2. CASE worker.pc # "idle" /\ queue' = <<worker.scan>> \o queue
    <3>1. \A i \in DOMAIN queue' : queue'[i] = worker.scan \/ \E j \in DOMAIN queue : queue'[i] = queue[j]
      <4>1. \A i \in DOMAIN queue' :
              \/ queue'[i] = worker.scan
              \/ i - 1 \in DOMAIN queue /\ queue'[i] = queue[i - 1]
        BY <1>1, <2>2
      <4> QED
        BY <4>1
    <3> QED
      BY <2>2, <3>1 DEF JobInvariant
  <2> QED
    BY <2>1, <2>2 DEF Restart
<1> QED
  BY <1>2, <1>3 DEF JobInvariant, JobFollowsSubmission, Holding

LEMMA NextJobs ==
    ASSUME TypeOK, JobInvariant, [Next]_vars
    PROVE  JobInvariant'
<1>0. req \in [Request -> RequestRecord] /\ worker \in WorkerRecord
  BY DEF TypeOK, RequestTypes, JobTypes
<1>1. ASSUME NEW r \in Request, CommitStartVerification(r) PROVE JobInvariant'
  <2>1. /\ \A q \in Request : req'[q].scan = req[q].scan
        /\ \A q \in Request \ {r} : req'[q] = req[q]
        /\ req[r].pc \in Holding
    BY <1>0, <1>1 DEF CommitStartVerification, Goto, RequestRecord, Holding
  <2> QED
    BY <1>1, <2>1, JobsFrame DEF CommitStartVerification, scanVars, jobVars
<1>2. ASSUME NEW r \in Request,
             \/ Continue(r)
             \/ \E u \in User : Call(r, u)
             \/ Abort(r)
      PROVE  \/ CommitStartVerification(r) \/ Enqueue(r)
             \/ \E s \in ScanId : CreateVerificationScan(r, s) \/ CreateScan(r, s)
             \/ /\ UNCHANGED <<scanStatus, queue, worker>>
                /\ \A q \in Request : req'[q].pc \in Holding => req'[q] = req[q]
  <2> DEFINE Frame == /\ UNCHANGED <<scanStatus, queue, worker>>
                      /\ \A q \in Request : req'[q].pc \in Holding => req'[q] = req[q]
  <2>1. ASSUME Finish(r), UNCHANGED <<scanStatus, queue, worker>> PROVE Frame
    BY <1>0, <2>1 DEF Finish, Idle, Holding
  <2>2. ASSUME NEW pc \in RequestPC \ Holding, Goto(r, pc),
               UNCHANGED <<scanStatus, queue, worker>>
        PROVE  Frame
    BY <1>0, <2>2 DEF Goto, RequestRecord
  <2>3. ASSUME CommitAssign(r) \/ CountEvidence(r) \/ CommitStatus(r) \/ ReadMode(r)
               \/ CommitApprove(r) \/ CommitReject(r) \/ HeadRejected(r)
               \/ CommitEvidence(r) \/ Abort(r)
        PROVE  Frame
    <3>1. UNCHANGED <<scanStatus, queue, worker>>
      BY <2>3 DEF CommitAssign, CountEvidence, CommitStatus, ReadMode, CommitApprove,
                  CommitReject, HeadRejected, CommitEvidence, Abort, scanVars, jobVars
    <3>2. Finish(r) \/ \E pc \in RequestPC \ Holding : Goto(r, pc)
      BY <2>3 DEF CommitAssign, CountEvidence, CommitStatus, ReadMode, CommitApprove,
                  CommitReject, HeadRejected, CommitEvidence, Abort, RequestPC, Holding
    <3> HIDE DEF Frame
    <3> QED
      BY <2>1, <2>2, <3>1, <3>2
  <2>4. ASSUME ReadLatestForScan(r) \/ ReadLatestForReview(r) \/ CountVersions(r)
        PROVE  Frame
    <3>1. \A q \in Request : req'[q].pc \in Holding => req'[q] = req[q]
      BY <1>0, <2>4 DEF ReadLatestForScan, ReadLatestForReview, CountVersions,
                        RequestRecord, Holding
    <3> QED
      BY <2>4, <3>1 DEF ReadLatestForScan, ReadLatestForReview, CountVersions,
                        scanVars, jobVars
  <2>5. ASSUME NEW u \in User, Call(r, u)
        PROVE  Frame
    <3>1. UNCHANGED <<scanStatus, queue, worker>>
      BY <2>5 DEF Call, ReadAssign, ReadUpdateStatus, ReadReview, ReadConfirm,
                  ReadCreateScan, scanVars, jobVars
    <3>2. ASSUME NEW pc \in RequestPC \ Holding, NEW f, NEW to, NEW v, Begin(r, pc, f, to, v)
          PROVE  \A q \in Request : req'[q].pc \in Holding => req'[q] = req[q]
      BY <1>0, <3>2 DEF Begin, Idle
    <3>3. \/ ReadCreateScan(r, u)
          \/ \E pc \in RequestPC \ Holding : \E f, to, v : Begin(r, pc, f, to, v)
      <4>1. ASSUME NEW f \in Finding, NEW v \in User, ReadAssign(r, u, f, v)
            PROVE  Begin(r, "assign", f, "ASSIGNED", v)
        BY <4>1 DEF ReadAssign
      <4>2. ASSUME NEW f \in Finding, NEW to \in FindingStatus, ReadUpdateStatus(r, u, f, to)
            PROVE  \E pc \in {"count", "status"} : Begin(r, pc, f, to, None)
        BY <4>2 DEF ReadUpdateStatus
      <4>3. ASSUME NEW f \in Finding, NEW d \in {"APPROVE", "REJECT"}, ReadReview(r, u, f, d)
            PROVE  \E to : Begin(r, "reviewEvidence", f, to, None)
        BY <4>3 DEF ReadReview
      <4>4. ASSUME NEW f \in Finding, ReadConfirm(r, u, f)
            PROVE  Begin(r, "head", f, None, None)
        BY <4>4 DEF ReadConfirm
      <4>5. {"assign", "count", "status", "reviewEvidence", "head"} \subseteq RequestPC \ Holding
        BY DEF RequestPC, Holding
      <4> QED
        BY <2>5, <4>1, <4>2, <4>3, <4>4, <4>5 DEF Call
    <3>4. ReadCreateScan(r, u) => \A q \in Request : req'[q].pc \in Holding => req'[q] = req[q]
      BY <1>0 DEF ReadCreateScan, Idle, Holding
    <3> QED
      BY <3>1, <3>2, <3>3, <3>4
  <2> HIDE DEF Frame
  <2>6. Continue(r) => \/ CommitStartVerification(r) \/ Enqueue(r)
                       \/ \E s \in ScanId : CreateVerificationScan(r, s) \/ CreateScan(r, s)
                       \/ Frame
    BY <2>3, <2>4 DEF Continue
  <2> QED
    BY <1>2, <2>3, <2>5, <2>6 DEF Frame
<1>3. ASSUME NEW r \in Request,
             \/ Continue(r)
             \/ \E u \in User : Call(r, u)
             \/ Abort(r)
      PROVE  JobInvariant'
  <2>1. CASE /\ UNCHANGED <<scanStatus, queue, worker>>
             /\ \A q \in Request : req'[q].pc \in Holding => req'[q] = req[q]
    BY <2>1, JobsFrame
  <2> QED
    BY <1>1, <1>2, <1>3, <2>1, JobsEnqueue, JobsCreate
<1>4. ASSUME MarkRunning \/ MarkCompleted \/ MarkFailed PROVE JobInvariant'
  <2>1. /\ worker.pc # "idle" /\ worker'.scan = worker.scan
        /\ UNCHANGED <<queue, req>>
    BY <1>0, <1>4 DEF MarkRunning, MarkCompleted, MarkFailed, WorkerGoto, WorkerRecord
  <2>2. PICK v \in {"RUNNING", "COMPLETED", "FAILED"} :
          scanStatus' = [scanStatus EXCEPT ![worker.scan] = v]
    BY <1>4 DEF MarkRunning, MarkCompleted, MarkFailed
  <2> QED
    BY <2>1, <2>2, JobsMark DEF ScanStatus
<1>5. ASSUME UNCHANGED <<scanStatus, queue, req>>, worker'.scan = worker.scan,
             worker.pc = "idle" => worker'.pc = "idle"
      PROVE  JobInvariant'
  BY <1>5, JobsFrame
<1>6. ASSUME \/ \E rows \in SUBSET Finding, failing \in BOOLEAN : ImportFindings(rows, failing)
             \/ ScanError \/ ReadVerified \/ ReadVerifiedAfterError \/ CommitPass
             \/ ReadFailureMode \/ CommitSendBack \/ LogFallback
      PROVE  JobInvariant'
  <2>1. /\ UNCHANGED <<scanStatus, queue, req>>
        /\ worker'.scan = worker.scan /\ worker.pc # "idle"
    BY <1>0, <1>6
       DEF ImportFindings, ScanError, ReadVerified, ReadVerifiedAfterError, CommitPass,
           ReadFailureMode, CommitSendBack, LogFallback, WorkerGoto, WorkerRecord, scanVars
  <2> QED
    BY <1>5, <2>1
<1>7. ASSUME Acknowledge \/ WorkerGivesUp PROVE JobInvariant'
  BY <1>7, JobsRelease DEF Acknowledge, WorkerGivesUp, scanVars
<1>8. CASE Work
  BY <1>4, <1>6, <1>7, <1>8, JobsPickUp DEF Work
<1>9. ASSUME UNCHANGED <<scanStatus, queue, req, worker>> PROVE JobInvariant'
  BY <1>5, <1>9
<1> QED
  BY <1>3, <1>7, <1>8, <1>9, JobsRestart DEF Next, vars, SetMode, scanVars, jobVars

\* The handler that starts a verification has written UNDER_REVIEW before the
\* worker can see the job, however many handlers, crashes and repeats there are.
THEOREM JobsFollowSubmissions == Spec => []JobFollowsSubmission
<1>1. TypeOK /\ JobInvariant /\ [Next]_vars => JobInvariant'
  BY NextJobs
<1>2. JobInvariant => JobFollowsSubmission
  BY DEF JobInvariant
<1> QED
  BY <1>1, <1>2, InitJobs, TypeCorrectness, PTL DEF Spec

-----------------------------------------------------------------------------
(* Verdicts *)

\* What the worker is about to write rests on the row it marked.
VerdictInvariant ==
    /\ worker.pc \in {"verify", "pass"} => scanStatus[worker.scan] = "COMPLETED"
    /\ worker.pc = "pass" => ~worker.failing

LEMMA NextVerdict ==
    ASSUME TypeOK, VerdictInvariant, [Next]_vars
    PROVE  VerdictInvariant'
<1>0. /\ worker \in WorkerRecord
      /\ scanStatus \in [ScanId -> ScanStatus \cup {"ABSENT"}]
      /\ worker.pc # "idle" => worker.scan \in ScanId
  BY DEF TypeOK, RowTypes, JobTypes
<1>1. ASSUME NEW s \in ScanId, scanStatus[s] = "ABSENT",
             scanStatus' = [scanStatus EXCEPT ![s] = "QUEUED"], worker' = worker
      PROVE  VerdictInvariant'
  <2>1. worker.pc \in {"verify", "pass"} => worker.scan # s
    BY <1>1 DEF VerdictInvariant
  <2> QED
    BY <1>0, <1>1, <2>1 DEF VerdictInvariant
<1>2. ASSUME UNCHANGED <<scanStatus, worker>> PROVE VerdictInvariant'
  BY <1>2 DEF VerdictInvariant
<1>3. ASSUME worker'.pc \notin {"verify", "pass"} PROVE VerdictInvariant'
  BY <1>3 DEF VerdictInvariant
<1>4. CASE MarkCompleted
  <2>1. scanStatus'[worker'.scan] = "COMPLETED" /\ worker'.pc # "pass"
    BY <1>0, <1>4 DEF MarkCompleted, WorkerGoto, WorkerRecord
  <2> QED
    BY <2>1 DEF VerdictInvariant
<1>5. CASE ReadVerified
  <2>1. worker'.scan = worker.scan /\ worker'.failing = worker.failing
        /\ (worker'.pc = "pass" => ~worker.failing) /\ worker.pc = "verify"
        /\ scanStatus' = scanStatus
    BY <1>0, <1>5 DEF ReadVerified, WorkerGoto, WorkerRecord, scanVars
  <2> QED
    BY <2>1 DEF VerdictInvariant
<1>6. ASSUME \/ PickUp \/ MarkRunning
             \/ \E rows \in SUBSET Finding, failing \in BOOLEAN : ImportFindings(rows, failing)
             \/ ScanError \/ MarkFailed \/ ReadVerifiedAfterError \/ CommitPass
             \/ ReadFailureMode \/ CommitSendBack \/ LogFallback \/ Acknowledge
             \/ WorkerGivesUp \/ Restart
      PROVE  worker'.pc \notin {"verify", "pass"}
  <2>1. ASSUME NEW pc, WorkerGoto(pc) PROVE worker'.pc = pc
    BY <1>0, <2>1 DEF WorkerGoto, WorkerRecord
  <2>2. ASSUME MarkRunning \/ ScanError \/ MarkFailed \/ ReadVerifiedAfterError
               \/ CommitPass \/ ReadFailureMode \/ CommitSendBack \/ LogFallback
        PROVE  \E pc \in WorkerPC \ {"verify", "pass"} : WorkerGoto(pc)
    BY <2>2 DEF MarkRunning, ScanError, MarkFailed, ReadVerifiedAfterError, CommitPass,
                ReadFailureMode, CommitSendBack, LogFallback, WorkerPC
  <2>3. ASSUME NEW rows \in SUBSET Finding, NEW failing \in BOOLEAN,
               ImportFindings(rows, failing)
        PROVE  worker'.pc = "completing"
    BY <1>0, <2>3 DEF ImportFindings, WorkerRecord
  <2>4. ASSUME PickUp \/ Acknowledge \/ WorkerGivesUp \/ Restart
        PROVE  worker'.pc \in {"picked", "idle"}
    BY <2>4 DEF PickUp, Acknowledge, WorkerGivesUp, Restart, IdleWorker
  <2> QED
    BY <1>6, <2>1, <2>2, <2>3, <2>4
<1>7. CASE Work
  BY <1>3, <1>4, <1>5, <1>6, <1>7 DEF Work
<1>8. ASSUME NEW r \in Request, Continue(r)
      PROVE  \/ UNCHANGED <<scanStatus, worker>>
             \/ \E s \in ScanId : CreateVerificationScan(r, s) \/ CreateScan(r, s)
  BY <1>8
     DEF scanVars, jobVars, Continue, CommitAssign, CountEvidence, CommitStatus, ReadMode,
         ReadLatestForScan, CommitStartVerification, Enqueue, ReadLatestForReview,
         CommitApprove, CommitReject, HeadRejected, CountVersions, CommitEvidence
<1>9. ASSUME NEW r \in Request, Continue(r) PROVE VerdictInvariant'
  BY <1>1, <1>2, <1>8, <1>9 DEF CreateVerificationScan, CreateScan, jobVars
<1>10. ASSUME NEW r \in Request, NEW u \in User, Call(r, u) PROVE VerdictInvariant'
  BY <1>2, <1>10 DEF scanVars, jobVars, Call, ReadAssign, ReadUpdateStatus, ReadReview,
                     ReadConfirm, ReadCreateScan
<1> QED
  BY <1>2, <1>3, <1>6, <1>7, <1>9, <1>10 DEF Next, vars, scanVars, jobVars, SetMode, Abort

\* Evidence is AUTO_VERIFIED only by a completed scan of that evidence that did
\* not show the condition again, whatever was crashed, repeated or overtaken.
THEOREM VerdictsOfCompletedScans == Spec => VerdictOfCompletedScan
<1> DEFINE Verified(f, i) == /\ evidence[f][i].verification # "AUTO_VERIFIED"
                             /\ evidence'[f][i].verification = "AUTO_VERIFIED"
           Verdict(f, i) == /\ scanStatus[worker.scan] = "COMPLETED" /\ ~worker.failing
                            /\ verifiesFinding[worker.scan] = f
                            /\ verifiesEvidence[worker.scan] = i
<1>1. ASSUME TypeOK, VerdictInvariant, [Next]_vars,
             NEW f \in Finding, NEW i \in DOMAIN evidence[f], Verified(f, i)
      PROVE  Verdict(f, i)
  <2>0. /\ evidence \in [Finding -> Seq(EvidenceRow)]
        /\ \A r \in Request : CarriesIds(req[r])
        /\ JobTypes
    BY <1>1 DEF TypeOK, RowTypes, RequestTypes
  <2>1. evidence'[f][i] # evidence[f][i]
    BY <1>1
  <2>2. ASSUME NEW g \in Finding, NEW n, NEW verdict, Verify(g, n, verdict)
        PROVE  verdict = "AUTO_VERIFIED" /\ g = f /\ n = i
    <3>1. /\ n # 0 /\ evidence' = [evidence EXCEPT ![g][n].verification = verdict]
      BY <2>1, <2>2 DEF Verify
    <3>2. g = f
      BY <2>0, <2>1, <3>1
    <3> DEFINE new == [evidence[f] EXCEPT ![n].verification = verdict]
    <3>3. evidence'[f] = new
      BY <2>0, <3>1, <3>2
    <3>4. new[i] = IF i = n THEN [evidence[f][i] EXCEPT !.verification = verdict]
                   ELSE evidence[f][i]
      OBVIOUS
    <3>5. i = n
      BY <2>1, <3>3, <3>4
    <3>6. evidence[f][i] \in EvidenceRow
      BY <2>0
    <3>7. evidence'[f][i].verification = verdict
      BY <3>3, <3>4, <3>5, <3>6 DEF EvidenceRow
    <3> QED
      BY <1>1, <3>2, <3>5, <3>7
  <2>3. ASSUME NEW r \in Request, CommitApprove(r) \/ CommitReject(r) PROVE FALSE
    <3>1. req[r].finding \in Finding
      BY <2>0, <2>3 DEF CommitApprove, CommitReject, CarriesIds
    <3> QED
      BY <2>2, <2>3, <3>1 DEF CommitApprove, CommitReject
  <2>4. ASSUME NEW r \in Request, CommitEvidence(r) PROVE FALSE
    <3>1. req[r].finding \in Finding /\ evidence[f] \in Seq(EvidenceRow)
      BY <2>0, <2>4 DEF CommitEvidence, CarriesIds
    <3>2. PICK row : evidence' = [evidence EXCEPT ![req[r].finding] = Append(@, row)]
      BY <2>4 DEF CommitEvidence
    <3>3. evidence'[f] = evidence[f] \/ evidence'[f] = Append(evidence[f], row)
      BY <2>0, <3>2
    <3> QED
      BY <1>1, <2>1, <3>1, <3>3
  <2>5. ASSUME NEW g \in Finding, verifiesFinding[worker.scan] = g, CommitSendBack PROVE FALSE
    BY <2>2, <2>5 DEF CommitSendBack
  <2>6. CASE CommitPass
    <3>1. verifiesFinding[worker.scan] \in Finding
      BY <2>0, <2>6 DEF CommitPass, JobTypes
    <3>2. verifiesFinding[worker.scan] = f /\ verifiesEvidence[worker.scan] = i
      BY <2>2, <2>6, <3>1 DEF CommitPass
    <3> QED
      BY <1>1, <2>6, <3>2 DEF CommitPass, VerdictInvariant
  <2>7. ~CommitSendBack
    <3>1. CommitSendBack => verifiesFinding[worker.scan] \in Finding
      BY <2>0 DEF CommitSendBack, JobTypes
    <3> QED
      BY <2>5, <3>1
  <2>8. evidence' # evidence
    BY <2>1
  <2>9. ASSUME NEW r \in Request, Continue(r) PROVE FALSE
    BY <2>3, <2>4, <2>8, <2>9
       DEF Continue, CommitAssign, CountEvidence, CommitStatus, ReadMode, ReadLatestForScan,
           CreateVerificationScan, CommitStartVerification, Enqueue, ReadLatestForReview,
           HeadRejected, CountVersions, CreateScan
  <2>10. ASSUME NEW r \in Request, NEW u \in User, Call(r, u) PROVE FALSE
    BY <2>8, <2>10 DEF Call, ReadAssign, ReadUpdateStatus, ReadReview, ReadConfirm, ReadCreateScan
  <2>11. Work => CommitPass
    BY <2>7, <2>8
       DEF Work, PickUp, MarkRunning, ImportFindings, ScanError, MarkCompleted, MarkFailed,
           ReadVerified, ReadVerifiedAfterError, ReadFailureMode, LogFallback, Acknowledge
  <2> HIDE DEF Verdict
  <2> QED
    BY <1>1, <2>6, <2>8, <2>9, <2>10, <2>11
       DEF Next, vars, SetMode, Abort, WorkerGivesUp, Restart
<1>2. TypeOK /\ VerdictInvariant /\ [Next]_vars =>
        [\A f \in Finding : \A i \in DOMAIN evidence[f] : Verified(f, i) => Verdict(f, i)]_vars
  BY <1>1
<1>3. Init => VerdictInvariant
  BY DEF Init, VerdictInvariant, IdleWorker
<1>4. TypeOK /\ VerdictInvariant /\ [Next]_vars => VerdictInvariant'
  BY NextVerdict
<1>5. Spec => [][\A f \in Finding : \A i \in DOMAIN evidence[f] : Verified(f, i) => Verdict(f, i)]_vars
  BY <1>2, <1>3, <1>4, TypeCorrectness, PTL DEF Spec
<1> QED
  BY <1>5 DEF VerdictOfCompletedScan
-----------------------------------------------------------------------------
(* Versions of evidence *)

\* An upload stores with a count that another upload has overtaken.
StoresLate(r) ==
    CommitEvidence(r) /\ req[r].seen # Len(evidence[req[r].finding])

LEMMA VerifyKeepsVersions ==
    ASSUME RowTypes, NEW f \in Finding, NEW i \in Nat,
           NEW verdict \in {"APPROVED", "REJECTED", "AUTO_VERIFIED", "VERIFICATION_FAILED"},
           Verify(f, i, verdict), VersionsSequential
    PROVE  VersionsSequential'
<1> SUFFICES ASSUME NEW g \in Finding, NEW j \in DOMAIN evidence'[g]
             PROVE  evidence'[g][j].version = j
  BY DEF VersionsSequential
<1>1. /\ evidence'[g] \in Seq(EvidenceRow) /\ evidence[g] \in Seq(EvidenceRow)
      /\ Len(evidence'[g]) = Len(evidence[g])
  BY VerifyTypes DEF RowTypes
<1>2. j \in DOMAIN evidence[g] /\ evidence[g][j] \in EvidenceRow
  BY <1>1
<1>3. evidence[g][j].version = j
  BY <1>2 DEF VersionsSequential
<1>4. CASE i = 0 \/ g # f
  <2>1. evidence'[g] = evidence[g]
    BY <1>4 DEF Verify, RowTypes
  <2> QED
    BY <1>3, <2>1
<1>5. CASE i # 0 /\ g = f
  <2> DEFINE new == [evidence[g] EXCEPT ![i].verification = verdict]
  <2>1. evidence'[g] = new
    BY <1>5 DEF Verify, RowTypes
  <2>2. new[j] = IF j = i THEN [evidence[g][j] EXCEPT !.verification = verdict]
                 ELSE evidence[g][j]
    BY <1>2
  <2>3. [evidence[g][j] EXCEPT !.verification = verdict].version = evidence[g][j].version
    BY <1>2 DEF EvidenceRow
  <2> QED
    BY <1>3, <2>1, <2>2, <2>3
<1> QED
  BY <1>4, <1>5

LEMMA StoreKeepsVersions ==
    ASSUME TypeOK, VersionsSequential, NEW r \in Request, CommitEvidence(r), ~StoresLate(r)
    PROVE  VersionsSequential'
<1> DEFINE f == req[r].finding
           row == [version |-> req[r].seen + 1, verification |-> "PENDING"]
<1>1. /\ f \in Finding /\ req[r].seen \in Nat
      /\ evidence \in [Finding -> Seq(EvidenceRow)]
  BY DEF CommitEvidence, TypeOK, RequestTypes, RowTypes, CarriesIds, RequestRecord
<1>2. /\ req[r].seen = Len(evidence[f])
      /\ evidence' = [evidence EXCEPT ![f] = Append(evidence[f], row)]
  BY DEF CommitEvidence, StoresLate
<1>4. row \in EvidenceRow /\ row.version = Len(evidence[f]) + 1
  BY <1>1, <1>2 DEF EvidenceRow
<1> HIDE DEF f, row
<1> SUFFICES ASSUME NEW g \in Finding, NEW j \in DOMAIN evidence'[g]
             PROVE  evidence'[g][j].version = j
  BY DEF VersionsSequential
<1>5. CASE g # f
  BY <1>1, <1>2, <1>5 DEF VersionsSequential
<1>6. CASE g = f
  <2>1. evidence'[g] = Append(evidence[f], row) /\ evidence[f] \in Seq(EvidenceRow)
    BY <1>1, <1>2, <1>6
  <2>2. DOMAIN evidence'[g] = 1 .. (Len(evidence[f]) + 1) /\ Len(evidence[f]) \in Nat
    BY <2>1, <1>4
  <2>3. CASE j = Len(evidence[f]) + 1
    <3>1. evidence'[g][j] = row
      BY <2>1, <2>3, <1>4
    <3> QED
      BY <1>4, <3>1, <2>3
  <2>4. CASE j # Len(evidence[f]) + 1
    <3>1. j \in 1 .. Len(evidence[f])
      BY <2>2, <2>4
    <3>2. j \in DOMAIN evidence[f] /\ evidence'[g][j] = evidence[f][j]
      BY <2>1, <3>1, <1>4
    <3> QED
      BY <3>2, <1>1 DEF VersionsSequential
  <2> QED
    BY <2>3, <2>4
<1> QED
  BY <1>5, <1>6

LEMMA NextVersions ==
    ASSUME TypeOK, VersionsSequential, [Next]_vars
    PROVE  VersionsSequential' \/ \E r \in Request : StoresLate(r)
<1>1. ASSUME UNCHANGED evidence PROVE VersionsSequential'
  BY <1>1 DEF VersionsSequential
<1>2. ASSUME NEW r \in Request, Continue(r)
      PROVE  VersionsSequential' \/ StoresLate(r)
  <2>1. CASE CommitEvidence(r)
    BY <2>1, StoreKeepsVersions
  <2>2. CASE CommitApprove(r) \/ CommitReject(r)
    <3>1. req[r].finding \in Finding /\ req[r].seen \in Nat
      BY <2>2 DEF CommitApprove, CommitReject, TypeOK, RequestTypes, CarriesIds, RequestRecord
    <3> QED
      BY <2>2, <3>1, VerifyKeepsVersions DEF CommitApprove, CommitReject, TypeOK
  <2> QED
    BY <1>1, <1>2, <2>1, <2>2
       DEF Continue, CommitAssign, CountEvidence, CommitStatus, ReadMode, ReadLatestForScan,
           CreateVerificationScan, CommitStartVerification, Enqueue, ReadLatestForReview,
           HeadRejected, CountVersions, CreateScan
<1>3. CASE CommitPass \/ CommitSendBack
  <2>1. verifiesFinding[worker.scan] \in Finding /\ verifiesEvidence[worker.scan] \in Nat
    BY <1>3 DEF CommitPass, CommitSendBack, TypeOK, JobTypes, RowTypes
  <2> QED
    BY <1>3, <2>1, VerifyKeepsVersions DEF CommitPass, CommitSendBack, TypeOK
<1>4. CASE Work
  BY <1>1, <1>3, <1>4
     DEF Work, PickUp, MarkRunning, ImportFindings, ScanError, MarkCompleted, MarkFailed,
         ReadVerified, ReadVerifiedAfterError, ReadFailureMode, LogFallback, Acknowledge
<1> QED
  BY <1>1, <1>2, <1>4
     DEF Next, vars, Call, ReadAssign, ReadUpdateStatus, ReadReview, ReadConfirm,
         ReadCreateScan, SetMode, Abort, WorkerGivesUp, Restart

\* The versions of a finding's evidence stay 1, 2, 3, ... through every overlap of
\* handlers, verdicts, aborts and restarts, but for one step: an upload that
\* stores after another one has overtaken its count (confirmEvidenceUpload).
THEOREM VersionsUntilOvertaken ==
    Spec => [][VersionsSequential =>
                  VersionsSequential' \/ \E r \in Request : StoresLate(r)]_vars
<1>1. TypeOK /\ [Next]_vars =>
        [VersionsSequential => VersionsSequential' \/ \E r \in Request : StoresLate(r)]_vars
  BY NextVersions
<1> QED
  BY <1>1, TypeCorrectness, PTL DEF Spec
-----------------------------------------------------------------------------
(* The documented lifecycle *)

\* What a handler read before its write is still true of the finding.
Fresh(x) ==
    /\ x.pc = "assign" => status[x.finding] \in FindingStatus \ {"RESOLVED"}
    /\ x.pc = "status" =>
          \E t \in FINDING_TRANSITIONS : t.from = status[x.finding] /\ t.to = x.to
    /\ x.pc = "startVerification" => status[x.finding] = "EVIDENCE_SUBMITTED"
    /\ x.pc = "decide" => status[x.finding] = "UNDER_REVIEW"
    /\ x.pc = "store" => status[x.finding] \in EVIDENCE_UPLOAD_STATUSES

\* A handler writes although the status it was guarded by has changed, or the
\* worker decides a finding that is no longer under review.
ActsLate ==
    \/ \E r \in Request : Continue(r) /\ ~Fresh(req[r])
    \/ /\ CommitPass \/ CommitSendBack
       /\ status[verifiesFinding[worker.scan]] # "UNDER_REVIEW"

\* A verdict, whoever gives it, on a finding under review.
LEMMA DecisionIsLifecycleStep ==
    ASSUME RowTypes, NEW f \in Finding, NEW i \in Nat,
           NEW verdict \in {"APPROVED", "REJECTED", "AUTO_VERIFIED", "VERIFICATION_FAILED"},
           NEW to \in {"RESOLVED", "IN_PROGRESS"},
           status[f] = "UNDER_REVIEW", WriteStatus(f, to), Verify(f, i, verdict)
    PROVE  [Lifecycle!Next]_(Lifecycle!lifecycle)
<1>1. \A g \in Finding : (evidence'[g] # <<>>) = (evidence[g] # <<>>)
  <2>1. /\ evidence' \in [Finding -> Seq(EvidenceRow)]
        /\ \A g \in Finding : Len(evidence'[g]) = Len(evidence[g])
    BY VerifyTypes
  <2> QED
    BY <2>1 DEF RowTypes
<1>2. status' = [status EXCEPT ![f] = to]
  BY DEF WriteStatus
<1>3. Lifecycle!Approve(f) \/ Lifecycle!Reject(f)
  BY <1>1, <1>2 DEF Lifecycle!Approve, Lifecycle!Reject, Lifecycle!Move
<1> QED
  BY <1>3 DEF Lifecycle!Next

LEMMA ContinueIsLifecycleStep ==
    ASSUME WorkflowInvariant, NEW r \in Request, Continue(r), Fresh(req[r])
    PROVE  [Lifecycle!Next]_(Lifecycle!lifecycle)
<1> DEFINE f == req[r].finding
<1>0. /\ req[r] \in RequestRecord /\ CarriesIds(req[r]) /\ RowTypes
      /\ SnapshotHolds(req[r])
  BY DEF WorkflowInvariant, TypeOK, RequestTypes, SnapshotsHold
<1>1. CASE CommitAssign(r)
  <2>1. f \in Finding /\ status[f] \in FindingStatus \ {"RESOLVED"}
    BY <1>0, <1>1 DEF CommitAssign, CarriesIds, Fresh
  <2>2. status' = [status EXCEPT ![f] = "ASSIGNED"] /\ UNCHANGED evidence
    BY <1>1 DEF CommitAssign, WriteStatus
  <2>3. Lifecycle!Assign(f)
    BY <2>1, <2>2 DEF Lifecycle!Assign, Lifecycle!Move, FindingStatus, Lifecycle!FindingStatus
  <2> QED
    BY <2>1, <2>3 DEF Lifecycle!Next
<1>2. CASE CommitStatus(r)
  <2>1. f \in Finding
    BY <1>0, <1>2 DEF CommitStatus, CarriesIds
  <2>2. PICK t \in FINDING_TRANSITIONS : t.from = status[f] /\ t.to = req[r].to
    BY <1>0, <1>2 DEF CommitStatus, Fresh
  <2>3. t.to = "EVIDENCE_SUBMITTED" => evidence[f] # <<>>
    BY <1>0, <1>2, <2>2 DEF CommitStatus, SnapshotHolds, Submitted
  <2>4. status' = [status EXCEPT ![f] = t.to] /\ UNCHANGED evidence
    BY <1>2, <2>2 DEF CommitStatus, WriteStatus
  <2>5. Lifecycle!Advance(f, t)
    BY <2>1, <2>2, <2>3, <2>4 DEF Lifecycle!Advance, Lifecycle!Move
  <2> QED
    BY <2>1, <2>5 DEF Lifecycle!Next, FINDING_TRANSITIONS, Lifecycle!FINDING_TRANSITIONS
<1>3. CASE CommitApprove(r) \/ CommitReject(r)
  <2>1. f \in Finding /\ req[r].seen \in Nat /\ status[f] = "UNDER_REVIEW"
    BY <1>0, <1>3 DEF CommitApprove, CommitReject, CarriesIds, RequestRecord, Fresh
  <2> QED
    BY <1>0, <1>3, <2>1, DecisionIsLifecycleStep DEF CommitApprove, CommitReject
<1>4. CASE CommitEvidence(r)
  <2>1. f \in Finding /\ status[f] \in EVIDENCE_UPLOAD_STATUSES
    BY <1>0, <1>4 DEF CommitEvidence, CarriesIds, Fresh
  <2> DEFINE row == [version |-> req[r].seen + 1, verification |-> "PENDING"]
  <2>2. row \in EvidenceRow /\ evidence' = [evidence EXCEPT ![f] = Append(evidence[f], row)]
    BY <1>0, <1>4, <2>1 DEF CommitEvidence, RequestRecord, EvidenceRow, RowTypes
  <2> HIDE DEF row
  <2>3. evidence'[f] # <<>>
    <3>1. evidence[f] \in Seq(EvidenceRow) /\ evidence'[f] = Append(evidence[f], row)
      BY <1>0, <2>1, <2>2 DEF RowTypes
    <3>2. Len(evidence'[f]) = Len(evidence[f]) + 1 /\ Len(evidence[f]) \in Nat
      BY <2>2, <3>1
    <3> QED
      BY <3>2
  <2>4. \A g \in Finding : g # f => evidence'[g] = evidence[g]
    BY <1>0, <2>2 DEF RowTypes
  <2>5. [g \in Finding |-> evidence'[g] # <<>>] =
        [[g \in Finding |-> evidence[g] # <<>>] EXCEPT ![f] = TRUE]
    BY <2>1, <2>3, <2>4
  <2>6. PICK g \in Finding : g = f
    BY <2>1
  <2>7. Lifecycle!Provide(g)
    BY <1>4, <2>1, <2>5, <2>6 DEF Lifecycle!Provide, CommitEvidence, findingVars,
                                  EVIDENCE_UPLOAD_STATUSES, Lifecycle!EVIDENCE_UPLOAD_STATUSES
  <2> QED
    BY <2>7 DEF Lifecycle!Next
<1>5. ASSUME UNCHANGED <<status, evidence>> PROVE UNCHANGED Lifecycle!lifecycle
  BY <1>5 DEF Lifecycle!lifecycle
<1>6. CASE CommitStartVerification(r)
  <2>1. f \in Finding /\ status[f] = "EVIDENCE_SUBMITTED"
    BY <1>0, <1>6 DEF CommitStartVerification, CarriesIds, Fresh
  <2>2. PICK t \in FINDING_TRANSITIONS : t.from = "EVIDENCE_SUBMITTED" /\ t.to = "UNDER_REVIEW"
    BY DEF FINDING_TRANSITIONS
  <2>3. status' = [status EXCEPT ![f] = t.to] /\ UNCHANGED evidence
    BY <1>6, <2>2 DEF CommitStartVerification, WriteStatus
  <2>4. Lifecycle!Advance(f, t)
    BY <2>1, <2>2, <2>3 DEF Lifecycle!Advance, Lifecycle!Move
  <2> QED
    BY <2>1, <2>4 DEF Lifecycle!Next, FINDING_TRANSITIONS, Lifecycle!FINDING_TRANSITIONS
<1> QED
  BY <1>1, <1>2, <1>3, <1>4, <1>5, <1>6
     DEF Continue, CountEvidence, ReadMode, ReadLatestForScan, CreateVerificationScan,
         Enqueue, ReadLatestForReview, HeadRejected, CountVersions, CreateScan, findingVars

LEMMA NextIsLifecycleStep ==
    ASSUME WorkflowInvariant, [Next]_vars, ~ActsLate
    PROVE  [Lifecycle!Next]_(Lifecycle!lifecycle)
<1>0. TypeOK /\ RowTypes
  BY DEF WorkflowInvariant, TypeOK
<1>1. ASSUME UNCHANGED <<status, evidence>> PROVE UNCHANGED Lifecycle!lifecycle
  BY <1>1 DEF Lifecycle!lifecycle
<1>2. ASSUME NEW rows \in SUBSET Finding, NEW failing \in BOOLEAN, ImportFindings(rows, failing)
      PROVE  [Lifecycle!Next]_(Lifecycle!lifecycle)
  <2>1. Lifecycle!Report(rows)
    BY <1>2 DEF ImportFindings, Lifecycle!Report
  <2> QED
    BY <2>1 DEF Lifecycle!Next
<1>3. CASE CommitPass \/ CommitSendBack
  <2>1. /\ verifiesFinding[worker.scan] \in Finding /\ verifiesEvidence[worker.scan] \in Nat
        /\ status[verifiesFinding[worker.scan]] = "UNDER_REVIEW"
    BY <1>0, <1>3 DEF CommitPass, CommitSendBack, TypeOK, JobTypes, RowTypes, ActsLate
  <2> QED
    BY <1>0, <1>3, <2>1, DecisionIsLifecycleStep DEF CommitPass, CommitSendBack
<1>4. CASE Work
  BY <1>1, <1>2, <1>3, <1>4
     DEF Work, PickUp, MarkRunning, ScanError, MarkCompleted, MarkFailed, ReadVerified,
         ReadVerifiedAfterError, ReadFailureMode, LogFallback, Acknowledge, findingVars
<1>5. ASSUME NEW r \in Request, Continue(r)
      PROVE  [Lifecycle!Next]_(Lifecycle!lifecycle)
  <2>1. Fresh(req[r])
    BY <1>5 DEF ActsLate
  <2> QED
    BY <1>5, <2>1, ContinueIsLifecycleStep
<1> QED
  BY <1>1, <1>4, <1>5
     DEF Next, vars, Call, ReadAssign, ReadUpdateStatus, ReadReview, ReadConfirm,
         ReadCreateScan, SetMode, Abort, WorkerGivesUp, Restart, findingVars

\* In every mode, with any number of overlapping handlers, the worker, aborts and
\* restarts, each step of the service is a documented edge of the lifecycle or
\* changes nothing of it, unless the handler or the worker acts late: on a
\* status that was changed after it was read or put under review.
THEOREM LifecycleUntilOvertaken ==
    Spec => [][[Lifecycle!Next]_(Lifecycle!lifecycle) \/ ActsLate]_vars
<1>1. WorkflowInvariant /\ [Next]_vars =>
        [[Lifecycle!Next]_(Lifecycle!lifecycle) \/ ActsLate]_vars
  BY NextIsLifecycleStep
<1> QED
  BY <1>1, WorkflowInvariance, PTL DEF Spec
=============================================================================
