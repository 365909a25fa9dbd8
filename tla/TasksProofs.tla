---------------------------- MODULE TasksProofs ----------------------------
(***************************************************************************)
(* Proofs about Tasks, for every set of users, devices, vulnerabilities,   *)
(* people and request slots, with and without faults.                      *)
(***************************************************************************)
EXTENDS Tasks, TLAPS

-----------------------------------------------------------------------------
(* The inductive invariant *)

Begun(t) == taskStatus[t] \in TaskStatus \ {"OPEN"}

RowTypes ==
    /\ taskStatus \in [Task -> TaskStatus \cup {"ABSENT"}]
    /\ assignee \in [Task -> User \cup {None}]
    /\ resolvedAt \in [Task -> BOOLEAN]
    /\ entity \in [Task -> Entity \cup {None}]
    /\ evidence \in [Task -> Seq(Verdict)]
    /\ device \in [Owner -> {"ABSENT", "PENDING", "COMPLIANT"}]
    /\ vulnerability \in [Vulnerability -> VulnerabilityStatus \cup {"ABSENT"}]

\* The checks of a device exist exactly when it does, and no task is the check
\* of a device that does not exist.
DevicesHold ==
    /\ \A o \in Owner : \A t \in Check(o) :
          IF device[o] = "ABSENT" THEN taskStatus[t] = "ABSENT"
          ELSE taskStatus[t] # "ABSENT" /\ entity[t] = o
    /\ \A t \in Task : taskStatus[t] # "ABSENT" /\ entity[t] \in Owner =>
          device[entity[t]] # "ABSENT"

\* What a call relies on at the step it is at, whatever other calls did since
\* it read it.
CallHolds(x) ==
    /\ x.pc \in {"assign", "count", "status", "latest", "decide", "sync",
                 "compliant", "store"} =>
          x.task \in Task /\ taskStatus[x.task] # "ABSENT"
    /\ x.pc = "assign" => x.target \in User
    /\ x.pc \in {"count", "status", "latest", "decide"} => Begun(x.task)
    /\ x.pc \in {"count", "status"} => x.to \in TaskStatus \ {"OPEN"}
    /\ x.pc \in {"latest", "decide"} => x.to \in {"RESOLVED", "IN_PROGRESS"}
    /\ x.pc = "decide" => x.seen \in 0..Len(evidence[x.task])
    /\ \/ x.pc \in {"latest", "decide"}
       \/ x.pc = "status" /\ x.to \in Submitted
       => evidence[x.task] # <<>>
    /\ x.pc = "sync" => x.about \in Owner \cup Vulnerability
    /\ x.pc \in {"sync", "compliant"} /\ x.about \in Owner => device[x.about] # "ABSENT"
    /\ x.pc \in {"compliant", "register"} => x.about \in Owner
    /\ x.pc = "assignVulnerability" =>
          /\ x.task \in Extra /\ taskStatus[x.task] = "ABSENT"
          /\ x.about \in Vulnerability /\ x.target \in User

\* The row a call is about to insert is no other call's.
Reserved ==
    \A r, s \in Request :
        req[r].pc = "assignVulnerability" /\ s # r => req[s].task # req[r].task

Calls ==
    /\ req \in [Request -> RequestRecord]
    /\ \A r \in Request : CallHolds(req[r])
    /\ Reserved

TaskInvariant == RowTypes /\ DevicesHold /\ WorkHasOwner /\ SubmittedHasEvidence /\ Calls

-----------------------------------------------------------------------------
(* What a step does to the rows *)

\* No row disappears, none that was begun is OPEN again, evidence is only added.
Stable ==
    /\ \A t \in Task :
          /\ taskStatus[t] # "ABSENT" => taskStatus'[t] # "ABSENT"
          /\ Begun(t) => Begun(t)'
          /\ Len(evidence[t]) <= Len(evidence'[t])
    /\ \A o \in Owner : device[o] # "ABSENT" => device'[o] # "ABSENT"

Rows == <<taskVars, evidence, recordVars>>

InFlight == { r \in Request : req[r].pc # "idle" }

LEMMA TypesFollow == TaskInvariant /\ overtaken \subseteq InFlight => TypeOK
BY DEF TaskInvariant, RowTypes, DevicesHold, Calls, CallHolds, TypeOK, InFlight

LEMMA CheckNames ==
    /\ \A o \in Owner : Check(o) \subseteq Task /\ Check(o) \cap Extra = {}
    /\ \A o, n \in Owner : o # n => Check(o) \cap Check(n) = {}
BY EntityAssumption DEF Check, Task

LEMMA NoneApart ==
    None \notin User /\ None \notin Task /\ None \notin Owner /\ None \notin Vulnerability
    /\ Extra \subseteq Task
BY NoneAssumption DEF Entity, Task

\* Calls that a step of another one does not touch go on holding.
LEMMA OthersHold ==
    ASSUME TaskInvariant, RowTypes', Stable, NEW s \in Request, req'[s] = req[s],
           req[s].pc = "assignVulnerability" => taskStatus'[req[s].task] = "ABSENT"
    PROVE  CallHolds(req[s])'
<1>1. CallHolds(req[s]) /\ req[s] \in RequestRecord
  BY DEF TaskInvariant, Calls
<1>2. \A t \in Task : evidence[t] # <<>> => evidence'[t] # <<>>
  <2> TAKE t \in Task
  <2>1. evidence[t] \in Seq(Verdict) /\ evidence'[t] \in Seq(Verdict)
    BY DEF TaskInvariant, RowTypes
  <2> QED
    BY <2>1 DEF Stable
<1>3. \A t \in Task : Len(evidence[t]) \in Nat /\ Len(evidence'[t]) \in Nat
  BY DEF TaskInvariant, RowTypes
<1>4. \A t \in Task : req[s].seen \in 0..Len(evidence[t]) => req[s].seen \in 0..Len(evidence'[t])
  BY <1>3 DEF Stable
<1> QED
  BY <1>1, <1>2, <1>4 DEF CallHolds, Stable

LEMMA RowsFrame ==
    ASSUME TaskInvariant, UNCHANGED Rows
    PROVE  RowTypes' /\ DevicesHold' /\ WorkHasOwner' /\ SubmittedHasEvidence' /\ Stable
BY DEF TaskInvariant, Rows, taskVars, recordVars, RowTypes, DevicesHold, WorkHasOwner,
       SubmittedHasEvidence, Stable, Begun

\* How the calls follow from the rows, for a step of r that ends at x.
LEMMA CallsStep ==
    ASSUME TaskInvariant, RowTypes', Stable, NEW r \in Request, NEW x \in RequestRecord,
           req' = [req EXCEPT ![r] = x], CallHolds(x)',
           \/ x.task = None
           \/ x.task \in Task /\ \A s \in Request : s # r => req[s].task # x.task
           \/ x.pc # "assignVulnerability" /\ x.task \in Task /\ taskStatus[x.task] # "ABSENT",
           x.pc = "assignVulnerability" => \A s \in Request : req[s].task # x.task,
           \A s \in Request : s # r /\ req[s].pc = "assignVulnerability" =>
               taskStatus'[req[s].task] = "ABSENT"
    PROVE  Calls'
<1>1. req' \in [Request -> RequestRecord] /\ req'[r] = x
      /\ \A s \in Request : s # r => req'[s] = req[s]
  BY DEF TaskInvariant, Calls
<1>2. \A s \in Request : CallHolds(req[s])'
  <2> TAKE s \in Request
  <2>1. CASE s = r
    BY <1>1, <2>1
  <2>2. CASE s # r
    BY <1>1, <2>2, OthersHold
  <2> QED
    BY <2>1, <2>2
<1>3. \A s \in Request : req[s].pc = "assignVulnerability" =>
          req[s].task \in Extra /\ taskStatus[req[s].task] = "ABSENT" /\ req[s].task # None
  BY NoneApart DEF TaskInvariant, Calls, CallHolds
<1>4. Reserved'
  BY <1>1, <1>3 DEF TaskInvariant, Calls, Reserved
<1> QED
  BY <1>1, <1>2, <1>4 DEF Calls

\* A step that only moves a call on.
LEMMA ReadOnly ==
    ASSUME TaskInvariant, UNCHANGED Rows, NEW r \in Request, NEW x \in RequestRecord,
           req' = [req EXCEPT ![r] = x], CallHolds(x),
           \/ x.task = None
           \/ x.pc # "assignVulnerability" /\ x.task \in Task /\ taskStatus[x.task] # "ABSENT"
           \/ x.task \in Task /\ \A s \in Request : req[s].task # x.task
    PROVE  TaskInvariant'
<1>1. RowTypes' /\ DevicesHold' /\ WorkHasOwner' /\ SubmittedHasEvidence' /\ Stable
  BY RowsFrame
<1>2. UNCHANGED <<taskStatus, evidence, device>>
  BY DEF Rows, taskVars, recordVars
<1>3. CallHolds(x)'
  BY <1>2 DEF CallHolds, Begun
<1>4. \A s \in Request : req[s].pc = "assignVulnerability" => taskStatus'[req[s].task] = "ABSENT"
  BY <1>2 DEF TaskInvariant, Calls, CallHolds
<1>5. x.pc = "assignVulnerability" => \A s \in Request : req[s].task # x.task
  BY <1>3, NoneApart DEF CallHolds
<1>6. \/ x.task = None
      \/ x.task \in Task /\ \A s \in Request : s # r => req[s].task # x.task
      \/ x.pc # "assignVulnerability" /\ x.task \in Task /\ taskStatus[x.task] # "ABSENT"
  OBVIOUS
<1>7. \A s \in Request : s # r /\ req[s].pc = "assignVulnerability" =>
          taskStatus'[req[s].task] = "ABSENT"
  BY <1>4
<1>8. Calls'
  BY <1>1, <1>3, <1>5, <1>6, <1>7, CallsStep
<1> QED
  BY <1>1, <1>8 DEF TaskInvariant

\* The record of a call that starts.
LEMMA StartRecord ==
    ASSUME NEW pc \in RequestPC, NEW t \in Task \cup {None}, NEW e \in Entity \cup {None},
           NEW to \in TaskStatus \cup {None}, NEW v \in User \cup {None}
    PROVE  /\ [pc |-> pc, task |-> t, about |-> e, to |-> to, target |-> v, seen |-> 0]
                  \in RequestRecord
           /\ Idle = [pc |-> "idle", task |-> None, about |-> None, to |-> None,
                      target |-> None, seen |-> 0]
BY DEF RequestRecord, Idle

LEMMA FinishReadOnly ==
    ASSUME TaskInvariant, UNCHANGED Rows, NEW r \in Request, Finish(r)
    PROVE  TaskInvariant'
<1>1. Idle \in RequestRecord /\ CallHolds(Idle) /\ Idle.task = None
  BY DEF Idle, RequestRecord, RequestPC, CallHolds
<1> QED
  BY <1>1, ReadOnly DEF Finish

\* A call moves on over the same rows, and what the next step relies on holds.
LEMMA GotoReadOnly ==
    ASSUME TaskInvariant, UNCHANGED Rows, NEW r \in Request,
           NEW pc \in RequestPC \ {"assignVulnerability"}, Goto(r, pc),
           req[r].task \in Task, taskStatus[req[r].task] # "ABSENT",
           CallHolds([req[r] EXCEPT !.pc = pc])
    PROVE  TaskInvariant'
<1> DEFINE x == [req[r] EXCEPT !.pc = pc]
<1>1. x \in RequestRecord /\ x.task = req[r].task /\ x.pc = pc
  BY DEF TaskInvariant, Calls, RequestRecord
<1>2. req' = [req EXCEPT ![r] = x] /\ CallHolds(x)
  BY DEF Goto
<1> HIDE DEF x
<1> QED
  BY <1>1, <1>2, ReadOnly

LEMMA ReadSteps ==
    ASSUME TaskInvariant, NEW r \in Request, NEW u \in User, NEW t \in Task,
           \/ \E v \in User : ReadAssign(r, u, t, v)
           \/ \E to \in TaskStatus : ReadUpdateStatus(r, u, t, to)
           \/ \E to \in {"RESOLVED", "IN_PROGRESS"} : ReadReview(r, u, t, to)
           \/ ReadConfirm(r, u, t)
    PROVE  TaskInvariant'
<1> USE DEF Rows, Begin, Finds
<1>1. ASSUME NEW v \in User, ReadAssign(r, u, t, v) PROVE TaskInvariant'
  <2> DEFINE x == [Idle EXCEPT !.pc = "assign", !.task = t, !.target = v]
  <2>1. /\ x \in RequestRecord /\ x.pc = "assign" /\ x.task = t /\ x.target = v
    BY DEF Idle, RequestRecord, RequestPC
  <2>2. /\ UNCHANGED Rows /\ req' = [req EXCEPT ![r] = x] /\ taskStatus[t] # "ABSENT"
    BY <1>1 DEF ReadAssign
  <2> HIDE DEF x
  <2>3. CallHolds(x)
    BY <2>1, <2>2 DEF CallHolds
  <2> QED
    BY <2>1, <2>2, <2>3, ReadOnly
<1>2. ASSUME NEW to \in TaskStatus, ReadUpdateStatus(r, u, t, to) PROVE TaskInvariant'
  <2> DEFINE pc == IF to = "EVIDENCE_SUBMITTED" THEN "count" ELSE "status"
             x == [Idle EXCEPT !.pc = pc, !.task = t, !.to = to]
  <2>1. /\ x \in RequestRecord /\ x.pc = pc /\ x.task = t /\ x.to = to
    BY DEF Idle, RequestRecord, RequestPC
  <2>2. /\ UNCHANGED Rows /\ req' = [req EXCEPT ![r] = x]
    BY <1>2 DEF ReadUpdateStatus
  <2>3. PICK y \in TASK_TRANSITIONS : y.from = taskStatus[t] /\ y.to = to
    BY <1>2 DEF ReadUpdateStatus
  <2>4. /\ Begun(t) /\ to # "OPEN"
        /\ to \in Submitted /\ to # "EVIDENCE_SUBMITTED" => taskStatus[t] \in Submitted
    BY <2>3 DEF TASK_TRANSITIONS, Begun, TaskStatus, Submitted
  <2>5. taskStatus[t] # "ABSENT"
    BY <2>4 DEF Begun, TaskStatus
  <2>6. pc = "status" /\ to \in Submitted => evidence[t] # <<>>
    BY <2>4 DEF TaskInvariant, SubmittedHasEvidence
  <2>7. pc \in {"count", "status"}
    OBVIOUS
  <2> HIDE DEF x, pc
  <2>8. CallHolds(x)
    BY <2>1, <2>4, <2>5, <2>6, <2>7 DEF CallHolds
  <2> QED
    BY <2>1, <2>2, <2>5, <2>7, <2>8, ReadOnly
<1>3. ASSUME NEW to \in {"RESOLVED", "IN_PROGRESS"}, ReadReview(r, u, t, to) PROVE TaskInvariant'
  <2> DEFINE x == [Idle EXCEPT !.pc = "latest", !.task = t, !.to = to]
  <2>1. /\ x \in RequestRecord /\ x.pc = "latest" /\ x.task = t /\ x.to = to
    BY DEF Idle, RequestRecord, RequestPC, TaskStatus
  <2>2. /\ UNCHANGED Rows /\ req' = [req EXCEPT ![r] = x] /\ taskStatus[t] = "UNDER_REVIEW"
    BY <1>3 DEF ReadReview
  <2>3. evidence[t] # <<>> /\ Begun(t)
    BY <2>2 DEF TaskInvariant, SubmittedHasEvidence, Submitted, Begun, TaskStatus
  <2> HIDE DEF x
  <2>4. CallHolds(x)
    BY <2>1, <2>2, <2>3 DEF CallHolds
  <2> QED
    BY <2>1, <2>2, <2>4, ReadOnly
<1>4. CASE ReadConfirm(r, u, t)
  <2> DEFINE x == [Idle EXCEPT !.pc = "store", !.task = t]
  <2>1. /\ x \in RequestRecord /\ x.pc = "store" /\ x.task = t
    BY DEF Idle, RequestRecord, RequestPC
  <2>2. /\ UNCHANGED Rows /\ req' = [req EXCEPT ![r] = x] /\ taskStatus[t] # "ABSENT"
    BY <1>4 DEF ReadConfirm
  <2> HIDE DEF x
  <2>3. CallHolds(x)
    BY <2>1, <2>2 DEF CallHolds
  <2> QED
    BY <2>1, <2>2, <2>3, ReadOnly
<1> QED
  BY <1>1, <1>2, <1>3, <1>4

LEMMA OpenSteps ==
    ASSUME TaskInvariant, NEW r \in Request, NEW u \in User,
           \/ \E o \in Owner : ReadDevice(r, u, o)
           \/ \E y \in Vulnerability, v \in User : ReadAssignVulnerability(r, u, y, v)
    PROVE  TaskInvariant'
<1>1. ASSUME NEW o \in Owner, ReadDevice(r, u, o) PROVE TaskInvariant'
  <2> DEFINE x == [Idle EXCEPT !.pc = "register", !.about = o]
  <2>1. x \in RequestRecord /\ x.pc = "register" /\ x.about = o /\ x.task = None
    BY DEF Idle, RequestRecord, RequestPC, Entity
  <2>2. UNCHANGED Rows /\ req' = [req EXCEPT ![r] = x]
    BY <1>1 DEF ReadDevice, Begin, Rows
  <2> HIDE DEF x
  <2>3. CallHolds(x)
    BY <2>1 DEF CallHolds
  <2> QED
    BY <2>1, <2>2, <2>3, ReadOnly
<1>2. ASSUME NEW y \in Vulnerability, NEW v \in User, ReadAssignVulnerability(r, u, y, v)
      PROVE  TaskInvariant'
  <2>1. PICK t \in Unused : Begin(r, [Idle EXCEPT !.pc = "assignVulnerability", !.task = t,
                                                  !.about = y, !.target = v])
    BY <1>2 DEF ReadAssignVulnerability
  <2> DEFINE x == [Idle EXCEPT !.pc = "assignVulnerability", !.task = t,
                               !.about = y, !.target = v]
  <2>2. /\ t \in Task /\ t \in Extra /\ taskStatus[t] = "ABSENT"
        /\ \A s \in Request : req[s].task # t
    BY NoneApart DEF Unused
  <2>3. /\ x \in RequestRecord /\ x.pc = "assignVulnerability" /\ x.task = t
        /\ x.about = y /\ x.target = v
    BY <2>2 DEF Idle, RequestRecord, RequestPC, Entity
  <2>4. UNCHANGED Rows /\ req' = [req EXCEPT ![r] = x]
    BY <1>2, <2>1 DEF ReadAssignVulnerability, Begin, Rows
  <2> HIDE DEF x
  <2>5. CallHolds(x)
    BY <2>2, <2>3 DEF CallHolds
  <2> QED
    BY <2>2, <2>3, <2>4, <2>5, ReadOnly
<1> QED
  BY <1>1, <1>2

LEMMA MoveSteps ==
    ASSUME TaskInvariant, NEW r \in Request,
           CountEvidence(r) \/ ReadLatest(r) \/ ReadChecks(r) \/ Abort(r)
    PROVE  TaskInvariant'
<1>1. req[r] \in RequestRecord /\ CallHolds(req[r])
  BY DEF TaskInvariant, Calls
<1>2. CASE CountEvidence(r)
  <2>1. UNCHANGED Rows /\ req[r].pc = "count"
    BY <1>2 DEF CountEvidence, Rows
  <2>2. CASE evidence[req[r].task] = <<>>
    BY <1>2, <2>1, <2>2, FinishReadOnly DEF CountEvidence
  <2>3. CASE evidence[req[r].task] # <<>>
    <3> DEFINE x == [req[r] EXCEPT !.pc = "status"]
    <3>1. x.pc = "status" /\ x.task = req[r].task /\ x.to = req[r].to
      BY <1>1 DEF RequestRecord
    <3> HIDE DEF x
    <3>2. CallHolds(x)
      BY <1>1, <2>1, <2>3, <3>1 DEF CallHolds
    <3>3. Goto(r, "status") /\ "status" \in RequestPC \ {"assignVulnerability"}
      BY <1>2, <2>3 DEF CountEvidence, RequestPC
    <3>4. req[r].task \in Task /\ taskStatus[req[r].task] # "ABSENT"
      BY <1>1, <2>1 DEF CallHolds
    <3> QED
      BY <2>1, <3>2, <3>3, <3>4, GotoReadOnly DEF x
  <2> QED
    BY <2>2, <2>3
<1>3. CASE ReadLatest(r)
  <2> DEFINE x == [req[r] EXCEPT !.pc = "decide", !.seen = Len(evidence[req[r].task])]
  <2>1. req[r].pc = "latest" /\ req[r].task \in Task /\ taskStatus[req[r].task] # "ABSENT"
    BY <1>1, <1>3 DEF ReadLatest, CallHolds
  <2>2. Len(evidence[req[r].task]) \in Nat
    BY <2>1 DEF TaskInvariant, RowTypes
  <2>3. /\ x \in RequestRecord /\ x.pc = "decide" /\ x.task = req[r].task
        /\ x.to = req[r].to /\ x.seen = Len(evidence[req[r].task])
    BY <1>1, <2>2 DEF RequestRecord, RequestPC
  <2>4. UNCHANGED Rows /\ req' = [req EXCEPT ![r] = x]
    BY <1>3 DEF ReadLatest, Rows
  <2> HIDE DEF x
  <2>5. CallHolds(x)
    BY <1>1, <2>1, <2>2, <2>3 DEF CallHolds
  <2> QED
    BY <2>1, <2>3, <2>4, <2>5, ReadOnly
<1>4. CASE ReadChecks(r)
  <2>1. UNCHANGED Rows /\ req[r].pc = "sync" /\ req[r].about \in Owner
    BY <1>4 DEF ReadChecks, Rows
  <2>2. CASE Finish(r)
    BY <2>1, <2>2, FinishReadOnly
  <2>3. CASE Goto(r, "compliant")
    <3> DEFINE x == [req[r] EXCEPT !.pc = "compliant"]
    <3>1. x.pc = "compliant" /\ x.task = req[r].task /\ x.about = req[r].about
      BY <1>1 DEF RequestRecord
    <3> HIDE DEF x
    <3>2. CallHolds(x)
      BY <1>1, <2>1, <3>1 DEF CallHolds
    <3>3. "compliant" \in RequestPC \ {"assignVulnerability"}
      BY DEF RequestPC
    <3>4. req[r].task \in Task /\ taskStatus[req[r].task] # "ABSENT"
      BY <1>1, <2>1 DEF CallHolds
    <3> QED
      BY <2>1, <2>3, <3>2, <3>3, <3>4, GotoReadOnly DEF x
  <2> QED
    BY <1>4, <2>2, <2>3 DEF ReadChecks
<1>5. CASE Abort(r)
  BY <1>5, FinishReadOnly DEF Abort, Rows
<1> QED
  BY <1>2, <1>3, <1>4, <1>5

-----------------------------------------------------------------------------
(* Steps that write *)

\* A handler that ends, or a call of one step, over rows that stay stable.
LEMMA WriteStep ==
    ASSUME TaskInvariant, RowTypes', DevicesHold', WorkHasOwner', SubmittedHasEvidence', Stable,
           NEW r \in Request, Finish(r) \/ UNCHANGED req,
           \A s \in Request : req'[s].pc = "assignVulnerability" =>
               taskStatus'[req[s].task] = "ABSENT"
    PROVE  TaskInvariant'
<1>1. Idle \in RequestRecord /\ CallHolds(Idle)' /\ Idle.pc = "idle"
  BY DEF Idle, RequestRecord, RequestPC, CallHolds
<1>2. req' \in [Request -> RequestRecord]
      /\ \A s \in Request : req'[s] = req[s] \/ (req'[s] = Idle)
  BY <1>1 DEF TaskInvariant, Calls, Finish
<1>3. \A s \in Request : CallHolds(req[s])'
  <2> TAKE s \in Request
  <2>1. CASE req'[s] = Idle
    BY <1>1, <2>1
  <2>2. CASE req'[s] = req[s]
    BY <2>2, OthersHold
  <2> QED
    BY <1>2, <2>1, <2>2
<1>4. Reserved'
  <2>1. Idle.task = None
    BY DEF Idle
  <2>2. \A s \in Request : req[s].pc = "assignVulnerability" => req[s].task # None
    BY NoneApart DEF TaskInvariant, Calls, CallHolds
  <2> QED
    BY <1>1, <1>2, <2>1, <2>2 DEF TaskInvariant, Calls, Reserved
<1> QED
  BY <1>2, <1>3, <1>4 DEF TaskInvariant, Calls

\* The newest Evidence row gets its verdict; no row is added.
LEMMA VerifyRows ==
    ASSUME RowTypes, NEW t \in Task, NEW i \in 0..Len(evidence[t]), NEW v \in Verdict,
           Verify(t, i, v)
    PROVE  /\ evidence' \in [Task -> Seq(Verdict)]
           /\ \A z \in Task : Len(evidence'[z]) = Len(evidence[z])
<1>1. evidence \in [Task -> Seq(Verdict)] /\ evidence[t] \in Seq(Verdict)
  BY DEF RowTypes
<1>2. CASE i = 0
  BY <1>1, <1>2 DEF Verify
<1>3. CASE i # 0
  <2> DEFINE new == [evidence[t] EXCEPT ![i] = v]
  <2>1. /\ DOMAIN new = 1..Len(evidence[t]) /\ Len(evidence[t]) \in Nat
        /\ new = [j \in 1..Len(evidence[t]) |-> new[j]]
        /\ \A j \in 1..Len(evidence[t]) : new[j] \in Verdict
    BY <1>1
  <2>2. evidence' = [evidence EXCEPT ![t] = new]
    BY <1>3 DEF Verify
  <2> HIDE DEF new
  <2>3. new \in Seq(Verdict) /\ Len(new) = Len(evidence[t])
    BY <2>1
  <2> QED
    BY <1>1, <2>2, <2>3
<1> QED
  BY <1>2, <1>3

\* A task that exists gets a status, and an owner if it had none.
LEMMA StatusRows ==
    ASSUME TaskInvariant, NEW t \in Task, taskStatus[t] # "ABSENT",
           NEW st \in TaskStatus \ {"OPEN"},
           taskStatus' = [taskStatus EXCEPT ![t] = st],
           assignee' \in [Task -> User \cup {None}], assignee'[t] # None,
           \A z \in Task : z # t => assignee'[z] = assignee[z],
           resolvedAt' \in [Task -> BOOLEAN],
           evidence' \in [Task -> Seq(Verdict)],
           \A z \in Task : Len(evidence'[z]) = Len(evidence[z]),
           st \in Submitted => evidence[t] # <<>>,
           UNCHANGED <<entity, device, vulnerability>>
    PROVE  /\ RowTypes' /\ DevicesHold' /\ WorkHasOwner' /\ SubmittedHasEvidence' /\ Stable
           /\ \A s \in Request : req[s].pc = "assignVulnerability" =>
                 taskStatus'[req[s].task] = "ABSENT"
<1>1. /\ RowTypes /\ DevicesHold /\ WorkHasOwner /\ SubmittedHasEvidence
      /\ \A s \in Request : CallHolds(req[s])
  BY DEF TaskInvariant, Calls
<1>2. /\ taskStatus'[t] = st /\ st # "ABSENT"
      /\ \A z \in Task : z # t => taskStatus'[z] = taskStatus[z]
      /\ \A z \in Task : taskStatus'[z] = "ABSENT" <=> taskStatus[z] = "ABSENT"
  BY <1>1 DEF RowTypes, TaskStatus
<1>3. \A z \in Task : /\ evidence[z] # <<>> => evidence'[z] # <<>>
                      /\ Len(evidence[z]) \in Nat
  BY <1>1 DEF RowTypes
<1>4. RowTypes'
  BY <1>1 DEF RowTypes
<1>5. DevicesHold'
  BY <1>1, <1>2, CheckNames DEF DevicesHold
<1>6. WorkHasOwner' /\ SubmittedHasEvidence'
  BY <1>1, <1>2, <1>3 DEF WorkHasOwner, SubmittedHasEvidence
<1>7. Stable
  BY <1>2, <1>3 DEF Stable, Begun
<1>8. \A s \in Request : req[s].pc = "assignVulnerability" => taskStatus'[req[s].task] = "ABSENT"
  BY <1>1, <1>2, NoneApart DEF CallHolds
<1> QED
  BY <1>4, <1>5, <1>6, <1>7, <1>8

LEMMA StatusSteps ==
    ASSUME TaskInvariant, NEW r \in Request,
           CommitAssign(r) \/ CommitStatus(r) \/ CommitReject(r) \/ CommitApprove(r)
    PROVE  TaskInvariant'
<1> DEFINE t == req[r].task
<1>1. /\ RowTypes /\ WorkHasOwner /\ CallHolds(req[r]) /\ req[r] \in RequestRecord
      /\ assignee \in [Task -> User \cup {None}] /\ resolvedAt \in [Task -> BOOLEAN]
      /\ evidence \in [Task -> Seq(Verdict)]
  BY DEF TaskInvariant, Calls, RowTypes
<1>2. t \in Task /\ taskStatus[t] # "ABSENT"
  BY <1>1 DEF CallHolds, CommitAssign, CommitStatus, CommitReject, CommitApprove
<1>3. Begun(t) => assignee[t] # None
  BY <1>1, <1>2 DEF Begun, WorkHasOwner
<1>4. Finish(r) => \A s \in Request : req'[s].pc = "assignVulnerability" => req'[s] = req[s]
  BY DEF Finish, Idle, TaskInvariant, Calls
<1>5. CASE CommitAssign(r)
  <2>1. /\ taskStatus' = [taskStatus EXCEPT ![t] = "ASSIGNED"] /\ req[r].target \in User
        /\ assignee' = [assignee EXCEPT ![t] = req[r].target]
        /\ UNCHANGED <<resolvedAt, entity, evidence, device, vulnerability>> /\ Finish(r)
    BY <1>1, <1>5 DEF CommitAssign, CallHolds, recordVars
  <2>2. "ASSIGNED" \in TaskStatus \ {"OPEN"} /\ "ASSIGNED" \notin Submitted
    BY DEF TaskStatus, Submitted
  <2> HIDE DEF t
  <2>3. /\ assignee' \in [Task -> User \cup {None}] /\ assignee'[t] # None
        /\ \A z \in Task : z # t => assignee'[z] = assignee[z]
    BY <1>1, <1>2, <2>1, NoneApart
  <2> QED
    BY <1>1, <1>2, <1>4, <2>1, <2>2, <2>3, StatusRows, WriteStep
<1>6. CASE CommitStatus(r)
  <2>1. /\ taskStatus' = [taskStatus EXCEPT ![t] = req[r].to] /\ Begun(t)
        /\ req[r].to \in TaskStatus \ {"OPEN"}
        /\ req[r].to \in Submitted => evidence[t] # <<>>
        /\ UNCHANGED <<assignee, resolvedAt, entity, evidence, device, vulnerability>>
        /\ Finish(r)
    BY <1>1, <1>6 DEF CommitStatus, CallHolds, recordVars
  <2> HIDE DEF t
  <2> QED
    BY <1>1, <1>2, <1>3, <1>4, <2>1, StatusRows, WriteStep
<1>7. CASE CommitReject(r)
  <2>1. /\ taskStatus' = [taskStatus EXCEPT ![t] = "IN_PROGRESS"] /\ Begun(t)
        /\ Verify(t, req[r].seen, "REJECTED") /\ req[r].seen \in 0..Len(evidence[t])
        /\ UNCHANGED <<assignee, resolvedAt, entity, device, vulnerability>>
        /\ Finish(r)
    BY <1>1, <1>7 DEF CommitReject, CallHolds, recordVars
  <2>2. "IN_PROGRESS" \in TaskStatus \ {"OPEN"} /\ "IN_PROGRESS" \notin Submitted
    BY DEF TaskStatus, Submitted
  <2>3. /\ evidence' \in [Task -> Seq(Verdict)]
        /\ \A z \in Task : Len(evidence'[z]) = Len(evidence[z])
    BY <1>1, <1>2, <2>1, VerifyRows DEF Verdict
  <2> HIDE DEF t
  <2> QED
    BY <1>1, <1>2, <1>3, <1>4, <2>1, <2>2, <2>3, StatusRows, WriteStep
<1>8. CASE CommitApprove(r)
  <2>1. /\ taskStatus' = [taskStatus EXCEPT ![t] = "RESOLVED"] /\ Begun(t)
        /\ resolvedAt' = [resolvedAt EXCEPT ![t] = TRUE] /\ evidence[t] # <<>>
        /\ Verify(t, req[r].seen, "APPROVED") /\ req[r].seen \in 0..Len(evidence[t])
        /\ UNCHANGED <<assignee, entity, device, vulnerability>>
    BY <1>1, <1>8 DEF CommitApprove, CallHolds, recordVars
  <2>2. "RESOLVED" \in TaskStatus \ {"OPEN"}
    BY DEF TaskStatus
  <2>3. /\ evidence' \in [Task -> Seq(Verdict)]
        /\ \A z \in Task : Len(evidence'[z]) = Len(evidence[z])
    BY <1>1, <1>2, <2>1, VerifyRows DEF Verdict
  <2>4. resolvedAt' \in [Task -> BOOLEAN]
    BY <1>1, <2>1
  <2>5. /\ RowTypes' /\ DevicesHold' /\ WorkHasOwner' /\ SubmittedHasEvidence' /\ Stable
        /\ \A s \in Request : req[s].pc = "assignVulnerability" =>
              taskStatus'[req[s].task] = "ABSENT"
    <3> HIDE DEF t
    <3> QED
      BY <1>1, <1>2, <1>3, <2>1, <2>2, <2>3, <2>4, StatusRows
  <2>6. CASE Finish(r)
    BY <1>4, <2>5, <2>6, WriteStep
  <2>7. CASE ~Finish(r)
    <3>1. entity[t] \in Owner \cup Vulnerability
      BY <1>8, <2>7 DEF CommitApprove
    <3>2. [Idle EXCEPT !.pc = "sync", !.task = t, !.about = entity[t]] \in RequestRecord
      BY <1>2, <3>1 DEF Idle, RequestRecord, RequestPC, Entity
    <3>3. PICK x \in RequestRecord : x = [Idle EXCEPT !.pc = "sync", !.task = t,
                                                      !.about = entity[t]]
      BY <3>2
    <3>4. x.pc = "sync" /\ x.task = t /\ x.about = entity[t]
      BY <3>3 DEF Idle
    <3>5. entity[t] \in Owner => device[entity[t]] # "ABSENT"
      BY <1>2 DEF TaskInvariant, DevicesHold
    <3>6. taskStatus'[t] # "ABSENT"
      BY <1>1, <1>2, <2>1 DEF RowTypes
    <3>7. CallHolds(x)'
      BY <1>2, <2>1, <3>1, <3>4, <3>5, <3>6 DEF CallHolds
    <3>8. Calls'
      <4>1. req' = [req EXCEPT ![r] = x]
        BY <1>8, <2>7, <3>3 DEF CommitApprove
      <4>2. x.task \in Task /\ taskStatus[x.task] # "ABSENT" /\ x.pc # "assignVulnerability"
        BY <1>2, <3>4
      <4> QED
        BY <2>5, <3>7, <4>1, <4>2, CallsStep
    <3> QED
      BY <2>5, <3>8 DEF TaskInvariant
  <2> QED
    BY <2>6, <2>7
<1> QED
  BY <1>5, <1>6, <1>7, <1>8

\* New rows: what holds of them whichever record they are for.
LEMMA InsertRows ==
    ASSUME TaskInvariant, NEW new \in SUBSET Task, \A t \in new : taskStatus[t] = "ABSENT",
           NEW e \in Entity \cup {None}, NEW v \in User \cup {None}, InsertTasks(new, e, v),
           device' \in [Owner -> {"ABSENT", "PENDING", "COMPLIANT"}],
           \A o \in Owner : device[o] # "ABSENT" => device'[o] # "ABSENT",
           vulnerability' \in [Vulnerability -> VulnerabilityStatus \cup {"ABSENT"}]
    PROVE  /\ RowTypes' /\ WorkHasOwner' /\ SubmittedHasEvidence' /\ Stable
           /\ \A t \in Task : t \notin new =>
                 taskStatus'[t] = taskStatus[t] /\ entity'[t] = entity[t]
           /\ \A t \in new : taskStatus'[t] # "ABSENT" /\ entity'[t] = e
<1>1. /\ RowTypes /\ WorkHasOwner /\ SubmittedHasEvidence
  BY DEF TaskInvariant
<1>2. /\ \A t \in Task : t \notin new =>
            /\ taskStatus'[t] = taskStatus[t] /\ entity'[t] = entity[t]
            /\ assignee'[t] = assignee[t]
      /\ \A t \in new : /\ taskStatus'[t] = IF v = None THEN "OPEN" ELSE "ASSIGNED"
                        /\ entity'[t] = e /\ assignee'[t] = v
      /\ UNCHANGED <<resolvedAt, evidence>>
  BY DEF InsertTasks
<1>3. /\ taskStatus' \in [Task -> TaskStatus \cup {"ABSENT"}]
      /\ assignee' \in [Task -> User \cup {None}]
      /\ entity' \in [Task -> Entity \cup {None}]
  BY <1>1 DEF InsertTasks, RowTypes, TaskStatus
<1>4. RowTypes'
  BY <1>1, <1>2, <1>3 DEF RowTypes
<1>5. WorkHasOwner' /\ SubmittedHasEvidence'
  BY <1>1, <1>2 DEF WorkHasOwner, SubmittedHasEvidence, Submitted
<1>6. \A t \in Task : Len(evidence[t]) \in Nat
  BY <1>1 DEF RowTypes
<1>7. Stable
  BY <1>2, <1>6 DEF Stable, Begun, TaskStatus
<1> QED
  BY <1>2, <1>4, <1>5, <1>7

\* A task that is no device check, for a record that exists.
LEMMA InsertExtra ==
    ASSUME TaskInvariant, NEW t \in Extra, taskStatus[t] = "ABSENT",
           NEW e \in Entity \cup {None}, NEW v \in User \cup {None}, InsertTasks({t}, e, v),
           e \in Owner => device[e] # "ABSENT", UNCHANGED device,
           vulnerability' \in [Vulnerability -> VulnerabilityStatus \cup {"ABSENT"}]
    PROVE  /\ RowTypes' /\ DevicesHold' /\ WorkHasOwner' /\ SubmittedHasEvidence' /\ Stable
           /\ \A z \in Task : z # t => taskStatus'[z] = taskStatus[z]
<1>1. {t} \in SUBSET Task /\ \A z \in {t} : taskStatus[z] = "ABSENT"
  BY NoneApart
<1>2. device \in [Owner -> {"ABSENT", "PENDING", "COMPLIANT"}] /\ DevicesHold
  BY DEF TaskInvariant, RowTypes
<1>3. /\ RowTypes' /\ WorkHasOwner' /\ SubmittedHasEvidence' /\ Stable
      /\ \A z \in Task : z \notin {t} =>
            taskStatus'[z] = taskStatus[z] /\ entity'[z] = entity[z]
      /\ \A z \in {t} : taskStatus'[z] # "ABSENT" /\ entity'[z] = e
  BY <1>1, <1>2, InsertRows
<1>4. DevicesHold'
  BY <1>2, <1>3, CheckNames DEF DevicesHold
<1> QED
  BY <1>3, <1>4

LEMMA InsertSteps ==
    ASSUME TaskInvariant, NEW r \in Request,
           \/ \E u \in User, e \in Entity \cup {None}, v \in User \cup {None} :
                 CreateTask(r, u, e, v)
           \/ \E u \in User, p \in Person, v \in User : AssignPerson(r, u, p, v)
           \/ CommitAssignVulnerability(r)
    PROVE  TaskInvariant'
<1>1. /\ vulnerability \in [Vulnerability -> VulnerabilityStatus \cup {"ABSENT"}]
      /\ \A s \in Request : CallHolds(req[s])
  BY DEF TaskInvariant, RowTypes, Calls
<1>2. \A t \in Unused : /\ t \in Extra /\ taskStatus[t] = "ABSENT"
                        /\ \A s \in Request : req[s].task # t
  BY DEF Unused
<1>3. ASSUME NEW t \in Unused, NEW e \in Entity \cup {None}, NEW v \in User \cup {None},
             InsertTasks({t}, e, v), e \in Owner => device[e] # "ABSENT",
             UNCHANGED <<recordVars, req>>
      PROVE  TaskInvariant'
  <2>1. UNCHANGED device /\ vulnerability' = vulnerability /\ UNCHANGED req
    BY <1>3 DEF recordVars
  <2>2. /\ RowTypes' /\ DevicesHold' /\ WorkHasOwner' /\ SubmittedHasEvidence' /\ Stable
        /\ \A z \in Task : z # t => taskStatus'[z] = taskStatus[z]
    BY <1>1, <1>2, <1>3, <2>1, InsertExtra
  <2>3. \A s \in Request : req'[s].pc = "assignVulnerability" =>
            taskStatus'[req[s].task] = "ABSENT"
    BY <1>1, <1>2, <2>1, <2>2, NoneApart DEF CallHolds
  <2> QED
    BY <2>1, <2>2, <2>3, WriteStep
<1>4. ASSUME NEW u \in User, NEW e \in Entity \cup {None}, NEW v \in User \cup {None},
             CreateTask(r, u, e, v)
      PROVE  TaskInvariant'
  BY <1>3, <1>4 DEF CreateTask
<1>5. ASSUME NEW u \in User, NEW p \in Person, NEW v \in User, AssignPerson(r, u, p, v)
      PROVE  TaskInvariant'
  <2>1. p \in Entity /\ p \notin Owner
    BY EntityAssumption DEF Entity
  <2> QED
    BY <1>3, <1>5, <2>1 DEF AssignPerson
<1>6. CASE CommitAssignVulnerability(r)
  <2> DEFINE q == req[r]
  <2>1. /\ q.task \in Extra /\ taskStatus[q.task] = "ABSENT" /\ q.about \in Vulnerability
        /\ q.target \in User /\ q.pc = "assignVulnerability"
    BY <1>1, <1>6 DEF CommitAssignVulnerability, CallHolds
  <2>2. /\ InsertTasks({q.task}, q.about, q.target) /\ Finish(r) /\ UNCHANGED device
        /\ vulnerability' = [vulnerability EXCEPT ![q.about] = "IN_REMEDIATION"]
    BY <1>6 DEF CommitAssignVulnerability
  <2>3. /\ vulnerability' \in [Vulnerability -> VulnerabilityStatus \cup {"ABSENT"}]
        /\ q.about \in Entity /\ q.about \notin Owner
    BY <1>1, <2>1, <2>2, EntityAssumption DEF VulnerabilityStatus, Entity
  <2>4. /\ RowTypes' /\ DevicesHold' /\ WorkHasOwner' /\ SubmittedHasEvidence' /\ Stable
        /\ \A z \in Task : z # q.task => taskStatus'[z] = taskStatus[z]
    <3> HIDE DEF q
    <3> QED
      BY <2>1, <2>2, <2>3, InsertExtra
  <2>5. \A s \in Request : req'[s].pc = "assignVulnerability" =>
            /\ s # r /\ req'[s] = req[s] /\ req[s].task \in Task /\ req[s].task # q.task
    BY <1>1, <2>1, <2>2, NoneApart DEF Finish, Idle, CallHolds, TaskInvariant, Calls, Reserved
  <2>6. \A s \in Request : req'[s].pc = "assignVulnerability" =>
            taskStatus'[req[s].task] = "ABSENT"
    BY <1>1, <2>4, <2>5 DEF CallHolds
  <2> QED
    BY <2>2, <2>4, <2>6, WriteStep
<1> QED
  BY <1>4, <1>5, <1>6

LEMMA RecordSteps ==
    ASSUME TaskInvariant, NEW r \in Request,
           \/ \E u \in User, x \in Vulnerability :
                 \/ CreateVulnerability(r, u, x)
                 \/ \E st \in VulnerabilityStatus : UpdateVulnerability(r, u, x, st)
           \/ SyncVulnerability(r) \/ SyncDevice(r)
    PROVE  TaskInvariant'
<1>1. /\ RowTypes /\ DevicesHold /\ WorkHasOwner /\ SubmittedHasEvidence
      /\ \A s \in Request : CallHolds(req[s])
      /\ \A t \in Task : Len(evidence[t]) \in Nat
  BY DEF TaskInvariant, Calls, RowTypes
<1>2. /\ UNCHANGED <<taskStatus, assignee, resolvedAt, entity, evidence>>
      /\ Finish(r) \/ UNCHANGED req
  BY DEF CreateVulnerability, UpdateVulnerability, SyncVulnerability, SyncDevice, taskVars
<1>3. vulnerability' \in [Vulnerability -> VulnerabilityStatus \cup {"ABSENT"}]
  BY <1>1 DEF CreateVulnerability, UpdateVulnerability, SyncVulnerability, SyncDevice,
              RowTypes, VulnerabilityStatus
<1>4. /\ device' \in [Owner -> {"ABSENT", "PENDING", "COMPLIANT"}]
      /\ \A o \in Owner : device'[o] = "ABSENT" <=> device[o] = "ABSENT"
  <2>1. CASE SyncDevice(r)
    <3>1. req[r].about \in Owner /\ device[req[r].about] # "ABSENT"
      BY <1>1, <2>1 DEF SyncDevice, CallHolds
    <3> QED
      BY <1>1, <2>1, <3>1 DEF SyncDevice, RowTypes
  <2>2. CASE UNCHANGED device
    BY <1>1, <2>2 DEF RowTypes
  <2> QED
    BY <2>1, <2>2 DEF CreateVulnerability, UpdateVulnerability, SyncVulnerability
<1>5. RowTypes' /\ DevicesHold' /\ WorkHasOwner' /\ SubmittedHasEvidence' /\ Stable
  BY <1>1, <1>2, <1>3, <1>4 DEF RowTypes, DevicesHold, WorkHasOwner, SubmittedHasEvidence,
                                Stable, Begun
<1>6. \A s \in Request : req'[s].pc = "assignVulnerability" => taskStatus'[req[s].task] = "ABSENT"
  BY <1>1, <1>2 DEF CallHolds, Finish, Idle, TaskInvariant, Calls
<1> QED
  BY <1>2, <1>5, <1>6, WriteStep

LEMMA EvidenceStep ==
    ASSUME TaskInvariant, NEW r \in Request, StoreEvidence(r)
    PROVE  TaskInvariant'
<1> DEFINE t == req[r].task
<1>1. /\ RowTypes /\ DevicesHold /\ WorkHasOwner /\ SubmittedHasEvidence
      /\ evidence \in [Task -> Seq(Verdict)]
      /\ \A s \in Request : CallHolds(req[s])
  BY DEF TaskInvariant, Calls, RowTypes
<1>2. /\ t \in Task /\ evidence' = [evidence EXCEPT ![t] = Append(@, "PENDING")]
      /\ UNCHANGED <<taskStatus, assignee, resolvedAt, entity, device, vulnerability>>
      /\ Finish(r)
  BY <1>1 DEF StoreEvidence, CallHolds, taskVars, recordVars
<1>3. /\ evidence' \in [Task -> Seq(Verdict)]
      /\ \A z \in Task : Len(evidence[z]) <= Len(evidence'[z])
      /\ \A z \in Task : evidence[z] # <<>> => evidence'[z] # <<>>
  <2>1. evidence[t] \in Seq(Verdict) /\ "PENDING" \in Verdict
    BY <1>1, <1>2 DEF Verdict
  <2>2. PICK old \in Seq(Verdict), v \in Verdict : old = evidence[t] /\ v = "PENDING"
    BY <2>1
  <2> DEFINE new == Append(old, v)
  <2>3. /\ new \in Seq(Verdict) /\ new # <<>>
        /\ Len(new) = Len(old) + 1 /\ Len(old) \in Nat
    OBVIOUS
  <2>4. \A z \in Task : Len(evidence[z]) \in Nat
    BY <1>1
  <2>5. evidence' = [evidence EXCEPT ![t] = new]
    BY <1>2, <2>2
  <2> HIDE DEF t, new
  <2> QED
    BY <1>1, <1>2, <2>2, <2>3, <2>4, <2>5
<1>4. RowTypes' /\ DevicesHold' /\ WorkHasOwner' /\ SubmittedHasEvidence' /\ Stable
  BY <1>1, <1>2, <1>3 DEF RowTypes, DevicesHold, WorkHasOwner, SubmittedHasEvidence, Stable,
                          Begun
<1>5. \A s \in Request : req'[s].pc = "assignVulnerability" => taskStatus'[req[s].task] = "ABSENT"
  BY <1>1, <1>2 DEF CallHolds, Finish, Idle, TaskInvariant, Calls
<1> QED
  BY <1>2, <1>4, <1>5, WriteStep

LEMMA DeviceStep ==
    ASSUME TaskInvariant, NEW r \in Request, CommitDevice(r)
    PROVE  TaskInvariant'
<1>1. /\ DevicesHold /\ WorkHasOwner /\ SubmittedHasEvidence
      /\ device \in [Owner -> {"ABSENT", "PENDING", "COMPLIANT"}]
      /\ vulnerability \in [Vulnerability -> VulnerabilityStatus \cup {"ABSENT"}]
      /\ \A s \in Request : CallHolds(req[s])
  BY DEF TaskInvariant, Calls, RowTypes
<1>2. PICK o \in Owner : o = req[r].about
  BY <1>1 DEF CommitDevice, CallHolds
<1>3. Finish(r) /\ UNCHANGED vulnerability
  BY DEF CommitDevice
<1>4. CASE device[o] # "ABSENT"
  BY <1>2, <1>3, <1>4, FinishReadOnly DEF CommitDevice, Rows, recordVars
<1>5. CASE device[o] = "ABSENT"
  <2>1. device' = [device EXCEPT ![o] = "PENDING"] /\ InsertTasks(Check(o), o, o)
    BY <1>2, <1>5 DEF CommitDevice
  <2>2. /\ Check(o) \in SUBSET Task /\ \A t \in Check(o) : taskStatus[t] = "ABSENT"
        /\ o \in Entity /\ o \in User
    BY <1>1, <1>5, CheckNames, OwnerAssumption DEF DevicesHold, Entity
  <2>3. /\ device' \in [Owner -> {"ABSENT", "PENDING", "COMPLIANT"}]
        /\ \A n \in Owner : device[n] # "ABSENT" => device'[n] # "ABSENT"
        /\ vulnerability' \in [Vulnerability -> VulnerabilityStatus \cup {"ABSENT"}]
    BY <1>1, <1>3, <2>1
  <2>4. /\ RowTypes' /\ WorkHasOwner' /\ SubmittedHasEvidence' /\ Stable
        /\ \A t \in Task : t \notin Check(o) =>
              taskStatus'[t] = taskStatus[t] /\ entity'[t] = entity[t]
        /\ \A t \in Check(o) : taskStatus'[t] # "ABSENT" /\ entity'[t] = o
    BY <2>1, <2>2, <2>3, InsertRows
  <2>5. DevicesHold'
    <3>1. /\ device'[o] # "ABSENT"
          /\ \A n \in Owner : n # o => device'[n] = device[n]
      BY <1>1, <2>1
    <3>2. \A n \in Owner : n # o => \A t \in Check(n) : t \in Task /\ t \notin Check(o)
      BY CheckNames
    <3>3. ASSUME NEW n \in Owner, NEW t \in Check(n)
          PROVE  IF device'[n] = "ABSENT" THEN taskStatus'[t] = "ABSENT"
                 ELSE taskStatus'[t] # "ABSENT" /\ entity'[t] = n
      BY <1>1, <2>4, <3>1, <3>2, <3>3 DEF DevicesHold
    <3>4. ASSUME NEW t \in Task, taskStatus'[t] # "ABSENT", entity'[t] \in Owner
          PROVE  device'[entity'[t]] # "ABSENT"
      BY <1>1, <2>3, <2>4, <3>1, <3>4 DEF DevicesHold
    <3> QED
      BY <3>3, <3>4 DEF DevicesHold, Check
  <2>6. \A s \in Request : req'[s].pc = "assignVulnerability" =>
            taskStatus'[req[s].task] = "ABSENT"
    <3>1. \A s \in Request : req'[s].pc = "assignVulnerability" => req'[s] = req[s]
      BY <1>3 DEF Finish, Idle, TaskInvariant, Calls
    <3>2. \A t \in Extra : t \in Task /\ t \notin Check(o)
      BY CheckNames, NoneApart
    <3> QED
      BY <1>1, <2>4, <3>1, <3>2 DEF CallHolds
  <2> QED
    BY <1>3, <2>4, <2>5, <2>6, WriteStep
<1> QED
  BY <1>4, <1>5

-----------------------------------------------------------------------------
(* Theorems *)

LEMMA InitInvariant == Init => TaskInvariant
<1> SUFFICES ASSUME Init PROVE TaskInvariant
  OBVIOUS
<1>1. RowTypes
  BY DEF Init, RowTypes
<1>2. DevicesHold /\ WorkHasOwner /\ SubmittedHasEvidence
  BY CheckNames DEF Init, DevicesHold, WorkHasOwner, SubmittedHasEvidence, Submitted
<1>3. Calls
  BY DEF Init, Calls, CallHolds, Reserved, Idle, RequestRecord, RequestPC
<1> QED
  BY <1>1, <1>2, <1>3 DEF TaskInvariant

LEMMA NextInvariant == TaskInvariant /\ [Next]_vars => TaskInvariant'
<1> SUFFICES ASSUME TaskInvariant, [Next]_vars PROVE TaskInvariant'
  OBVIOUS
<1>1. CASE UNCHANGED vars
  <2>1. RowTypes' /\ DevicesHold' /\ WorkHasOwner' /\ SubmittedHasEvidence'
    BY <1>1, RowsFrame DEF vars, Rows
  <2>2. Calls'
    BY <1>1 DEF vars, taskVars, recordVars, TaskInvariant, Calls, CallHolds, Reserved, Begun
  <2> QED
    BY <2>1, <2>2 DEF TaskInvariant
<1>2. ASSUME NEW r \in Request, NEW u \in User, Call(r, u) PROVE TaskInvariant'
  BY <1>2, ReadSteps, OpenSteps, InsertSteps, RecordSteps DEF Call
<1>3. ASSUME NEW r \in Request, Continue(r) PROVE TaskInvariant'
  BY <1>3, StatusSteps, MoveSteps, InsertSteps, RecordSteps, EvidenceStep, DeviceStep
     DEF Continue
<1> QED
  BY <1>1, <1>2, <1>3 DEF Next, Step

\* The inductive invariant: what the rows promise rests on what the calls in
\* flight, however stale their reads, carry.
THEOREM TaskInvariance == Spec => []TaskInvariant
BY InitInvariant, NextInvariant, PTL DEF Spec

\* The checks of a device exist exactly when it does, and calls name rows that
\* exist.
THEOREM TypeCorrectness == Spec => []TypeOK
<1>1. Init => overtaken \subseteq InFlight
  BY DEF Init
<1>2. overtaken \subseteq InFlight /\ [Next]_vars => (overtaken \subseteq InFlight)'
  BY DEF InFlight, Next, Step, Overtake, vars
<1> QED
  BY <1>1, <1>2, TaskInvariance, TypesFollow, PTL DEF Spec

\* Nobody works on a task without an owner, and an owned task is not OPEN.
THEOREM OwnedWork == Spec => []WorkHasOwner
<1>1. TaskInvariant => WorkHasOwner
  BY DEF TaskInvariant
<1> QED
  BY <1>1, TaskInvariance, PTL

\* No task is submitted, reviewed or resolved without evidence.
THEOREM EvidenceGate == Spec => []SubmittedHasEvidence
<1>1. TaskInvariant => SubmittedHasEvidence
  BY DEF TaskInvariant
<1> QED
  BY <1>1, TaskInvariance, PTL

-----------------------------------------------------------------------------
(* Calls that nothing overtook *)

\* What was read is still so when it is acted on.
Current(r) ==
    /\ req[r].pc \in {"assign", "count", "status"} => taskStatus[req[r].task] # "RESOLVED"
    /\ req[r].pc \in {"latest", "decide"} => taskStatus[req[r].task] = "UNDER_REVIEW"
    /\ req[r].pc = "compliant" => \A t \in Check(req[r].about) : taskStatus[t] = "RESOLVED"

CurrentReads == \A r \in Request \ overtaken : Current(r)

LEMMA OthersStay ==
    ASSUME TaskInvariant, NEW r \in Request, NEW u, Call(r, u) \/ Continue(r),
           NEW s \in Request, s # r
    PROVE  req'[s] = req[s]
<1>1. req \in [Request -> RequestRecord]
  BY DEF TaskInvariant, Calls
<1>2. CASE Call(r, u)
  BY <1>1, <1>2 DEF Call, CreateTask, ReadAssign, ReadUpdateStatus, ReadReview, ReadConfirm,
       ReadDevice, CreateVulnerability, UpdateVulnerability, ReadAssignVulnerability,
       AssignPerson, Begin
<1>3. CASE Continue(r)
  BY <1>1, <1>3 DEF Continue, CommitAssign, CountEvidence, CommitStatus, ReadLatest,
       CommitApprove, CommitReject, SyncVulnerability, ReadChecks, SyncDevice, StoreEvidence,
       CommitDevice, CommitAssignVulnerability, Abort, Goto, Finish
<1> QED
  BY <1>2, <1>3

\* A call that a step neither moves on nor overtakes sees the tasks it read as
\* they were.
LEMMA OthersCurrent ==
    ASSUME TaskInvariant, CurrentReads, NEW r \in Request, Step(r),
           NEW s \in Request, s # r, s \notin overtaken'
    PROVE  Current(s)'
<1>1. req'[s] = req[s]
  BY OthersStay DEF Step
<1>2. CASE req[s].pc = "idle"
  BY <1>1, <1>2 DEF Current
<1>3. CASE req[s].pc # "idle"
  <2>1. s \notin overtaken /\ \A t \in Task \cap Watched(req[s]) : taskStatus'[t] = taskStatus[t]
    BY <1>1, <1>3 DEF Step, Overtake
  <2>2. Current(s) /\ CallHolds(req[s])
    BY <2>1 DEF CurrentReads, TaskInvariant, Calls
  <2>3. req[s].pc \in {"assign", "count", "status", "latest", "decide"} =>
           taskStatus'[req[s].task] = taskStatus[req[s].task]
    BY <2>1, <2>2 DEF CallHolds, Watched
  <2>4. ASSUME req[s].pc = "compliant", NEW t \in Check(req[s].about)
        PROVE  taskStatus'[t] = taskStatus[t]
    <3>1. t \in Task /\ t \in TasksOf(req[s].about)
      BY <2>2, <2>4, CheckNames DEF CallHolds, TaskInvariant, DevicesHold, TasksOf
    <3> QED
      BY <2>1, <2>4, <3>1 DEF Watched
  <2> QED
    BY <1>1, <2>2, <2>3, <2>4 DEF Current
<1> QED
  BY <1>2, <1>3

LEMMA CurrentIdle ==
    ASSUME NEW r \in Request, req'[r].pc \in {"idle", "sync", "store", "register",
                                             "assignVulnerability"}
    PROVE  Current(r)'
BY DEF Current

LEMMA CurrentOwn ==
    ASSUME TaskInvariant, CurrentReads, NEW r \in Request, NEW u,
           (Call(r, u) /\ req[r].pc = "idle") \/ Continue(r), Overtake, r \notin overtaken'
    PROVE  Current(r)'
<1>1. /\ req \in [Request -> RequestRecord] /\ CallHolds(req[r])
      /\ req[r].pc # "idle" /\ req'[r].pc # "idle" => Current(r)
  BY DEF TaskInvariant, Calls, Overtake, CurrentReads
<1>2. ASSUME Finish(r) \/ (UNCHANGED req /\ req[r].pc = "idle") PROVE Current(r)'
  BY <1>1, <1>2, CurrentIdle DEF Finish, Idle
<1>3. ASSUME NEW t \in Task, NEW v \in User, ReadAssign(r, u, t, v) PROVE Current(r)'
  BY <1>1, <1>3 DEF ReadAssign, Begin, Idle, taskVars, Current
<1>4. ASSUME NEW t \in Task, NEW to \in TaskStatus, ReadUpdateStatus(r, u, t, to)
      PROVE  Current(r)'
  <2>1. taskStatus[t] # "RESOLVED"
    BY <1>4 DEF ReadUpdateStatus, TASK_TRANSITIONS
  <2>2. /\ req'[r].task = t /\ req'[r].pc \in {"count", "status"}
        /\ UNCHANGED taskStatus
    BY <1>1, <1>4 DEF ReadUpdateStatus, Begin, Idle, taskVars
  <2> QED
    BY <1>1, <2>1, <2>2 DEF Current
<1>5. ASSUME NEW t \in Task, NEW to \in {"RESOLVED", "IN_PROGRESS"}, ReadReview(r, u, t, to)
      PROVE  Current(r)'
  BY <1>1, <1>5 DEF ReadReview, Begin, Idle, taskVars, Current
<1>6. ASSUME NEW t \in Task, ReadConfirm(r, u, t) PROVE Current(r)'
  BY <1>1, <1>6, CurrentIdle DEF ReadConfirm, Begin, Idle
<1>7. ASSUME NEW o \in Owner, ReadDevice(r, u, o) PROVE Current(r)'
  BY <1>1, <1>7, CurrentIdle DEF ReadDevice, Begin, Idle
<1>8. ASSUME NEW x \in Vulnerability, NEW v \in User, ReadAssignVulnerability(r, u, x, v)
      PROVE  Current(r)'
  BY <1>1, <1>8, CurrentIdle DEF ReadAssignVulnerability, Begin, Idle
<1>9. CASE CountEvidence(r)
  <2>1. CASE Goto(r, "status")
    <3>1. /\ req'[r].task = req[r].task /\ req'[r].pc = "status" /\ req[r].pc = "count"
          /\ UNCHANGED taskStatus
      BY <1>1, <1>9, <2>1 DEF CountEvidence, Goto, taskVars, RequestRecord
    <3> QED
      BY <1>1, <3>1 DEF Current
  <2> QED
    BY <1>2, <1>9, <2>1 DEF CountEvidence
<1>10. CASE ReadLatest(r)
  <2>1. /\ req'[r].task = req[r].task /\ req'[r].pc = "decide" /\ req[r].pc = "latest"
        /\ UNCHANGED taskStatus
    BY <1>1, <1>10 DEF ReadLatest, taskVars, RequestRecord
  <2> QED
    BY <1>1, <2>1 DEF Current
<1>11. CASE CommitApprove(r)
  <2>1. CASE ~Finish(r)
    BY <1>1, <1>11, <2>1, CurrentIdle DEF CommitApprove, Idle
  <2> QED
    BY <1>2, <2>1
<1>12. CASE ReadChecks(r)
  <2>1. CASE Goto(r, "compliant") /\ \A t \in TasksOf(req[r].about) : taskStatus[t] = "RESOLVED"
    <3>1. /\ req'[r].about = req[r].about /\ req'[r].pc = "compliant" /\ UNCHANGED taskStatus
          /\ req[r].about \in Owner /\ device[req[r].about] # "ABSENT"
      BY <1>1, <1>12, <2>1 DEF ReadChecks, Goto, taskVars, RequestRecord, CallHolds
    <3>2. \A t \in Check(req[r].about) : t \in TasksOf(req[r].about)
      BY <3>1, CheckNames DEF TaskInvariant, DevicesHold, TasksOf
    <3> QED
      BY <1>1, <2>1, <3>1, <3>2 DEF Current
  <2> QED
    BY <1>2, <1>12, <2>1 DEF ReadChecks
<1>13. ASSUME \/ \E e \in Entity \cup {None}, v \in User \cup {None} : CreateTask(r, u, e, v)
              \/ \E x \in Vulnerability :
                    \/ CreateVulnerability(r, u, x)
                    \/ \E st \in VulnerabilityStatus : UpdateVulnerability(r, u, x, st)
              \/ \E p \in Person, v \in User : AssignPerson(r, u, p, v)
       PROVE  Current(r)'
  BY <1>2, <1>13 DEF CreateTask, CreateVulnerability, UpdateVulnerability, AssignPerson
<1>14. CASE \/ CommitAssign(r) \/ CommitStatus(r) \/ CommitReject(r) \/ SyncVulnerability(r)
            \/ SyncDevice(r) \/ StoreEvidence(r) \/ CommitDevice(r)
            \/ CommitAssignVulnerability(r) \/ Abort(r)
  BY <1>2, <1>14 DEF CommitAssign, CommitStatus, CommitReject, SyncVulnerability, SyncDevice,
                     StoreEvidence, CommitDevice, CommitAssignVulnerability, Abort
<1> QED
  BY <1>3, <1>4, <1>5, <1>6, <1>7, <1>8, <1>9, <1>10, <1>11, <1>12, <1>13, <1>14
     DEF Call, Continue

\* The status of a device and of a resolved task, step by step.
LEMMA ComplianceStep ==
    ASSUME TaskInvariant, CompliantMeansChecked, NEW r \in Request, Current(r), NEW u,
           Call(r, u) \/ Continue(r)
    PROVE  CompliantMeansChecked'
<1>1. /\ \A s \in Request : CallHolds(req[s])
      /\ taskStatus \in [Task -> TaskStatus \cup {"ABSENT"}]
      /\ device \in [Owner -> {"ABSENT", "PENDING", "COMPLIANT"}]
  BY DEF TaskInvariant, Calls, RowTypes
<1>2. ASSUME \A t \in Task : taskStatus[t] = "RESOLVED" => taskStatus'[t] = "RESOLVED",
             \A o \in Owner : device'[o] = "COMPLIANT" =>
                 \/ device[o] = "COMPLIANT"
                 \/ \A t \in Check(o) : taskStatus[t] = "RESOLVED"
      PROVE  CompliantMeansChecked'
  BY <1>2, CheckNames DEF CompliantMeansChecked
<1>3. ASSUME NEW t \in Unused, NEW e, NEW v, InsertTasks({t}, e, v), UNCHANGED device
      PROVE  CompliantMeansChecked'
  <2>1. \A z \in Task : taskStatus[z] = "RESOLVED" => taskStatus'[z] = "RESOLVED"
    BY <1>1, <1>3 DEF InsertTasks, Unused
  <2> QED
    BY <1>2, <1>3, <2>1
<1>4. ASSUME \/ \E e \in Entity \cup {None}, v \in User \cup {None} : CreateTask(r, u, e, v)
             \/ \E p \in Person, v \in User : AssignPerson(r, u, p, v)
      PROVE  CompliantMeansChecked'
  BY <1>3, <1>4 DEF CreateTask, AssignPerson, recordVars
<1>5. CASE CommitAssignVulnerability(r)
  <2>1. /\ req[r].task \in Task /\ taskStatus[req[r].task] = "ABSENT"
        /\ InsertTasks({req[r].task}, req[r].about, req[r].target) /\ UNCHANGED device
    BY <1>1, <1>5, NoneApart DEF CommitAssignVulnerability, CallHolds
  <2>2. \A z \in Task : taskStatus[z] = "RESOLVED" => taskStatus'[z] = "RESOLVED"
    BY <1>1, <2>1 DEF InsertTasks
  <2> QED
    BY <1>2, <2>1, <2>2
<1>6. CASE CommitAssign(r) \/ CommitStatus(r) \/ CommitReject(r) \/ CommitApprove(r)
  <2>1. /\ UNCHANGED device
        /\ \A z \in Task : z # req[r].task => taskStatus'[z] = taskStatus[z]
        /\ taskStatus[req[r].task] = "RESOLVED" => taskStatus'[req[r].task] = "RESOLVED"
    BY <1>1, <1>6 DEF CommitAssign, CommitStatus, CommitReject, CommitApprove, Current,
                      recordVars, CallHolds
  <2> QED
    BY <1>2, <2>1
<1>7. CASE SyncDevice(r)
  <2>1. /\ UNCHANGED taskStatus /\ device' = [device EXCEPT ![req[r].about] = "COMPLIANT"]
        /\ \A t \in Check(req[r].about) : taskStatus[t] = "RESOLVED"
    BY <1>7 DEF SyncDevice, Current, taskVars
  <2> QED
    BY <1>1, <1>2, <2>1
<1>8. CASE CommitDevice(r)
  <2>1. PICK o \in Owner : o = req[r].about
    BY <1>1, <1>8 DEF CommitDevice, CallHolds
  <2>2. CASE device[o] # "ABSENT"
    BY <1>2, <1>8, <2>1, <2>2 DEF CommitDevice, taskVars
  <2>3. CASE device[o] = "ABSENT"
    <3>1. /\ device' = [device EXCEPT ![o] = "PENDING"] /\ InsertTasks(Check(o), o, o)
          /\ \A t \in Check(o) : taskStatus[t] = "ABSENT"
      BY <1>8, <2>1, <2>3 DEF CommitDevice, TaskInvariant, DevicesHold
    <3>2. \A z \in Task : taskStatus[z] = "RESOLVED" => taskStatus'[z] = "RESOLVED"
      BY <1>1, <3>1 DEF InsertTasks
    <3> QED
      BY <1>1, <1>2, <3>1, <3>2
  <2> QED
    BY <2>2, <2>3
<1>9. ASSUME UNCHANGED <<taskVars, device>> PROVE CompliantMeansChecked'
  BY <1>9 DEF taskVars, CompliantMeansChecked
<1>10. ASSUME \/ \E t \in Task :
                    \/ \E v \in User : ReadAssign(r, u, t, v)
                    \/ \E to \in TaskStatus : ReadUpdateStatus(r, u, t, to)
                    \/ \E to \in {"RESOLVED", "IN_PROGRESS"} : ReadReview(r, u, t, to)
                    \/ ReadConfirm(r, u, t)
              \/ \E o \in Owner : ReadDevice(r, u, o)
              \/ \E x \in Vulnerability :
                    \/ CreateVulnerability(r, u, x)
                    \/ \E st \in VulnerabilityStatus : UpdateVulnerability(r, u, x, st)
                    \/ \E v \in User : ReadAssignVulnerability(r, u, x, v)
              \/ CountEvidence(r) \/ ReadLatest(r) \/ SyncVulnerability(r) \/ ReadChecks(r)
              \/ StoreEvidence(r) \/ Abort(r)
       PROVE  CompliantMeansChecked'
  <2>1. UNCHANGED <<taskVars, device>>
    BY <1>10 DEF ReadAssign, ReadUpdateStatus, ReadReview, ReadConfirm, ReadDevice,
                 CreateVulnerability, UpdateVulnerability, ReadAssignVulnerability,
                 CountEvidence, ReadLatest, SyncVulnerability, ReadChecks, StoreEvidence, Abort,
                 recordVars
  <2> QED
    BY <1>9, <2>1
<1> QED
  BY <1>4, <1>5, <1>6, <1>7, <1>8, <1>10 DEF Call, Continue

LEMMA CurrentInvariant == Spec => [](TaskInvariant /\ CurrentReads)
<1>1. Init => CurrentReads
  BY DEF Init, CurrentReads, Current, Idle
<1>2. TaskInvariant /\ CurrentReads /\ [Next]_vars => CurrentReads'
  <2> SUFFICES ASSUME TaskInvariant, CurrentReads, [Next]_vars PROVE CurrentReads'
    OBVIOUS
  <2>1. CASE UNCHANGED vars
    BY <2>1 DEF vars, taskVars, CurrentReads, Current
  <2>2. ASSUME NEW r \in Request, Step(r), NEW s \in Request \ overtaken' PROVE Current(s)'
    <3>1. CASE s # r
      BY <2>2, <3>1, OthersCurrent
    <3>2. CASE s = r
      BY <2>2, <3>2, CurrentOwn DEF Step
    <3> QED
      BY <3>1, <3>2
  <2> QED
    BY <2>1, <2>2 DEF Next, CurrentReads
<1> QED
  BY <1>1, <1>2, InitInvariant, NextInvariant, PTL DEF Spec

LEMMA UntilOvertakenStep ==
    ASSUME TaskInvariant, CurrentReads, CompliantMeansChecked, NEW r \in Request, Step(r)
    PROVE  CompliantMeansChecked' \/ \E s \in overtaken : req'[s] # req[s]
<1>1. CASE Current(r)
  BY <1>1, ComplianceStep DEF Step
<1>2. CASE ~Current(r)
  <2>1. r \in overtaken /\ req[r].pc # "idle"
    BY <1>2 DEF CurrentReads, Current
  <2>2. CASE req'[r] # req[r]
    BY <2>1, <2>2
  <2>3. CASE req'[r] = req[r]
    <3>1. req \in [Request -> RequestRecord]
      BY DEF TaskInvariant, Calls
    <3>2. Continue(r)
      BY <2>1 DEF Step
    <3>3. CASE ReadLatest(r)
      BY <2>3, <3>1, <3>3 DEF ReadLatest, RequestRecord
    <3>4. CASE CountEvidence(r) \/ ReadChecks(r)
      BY <2>3, <3>1, <3>4 DEF CountEvidence, ReadChecks, Goto, Finish, Idle, RequestRecord
    <3>5. CASE CommitApprove(r)
      <4>1. req[r].pc = "decide"
        BY <3>5 DEF CommitApprove
      <4>2. CASE Finish(r)
        BY <2>3, <3>1, <4>1, <4>2 DEF Finish, Idle
      <4>3. CASE ~Finish(r)
        <5>1. req'[r].pc = "sync"
          BY <3>1, <3>5, <4>3 DEF CommitApprove, Idle
        <5> QED
          BY <2>3, <4>1, <5>1
      <4> QED
        BY <4>2, <4>3
    <3>6. CASE \/ CommitAssign(r) \/ CommitStatus(r) \/ CommitReject(r) \/ SyncVulnerability(r)
               \/ SyncDevice(r) \/ StoreEvidence(r) \/ CommitDevice(r)
               \/ CommitAssignVulnerability(r) \/ Abort(r)
      BY <2>1, <2>3, <3>1, <3>6
         DEF CommitAssign, CommitStatus, CommitReject, SyncVulnerability, SyncDevice,
             StoreEvidence, CommitDevice, CommitAssignVulnerability, Abort, Finish, Idle
    <3> QED
      BY <3>2, <3>3, <3>4, <3>5, <3>6 DEF Continue
  <2> QED
    BY <2>2, <2>3
<1> QED
  BY <1>1, <1>2

\* However many calls overlap, a compliant device has all its checks resolved
\* until a call writes whose read another call has overtaken: an assignment that
\* read a check before its approval, and reopens it while the device stays
\* COMPLIANT.
THEOREM CompliantTillOvertaken == Spec => CompliantUntilOvertaken
<1> DEFINE Kept == CompliantMeansChecked =>
                      CompliantMeansChecked' \/ \E r \in overtaken : req'[r] # req[r]
<1>1. TaskInvariant /\ CurrentReads /\ [Next]_vars => [Kept]_vars
  BY UntilOvertakenStep DEF Next
<1> QED
  BY <1>1, CurrentInvariant, PTL DEF Spec, CompliantUntilOvertaken

-----------------------------------------------------------------------------
(* Without faults *)

\* The statuses that members ask for are those of the table, and none of them
\* resolves a task: only a review does.
Asked ==
    \A r \in Request : req[r].pc \in {"count", "status"} => req[r].to # "RESOLVED"

Awaited(o) == \E r \in Request : req[r].pc \in {"sync", "compliant"} /\ req[r].about = o

Complies(o) ==
    \/ device[o] \in {"ABSENT", "COMPLIANT"}
    \/ \E t \in TasksOf(o) : taskStatus[t] # "RESOLVED"
    \/ Awaited(o)

LEMMA AskedStep ==
    ASSUME TaskInvariant, Asked, NEW r \in Request, NEW u, Call(r, u) \/ Continue(r)
    PROVE  Asked'
<1>1. req \in [Request -> RequestRecord]
  BY DEF TaskInvariant, Calls
<1>2. ASSUME UNCHANGED req PROVE Asked'
  BY <1>2 DEF Asked
<1>3. ASSUME Finish(r) PROVE Asked'
  BY <1>1, <1>3 DEF Finish, Idle, Asked
<1>4. ASSUME NEW t \in Task, NEW to \in TaskStatus, ReadUpdateStatus(r, u, t, to)
      PROVE  Asked'
  BY <1>1, <1>4 DEF ReadUpdateStatus, TASK_TRANSITIONS, Begin, Idle, Asked
<1>5. CASE CountEvidence(r)
  <2>1. CASE Goto(r, "status")
    <3>1. /\ req'[r].to = req[r].to /\ req[r].pc = "count"
          /\ \A s \in Request \ {r} : req'[s] = req[s]
      BY <1>1, <1>5, <2>1 DEF CountEvidence, Goto, RequestRecord
    <3> QED
      BY <3>1 DEF Asked
  <2> QED
    BY <1>3, <1>5, <2>1 DEF CountEvidence
<1>6. ASSUME \/ \E t \in Task :
                   \/ \E v \in User : ReadAssign(r, u, t, v)
                   \/ \E to \in {"RESOLVED", "IN_PROGRESS"} : ReadReview(r, u, t, to)
                   \/ ReadConfirm(r, u, t)
             \/ \E o \in Owner : ReadDevice(r, u, o)
             \/ \E y \in Vulnerability, v \in User : ReadAssignVulnerability(r, u, y, v)
      PROVE  Asked'
  BY <1>1, <1>6 DEF ReadAssign, ReadReview, ReadConfirm, ReadDevice, ReadAssignVulnerability,
                    Begin, Idle, Asked
<1>7. CASE ReadLatest(r)
  BY <1>1, <1>7 DEF ReadLatest, RequestRecord, Asked
<1>8. CASE CommitApprove(r)
  BY <1>1, <1>3, <1>8 DEF CommitApprove, Idle, Asked
<1>9. CASE ReadChecks(r)
  BY <1>1, <1>3, <1>9 DEF ReadChecks, Goto, RequestRecord, Asked
<1>10. ASSUME \/ \E e \in Entity \cup {None}, v \in User \cup {None} : CreateTask(r, u, e, v)
              \/ \E y \in Vulnerability :
                    \/ CreateVulnerability(r, u, y)
                    \/ \E st \in VulnerabilityStatus : UpdateVulnerability(r, u, y, st)
              \/ \E p \in Person, v \in User : AssignPerson(r, u, p, v)
       PROVE  Asked'
  BY <1>2, <1>10 DEF CreateTask, CreateVulnerability, UpdateVulnerability, AssignPerson
<1>11. CASE \/ CommitAssign(r) \/ CommitStatus(r) \/ CommitReject(r) \/ SyncVulnerability(r)
            \/ SyncDevice(r) \/ StoreEvidence(r) \/ CommitDevice(r)
            \/ CommitAssignVulnerability(r) \/ Abort(r)
  BY <1>3, <1>11 DEF CommitAssign, CommitStatus, CommitReject, SyncVulnerability, SyncDevice,
                     StoreEvidence, CommitDevice, CommitAssignVulnerability, Abort
<1> QED
  BY <1>4, <1>5, <1>6, <1>7, <1>8, <1>9, <1>10, <1>11 DEF Call, Continue

\* What unresolved tasks and running handlers of a device witness is kept by a
\* step that keeps them.
LEMMA ComplyFrame ==
    ASSUME NEW o \in Owner, Complies(o), device'[o] = device[o],
           \A t \in TasksOf(o) : taskStatus[t] # "RESOLVED" =>
               t \in TasksOf(o)' /\ taskStatus'[t] # "RESOLVED",
           Awaited(o) => Awaited(o)'
    PROVE  Complies(o)'
BY DEF Complies

\* Steps that resolve nothing, take no task from its record and leave the
\* devices and the handlers that follow an approval alone.
LEMMA ComplyAlone ==
    ASSUME TaskInvariant, NEW r \in Request, NEW o \in Owner, Complies(o),
           UNCHANGED device, req[r].pc \notin {"sync", "compliant"},
           \A s \in Request \ {r} : req'[s] = req[s],
           \A t \in Task : taskStatus[t] # "ABSENT" =>
               /\ entity'[t] = entity[t] /\ taskStatus'[t] # "ABSENT"
               /\ taskStatus'[t] = "RESOLVED" => taskStatus[t] = "RESOLVED"
    PROVE  Complies(o)'
<1>1. \A t \in TasksOf(o) : taskStatus[t] # "RESOLVED" =>
          t \in TasksOf(o)' /\ taskStatus'[t] # "RESOLVED"
  BY DEF TasksOf
<1>2. Awaited(o) => Awaited(o)'
  BY DEF Awaited
<1> QED
  BY <1>1, <1>2, ComplyFrame

LEMMA ComplyStep ==
    ASSUME ~Faults, TaskInvariant, Asked, NEW o \in Owner, Complies(o),
           NEW r \in Request, NEW u, (Call(r, u) /\ req[r].pc = "idle") \/ Continue(r)
    PROVE  Complies(o)'
<1>1. /\ req \in [Request -> RequestRecord] /\ CallHolds(req[r])
      /\ taskStatus \in [Task -> TaskStatus \cup {"ABSENT"}]
      /\ entity \in [Task -> Entity \cup {None}]
      /\ device \in [Owner -> {"ABSENT", "PENDING", "COMPLIANT"}]
  BY DEF TaskInvariant, Calls, RowTypes
<1>2. \A s \in Request \ {r} : req'[s] = req[s]
  BY OthersStay
<1>3. ASSUME req[r].pc \notin {"sync", "compliant"}, UNCHANGED <<taskStatus, entity, device>>
      PROVE  Complies(o)'
  BY <1>2, <1>3, ComplyAlone
<1>4. ASSUME NEW e, NEW v, NEW t \in Task, taskStatus[t] = "ABSENT", InsertTasks({t}, e, v),
             UNCHANGED device, req[r].pc \notin {"sync", "compliant"}
      PROVE  Complies(o)'
  BY <1>1, <1>2, <1>4, ComplyAlone DEF InsertTasks
<1>5. ASSUME \/ \E e \in Entity \cup {None}, v \in User \cup {None} : CreateTask(r, u, e, v)
             \/ \E p \in Person, v \in User : AssignPerson(r, u, p, v)
      PROVE  Complies(o)'
  <2>1. \A t \in Unused : t \in Task /\ taskStatus[t] = "ABSENT"
    BY NoneApart DEF Unused
  <2> QED
    BY <1>4, <1>5, <2>1 DEF CreateTask, AssignPerson, recordVars
<1>6. CASE CommitAssignVulnerability(r)
  BY <1>1, <1>4, <1>6, NoneApart DEF CommitAssignVulnerability, CallHolds
<1>7. CASE CommitAssign(r) \/ CommitReject(r) \/ CommitStatus(r)
  <2>1. /\ UNCHANGED <<entity, device>> /\ req[r].task \in Task
        /\ req[r].pc \notin {"sync", "compliant"}
    BY <1>1, <1>7 DEF CommitAssign, CommitReject, CommitStatus, CallHolds, recordVars
  <2>2. PICK st \in TaskStatus \ {"RESOLVED"} :
            taskStatus' = [taskStatus EXCEPT ![req[r].task] = st]
    BY <1>1, <1>7 DEF CommitAssign, CommitReject, CommitStatus, CallHolds, Asked, TaskStatus
  <2>3. st # "ABSENT"
    BY DEF TaskStatus
  <2> QED
    BY <1>1, <1>2, <2>1, <2>2, <2>3, ComplyAlone
<1>8. CASE CommitApprove(r)
  <2> DEFINE t == req[r].task
  <2>1. /\ t \in Task /\ UNCHANGED <<entity, device>> /\ req[r].pc = "decide"
        /\ taskStatus' = [taskStatus EXCEPT ![t] = "RESOLVED"]
    BY <1>1, <1>8 DEF CommitApprove, CallHolds, recordVars
  <2>2. CASE entity[t] = o
    <3>1. req'[r].pc = "sync" /\ req'[r].about = o
      BY <1>1, <1>8, <2>2 DEF CommitApprove, Idle
    <3> QED
      BY <3>1 DEF Complies, Awaited
  <2>3. CASE entity[t] # o
    <3>1. \A x \in TasksOf(o) : x \in TasksOf(o)' /\ taskStatus'[x] = taskStatus[x]
      BY <1>1, <2>1, <2>3 DEF TasksOf
    <3>2. Awaited(o) => Awaited(o)'
      BY <1>2, <2>1 DEF Awaited
    <3> QED
      BY <2>1, <3>1, <3>2, ComplyFrame
  <2> QED
    BY <2>2, <2>3
<1>9. CASE ReadChecks(r) \/ SyncDevice(r) \/ SyncVulnerability(r)
  <2>1. UNCHANGED <<taskStatus, entity>>
    BY <1>9 DEF ReadChecks, SyncDevice, SyncVulnerability, taskVars
  <2>2. CASE req[r].about # o
    <3>1. device'[o] = device[o]
      BY <1>1, <1>9, <2>2 DEF ReadChecks, SyncDevice, SyncVulnerability, recordVars
    <3>2. Awaited(o) => Awaited(o)'
      BY <1>2, <2>2 DEF Awaited
    <3> QED
      BY <2>1, <3>1, <3>2, ComplyFrame DEF TasksOf
  <2>3. CASE req[r].about = o /\ ReadChecks(r)
    <3>1. CASE Goto(r, "compliant")
      BY <1>1, <2>3, <3>1 DEF Goto, RequestRecord, Complies, Awaited
    <3>2. CASE \E t \in TasksOf(o) : taskStatus[t] # "RESOLVED"
      BY <2>1, <3>2 DEF Complies, TasksOf
    <3> QED
      BY <2>3, <3>1, <3>2 DEF ReadChecks
  <2>4. CASE req[r].about = o /\ SyncDevice(r)
    BY <1>1, <2>4 DEF SyncDevice, Complies
  <2>5. ~(req[r].about = o /\ SyncVulnerability(r))
    BY EntityAssumption DEF SyncVulnerability
  <2> QED
    BY <1>9, <2>2, <2>3, <2>4, <2>5
<1>10. CASE CommitDevice(r)
  <2> DEFINE n == req[r].about
  <2>1. n \in Owner /\ req[r].pc = "register"
    BY <1>1, <1>10 DEF CommitDevice, CallHolds
  <2>2. CASE device[n] # "ABSENT"
    BY <1>3, <1>10, <2>1, <2>2 DEF CommitDevice, taskVars
  <2>3. CASE device[n] = "ABSENT"
    <3>1. /\ device' = [device EXCEPT ![n] = "PENDING"] /\ InsertTasks(Check(n), n, n)
      BY <1>10, <2>3 DEF CommitDevice
    <3>2. n # None /\ Check(n) \subseteq Task /\ Check(n) # {}
      BY <2>1, OwnerAssumption, NoneApart, CheckNames, ChecksAssumption DEF Check
    <3>3. \A t \in Check(n) : taskStatus[t] = "ABSENT" /\ taskStatus'[t] = "ASSIGNED"
                              /\ entity'[t] = n
      BY <2>1, <2>3, <3>1, <3>2 DEF InsertTasks, TaskInvariant, DevicesHold
    <3>4. CASE o = n
      <4>1. PICK t \in Check(n) : t \in TasksOf(o)' /\ taskStatus'[t] # "RESOLVED"
        BY <3>2, <3>3, <3>4 DEF TasksOf
      <4> QED
        BY <4>1 DEF Complies
    <3>5. CASE o # n
      <4>1. \A t \in TasksOf(o) : t \in TasksOf(o)' /\ taskStatus'[t] = taskStatus[t]
        BY <1>1, <3>1, <3>3 DEF TasksOf, InsertTasks
      <4>2. Awaited(o) => Awaited(o)'
        BY <1>2, <2>1 DEF Awaited
      <4> QED
        BY <1>1, <3>1, <3>5, <4>1, <4>2, ComplyFrame
    <3> QED
      BY <3>4, <3>5
  <2> QED
    BY <2>2, <2>3
<1>11. ASSUME \/ /\ Call(r, u) /\ req[r].pc = "idle"
                 /\ ~\E e \in Entity \cup {None}, v \in User \cup {None} : CreateTask(r, u, e, v)
                 /\ ~\E p \in Person, v \in User : AssignPerson(r, u, p, v)
              \/ CountEvidence(r) \/ ReadLatest(r) \/ StoreEvidence(r)
       PROVE  Complies(o)'
  <2>1. UNCHANGED <<taskStatus, entity, device>> /\ req[r].pc \notin {"sync", "compliant"}
    BY <1>11 DEF Call, ReadAssign, ReadUpdateStatus, ReadReview, ReadConfirm, ReadDevice,
                 CreateVulnerability, UpdateVulnerability, ReadAssignVulnerability,
                 CountEvidence, ReadLatest, StoreEvidence, taskVars, recordVars
  <2> QED
    BY <1>3, <2>1
<1> QED
  BY <1>5, <1>6, <1>7, <1>8, <1>9, <1>10, <1>11 DEF Continue, Abort

\* As long as no await rejects and the process does not die, the approval of the
\* last task of a device makes it COMPLIANT, however many reviewers approve its
\* tasks at once.  (With faults it does not: see the run TasksLostSync.)
THEOREM FaultlessCompliance ==
    ASSUME ~Faults
    PROVE  Spec => []ResolvedChecksComply
<1> DEFINE IInv == TaskInvariant /\ Asked /\ ResolvedChecksComply
<1>1. Init => IInv
  BY InitInvariant DEF Init, Asked, ResolvedChecksComply, Idle
<1>2. ResolvedChecksComply <=> \A o \in Owner : Complies(o)
  BY DEF ResolvedChecksComply, Complies, Awaited
<1>3. IInv /\ [Next]_vars => IInv'
  <2> SUFFICES ASSUME IInv, [Next]_vars PROVE IInv'
    OBVIOUS
  <2>1. TaskInvariant'
    BY NextInvariant
  <2>2. CASE UNCHANGED vars
    BY <2>1, <2>2 DEF vars, taskVars, recordVars, Asked, ResolvedChecksComply, TasksOf
  <2>3. ASSUME NEW r \in Request, NEW u, (Call(r, u) /\ req[r].pc = "idle") \/ Continue(r)
        PROVE  Asked' /\ \A o \in Owner : Complies(o)'
    BY <1>2, <2>3, AskedStep, ComplyStep
  <2>4. CASE Next
    <3>1. Asked' /\ \A o \in Owner : Complies(o)'
      BY <2>3, <2>4 DEF Next, Step
    <3> QED
      BY <2>1, <3>1 DEF ResolvedChecksComply, Complies, Awaited
  <2> QED
    BY <2>2, <2>4
<1>4. IInv => ResolvedChecksComply
  OBVIOUS
<1> QED
  BY <1>1, <1>3, <1>4, PTL DEF Spec
=============================================================================
