------------------------------- MODULE Tasks -------------------------------
(***************************************************************************)
(* The Data Library: tasks, and the records whose follow-up they are - the *)
(* compliance checks of a staff device, the remediation of a vulnerability,*)
(* the follow-up of a person (tasks.service.ts, staff-devices.service.ts,  *)
(* vulnerabilities.service.ts, people.service.ts under backend/src).       *)
(*                                                                         *)
(* A handler works on the row it read first; each later await is a step of *)
(* its own.  A task that is approved resolves in one transaction, and its  *)
(* record follows in another (syncParentOnResolve).                        *)
(***************************************************************************)
EXTENDS TaskTransitions, Naturals, Sequences, FiniteSets

CONSTANTS
    User,                   \* accounts of one owner
    role,
    Owner,                  \* those of them that register a staff device
    STAFF_DEVICE_CHECKS,    \* the titles of the checks of a device
    Vulnerability, Person,  \* ids of rows
    Extra,                  \* ids of tasks that are no device check: a bound
    Request,                \* slots for requests in flight
    OrgAccount,             \* FALSE: an individual account
    MaxEvidence,            \* bound on the Evidence rows of a task
    Faults,                 \* TRUE: an await of a handler may reject
    None

\* StaffDevice.ownerId is unique, so a device is named by its owner, and a
\* check by the device and its title.
Check(o) == { <<o, title>> : title \in STAFF_DEVICE_CHECKS }
Task == (Owner \X STAFF_DEVICE_CHECKS) \cup Extra
Entity == Owner \cup Vulnerability \cup Person

ASSUME RoleAssumption == role \in [User -> Role]
ASSUME OwnerAssumption == Owner \subseteq User
ASSUME ChecksAssumption == STAFF_DEVICE_CHECKS # {}
ASSUME EntityAssumption ==
    /\ Owner \cap Vulnerability = {} /\ Owner \cap Person = {}
    /\ Vulnerability \cap Person = {}
    /\ (Owner \X STAFF_DEVICE_CHECKS) \cap Extra = {}
ASSUME NoneAssumption == None \notin User \cup Task \cup Entity
ASSUME FlagAssumption == OrgAccount \in BOOLEAN /\ Faults \in BOOLEAN

VARIABLES
    taskStatus,     \* a TaskStatus, or "ABSENT" before the row exists
    assignee,
    resolvedAt,     \* TRUE iff the column is set
    entity,         \* the record a task follows up, or None
    evidence,       \* the verificationStatus of its Evidence rows, oldest first
    device,         \* status of the StaffDevice row of an owner
    vulnerability,  \* status of a Vulnerability row
    req,
    (* history *)
    overtaken       \* calls in flight that read a status another has changed since

taskVars == <<taskStatus, assignee, resolvedAt, entity>>
recordVars == <<device, vulnerability>>
vars == <<taskVars, evidence, recordVars, req, overtaken>>

-----------------------------------------------------------------------------

RequestPC ==
    {"idle", "assign", "count", "status", "latest", "decide", "sync",
     "compliant", "store", "register", "assignVulnerability"}

\* task: the task acted on or about to be inserted; about: the device or
\* record; seen: the newest evidence row read.
RequestRecord ==
    [pc : RequestPC, task : Task \cup {None}, about : Entity \cup {None},
     to : TaskStatus \cup {None}, target : User \cup {None}, seen : Nat]

Idle ==
    [pc |-> "idle", task |-> None, about |-> None, to |-> None,
     target |-> None, seen |-> 0]

VulnerabilityStatus == {"OPEN", "IN_REMEDIATION", "RESOLVED", "ACCEPTED_RISK"}

Verdict == {"PENDING", "APPROVED", "REJECTED"}

Init ==
    /\ taskStatus = [t \in Task |-> "ABSENT"]
    /\ assignee = [t \in Task |-> None]
    /\ resolvedAt = [t \in Task |-> FALSE]
    /\ entity = [t \in Task |-> None]
    /\ evidence = [t \in Task |-> <<>>]
    /\ device = [o \in Owner |-> "ABSENT"]
    /\ vulnerability = [v \in Vulnerability |-> "ABSENT"]
    /\ req = [r \in Request |-> Idle]
    /\ overtaken = {}

Goto(r, pc) == req' = [req EXCEPT ![r].pc = pc]

Finish(r) == req' = [req EXCEPT ![r] = Idle]

Begin(r, q) == req[r].pc = "idle" /\ req' = [req EXCEPT ![r] = q]

\* findAccessible and devScope: a Dev only finds tasks assigned to it.
Finds(u, t) ==
    /\ taskStatus[t] # "ABSENT"
    /\ role[u] = "DEV" => assignee[t] = u

ValidAssignee(u, v) == OrgAccount \/ v = u

\* The ids a new row may still take.
Unused == { t \in Extra : taskStatus[t] = "ABSENT" /\ \A r \in Request : req[r].task # t }

TasksOf(e) == { t \in Task : taskStatus[t] # "ABSENT" /\ entity[t] = e }

\* The tasks whose status a call in flight works with.
Watched(q) == {q.task} \cup IF q.pc = "compliant" THEN TasksOf(q.about) ELSE {}

\* What every step records: the calls that stay as they are while the status of
\* a task they read changes.
Overtake ==
    overtaken' = { r \in Request :
                      /\ req[r].pc # "idle" /\ req'[r].pc # "idle"
                      /\ \/ r \in overtaken
                         \/ /\ req'[r] = req[r]
                            /\ \E t \in Task \cap Watched(req[r]) :
                                  taskStatus'[t] # taskStatus[t] }

\* createInternal, for a set of new rows at once.
\* Mutant: the row is inserted OPEN, whoever it is for.
InsertTasks_AlwaysOpen(new, e, v) ==
    /\ taskStatus' = [t \in Task |-> IF t \in new THEN "OPEN" ELSE taskStatus[t]]
    /\ assignee' = [t \in Task |-> IF t \in new THEN v ELSE assignee[t]]
    /\ entity' = [t \in Task |-> IF t \in new THEN e ELSE entity[t]]
    /\ UNCHANGED <<resolvedAt, evidence>>

InsertTasks(new, e, v) ==
    /\ taskStatus' = [t \in Task |-> IF t \notin new THEN taskStatus[t]
                                     ELSE IF v = None THEN "OPEN" ELSE "ASSIGNED"]
    /\ assignee' = [t \in Task |-> IF t \in new THEN v ELSE assignee[t]]
    /\ entity' = [t \in Task |-> IF t \in new THEN e ELSE entity[t]]
    /\ UNCHANGED <<resolvedAt, evidence>>

-----------------------------------------------------------------------------
(* TasksService: create, assign, updateStatus *)

\* The record is named in the body and not looked up: any task may be added
\* to a device or a vulnerability.
CreateTask(r, u, e, v) ==
    /\ req[r].pc = "idle"
    /\ hasPermission(role[u], "TASKS_ASSIGN")
    /\ v # None => ValidAssignee(u, v)
    /\ e \in Owner => device[e] # "ABSENT"
    /\ e \in Vulnerability => vulnerability[e] # "ABSENT"
    /\ \E t \in Unused : InsertTasks({t}, e, v)
    /\ UNCHANGED <<recordVars, req>>

ReadAssign(r, u, t, v) ==
    /\ hasPermission(role[u], "TASKS_ASSIGN")
    /\ Finds(u, t)
    /\ taskStatus[t] # "RESOLVED"
    /\ ValidAssignee(u, v)
    /\ Begin(r, [Idle EXCEPT !.pc = "assign", !.task = t, !.target = v])
    /\ UNCHANGED <<taskVars, evidence, recordVars>>

CommitAssign(r) ==
    /\ req[r].pc = "assign"
    /\ taskStatus' = [taskStatus EXCEPT ![req[r].task] = "ASSIGNED"]
    /\ assignee' = [assignee EXCEPT ![req[r].task] = req[r].target]
    /\ Finish(r)
    /\ UNCHANGED <<resolvedAt, entity, evidence, recordVars>>

ReadUpdateStatus(r, u, t, to) ==
    /\ Finds(u, t)
    /\ \E x \in TASK_TRANSITIONS :
          /\ x.from = taskStatus[t] /\ x.to = to
          /\ canActorTransitionTask(x, role[u], assignee[t] = u)
    /\ Begin(r, [Idle EXCEPT !.pc = IF to = "EVIDENCE_SUBMITTED" THEN "count" ELSE "status",
                             !.task = t, !.to = to])
    /\ UNCHANGED <<taskVars, evidence, recordVars>>

\* Mutant: evidence is not asked for.
CountEvidence_Unchecked(r) ==
    /\ req[r].pc = "count"
    /\ Goto(r, "status")
    /\ UNCHANGED <<taskVars, evidence, recordVars>>

\* The verification mode is read here too, and decides only the wording of
\* the activity: every mode routes a task to manual review.
CountEvidence(r) ==
    /\ req[r].pc = "count"
    /\ IF evidence[req[r].task] = <<>> THEN Finish(r) ELSE Goto(r, "status")
    /\ UNCHANGED <<taskVars, evidence, recordVars>>

CommitStatus(r) ==
    /\ req[r].pc = "status"
    /\ taskStatus' = [taskStatus EXCEPT ![req[r].task] = req[r].to]
    /\ Finish(r)
    /\ UNCHANGED <<assignee, resolvedAt, entity, evidence, recordVars>>

-----------------------------------------------------------------------------
(* TasksService.review and syncParentOnResolve *)

ReadReview(r, u, t, to) ==
    /\ hasPermission(role[u], "TASKS_REVIEW")
    /\ Finds(u, t)
    /\ taskStatus[t] = "UNDER_REVIEW"
    /\ Begin(r, [Idle EXCEPT !.pc = "latest", !.task = t, !.to = to])
    /\ UNCHANGED <<taskVars, evidence, recordVars>>

ReadLatest(r) ==
    /\ req[r].pc = "latest"
    /\ req' = [req EXCEPT ![r].pc = "decide", ![r].seen = Len(evidence[req[r].task])]
    /\ UNCHANGED <<taskVars, evidence, recordVars>>

Verify(t, i, verdict) ==
    evidence' = IF i = 0 THEN evidence ELSE [evidence EXCEPT ![t][i] = verdict]

\* Mutant: the record of the task does not follow.
CommitApprove_NoSync(r) ==
    LET t == req[r].task
    IN  /\ req[r].pc = "decide" /\ req[r].to = "RESOLVED"
        /\ taskStatus' = [taskStatus EXCEPT ![t] = "RESOLVED"]
        /\ resolvedAt' = [resolvedAt EXCEPT ![t] = TRUE]
        /\ Verify(t, req[r].seen, "APPROVED")
        /\ Finish(r)
        /\ UNCHANGED <<assignee, entity, recordVars>>

CommitApprove(r) ==
    LET t == req[r].task
    IN  /\ req[r].pc = "decide" /\ req[r].to = "RESOLVED"
        /\ taskStatus' = [taskStatus EXCEPT ![t] = "RESOLVED"]
        /\ resolvedAt' = [resolvedAt EXCEPT ![t] = TRUE]
        /\ Verify(t, req[r].seen, "APPROVED")
        /\ IF entity[t] \in Owner \cup Vulnerability
           THEN req' = [req EXCEPT ![r] = [Idle EXCEPT !.pc = "sync", !.task = t,
                                                       !.about = entity[t]]]
           ELSE Finish(r)
        /\ UNCHANGED <<assignee, entity, recordVars>>

CommitReject(r) ==
    /\ req[r].pc = "decide" /\ req[r].to = "IN_PROGRESS"
    /\ taskStatus' = [taskStatus EXCEPT ![req[r].task] = "IN_PROGRESS"]
    /\ Verify(req[r].task, req[r].seen, "REJECTED")
    /\ Finish(r)
    /\ UNCHANGED <<assignee, resolvedAt, entity, recordVars>>

SyncVulnerability(r) ==
    /\ req[r].pc = "sync" /\ req[r].about \in Vulnerability
    /\ vulnerability' = [vulnerability EXCEPT ![req[r].about] = "RESOLVED"]
    /\ Finish(r)
    /\ UNCHANGED <<taskVars, evidence, device>>

\* Mutant: one resolved check is enough.
ReadChecks_Some(r) ==
    LET checks == TasksOf(req[r].about)
    IN  /\ req[r].pc = "sync" /\ req[r].about \in Owner
        /\ IF \E t \in checks : taskStatus[t] = "RESOLVED"
           THEN Goto(r, "compliant") ELSE Finish(r)
        /\ UNCHANGED <<taskVars, evidence, recordVars>>

ReadChecks(r) ==
    LET checks == TasksOf(req[r].about)
    IN  /\ req[r].pc = "sync" /\ req[r].about \in Owner
        /\ IF \A t \in checks : taskStatus[t] = "RESOLVED"
           THEN Goto(r, "compliant") ELSE Finish(r)
        /\ UNCHANGED <<taskVars, evidence, recordVars>>

SyncDevice(r) ==
    /\ req[r].pc = "compliant"
    /\ device' = [device EXCEPT ![req[r].about] = "COMPLIANT"]
    /\ Finish(r)
    /\ UNCHANGED <<taskVars, evidence, vulnerability>>

-----------------------------------------------------------------------------
(* TasksService.confirmEvidenceUpload.  The version number is modelled in   *)
(* Findings and the object store in Workbench: the code is the same.        *)

ReadConfirm(r, u, t) ==
    /\ Finds(u, t)
    /\ canUploadTaskEvidence(taskStatus[t], role[u], assignee[t] = u)
    /\ Len(evidence[t])
         + Cardinality({ q \in Request : req[q].pc = "store" /\ req[q].task = t }) < MaxEvidence
    /\ Begin(r, [Idle EXCEPT !.pc = "store", !.task = t])
    /\ UNCHANGED <<taskVars, evidence, recordVars>>

StoreEvidence(r) ==
    /\ req[r].pc = "store"
    /\ evidence' = [evidence EXCEPT ![req[r].task] = Append(@, "PENDING")]
    /\ Finish(r)
    /\ UNCHANGED <<taskVars, recordVars>>

-----------------------------------------------------------------------------
(* StaffDevicesService.create *)

ReadDevice(r, u, o) ==
    /\ o # u => isAdminRole(role[u]) /\ OrgAccount
    /\ device[o] = "ABSENT"
    /\ Begin(r, [Idle EXCEPT !.pc = "register", !.about = o])
    /\ UNCHANGED <<taskVars, evidence, recordVars>>

\* Mutant: the checks are left for later.
CommitDevice_DeviceOnly(r) ==
    /\ req[r].pc = "register"
    /\ device[req[r].about] = "ABSENT"
    /\ device' = [device EXCEPT ![req[r].about] = "PENDING"]
    /\ Finish(r)
    /\ UNCHANGED <<taskVars, evidence, vulnerability>>

\* One transaction: the device and its checks, or neither when the unique
\* ownerId was taken meanwhile.
CommitDevice(r) ==
    LET o == req[r].about
    IN  /\ req[r].pc = "register"
        /\ IF device[o] = "ABSENT"
           THEN /\ device' = [device EXCEPT ![o] = "PENDING"]
                /\ InsertTasks(Check(o), o, o)
           ELSE UNCHANGED <<device, taskVars, evidence>>
        /\ Finish(r)
        /\ UNCHANGED vulnerability

-----------------------------------------------------------------------------
(* VulnerabilitiesService and PeopleService.assign *)

CreateVulnerability(r, u, x) ==
    /\ req[r].pc = "idle"
    /\ hasPermission(role[u], "VULNERABILITIES_WRITE")
    /\ vulnerability[x] = "ABSENT"
    /\ vulnerability' = [vulnerability EXCEPT ![x] = "OPEN"]
    /\ UNCHANGED <<taskVars, evidence, device, req>>

\* The body may set any status, tasks or not.
UpdateVulnerability(r, u, x, st) ==
    /\ req[r].pc = "idle"
    /\ hasPermission(role[u], "VULNERABILITIES_WRITE")
    /\ vulnerability[x] # "ABSENT"
    /\ vulnerability' = [vulnerability EXCEPT ![x] = st]
    /\ UNCHANGED <<taskVars, evidence, device, req>>

ReadAssignVulnerability(r, u, x, v) ==
    /\ hasPermission(role[u], "VULNERABILITIES_ASSIGN")
    /\ vulnerability[x] \notin {"ABSENT", "RESOLVED"}
    /\ ValidAssignee(u, v)
    /\ \E t \in Unused :
          Begin(r, [Idle EXCEPT !.pc = "assignVulnerability", !.task = t,
                                !.about = x, !.target = v])
    /\ UNCHANGED <<taskVars, evidence, recordVars>>

\* Every assignment opens another remediation task.
CommitAssignVulnerability(r) ==
    LET q == req[r]
    IN  /\ q.pc = "assignVulnerability"
        /\ vulnerability' = [vulnerability EXCEPT ![q.about] = "IN_REMEDIATION"]
        /\ InsertTasks({q.task}, q.about, q.target)
        /\ Finish(r)
        /\ UNCHANGED device

AssignPerson(r, u, p, v) ==
    /\ req[r].pc = "idle"
    /\ hasPermission(role[u], "PEOPLE_ASSIGN")
    /\ ValidAssignee(u, v)
    /\ \E t \in Unused : InsertTasks({t}, p, v)
    /\ UNCHANGED <<recordVars, req>>

-----------------------------------------------------------------------------

\* An await rejects, or the process dies: the rest of the handler never runs.
Abort(r) ==
    /\ Faults
    /\ req[r].pc # "idle"
    /\ Finish(r)
    /\ UNCHANGED <<taskVars, evidence, recordVars>>

Call(r, u) ==
    \/ \E e \in Entity \cup {None}, v \in User \cup {None} : CreateTask(r, u, e, v)
    \/ \E t \in Task :
          \/ \E v \in User : ReadAssign(r, u, t, v)
          \/ \E to \in TaskStatus : ReadUpdateStatus(r, u, t, to)
          \/ \E to \in {"RESOLVED", "IN_PROGRESS"} : ReadReview(r, u, t, to)
          \/ ReadConfirm(r, u, t)
    \/ \E o \in Owner : ReadDevice(r, u, o)
    \/ \E x \in Vulnerability :
          \/ CreateVulnerability(r, u, x)
          \/ \E st \in VulnerabilityStatus : UpdateVulnerability(r, u, x, st)
          \/ \E v \in User : ReadAssignVulnerability(r, u, x, v)
    \/ \E p \in Person, v \in User : AssignPerson(r, u, p, v)

Continue(r) ==
    \/ CommitAssign(r)
    \/ CountEvidence(r)
    \/ CommitStatus(r)
    \/ ReadLatest(r)
    \/ CommitApprove(r)
    \/ CommitReject(r)
    \/ SyncVulnerability(r)
    \/ ReadChecks(r)
    \/ SyncDevice(r)
    \/ StoreEvidence(r)
    \/ CommitDevice(r)
    \/ CommitAssignVulnerability(r)
    \/ Abort(r)

Step(r) ==
    /\ \/ req[r].pc = "idle" /\ \E u \in User : Call(r, u)
       \/ Continue(r)
    /\ Overtake

Next == \E r \in Request : Step(r)

Spec == Init /\ [][Next]_vars

-----------------------------------------------------------------------------
(* Properties *)

\* Rows, calls in flight, and the rows they name: the checks of a device exist
\* exactly when the device does, and belong to it.
TypeOK ==
    /\ taskStatus \in [Task -> TaskStatus \cup {"ABSENT"}]
    /\ assignee \in [Task -> User \cup {None}]
    /\ resolvedAt \in [Task -> BOOLEAN]
    /\ entity \in [Task -> Entity \cup {None}]
    /\ evidence \in [Task -> Seq(Verdict)]
    /\ device \in [Owner -> {"ABSENT", "PENDING", "COMPLIANT"}]
    /\ vulnerability \in [Vulnerability -> VulnerabilityStatus \cup {"ABSENT"}]
    /\ req \in [Request -> RequestRecord]
    /\ \A o \in Owner : \A t \in Check(o) :
          IF device[o] = "ABSENT" THEN taskStatus[t] = "ABSENT"
          ELSE taskStatus[t] # "ABSENT" /\ entity[t] = o
    /\ \A r \in Request :
          /\ req[r].pc \in {"assign", "count", "status", "latest", "decide",
                            "sync", "compliant", "store"} =>
                req[r].task \in Task /\ taskStatus[req[r].task] # "ABSENT"
          /\ req[r].pc = "assignVulnerability" =>
                req[r].task \in Extra /\ taskStatus[req[r].task] = "ABSENT"
          /\ req[r].pc = "compliant" => device[req[r].about] # "ABSENT"
    /\ overtaken \subseteq { r \in Request : req[r].pc # "idle" }

\* Nobody works on a task without an owner, and none is OPEN that has one.
WorkHasOwner ==
    \A t \in Task : taskStatus[t] # "ABSENT" =>
        (taskStatus[t] = "OPEN" <=> assignee[t] = None)

Submitted == {"EVIDENCE_SUBMITTED", "UNDER_REVIEW", "RESOLVED"}

\* A task past submission has evidence, however calls overlap.
SubmittedHasEvidence ==
    \A t \in Task : taskStatus[t] \in Submitted => evidence[t] # <<>>

CompliantMeansChecked ==
    \A o \in Owner : device[o] = "COMPLIANT" =>
        \A t \in Check(o) : taskStatus[t] = "RESOLVED"

\* "It's only COMPLIANT once all 3 have resolved", for any number of calls at
\* once: a compliant device has no check that is not resolved, until a call
\* writes that had read the status of a task before another call changed it (an
\* assignment that reopens a check approved since).  No other step breaks it.
CompliantUntilOvertaken ==
    [][CompliantMeansChecked =>
          CompliantMeansChecked' \/ \E r \in overtaken : req'[r] # req[r]]_vars

\* "That record's own denormalized status should follow": when the last task
\* of a device resolves the device is COMPLIANT, except while the handler that
\* will say so is still running.  Two reviewers who approve the last two checks
\* at once must not each see the other's unresolved.
ResolvedChecksComply ==
    \A o \in Owner :
        \/ device[o] \in {"ABSENT", "COMPLIANT"}
        \/ \E t \in TasksOf(o) : taskStatus[t] # "RESOLVED"
        \/ \E r \in Request : req[r].pc \in {"sync", "compliant"} /\ req[r].about = o
=============================================================================
