---------------------------- MODULE UsersProofs ----------------------------
(***************************************************************************)
(* Proofs about Users, for every set of accounts, passwords and calls in   *)
(* flight.                                                                 *)
(***************************************************************************)
EXTENDS Users, TLAPS

-----------------------------------------------------------------------------
(* Type correctness *)

LEMMA InitTypes == Init => TypeOK
BY DEF Init, TypeOK, Idle, RequestRecord, Exists

LEMMA CallTypes ==
    ASSUME TypeOK, NEW r \in Request, Call(r), Overtake
    PROVE  TypeOK'
<1>0. overtaken' \subseteq { s \in Request : req'[s].pc # "idle" }
  BY DEF Overtake
<1>1. ASSUME NEW p \in Secret, RegisterOrganization(r, p) PROVE TypeOK'
  BY <1>0, <1>1, FounderAssumption, NoneAssumption
     DEF RegisterOrganization, TypeOK, userRows, Exists, Idle, RequestRecord,
         Operation, Role
<1>2. ASSUME NEW a \in Account, NEW t \in Account, NEW op \in Operation \ {"register"},
             NEW to \in Role \cup {None}, NEW p \in Secret \cup {None},
             op \in {"create", "updateRole"} => to \in Role,
             Authenticate(r, a, op, t, to, p)
      PROVE  TypeOK'
  <2>1. role[a] \in Role
    BY <1>2 DEF Authenticate, TypeOK, Exists
  <2> DEFINE x == [pc |-> "read", op |-> op, actor |-> a, actorRole |-> role[a],
                   target |-> t, to |-> to, secret |-> p]
  <2>2. /\ x \in RequestRecord
        /\ req' = [req EXCEPT ![r] = x]
        /\ UNCHANGED userRows
        /\ status[a] = "ACTIVE"
        /\ hasPermission(role[a], "USERS_WRITE")
    BY <1>2, <2>1 DEF Authenticate, RequestRecord
  <2>3. x.op # None /\ op # "register"
    BY <1>2, NoneAssumption
  <2> QED
    BY <1>0, <1>2, <2>2, <2>3 DEF TypeOK, userRows, Exists
<1>3. ASSUME NEW a \in Account, NEW t \in Account, NEW op \in Operation \ {"register"},
             NEW body \in Body(op), Authenticate(r, a, op, t, body[1], body[2])
      PROVE  TypeOK'
  <2>1. /\ body[1] \in Role \cup {None}
        /\ body[2] \in Secret \cup {None}
        /\ op \in {"create", "updateRole"} => body[1] \in Role
    BY <1>3 DEF Body, Operation
  <2> QED
    BY <1>2, <1>3, <2>1
<1> QED
  BY <1>1, <1>3 DEF Call

LEMMA ContinueTypes ==
    ASSUME TypeOK, NEW r \in Request, Continue(r), Overtake
    PROVE  TypeOK'
<1>0. overtaken' \subseteq { s \in Request : req'[s].pc # "idle" }
  BY DEF Overtake
<1>1. CASE RegisterFails(r)
  BY <1>0, <1>1 DEF RegisterFails, Finish, Idle, TypeOK, RequestRecord, userRows, Exists
<1>2. CASE ReadEmail(r)
  BY <1>0, <1>2 DEF ReadEmail, Finish, Goto, Idle, TypeOK, RequestRecord, userRows, Exists
<1>3. CASE ReadTarget(r)
  <2>1. CASE ~Admitted(req[r])
    BY <1>0, <1>3, <2>1 DEF ReadTarget, Finish, Idle, TypeOK, RequestRecord, userRows, Exists
  <2>2. CASE Admitted(req[r])
    <3>1. PICK pc \in {"count", "write"} : Goto(r, pc)
      BY <1>3, <2>2 DEF ReadTarget
    <3>2. UNCHANGED userRows /\ Exists(req[r].target) /\ req[r].pc = "read"
      BY <1>3, <2>2 DEF ReadTarget, Admitted
    <3> QED
      BY <1>0, <3>1, <3>2 DEF Goto, TypeOK, RequestRecord, userRows, Exists
  <2> QED
    BY <2>1, <2>2
<1>4. CASE CountSuperAdmins(r)
  BY <1>0, <1>4 DEF CountSuperAdmins, Finish, Goto, Idle, TypeOK, RequestRecord, userRows, Exists
<1>5. CASE Insert(r)
  BY <1>0, <1>5, NoneAssumption DEF Insert, Finish, Idle, TypeOK, RequestRecord, userRows, Exists
<1>6. CASE WriteRole(r)
  <2>1. req[r].target \in Account /\ req[r].to \in Role /\ Exists(req[r].target)
    BY <1>6 DEF WriteRole, TypeOK
  <2> QED
    BY <1>0, <1>6, <2>1, NoneAssumption DEF WriteRole, Finish, Idle, TypeOK, RequestRecord, Exists
<1>7. CASE WritePassword(r) \/ KeepPassword(r)
  BY <1>0, <1>7 DEF WritePassword, KeepPassword, userRows, Finish, Idle, TypeOK, RequestRecord, Exists
<1>8. CASE WriteStatus(r)
  BY <1>0, <1>8 DEF WriteStatus, Finish, Idle, TypeOK, RequestRecord, Exists
<1> QED
  BY <1>1, <1>2, <1>3, <1>4, <1>5, <1>6, <1>7, <1>8 DEF Continue

LEMMA NextTypes == TypeOK /\ [Next]_vars => TypeOK'
<1>1. ASSUME TypeOK, UNCHANGED vars PROVE TypeOK'
  BY <1>1 DEF TypeOK, vars, userRows, Exists
<1> QED
  BY <1>1, CallTypes, ContinueTypes DEF Next, Step

\* Rows and calls in flight are always of their types.
THEOREM TypeCorrectness == Spec => []TypeOK
<1> QED
  BY InitTypes, NextTypes, PTL DEF Spec

-----------------------------------------------------------------------------
(* A lost top tier stays lost *)

\* What a call in flight has established by the step it is at, whatever other
\* calls did in the meantime; and the founder is the first member.
Established ==
    /\ (\E a \in Account : Exists(a)) => Exists(Founder)
    /\ \A r \in Request :
          /\ req[r].pc = "count" => req[r].op \in {"updateRole", "deactivate"}
          /\ req[r].pc # "idle" /\ req[r].op = "register" => req[r].to = "SUPER_ADMIN"
          /\ req[r].pc # "idle" /\ req[r].op = "create" =>
                assertCanAssignRole(req[r].actorRole, req[r].to)
          /\ req[r].pc \in {"count", "write"} /\ req[r].op = "updateRole" =>
                assertCanAssignRole(req[r].actorRole, req[r].to)

LEMMA InitEstablished == Init => Established
BY DEF Init, Established, Idle, Exists

LEMMA CallEstablished ==
    ASSUME TypeOK, Established, NEW r \in Request, Call(r)
    PROVE  Established'
<1>1. ASSUME NEW p \in Secret, RegisterOrganization(r, p) PROVE Established'
  BY <1>1 DEF RegisterOrganization, Established, TypeOK, userRows, Exists, Idle
<1>2. ASSUME NEW a \in Account, NEW t \in Account, NEW op \in Operation \ {"register"},
             NEW to, NEW p, Authenticate(r, a, op, t, to, p)
      PROVE  Established'
  BY <1>2 DEF Authenticate, Established, TypeOK, userRows, Exists, assertCanAssignRole
<1> QED
  BY <1>1, <1>2 DEF Call

LEMMA ContinueEstablished ==
    ASSUME TypeOK, Established, NEW r \in Request, Continue(r)
    PROVE  Established'
<1> USE DEF Established, TypeOK, Exists, Idle, RequestRecord
<1>1. CASE RegisterFails(r)
  BY <1>1 DEF RegisterFails, Finish, userRows
<1>2. CASE ReadEmail(r)
  BY <1>2 DEF ReadEmail, Finish, Goto, userRows
<1>3. CASE ReadTarget(r)
  BY <1>3 DEF ReadTarget, Finish, Goto, userRows, Admitted, CountsOthers
<1>4. CASE CountSuperAdmins(r)
  BY <1>4 DEF CountSuperAdmins, Finish, Goto, userRows
<1>5. CASE Insert(r)
  <2>1. req[r].target = Founder \/ Exists(Founder)
    BY <1>5 DEF Insert
  <2>2. Exists(Founder)'
    BY <1>5, <2>1, FounderAssumption DEF Insert, userRows
  <2> QED
    BY <1>5, <2>2 DEF Insert, Finish
<1>6. CASE WriteRole(r)
  BY <1>6 DEF WriteRole, Finish
<1>7. CASE WritePassword(r) \/ KeepPassword(r)
  BY <1>7 DEF WritePassword, KeepPassword, Finish, userRows
<1>8. CASE WriteStatus(r)
  BY <1>8 DEF WriteStatus, Finish
<1> QED
  BY <1>1, <1>2, <1>3, <1>4, <1>5, <1>6, <1>7, <1>8 DEF Continue

LEMMA NextEstablished == TypeOK /\ Established /\ [Next]_vars => Established'
<1>1. ASSUME Established, UNCHANGED vars PROVE Established'
  BY <1>1 DEF Established, vars, userRows, Exists
<1> QED
  BY <1>1, CallEstablished, ContinueEstablished DEF Next, Step

LEMMA LockoutStep ==
    ASSUME TypeOK, Established, LockedOut, [Next]_vars
    PROVE  LockedOut'
<1> USE DEF TypeOK, LockedOut, ActiveSuperAdmins, SuperAdmins, Exists, Idle, RequestRecord
<1>1. ASSUME NEW r \in Request, NEW p \in Secret, RegisterOrganization(r, p) PROVE LockedOut'
  BY <1>1 DEF RegisterOrganization, Established
<1>2. ASSUME NEW r \in Request, NEW a \in Account, NEW t \in Account,
             NEW op \in Operation \ {"register"}, NEW to, NEW p,
             Authenticate(r, a, op, t, to, p)
      PROVE  LockedOut'
  BY <1>2 DEF Authenticate, userRows
<1>3. ASSUME NEW r \in Request, Continue(r) PROVE LockedOut'
  <2>1. CASE RegisterFails(r)
    BY <2>1, NoneAssumption DEF RegisterFails, Finish, userRows, Role
  <2>2. CASE ReadEmail(r)
    BY <2>2, NoneAssumption DEF ReadEmail, Finish, Goto, userRows, Role
  <2>3. CASE ReadTarget(r)
    BY <2>3, NoneAssumption
       DEF ReadTarget, Finish, Goto, userRows, Role, Admitted, assertCanManageTarget,
           isSuperAdmin
  <2>4. CASE CountSuperAdmins(r)
    BY <2>4, NoneAssumption DEF CountSuperAdmins, Finish, Goto, userRows, Role, Established
  <2>5. CASE Insert(r)
    <3>1. Exists(req[r].target) \/ req[r].to # "SUPER_ADMIN"
      BY <2>5 DEF Insert, Established, assertCanAssignRole, isSuperAdmin
    <3> QED
      BY <2>5, <3>1, NoneAssumption DEF Insert, Finish, userRows, Role
  <2>6. CASE WriteRole(r)
    <3>1. req[r].to # "SUPER_ADMIN"
      BY <2>6 DEF WriteRole, Established, assertCanAssignRole, isSuperAdmin
    <3> QED
      BY <2>6, <3>1, NoneAssumption DEF WriteRole, Finish, Role
  <2>7. CASE WritePassword(r) \/ KeepPassword(r)
    BY <2>7, NoneAssumption DEF WritePassword, KeepPassword, userRows, Finish, Role
  <2>8. CASE WriteStatus(r)
    BY <2>8, NoneAssumption DEF WriteStatus, Finish, Role
  <2> QED
    BY <1>3, <2>1, <2>2, <2>3, <2>4, <2>5, <2>6, <2>7, <2>8 DEF Continue
<1>4. CASE UNCHANGED vars
  BY <1>4 DEF vars, userRows
<1> QED
  BY <1>1, <1>2, <1>3, <1>4 DEF Next, Step, Call

\* An organisation without an active super admin, and without a call in flight
\* that could make one, never has one again.
THEOREM LockoutPermanence == Spec => LockoutIsPermanent
<1>1. Spec => [](TypeOK /\ Established)
  BY InitTypes, NextTypes, InitEstablished, NextEstablished, PTL DEF Spec
<1>2. TypeOK /\ Established /\ [Next]_vars => [LockedOut => LockedOut']_vars
  BY LockoutStep
<1> QED
  BY <1>1, <1>2, PTL DEF Spec, LockoutIsPermanent

-----------------------------------------------------------------------------
(* Calls that nothing overtook *)

\* A step is that of one call; for the others in flight that it does not
\* overtake the super admins are as they were.
LEMMA OthersStep ==
    ASSUME TypeOK, NEW s \in Request, Step(s), NEW r \in Request, r # s
    PROVE  /\ req'[r] = req[r]
           /\ req[r].pc # "idle" /\ r \notin overtaken' =>
                 r \notin overtaken /\ SuperAdmins' = SuperAdmins
<1> USE DEF TypeOK
<1>1. req'[r] = req[r]
  <2>1. CASE Continue(s)
    BY <2>1 DEF Continue, RegisterFails, ReadEmail, ReadTarget, CountSuperAdmins, Insert,
                WriteRole, WritePassword, KeepPassword, WriteStatus, Goto, Finish
  <2>2. ASSUME NEW p \in Secret, RegisterOrganization(s, p) PROVE req'[r] = req[r]
    BY <2>2 DEF RegisterOrganization
  <2>3. ASSUME NEW a, NEW op, NEW t, NEW to, NEW p, Authenticate(s, a, op, t, to, p)
        PROVE  req'[r] = req[r]
    BY <2>3 DEF Authenticate
  <2> QED
    BY <2>1, <2>2, <2>3 DEF Step, Call
<1> QED
  BY <1>1 DEF Step, Overtake

\* A call that only goes on, without a write, leaves the rows and is overtaken
\* exactly if it was.
LEMMA OwnStep ==
    ASSUME TypeOK, NEW s \in Request, Step(s), UNCHANGED userRows,
           req[s].pc # "idle", req'[s].pc # "idle"
    PROVE  (s \in overtaken' <=> s \in overtaken) /\ SuperAdmins' = SuperAdmins
BY DEF Step, Overtake, SuperAdmins, userRows

\* What a call in flight still knows as long as nothing overtook it: its caller
\* is a super admin if it was authenticated as one, a super admin it is about to
\* demote is not the last, and what it is about to change it may manage.
Knows(r) ==
    LET q == req[r]
    IN  /\ q.pc # "idle" /\ q.op # "register" /\ q.actorRole = "SUPER_ADMIN" =>
              q.actor \in SuperAdmins
        /\ /\ q.pc = "write" /\ q.op = "updateRole" /\ q.to # "SUPER_ADMIN"
           /\ q.target \in SuperAdmins
           => \E a \in SuperAdmins : a # q.target
        /\ /\ q.pc \in {"count", "write"}
           /\ q.op \in {"updateRole", "update", "deactivate", "reactivate"}
           /\ q.target \in SuperAdmins
           => q.actorRole = "SUPER_ADMIN"

Undisturbed ==
    /\ \A r \in Request :
          req[r].pc = "count" /\ req[r].op = "updateRole" => req[r].target = req[r].actor
    /\ \A r \in Request \ overtaken : Knows(r)

LEMMA KnowsOwn ==
    ASSUME TypeOK, Undisturbed, NEW r \in Request, Step(r), r \notin overtaken'
    PROVE  Knows(r)'
<1> USE DEF Knows, TypeOK, Exists, Idle, RequestRecord
<1>0. ASSUME req'[r].pc = "idle" PROVE Knows(r)'
  BY <1>0
<1>1. ASSUME NEW p \in Secret, RegisterOrganization(r, p) PROVE Knows(r)'
  BY <1>1 DEF RegisterOrganization
<1>2. ASSUME NEW a \in Account, NEW t \in Account, NEW op \in Operation \ {"register"},
             NEW to, NEW p, Authenticate(r, a, op, t, to, p)
      PROVE  Knows(r)'
  BY <1>2 DEF Authenticate, userRows, SuperAdmins
<1>3. CASE \/ RegisterFails(r) \/ Insert(r) \/ WriteRole(r) \/ WritePassword(r)
           \/ KeepPassword(r) \/ WriteStatus(r)
  BY <1>0, <1>3 DEF RegisterFails, Insert, WriteRole, WritePassword, KeepPassword, WriteStatus,
                    Finish
<1>4. CASE ReadEmail(r)
  <2>1. CASE Exists(req[r].target)
    BY <1>0, <1>4, <2>1 DEF ReadEmail, Finish
  <2>2. CASE ~Exists(req[r].target)
    <3>1. /\ req' = [req EXCEPT ![r].pc = "write"] /\ UNCHANGED userRows
          /\ req[r].pc = "read" /\ req[r].op = "create"
      BY <1>4, <2>2 DEF ReadEmail, Goto
    <3>2. r \notin overtaken /\ SuperAdmins' = SuperAdmins
      BY <3>1, OwnStep
    <3> QED
      BY <3>1, <3>2 DEF Undisturbed
  <2> QED
    BY <2>1, <2>2
<1>5. CASE ReadTarget(r)
  <2> DEFINE q == req[r]
  <2>1. CASE ~Admitted(q)
    BY <1>0, <1>5, <2>1 DEF ReadTarget, Finish
  <2>2. CASE Admitted(q)
    <3>1. PICK pc \in {"count", "write"} : Goto(r, pc)
      BY <1>5, <2>2 DEF ReadTarget
    <3>2. /\ req' = [req EXCEPT ![r].pc = pc] /\ UNCHANGED userRows
          /\ q.pc = "read" /\ q.op \notin {"create", "register"}
          /\ pc = "write" => ~CountsOthers(q, role[q.target])
      BY <1>5, <2>2, <3>1 DEF ReadTarget, Goto
    <3>3. r \notin overtaken /\ SuperAdmins' = SuperAdmins
      BY <3>1, <3>2, OwnStep
    <3>4. q.target \in SuperAdmins => q.actorRole = "SUPER_ADMIN"
      BY <2>2 DEF Admitted, assertCanManageTarget, isSuperAdmin, SuperAdmins
    <3>5. q.actorRole = "SUPER_ADMIN" => q.actor \in SuperAdmins
      BY <3>2, <3>3 DEF Undisturbed
    <3>6. /\ pc = "write" /\ q.op = "updateRole" /\ q.to # "SUPER_ADMIN"
          /\ q.target \in SuperAdmins
          => q.actor # q.target /\ q.actor \in SuperAdmins
      BY <3>2, <3>4, <3>5 DEF CountsOthers, SuperAdmins
    <3> QED
      BY <3>2, <3>3, <3>4, <3>5, <3>6
  <2> QED
    BY <2>1, <2>2
<1>6. CASE CountSuperAdmins(r)
  <2>1. CASE OthersCounted(req[r]) = {}
    BY <1>0, <1>6, <2>1 DEF CountSuperAdmins, Finish
  <2>2. CASE OthersCounted(req[r]) # {}
    <3>1. req' = [req EXCEPT ![r].pc = "write"] /\ UNCHANGED userRows /\ req[r].pc = "count"
      BY <1>6, <2>2 DEF CountSuperAdmins, Goto
    <3>2. r \notin overtaken /\ SuperAdmins' = SuperAdmins
      BY <3>1, OwnStep
    <3>3. req[r].op = "updateRole" => \E a \in SuperAdmins : a # req[r].target
      BY <2>2, <3>1 DEF Undisturbed, OthersCounted
    <3> QED
      BY <3>1, <3>2, <3>3 DEF Undisturbed
  <2> QED
    BY <2>1, <2>2
<1> QED
  BY <1>1, <1>2, <1>3, <1>4, <1>5, <1>6 DEF Step, Call, Continue

LEMMA UndisturbedStep ==
    ASSUME TypeOK, Undisturbed, [Next]_vars
    PROVE  Undisturbed'
<1>1. CASE UNCHANGED vars
  BY <1>1 DEF vars, userRows, Undisturbed, Knows, SuperAdmins
<1>2. ASSUME NEW s \in Request, Step(s) PROVE Undisturbed'
  <2>1. ASSUME NEW r \in Request, req'[r].pc = "count", req'[r].op = "updateRole"
        PROVE  req'[r].target = req'[r].actor
    <3> USE DEF TypeOK, RequestRecord, Idle
    <3>1. CASE r # s
      BY <1>2, <2>1, <3>1, OthersStep DEF Undisturbed
    <3>2. CASE r = s
      <4>1. CASE Continue(s)
        <5>1. ReadTarget(s)
          BY <2>1, <3>2, <4>1
             DEF Continue, RegisterFails, ReadEmail, CountSuperAdmins, Insert, WriteRole,
                 WritePassword, KeepPassword, WriteStatus, Goto, Finish
        <5> QED
          BY <2>1, <3>2, <5>1 DEF ReadTarget, Goto, Finish, CountsOthers
      <4>2. ASSUME NEW p \in Secret, RegisterOrganization(s, p) PROVE FALSE
        BY <2>1, <3>2, <4>2 DEF RegisterOrganization
      <4>3. ASSUME NEW a, NEW op, NEW t, NEW to, NEW p, Authenticate(s, a, op, t, to, p)
            PROVE  FALSE
        BY <2>1, <3>2, <4>3 DEF Authenticate
      <4> QED
        BY <1>2, <4>1, <4>2, <4>3 DEF Step, Call
    <3> QED
      BY <3>1, <3>2
  <2>2. ASSUME NEW r \in Request, r \notin overtaken' PROVE Knows(r)'
    <3>1. CASE r = s
      BY <1>2, <2>2, <3>1, KnowsOwn
    <3>2. CASE r # s
      <4>1. req'[r] = req[r]
        BY <1>2, <3>2, OthersStep
      <4>2. CASE req[r].pc = "idle"
        BY <4>1, <4>2 DEF Knows
      <4>3. CASE req[r].pc # "idle"
        <5>1. r \notin overtaken /\ SuperAdmins' = SuperAdmins
          BY <1>2, <2>2, <3>2, <4>3, OthersStep
        <5> QED
          BY <4>1, <5>1 DEF Undisturbed, Knows
      <4> QED
        BY <4>2, <4>3
    <3> QED
      BY <3>1, <3>2
  <2> QED
    BY <2>1, <2>2 DEF Undisturbed
<1> QED
  BY <1>1, <1>2 DEF Next

LEMMA UsersInvariant == Spec => [](TypeOK /\ Established /\ Undisturbed)
<1>1. Init => Undisturbed
  BY DEF Init, Undisturbed, Knows, Idle
<1> QED
  BY <1>1, InitTypes, NextTypes, InitEstablished, NextEstablished, UndisturbedStep, PTL DEF Spec

\* Only the write of a role takes a super admin away, and one that nothing
\* overtook leaves another.
LEMMA LastSuperAdminStep ==
    ASSUME TypeOK, Undisturbed, NEW s \in Request, Step(s), SuperAdmins # {}, SuperAdmins' = {}
    PROVE  \E r \in overtaken : req[r].pc = "write" /\ req[r].op = "updateRole"
<1> USE DEF TypeOK, Exists, SuperAdmins
<1>1. PICK a \in Account : role[a] = "SUPER_ADMIN"
  OBVIOUS
<1>2. role'[a] # "SUPER_ADMIN"
  OBVIOUS
<1>3. WriteRole(s)
  <2>1. CASE Call(s) \/ RegisterFails(s) \/ ReadEmail(s) \/ ReadTarget(s) \/ CountSuperAdmins(s)
             \/ WritePassword(s) \/ KeepPassword(s) \/ WriteStatus(s)
    BY <1>1, <1>2, <2>1 DEF Call, RegisterOrganization, Authenticate, RegisterFails, ReadEmail,
          ReadTarget, CountSuperAdmins, WritePassword, KeepPassword, WriteStatus, userRows
  <2>2. CASE Insert(s)
    BY <1>1, <1>2, <2>2, NoneAssumption DEF Insert, userRows, Role
  <2> QED
    BY <2>1, <2>2 DEF Step, Continue
<1>4. /\ req[s].pc = "write" /\ req[s].op = "updateRole" /\ req[s].target \in Account
      /\ role' = [role EXCEPT ![req[s].target] = req[s].to]
  BY <1>3 DEF WriteRole
<1>5. req[s].target = a /\ req[s].to # "SUPER_ADMIN"
  BY <1>1, <1>2, <1>4
<1>6. s \in overtaken
  <2> SUFFICES ASSUME s \notin overtaken PROVE FALSE
    OBVIOUS
  <2>1. PICK b \in SuperAdmins : b # a
    BY <1>1, <1>4, <1>5 DEF Undisturbed, Knows
  <2>2. role'[b] = "SUPER_ADMIN"
    BY <1>4, <1>5, <2>1
  <2> QED
    BY <2>1, <2>2
<1> QED
  BY <1>4, <1>6

\* However many calls overlap, an organisation loses its last super admin only
\* to a demotion that another change of the top tier overtook.
THEOREM LastSuperAdminKeeping == Spec => LastSuperAdminKept
<1> DEFINE Kept == SuperAdmins # {} /\ SuperAdmins' = {} =>
                      \E r \in overtaken : req[r].pc = "write" /\ req[r].op = "updateRole"
<1>1. TypeOK /\ Undisturbed /\ [Next]_vars => [Kept]_vars
  BY LastSuperAdminStep DEF Next
<1> QED
  BY <1>1, UsersInvariant, PTL DEF Spec, LastSuperAdminKept

\* An update, and not an insert, is what reaches the row of a super admin.
LEMMA UntouchedStep ==
    ASSUME TypeOK, Undisturbed, NEW s \in Request, Step(s), NEW a \in SuperAdmins
    PROVE  \/ <<status[a], role[a], passwordHash[a]>>' = <<status[a], role[a], passwordHash[a]>>
           \/ \E r \in Request :
                 /\ req[r].pc = "write" /\ req[r].target = a
                 /\ req[r].actorRole = "SUPER_ADMIN" \/ r \in overtaken
<1> USE DEF SuperAdmins, TypeOK, Exists
<1>1. CASE Call(s) \/ RegisterFails(s) \/ ReadEmail(s) \/ ReadTarget(s) \/ CountSuperAdmins(s)
           \/ KeepPassword(s)
  BY <1>1 DEF Call, RegisterOrganization, Authenticate, RegisterFails, ReadEmail, ReadTarget,
              CountSuperAdmins, KeepPassword, userRows
<1>2. CASE Insert(s)
  BY <1>2, NoneAssumption DEF Insert, userRows, Role
<1>3. CASE WriteRole(s) \/ WritePassword(s) \/ WriteStatus(s)
  <2>1. CASE req[s].target = a
    <3>1. req[s].pc = "write" /\ req[s].op \in {"updateRole", "update", "deactivate", "reactivate"}
      BY <1>3 DEF WriteRole, WritePassword, WriteStatus
    <3>2. req[s].actorRole = "SUPER_ADMIN" \/ s \in overtaken
      BY <2>1, <3>1 DEF Undisturbed, Knows
    <3> QED
      BY <2>1, <3>1, <3>2
  <2>2. CASE req[s].target # a
    BY <1>3, <2>2 DEF WriteRole, WritePassword, WriteStatus
  <2> QED
    BY <2>1, <2>2
<1> QED
  BY <1>1, <1>2, <1>3 DEF Step, Continue

\* However many calls overlap, the row of a super admin changes only by a call of
\* a super admin, or by one that a change of the top tier overtook.
THEOREM SuperAdminsLeftAlone == Spec => SuperAdminsUntouched
<1> DEFINE Touch == \A a \in SuperAdmins :
          \/ <<status[a], role[a], passwordHash[a]>>' = <<status[a], role[a], passwordHash[a]>>
          \/ \E r \in Request :
                /\ req[r].pc = "write" /\ req[r].target = a
                /\ req[r].actorRole = "SUPER_ADMIN" \/ r \in overtaken
<1>1. TypeOK /\ Undisturbed /\ [Next]_vars => [Touch]_vars
  BY UntouchedStep DEF Next
<1> QED
  BY <1>1, UsersInvariant, PTL DEF Spec, SuperAdminsUntouched
=============================================================================
