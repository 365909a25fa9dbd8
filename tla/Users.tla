------------------------------- MODULE Users -------------------------------
(***************************************************************************)
(* The members of one organisation (users.service.ts, and the registration *)
(* and token validation of auth/ that create the first member and let the  *)
(* others in).                                                             *)
(*                                                                         *)
(* Each call is authenticated once: JwtStrategy reads the caller's row and *)
(* the handler works with that snapshot of the role until it answers.  The *)
(* awaits between authentication, the read of the target, the count of     *)
(* super admins and the update are steps of their own, so calls interleave.*)
(* A call that is rejected ends its request and changes nothing else.      *)
(***************************************************************************)
EXTENDS Permissions, FiniteSets

CONSTANTS
    Account,        \* ids of User rows, one per e-mail address
    Founder,        \* the account whose registration creates the organisation
    Secret,         \* passwords
    Request,        \* slots for calls in flight: bounds the concurrency
    None

ASSUME FounderAssumption == Founder \in Account
ASSUME SecretAssumption == Secret # {}

VARIABLES
    status,         \* of a User row; "ABSENT" before it exists
    role,
    passwordHash,
    req,
    (* history *)
    overtaken       \* calls in flight when another changed who is a super admin

userRows == <<status, role, passwordHash>>
vars == <<userRows, req, overtaken>>

-----------------------------------------------------------------------------

Operation == {"register", "create", "updateRole", "update", "deactivate", "reactivate"}

ASSUME NoneAssumption == None \notin Account \cup Role \cup Secret \cup Operation

\* actor, actorRole: the AuthenticatedUser; to, secret: the body of the call.
RequestRecord ==
    [pc : {"idle", "read", "count", "write"},
     op : Operation \cup {None}, actor : Account \cup {None},
     actorRole : Role \cup {None}, target : Account \cup {None},
     to : Role \cup {None}, secret : Secret \cup {None}]

Idle ==
    [pc |-> "idle", op |-> None, actor |-> None, actorRole |-> None,
     target |-> None, to |-> None, secret |-> None]

Init ==
    /\ status = [a \in Account |-> "ABSENT"]
    /\ role = [a \in Account |-> None]
    /\ passwordHash = [a \in Account |-> None]
    /\ req = [r \in Request |-> Idle]
    /\ overtaken = {}

Goto(r, pc) == req' = [req EXCEPT ![r].pc = pc]

Finish(r) == req' = [req EXCEPT ![r] = Idle]

Exists(a) == status[a] # "ABSENT"

SuperAdmins == { a \in Account : role[a] = "SUPER_ADMIN" }

ActiveSuperAdmins == { a \in SuperAdmins : status[a] = "ACTIVE" }

\* What every step records: no call writes twice, so a call that goes on after
\* the super admins changed had another one write under it.
Overtake ==
    overtaken' = { r \in Request : /\ req[r].pc # "idle" /\ req'[r].pc # "idle"
                                   /\ r \in overtaken \/ SuperAdmins' # SuperAdmins }

\* Mutant: the caller may hand out any role.
assertCanAssignRole_Unchecked(actorRole, to) == TRUE

assertCanAssignRole(actorRole, to) ==
    to = "SUPER_ADMIN" => isSuperAdmin(actorRole)

\* Mutant: an Admin may manage anyone.
assertCanManageTarget_Unchecked(actorRole, targetRole) == TRUE

assertCanManageTarget(actorRole, targetRole) ==
    targetRole = "SUPER_ADMIN" => isSuperAdmin(actorRole)

-----------------------------------------------------------------------------
(* AuthService.register: the address is free, and the Organization row is  *)
(* there, before the row of its first member.  A retry makes another       *)
(* Organization row: the model follows the one whose founder is stored.    *)

RegisterOrganization(r, p) ==
    /\ req[r].pc = "idle"
    /\ ~Exists(Founder)
    /\ req' = [req EXCEPT ![r] =
                  [Idle EXCEPT !.pc = "write", !.op = "register",
                               !.target = Founder, !.to = "SUPER_ADMIN",
                               !.secret = p]]
    /\ UNCHANGED userRows

\* The insert of the founder is not in a transaction with the insert of the
\* organisation: when it fails an organisation without a member stays behind.
RegisterFails(r) ==
    /\ req[r].op = "register"
    /\ Finish(r)
    /\ UNCHANGED userRows

-----------------------------------------------------------------------------
(* JwtStrategy.validate, the permission guard, and the checks a handler    *)
(* makes before its first read                                             *)

Authenticate(r, a, op, t, to, p) ==
    /\ req[r].pc = "idle"
    /\ status[a] = "ACTIVE"
    /\ hasPermission(role[a], "USERS_WRITE")
    /\ op = "deactivate" => t # a
    /\ op = "create" => assertCanAssignRole(role[a], to)
    /\ req' = [req EXCEPT ![r] =
                  [pc |-> "read", op |-> op, actor |-> a, actorRole |-> role[a],
                   target |-> t, to |-> to, secret |-> p]]
    /\ UNCHANGED userRows

-----------------------------------------------------------------------------
(* The read of the target row, and the checks on it *)

CountsOthers(q, targetRole) ==
    /\ targetRole = "SUPER_ADMIN"
    /\ \/ q.op = "deactivate"
       \/ q.op = "updateRole" /\ q.target = q.actor /\ q.to # "SUPER_ADMIN"

ReadEmail(r) ==
    /\ req[r].pc = "read" /\ req[r].op = "create"
    /\ IF Exists(req[r].target) THEN Finish(r) ELSE Goto(r, "write")
    /\ UNCHANGED userRows

Admitted(q) ==
    /\ Exists(q.target)
    /\ assertCanManageTarget(q.actorRole, role[q.target])
    /\ q.op = "updateRole" => assertCanAssignRole(q.actorRole, q.to)

ReadTarget(r) ==
    LET q == req[r]
    IN  /\ q.pc = "read" /\ q.op # "create"
        /\ IF Admitted(q)
           THEN Goto(r, IF CountsOthers(q, role[q.target]) THEN "count" ELSE "write")
           ELSE Finish(r)
        /\ UNCHANGED userRows

\* Mutant: the account about to lose its role is counted too.
OthersCounted_Everyone(q) ==
    IF q.op = "deactivate" THEN ActiveSuperAdmins ELSE SuperAdmins

\* A demotion of oneself counts super admins of any status, a deactivation
\* only the active ones.
OthersCounted(q) ==
    IF q.op = "deactivate"
    THEN ActiveSuperAdmins \ {q.target}
    ELSE SuperAdmins \ {q.actor}

CountSuperAdmins(r) ==
    /\ req[r].pc = "count"
    /\ IF OthersCounted(req[r]) = {} THEN Finish(r) ELSE Goto(r, "write")
    /\ UNCHANGED userRows

-----------------------------------------------------------------------------
(* The write, by id and whatever the row is now *)

\* The unique e-mail makes the insert of a taken address throw.
Insert(r) ==
    LET q == req[r]
    IN  /\ q.pc = "write" /\ q.op \in {"create", "register"}
        /\ IF Exists(q.target) THEN UNCHANGED userRows
           ELSE /\ status' = [status EXCEPT ![q.target] = "ACTIVE"]
                /\ role' = [role EXCEPT ![q.target] = q.to]
                /\ passwordHash' = [passwordHash EXCEPT ![q.target] = q.secret]
        /\ Finish(r)

WriteRole(r) ==
    /\ req[r].pc = "write" /\ req[r].op = "updateRole"
    /\ role' = [role EXCEPT ![req[r].target] = req[r].to]
    /\ Finish(r)
    /\ UNCHANGED <<status, passwordHash>>

WritePassword(r) ==
    /\ req[r].pc = "write" /\ req[r].op = "update"
    /\ passwordHash' = [passwordHash EXCEPT ![req[r].target] = req[r].secret]
    /\ Finish(r)
    /\ UNCHANGED <<status, role>>

\* An update of the name or the address only; an address that is taken, when it
\* is looked up or at the index, is refused.
KeepPassword(r) ==
    /\ req[r].pc = "write" /\ req[r].op = "update"
    /\ Finish(r)
    /\ UNCHANGED userRows

\* Mutant: a change of status loses the role.
WriteStatus_ResetsRole(r) ==
    /\ req[r].pc = "write" /\ req[r].op \in {"deactivate", "reactivate"}
    /\ status' = [status EXCEPT ![req[r].target] =
                     IF req[r].op = "deactivate" THEN "DISABLED" ELSE "ACTIVE"]
    /\ role' = [role EXCEPT ![req[r].target] = None]
    /\ Finish(r)
    /\ UNCHANGED passwordHash

WriteStatus(r) ==
    /\ req[r].pc = "write" /\ req[r].op \in {"deactivate", "reactivate"}
    /\ status' = [status EXCEPT ![req[r].target] =
                     IF req[r].op = "deactivate" THEN "DISABLED" ELSE "ACTIVE"]
    /\ Finish(r)
    /\ UNCHANGED <<role, passwordHash>>

-----------------------------------------------------------------------------

\* What the bodies of the calls carry: a role, a new password, both or neither.
Body(op) ==
    CASE op = "create"     -> Role \X Secret
      [] op = "updateRole" -> Role \X {None}
      [] op = "update"     -> {None} \X Secret
      [] OTHER             -> {None} \X {None}

Call(r) ==
    \/ \E p \in Secret : RegisterOrganization(r, p)
    \/ \E a, t \in Account, op \in Operation \ {"register"} :
          \E body \in Body(op) : Authenticate(r, a, op, t, body[1], body[2])

Continue(r) ==
    \/ RegisterFails(r)
    \/ ReadEmail(r)
    \/ ReadTarget(r)
    \/ CountSuperAdmins(r)
    \/ Insert(r)
    \/ WriteRole(r)
    \/ WritePassword(r)
    \/ KeepPassword(r)
    \/ WriteStatus(r)

Step(r) ==
    /\ (req[r].pc = "idle" /\ Call(r)) \/ Continue(r)
    /\ Overtake

Next == \E r \in Request : Step(r)

Spec == Init /\ [][Next]_vars

-----------------------------------------------------------------------------
(* Properties *)

\* A row has a role and a password exactly when it exists; a call in flight
\* carries what its operation needs, and only accounts with USERS_WRITE ever
\* act on other members.
TypeOK ==
    /\ status \in [Account -> {"ABSENT", "ACTIVE", "DISABLED"}]
    /\ role \in [Account -> Role \cup {None}]
    /\ passwordHash \in [Account -> Secret \cup {None}]
    /\ \A a \in Account : Exists(a) <=> role[a] # None
    /\ req \in [Request -> RequestRecord]
    /\ \A r \in Request : req[r].pc # "idle" =>
          /\ req[r].target \in Account
          /\ req[r].op # None
          /\ req[r].op = "register" => req[r].pc = "write" /\ req[r].target = Founder
          /\ req[r].op # "register" =>
                /\ req[r].actor \in Account /\ Exists(req[r].actor)
                /\ hasPermission(req[r].actorRole, "USERS_WRITE")
          /\ req[r].op \in {"create", "updateRole", "register"} => req[r].to \in Role
          /\ req[r].pc # "read" /\ req[r].op \notin {"create", "register"} =>
                Exists(req[r].target)
    /\ overtaken \subseteq { r \in Request : req[r].pc # "idle" }

\* "Cannot remove the last super admin from the organization", for any number
\* of calls at once: the last one is lost only by a demotion during which another
\* call changed who is a super admin (two that demote each other).  A demotion
\* that nothing overtook always leaves one.
LastSuperAdminKept ==
    [][SuperAdmins # {} /\ SuperAdmins' = {} =>
          \E r \in overtaken : req[r].pc = "write" /\ req[r].op = "updateRole"]_vars

\* "Cannot deactivate the last active super admin": and one of them can log in.
ActiveSuperAdminRemains ==
    (\E a \in Account : Exists(a)) => ActiveSuperAdmins # {}

\* The one limit on an Admin, row by row and for any number of calls at once: an
\* existing super admin's role, status or password changes only by a call whose
\* caller was authenticated as a super admin, or by one during which another
\* call changed who is a super admin (its target was promoted after the check).
SuperAdminsUntouched ==
    [][\A a \in SuperAdmins :
          \/ <<status[a], role[a], passwordHash[a]>>' = <<status[a], role[a], passwordHash[a]>>
          \/ \E r \in Request :
                /\ req[r].pc = "write" /\ req[r].target = a
                /\ req[r].actorRole = "SUPER_ADMIN" \/ r \in overtaken]_vars

\* Nobody is left who could hand out the super admin role: no active super
\* admin, no call of one in flight, and no write under way that brings one back.
LockedOut ==
    /\ \E a \in Account : Exists(a)
    /\ ActiveSuperAdmins = {}
    /\ \A r \in Request :
          /\ req[r].actorRole # "SUPER_ADMIN"
          /\ req[r].op = "reactivate" /\ req[r].pc = "write" =>
                role[req[r].target] # "SUPER_ADMIN"

\* An organisation whose last active super admin is gone stays without one:
\* no sequence of calls of the remaining admins and no call still in flight
\* gets it back.  (This is why losing the last one matters, and what keeps an
\* Admin from becoming a Super Admin.)
LockoutIsPermanent == [][LockedOut => LockedOut']_vars
=============================================================================
