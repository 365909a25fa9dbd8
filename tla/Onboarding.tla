----------------------------- MODULE Onboarding -----------------------------
(***************************************************************************)
(* The team page of the settings (frontend/components/settings): an        *)
(* administrator changes roles, deactivates members and adds a teammate    *)
(* with the wizard, which makes up to three calls that are no transaction: *)
(* the account, its People record, its device.                             *)
(*                                                                         *)
(* The handlers behind the page (users.service.ts, people.service.ts,      *)
(* staff-devices.service.ts) are one or two steps here: Users and Tasks    *)
(* take them apart.  A dialog that is closed forgets its fields, and its   *)
(* handler goes on.                                                        *)
(***************************************************************************)
EXTENDS Permissions, Naturals

CONSTANTS
    Account,        \* ids of User rows, one per e-mail address
    Me,             \* the administrator at the browser
    Team,           \* the accounts there are at first
    Run,            \* handlers of the wizard that run at the same time
    Forms,          \* what is filled in in the wizard
    MaxWrites,      \* bound on the controls used and the creations started
    MaxElsewhere,   \* bound on what happens outside this browser
    None

ASSUME AccountAssumption ==
    Me \in Team /\ Team \subseteq Account /\ None \notin Account \cup Run
ASSUME BoundAssumption ==
    MaxWrites \in Nat /\ MaxElsewhere \in Nat

Cache == INSTANCE QueryCache

VARIABLES
    (* the backend *)
    status,     \* of a User row; "ABSENT" before it exists
    role,
    people,     \* number of People rows linked to an account
    devices,    \* number of devices an account owns
    elsewhere,
    (* the browser *)
    me,         \* the role that /auth/me answered
    team,       \* the query for the members
    control,    \* the role select, edit dialog or toggle in use
    wizard,     \* what the wizard shows
    run,        \* the handlers of "Create User"
    (* history *)
    writes,     \* the controls used and the creations started
    untold,     \* a write the browser was not told of, or cannot show
    crashed     \* a handler of the wizard was ended by an exception

rows == <<status, role, people, devices>>
history == <<writes, untold, crashed>>
vars == <<rows, elsewhere, me, team, control, wizard, run, history>>

-----------------------------------------------------------------------------
(* Types *)

Form == [email : Account, role : Role, profile : BOOLEAN, device : BOOLEAN]

ASSUME FormAssumption == Forms \subseteq Form

\* findAll: the members as the page gets them.
findAll ==
    [a \in {x \in Account : status[x] # "ABSENT"} |->
        [role |-> role[a], status |-> status[a]]]

Row == [role : Role, status : {"ACTIVE", "DISABLED"}]

IsMember(d) ==
    d # None => DOMAIN d \subseteq Account /\ \A a \in DOMAIN d : d[a] \in Row

Call ==
    [do : {"role"}, on : Account, to : Role] \cup
    [do : {"edit", "deactivate", "reactivate"}, on : Account, to : {None}]

\* "stuck": the answer never came, and the control stays disabled.
Control ==
    [pc : {"idle", "stuck"}, call : {None}] \cup
    [pc : {"sent", "ok", "refused"}, call : Call]

Result == [email : Account, profileOk : BOOLEAN, deviceOk : BOOLEAN]

ASSUME NoneAssumption ==
    None \notin Result \cup UNION { [S -> Row] : S \in SUBSET Account }

\* step: the step of the wizard, or "closed".  result: the summary of a creation.
Wizard ==
    [step : {"closed", "fields", "review"}, form : Forms \cup {None},
     submitting : BOOLEAN, error : BOOLEAN, result : Result \cup {None}]

\* made: the row of the call at hand was inserted.  answer: what the call at
\* hand was answered.  profileOk is the handler's own variable.  shown: the page it
\* was started on is still there, and takes the state the handler sets.
Handler ==
    [pc : {"idle"}, form : {None}, made : {FALSE}, answer : {"none"}, profileOk : {FALSE},
     shown : {FALSE}] \cup
    [pc : {"account", "profile", "device", "refresh"}, form : Forms, made : BOOLEAN,
     answer : {"none", "ok", "refused"}, profileOk : BOOLEAN, shown : BOOLEAN]

Idle == [pc |-> "idle", form |-> None, made |-> FALSE, answer |-> "none", profileOk |-> FALSE,
         shown |-> FALSE]
NoControl == [pc |-> "idle", call |-> None]

\* reset()
Closed == [step |-> "closed", form |-> None, submitting |-> FALSE,
           error |-> FALSE, result |-> None]

TypeOK ==
    /\ status \in [Account -> {"ABSENT", "ACTIVE", "DISABLED"}]
    /\ role \in [Account -> Role]
    /\ people \in [Account -> Nat] /\ devices \in [Account -> Nat]
    /\ elsewhere \in 0..MaxElsewhere
    /\ me \in Role \cup {"NOBODY"}
    /\ team \in Cache!Query({team.data, team.answer})
    /\ IsMember(team.data) /\ IsMember(team.answer)
    /\ control \in Control
    /\ wizard \in Wizard
    /\ wizard.step = "fields" => wizard.form = None
    /\ wizard.step = "closed" => wizard.form = None \/ wizard.result # None
    /\ run \in [Run -> Handler]
    /\ writes \in 0..MaxWrites /\ untold \in BOOLEAN /\ crashed \in BOOLEAN

Init ==
    /\ status = [a \in Account |-> IF a \in Team THEN "ACTIVE" ELSE "ABSENT"]
    /\ \E ro \in [Team -> Role] :
          /\ ro[Me] # "DEV" /\ \E a \in Team : ro[a] = "SUPER_ADMIN"
          /\ role = [a \in Account |-> IF a \in Team THEN ro[a] ELSE "DEV"]
    /\ people = [a \in Account |-> 0] /\ devices = [a \in Account |-> 0]
    /\ elsewhere = 0
    /\ me = "NOBODY"
    /\ team = Cache!Unfetched
    /\ control = NoControl
    /\ wizard = Closed
    /\ run = [r \in Run |-> Idle]
    /\ writes = 0 /\ untold = FALSE /\ crashed = FALSE

-----------------------------------------------------------------------------
(* UsersService, for the calls of this page *)

Authorized(u) == status[u] = "ACTIVE" /\ hasPermission(role[u], "USERS_WRITE")

ManagesTarget(u, a) == role[a] = "SUPER_ADMIN" => isSuperAdmin(role[u])

OtherSuperAdmin(a) == \E x \in Account \ {a} : role[x] = "SUPER_ADMIN" /\ status[x] # "ABSENT"
OtherActiveSuperAdmin(a) ==
    \E x \in Account \ {a} : role[x] = "SUPER_ADMIN" /\ status[x] = "ACTIVE"

updateRoleAccepts(u, a, to) ==
    /\ ManagesTarget(u, a)
    /\ to = "SUPER_ADMIN" => isSuperAdmin(role[u])
    /\ a = u /\ role[a] = "SUPER_ADMIN" /\ to # "SUPER_ADMIN" => OtherSuperAdmin(a)

deactivateAccepts(u, a) ==
    /\ a # u
    /\ ManagesTarget(u, a)
    /\ role[a] = "SUPER_ADMIN" => OtherActiveSuperAdmin(a)

Accepts(u, c) ==
    /\ Authorized(u) /\ status[c.on] # "ABSENT"
    /\ CASE c.do = "role" -> updateRoleAccepts(u, c.on, c.to)
         [] c.do = "deactivate" -> deactivateAccepts(u, c.on)
         [] c.do \in {"edit", "reactivate"} -> ManagesTarget(u, c.on)

\* The name, address and password an edit changes are not told apart.
Perform(c) ==
    /\ role' = IF c.do = "role" THEN [role EXCEPT ![c.on] = c.to] ELSE role
    /\ status' = CASE c.do = "deactivate" -> [status EXCEPT ![c.on] = "DISABLED"]
                   [] c.do = "reactivate" -> [status EXCEPT ![c.on] = "ACTIVE"]
                   [] OTHER -> status
    /\ UNCHANGED <<people, devices>>

-----------------------------------------------------------------------------
(* The team page: TeamMembers and EditUserDialog *)

canManage(who, row) == isSuperAdmin(who) \/ row.role # "SUPER_ADMIN"

\* Mutant: a super admin is demoted like anybody else.
RoleOffers_AnyTarget(who, a, row) ==
    { c \in [do : {"role"}, on : {a}, to : Role \ {row.role}] :
        /\ row.status = "ACTIVE"
        /\ ~(a = Me /\ row.role = "SUPER_ADMIN")
        /\ c.to = "SUPER_ADMIN" => isSuperAdmin(who) }

\* MemberRoleSelect
RoleOffers(who, a, row) ==
    { c \in [do : {"role"}, on : {a}, to : Role \ {row.role}] :
        /\ canManage(who, row) /\ row.status = "ACTIVE"
        /\ ~(a = Me /\ row.role = "SUPER_ADMIN")
        /\ c.to = "SUPER_ADMIN" => isSuperAdmin(who) }

\* DeactivateToggle
ToggleOffers(who, a, row) ==
    { c \in [do : {IF row.status = "ACTIVE" THEN "deactivate" ELSE "reactivate"},
             on : {a}, to : {None}] : canManage(who, row) /\ a # Me }

\* EditUserDialog
EditOffers(who, a, row) ==
    { c \in [do : {"edit"}, on : {a}, to : {None}] : canManage(who, row) }

Known == IF team.data = None THEN {} ELSE DOMAIN team.data

\* SettingsPage shows the team to those who may manage users.
ShowsTeam(who) == who \in {"ADMIN", "SUPER_ADMIN"}

Offers(who) ==
    IF ShowsTeam(who)
    THEN UNION { LET row == team.data[a]
                 IN  RoleOffers(who, a, row) \cup ToggleOffers(who, a, row)
                        \cup EditOffers(who, a, row) : a \in Known }
    ELSE {}

\* The wizard is a modal dialog.  Bound: one control is in use at a time.
Click(c) ==
    /\ control.pc = "idle" /\ wizard.step = "closed" /\ writes < MaxWrites
    /\ c \in Offers(me)
    /\ control' = [pc |-> "sent", call |-> c]
    /\ writes' = writes + 1
    /\ UNCHANGED <<rows, elsewhere, me, team, wizard, run, untold, crashed>>

ServeCall ==
    /\ control.pc = "sent"
    /\ IF Accepts(Me, control.call)
       THEN /\ Perform(control.call)
            /\ team' = Cache!Overtaken(team)
            /\ control' = [control EXCEPT !.pc = "ok"]
       ELSE /\ control' = [control EXCEPT !.pc = "refused"]
            /\ UNCHANGED <<rows, team>>
    /\ UNCHANGED <<elsewhere, me, wizard, run, history>>

\* invalidateQueries leaves the fetch on its way alone if nothing was loaded before,
\* or nothing shows the list: the answer, older than the write, will be loaded.
KeepsOldFetch == team.fetch = "old" /\ (team.data = None \/ ~ShowsTeam(me))

\* A refused call refreshes nothing: the page goes on showing what it showed.
ReceiveAnswer ==
    /\ control.pc \in {"ok", "refused"}
    /\ control' = NoControl
    /\ team' = IF control.pc = "ok" THEN Cache!Invalidated(team, ShowsTeam(me)) ELSE team
    /\ untold' = (untold \/ (control.pc = "ok" /\ KeepsOldFetch))
    /\ UNCHANGED <<rows, elsewhere, me, wizard, run, writes, crashed>>

\* fetch throws, and the handlers have no catch: the control stays disabled.
LoseAnswer ==
    /\ control.pc \in {"sent", "ok", "refused"}
    /\ control' = [pc |-> "stuck", call |-> None]
    /\ untold' = (untold \/ control.pc = "ok")
    /\ UNCHANGED <<rows, elsewhere, me, team, wizard, run, writes, crashed>>

\* The member's own role is asked for, and the page with the team comes or goes.
Focus ==
    LET who == IF status[Me] = "ACTIVE" THEN role[Me] ELSE "NOBODY" IN
    /\ me' = who
    /\ IF ShowsTeam(who)
       THEN team' = Cache!Fetched(team) /\ UNCHANGED <<control, wizard, run>>
       ELSE /\ wizard' = Closed
            /\ run' = [r \in Run |-> [run[r] EXCEPT !.shown = FALSE]]
            /\ control' = IF control.pc = "stuck" THEN NoControl ELSE control
            /\ UNCHANGED team
    /\ UNCHANGED <<rows, elsewhere, history>>

ServeTeam ==
    /\ team.fetch = "sent"
    /\ team' = IF Authorized(Me) THEN Cache!Answered(team, findAll) ELSE Cache!Failed(team)
    /\ UNCHANGED <<rows, elsewhere, me, control, wizard, run, history>>

ReceiveTeam ==
    /\ team.fetch \in {"old", "new"}
    /\ team' = Cache!Loaded(team)
    /\ untold' = (untold /\ team.fetch = "old")
    /\ UNCHANGED <<rows, elsewhere, me, control, wizard, run, writes, crashed>>

-----------------------------------------------------------------------------
(* AddUserWizard *)

\* Bound: not while the answer to a control is on its way.
OpenWizard ==
    /\ ShowsTeam(me) /\ wizard.step = "closed"
    /\ control.pc \in {"idle", "stuck"}
    /\ wizard' = [wizard EXCEPT !.step = IF wizard.form = None THEN "fields" ELSE "review"]
    /\ UNCHANGED <<rows, elsewhere, me, team, control, run, history>>

\* Steps 1 to 4.  Nothing but the account is required, and only a super admin is
\* offered the role of super admin.
FillIn(form) ==
    /\ wizard.step = "fields" /\ wizard.result = None
    /\ form.role = "SUPER_ADMIN" => isSuperAdmin(me)
    /\ wizard' = [wizard EXCEPT !.step = "review", !.form = form]
    /\ UNCHANGED <<rows, elsewhere, me, team, control, run, history>>

\* The button "Back", also while a handler runs.  The fields keep what was filled
\* in, and may be filled in anew.
Back ==
    /\ wizard.step = "review" /\ wizard.result = None
    /\ wizard' = [wizard EXCEPT !.step = "fields", !.form = None]
    /\ UNCHANGED <<rows, elsewhere, me, team, control, run, history>>

\* Mutant: the fields of the account stay.
DismissWizard_KeepsForm ==
    /\ wizard.step # "closed"
    /\ wizard' = [wizard EXCEPT !.step = "closed", !.submitting = FALSE, !.error = FALSE,
                                !.result = None]
    /\ UNCHANGED <<rows, elsewhere, me, team, control, run, history>>

\* By the cross, the Escape key or a click outside: the fields are reset.
DismissWizard ==
    /\ wizard.step # "closed"
    /\ wizard' = Closed
    /\ UNCHANGED <<rows, elsewhere, me, team, control, run, history>>

\* By the button "Done", which closes the dialog and resets nothing.
Done ==
    /\ wizard.step # "closed" /\ wizard.result # None
    /\ wizard' = [wizard EXCEPT !.step = "closed"]
    /\ UNCHANGED <<rows, elsewhere, me, team, control, run, history>>

handleCreate(r) ==
    /\ wizard.step = "review" /\ wizard.result = None /\ ~wizard.submitting
    /\ run[r] = Idle /\ writes < MaxWrites
    /\ writes' = writes + 1
    /\ wizard' = [wizard EXCEPT !.submitting = TRUE, !.error = FALSE]
    /\ run' = [run EXCEPT ![r] = [Idle EXCEPT !.pc = "account", !.form = wizard.form,
                                         !.shown = TRUE]]
    /\ UNCHANGED <<rows, elsewhere, me, team, control, untold, crashed>>

Waits(r, pc) == run[r].pc = pc /\ run[r].answer = "none"

Answer(r, a) == run' = [run EXCEPT ![r].answer = a]

\* UsersService.create
ServeAccount(r) ==
    LET f == run[r].form IN
    /\ Waits(r, "account")
    /\ IF /\ Authorized(Me) /\ status[f.email] = "ABSENT"
          /\ f.role = "SUPER_ADMIN" => isSuperAdmin(role[Me])
       THEN /\ status' = [status EXCEPT ![f.email] = "ACTIVE"]
            /\ role' = [role EXCEPT ![f.email] = f.role]
            /\ team' = Cache!Overtaken(team)
            /\ Answer(r, "ok")
       ELSE Answer(r, "refused") /\ UNCHANGED <<status, role, team>>
    /\ UNCHANGED <<people, devices, elsewhere, me, control, wizard, history>>

\* PeopleService.create inserts the row, and then logs the activity: no
\* transaction holds the two together.
InsertPerson(r) ==
    /\ Waits(r, "profile") /\ ~run[r].made
    /\ Authorized(Me)
    /\ people' = [people EXCEPT ![run[r].form.email] = @ + 1]
    /\ run' = [run EXCEPT ![r].made = TRUE]
    /\ UNCHANGED <<status, role, devices, elsewhere, me, team, control, wizard, history>>

LogPerson(r) ==
    /\ Waits(r, "profile") /\ run[r].made
    /\ Answer(r, "ok")
    /\ UNCHANGED <<rows, elsewhere, me, team, control, wizard, history>>

\* StaffDevicesService.create stores the device and its checks in a transaction,
\* after it looked for another device of the owner: one step here.
RegisterDevice(r) ==
    LET a == run[r].form.email IN
    /\ Waits(r, "device") /\ ~run[r].made
    /\ Authorized(Me) /\ devices[a] = 0
    /\ devices' = [devices EXCEPT ![a] = 1]
    /\ run' = [run EXCEPT ![r].made = TRUE]
    /\ UNCHANGED <<status, role, people, elsewhere, me, team, control, wizard, history>>

\* attachTasksAndActivity
ReadDevice(r) ==
    /\ Waits(r, "device") /\ run[r].made
    /\ Answer(r, "ok")
    /\ UNCHANGED <<rows, elsewhere, me, team, control, wizard, history>>

\* An await of the handler rejects, after its write too, or a guard refuses the call.
ServeError(r) ==
    /\ run[r].pc \in {"account", "profile", "device"} /\ run[r].answer = "none"
    /\ Answer(r, "refused")
    /\ UNCHANGED <<rows, elsewhere, me, team, control, wizard, history>>

GoOn(r, pc, profileOk) ==
    run' = [run EXCEPT ![r].pc = pc, ![r].answer = "none", ![r].made = FALSE,
                       ![r].profileOk = profileOk]

AfterProfile(f) == IF f.device THEN "device" ELSE "refresh"

SetState(r, w) == wizard' = IF run[r].shown THEN w ELSE wizard

\* Mutant: the early return leaves the button disabled.
ReceiveAccount_StaysDisabled(r) ==
    LET f == run[r].form IN
    /\ run[r].pc = "account" /\ run[r].answer # "none"
    /\ IF run[r].answer = "refused"
       THEN /\ SetState(r, [wizard EXCEPT !.error = TRUE])
            /\ run' = [run EXCEPT ![r] = Idle]
       ELSE /\ GoOn(r, IF f.profile THEN "profile" ELSE AfterProfile(f), FALSE)
            /\ UNCHANGED wizard
    /\ UNCHANGED <<rows, elsewhere, me, team, control, history>>

ReceiveAccount(r) ==
    LET f == run[r].form IN
    /\ run[r].pc = "account" /\ run[r].answer # "none"
    /\ IF run[r].answer = "refused"
       THEN /\ SetState(r, [wizard EXCEPT !.error = TRUE, !.submitting = FALSE])
            /\ run' = [run EXCEPT ![r] = Idle]
       ELSE /\ GoOn(r, IF f.profile THEN "profile" ELSE AfterProfile(f), FALSE)
            /\ UNCHANGED wizard
    /\ UNCHANGED <<rows, elsewhere, me, team, control, history>>

\* Mutant: an answer is taken for a success.
ReceiveProfile_AnyAnswer(r) ==
    /\ run[r].pc = "profile" /\ run[r].answer # "none"
    /\ GoOn(r, AfterProfile(run[r].form), TRUE)
    /\ UNCHANGED <<rows, elsewhere, me, team, control, wizard, history>>

ReceiveProfile(r) ==
    /\ run[r].pc = "profile" /\ run[r].answer # "none"
    /\ GoOn(r, AfterProfile(run[r].form), run[r].answer = "ok")
    /\ UNCHANGED <<rows, elsewhere, me, team, control, wizard, history>>

ReceiveDevice(r) ==
    /\ run[r].pc = "device" /\ run[r].answer # "none"
    /\ run' = [run EXCEPT ![r].pc = "refresh"]
    /\ UNCHANGED <<rows, elsewhere, me, team, control, wizard, history>>

\* Mutant: the list of members is not fetched again.
Finish_KeepsTeam(r) ==
    /\ run[r].pc = "refresh"
    /\ SetState(r, [wizard EXCEPT !.submitting = FALSE,
                       !.result = [email |-> run[r].form.email,
                                   profileOk |-> run[r].profileOk,
                                   deviceOk |-> run[r].answer = "ok"]])
    /\ run' = [run EXCEPT ![r] = Idle]
    /\ UNCHANGED <<rows, elsewhere, me, team, control, history>>

\* The handler sets the state of the wizard as it is by now, which may be closed
\* or hold the fields of the next teammate.
Finish(r) ==
    /\ run[r].pc = "refresh"
    /\ SetState(r, [wizard EXCEPT !.submitting = FALSE,
                       !.result = [email |-> run[r].form.email,
                                   profileOk |-> run[r].profileOk,
                                   deviceOk |-> run[r].answer = "ok"]])
    /\ run' = [run EXCEPT ![r] = Idle]
    /\ team' = Cache!Invalidated(team, ShowsTeam(me))
    /\ untold' = (untold \/ KeepsOldFetch)
    /\ UNCHANGED <<rows, elsewhere, me, control, writes, crashed>>

\* fetch throws, and nothing catches it: the rest of the handler does not run.
Crash(r) ==
    /\ run[r].pc \in {"account", "profile", "device"}
    /\ run' = [run EXCEPT ![r] = Idle]
    /\ crashed' = TRUE
    /\ untold' = (untold \/ run[r].pc # "account" \/ run[r].answer = "ok")
    /\ UNCHANGED <<rows, elsewhere, me, team, control, wizard, writes>>

-----------------------------------------------------------------------------
(* Elsewhere: other administrators, and the new members.                   *)

ColleagueActs(u, c) ==
    /\ elsewhere < MaxElsewhere
    /\ Accepts(u, c)
    /\ Perform(c)
    /\ elsewhere' = elsewhere + 1
    /\ UNCHANGED <<me, team, control, wizard, run, history>>

MemberRegistersDevice(a) ==
    /\ elsewhere < MaxElsewhere
    /\ status[a] = "ACTIVE" /\ devices[a] = 0
    /\ devices' = [devices EXCEPT ![a] = 1]
    /\ elsewhere' = elsewhere + 1
    /\ UNCHANGED <<status, role, people, me, team, control, wizard, run, history>>

Serves(r) ==
    \/ ServeAccount(r) \/ InsertPerson(r) \/ LogPerson(r)
    \/ RegisterDevice(r) \/ ReadDevice(r) \/ ServeError(r)

Receives(r) ==
    ReceiveAccount(r) \/ ReceiveProfile(r) \/ ReceiveDevice(r) \/ Finish(r) \/ Crash(r)

Next ==
    \/ Focus \/ ServeTeam \/ ReceiveTeam
    \/ \E c \in Call : Click(c)
    \/ ServeCall \/ ReceiveAnswer \/ LoseAnswer
    \/ OpenWizard \/ Back \/ DismissWizard \/ Done
    \/ \E form \in Forms : FillIn(form)
    \/ \E r \in Run : handleCreate(r) \/ Serves(r) \/ Receives(r)
    \/ \E u \in Account \ {Me}, c \in Call : ColleagueActs(u, c)
    \/ \E a \in Account \ {Me} : MemberRegistersDevice(a)

Spec == Init /\ [][Next]_vars

-----------------------------------------------------------------------------
(* Properties *)

\* What the page offers is what users.service.ts accepts, on the rows and role as
\* they are: the guards of the page and of the service are written twice.  The
\* page keeps from offering four calls that the service accepts: to demote oneself
\* as a super admin, to change the role of a disabled member, to set the role
\* that is there, and to switch a status to what it is.
TeamPageMatchesBackend ==
    (ShowsTeam(me) /\ me = role[Me] /\ status[Me] = "ACTIVE" /\ team.data = findAll) =>
        LET offered == Offers(me) IN
        \A c \in Call :
            LET withheld ==
                    \/ c.do = "role" /\ \/ c.on = Me /\ role[Me] = "SUPER_ADMIN"
                                        \/ status[c.on] = "DISABLED"
                                        \/ c.to = role[c.on]
                    \/ c.do = "deactivate" /\ status[c.on] = "DISABLED"
                    \/ c.do = "reactivate" /\ status[c.on] = "ACTIVE"
            IN  /\ c \in offered => Accepts(Me, c)
                /\ Accepts(Me, c) /\ ~withheld => c \in offered

\* The summary of the wizard is true, whichever of the calls failed and whatever
\* was done with the wizard meanwhile: the account it names exists, and so do the
\* profile and the device it says were saved.
ReportedIsSaved ==
    wizard.result # None =>
        LET w == wizard.result
        IN  /\ status[w.email] # "ABSENT"
            /\ w.profileOk => people[w.email] > 0
            /\ w.deviceOk => devices[w.email] > 0

\* "Creating..." ends: the button is disabled only while a handler runs that will
\* enable it, unless one was ended by an exception.
SubmittingHasHandler ==
    wizard.submitting => crashed \/ \E r \in Run : run[r].shown

\* Once the page has finished with its calls, the team it shows includes its own
\* writes, unless an answer was lost or the list was never loaded before.
Settled ==
    /\ Cache!LooksCurrent(team)
    /\ control.pc # "ok"
    /\ \A r \in Run : run[r].pc = "idle" \/ (run[r].pc = "account" /\ run[r].answer # "ok")

TeamShowsOwnWrites == Settled => ~team.lacks \/ untold
=============================================================================
