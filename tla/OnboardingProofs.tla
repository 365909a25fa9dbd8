-------------------------- MODULE OnboardingProofs --------------------------
(***************************************************************************)
(* Proofs about Onboarding, for every set of accounts, team, forms and     *)
(* number of handlers of the wizard, and every bound.                      *)
(***************************************************************************)
EXTENDS Onboarding, TLAPS

-----------------------------------------------------------------------------
(* Type correctness *)

TeamOK(q) ==
    /\ q \in Cache!Query({q.data, q.answer})
    /\ IsMember(q.data) /\ IsMember(q.answer)

\* Whatever the cache does with the list of members, it stays one.
LEMMA TeamKept ==
    ASSUME NEW q, TeamOK(q)
    PROVE  /\ TeamOK(Cache!Fetched(q))
           /\ TeamOK(Cache!Overtaken(q))
           /\ TeamOK(Cache!Failed(q))
           /\ TeamOK(Cache!Loaded(q))
           /\ \A b \in BOOLEAN : TeamOK(Cache!Invalidated(q, b))
           /\ \A d : IsMember(d) => TeamOK(Cache!Answered(q, d))
<1> USE DEF TeamOK, Cache!Query
<1> HIDE DEF IsMember
<1>0. IsMember(None)
  BY DEF IsMember
<1>1. TeamOK(Cache!Fetched(q))
  BY DEF Cache!Fetched
<1>2. TeamOK(Cache!Overtaken(q))
  BY DEF Cache!Overtaken
<1>3. TeamOK(Cache!Failed(q))
  BY <1>0 DEF Cache!Failed
<1>4. TeamOK(Cache!Loaded(q))
  BY <1>0 DEF Cache!Loaded
<1>5. ASSUME NEW b \in BOOLEAN PROVE TeamOK(Cache!Invalidated(q, b))
  BY <1>0, <1>1 DEF Cache!Invalidated, Cache!Fetched
<1>6. ASSUME NEW d, IsMember(d) PROVE TeamOK(Cache!Answered(q, d))
  BY <1>6 DEF Cache!Answered
<1> QED
  BY <1>1, <1>2, <1>3, <1>4, <1>5, <1>6

RowsOK ==
    /\ status \in [Account -> {"ABSENT", "ACTIVE", "DISABLED"}]
    /\ role \in [Account -> Role]
    /\ people \in [Account -> Nat] /\ devices \in [Account -> Nat]

LEMMA FindAllTypes == RowsOK => IsMember(findAll)
BY DEF RowsOK, IsMember, findAll, Row

\* A call that is performed changes rows, and neither makes nor removes one.
LEMMA PerformTypes ==
    ASSUME RowsOK, NEW u \in Account, NEW c \in Call, Accepts(u, c), Perform(c)
    PROVE  /\ RowsOK'
           /\ \A a \in Account : status'[a] = "ABSENT" <=> status[a] = "ABSENT"
           /\ UNCHANGED <<people, devices>>
<1> USE DEF RowsOK
<1>1. c.on \in Account /\ status[c.on] # "ABSENT" /\ (c.do = "role" => c.to \in Role)
  BY DEF Accepts, Call
<1>2. role' \in [Account -> Role]
  BY <1>1 DEF Perform
<1>3. \/ status' = status
      \/ status' = [status EXCEPT ![c.on] = "DISABLED"]
      \/ status' = [status EXCEPT ![c.on] = "ACTIVE"]
  BY DEF Perform
<1> QED
  BY <1>1, <1>2, <1>3 DEF Perform

\* The review of the wizard has something to create.
Prepared == wizard.step = "review" => wizard.form \in Forms

PageOK ==
    /\ elsewhere \in 0..MaxElsewhere
    /\ me \in Role \cup {"NOBODY"}
    /\ control \in Control
    /\ writes \in 0..MaxWrites /\ untold \in BOOLEAN /\ crashed \in BOOLEAN

WizardOK ==
    /\ wizard \in Wizard
    /\ wizard.step = "fields" => wizard.form = None
    /\ wizard.step = "closed" => wizard.form = None \/ wizard.result # None
    /\ Prepared

LEMMA TypeParts ==
    TypeOK /\ Prepared <=> /\ RowsOK /\ TeamOK(team) /\ PageOK /\ WizardOK
                           /\ run \in [Run -> Handler]
BY DEF TypeOK, RowsOK, TeamOK, PageOK, WizardOK

LEMMA InitTypes == Init => TypeOK /\ Prepared
<1> SUFFICES ASSUME Init PROVE TypeOK /\ Prepared
  OBVIOUS
<1>1. RowsOK
  BY AccountAssumption DEF Init, RowsOK, Role
<1>2. TeamOK(team)
  BY DEF Init, TeamOK, IsMember, Cache!Unfetched, Cache!Query
<1>3. PageOK
  <2>1. control \in Control
    BY DEF Init, NoControl, Control
  <2>2. 0 \in 0..MaxElsewhere /\ 0 \in 0..MaxWrites
    BY BoundAssumption
  <2> QED
    BY <2>1, <2>2 DEF Init, PageOK
<1>4. WizardOK
  BY DEF Init, WizardOK, Prepared, Wizard, Closed
<1>5. run \in [Run -> Handler]
  BY DEF Init, Idle, Handler
<1> QED
  BY <1>1, <1>2, <1>3, <1>4, <1>5, TypeParts

\* The steps of the page, of its calls, and of everybody else.
Refreshes == Focus \/ ServeTeam \/ ReceiveTeam
Clicks == (\E c \in Call : Click(c)) \/ ServeCall \/ ReceiveAnswer \/ LoseAnswer
Dialog == OpenWizard \/ Back \/ DismissWizard \/ Done \/ \E form \in Forms : FillIn(form)
Outside ==
    \/ \E u \in Account \ {Me}, c \in Call : ColleagueActs(u, c)
    \/ \E a \in Account \ {Me} : MemberRegistersDevice(a)
Handles(r) == handleCreate(r) \/ Serves(r) \/ Receives(r)

LEMMA NextCases == Next <=> Refreshes \/ Clicks \/ Dialog \/ Outside \/ \E r \in Run : Handles(r)
BY DEF Next, Refreshes, Clicks, Dialog, Outside, Handles

LEMMA HandlerForm ==
    ASSUME NEW r \in Run, run \in [Run -> Handler], run[r].pc # "idle"
    PROVE  /\ run[r].form \in Forms
           /\ run[r].form.email \in Account /\ run[r].form.role \in Role
<1>1. run[r] \in Handler
  OBVIOUS
<1>2. run[r].form \in Forms
  BY <1>1 DEF Handler
<1>3. run[r].form \in Form
  BY <1>2, FormAssumption
<1> QED
  BY <1>2, <1>3 DEF Form

LEMMA RowsStep ==
    ASSUME RowsOK, control \in Control, run \in [Run -> Handler], Next
    PROVE  /\ RowsOK'
           /\ \A a \in Account : /\ status[a] # "ABSENT" => status'[a] # "ABSENT"
                                 /\ people[a] > 0 => people'[a] > 0
                                 /\ devices[a] > 0 => devices'[a] > 0
<1> USE DEF RowsOK
<1>1. CASE UNCHANGED rows
  BY <1>1 DEF rows
<1>2. ASSUME NEW u \in Account, NEW c \in Call, Accepts(u, c), Perform(c)
      PROVE  /\ RowsOK'
             /\ \A a \in Account : /\ status[a] # "ABSENT" => status'[a] # "ABSENT"
                                   /\ people[a] > 0 => people'[a] > 0
                                   /\ devices[a] > 0 => devices'[a] > 0
  BY <1>2, PerformTypes
<1>3. CASE ServeCall
  <2>1. control.call \in Call
    BY <1>3 DEF ServeCall, Control
  <2>2. Me \in Account
    BY AccountAssumption
  <2>3. UNCHANGED rows \/ (Accepts(Me, control.call) /\ Perform(control.call))
    BY <1>3 DEF ServeCall
  <2> QED
    BY <1>1, <1>2, <2>1, <2>2, <2>3
<1>4. ASSUME NEW r \in Run, Serves(r)
      PROVE  /\ RowsOK'
             /\ \A a \in Account : /\ status[a] # "ABSENT" => status'[a] # "ABSENT"
                                   /\ people[a] > 0 => people'[a] > 0
                                   /\ devices[a] > 0 => devices'[a] > 0
  <2>1. run[r].pc # "idle" => run[r].form.email \in Account /\ run[r].form.role \in Role
    BY HandlerForm
  <2>2. CASE ServeAccount(r)
    BY <2>1, <2>2 DEF ServeAccount, Waits
  <2>3. CASE InsertPerson(r)
    BY <2>1, <2>3 DEF InsertPerson, Waits
  <2>4. CASE RegisterDevice(r)
    BY <2>1, <2>4 DEF RegisterDevice, Waits
  <2>5. CASE LogPerson(r) \/ ReadDevice(r) \/ ServeError(r)
    BY <1>1, <2>5 DEF LogPerson, ReadDevice, ServeError
  <2> QED
    BY <1>4, <2>2, <2>3, <2>4, <2>5 DEF Serves
<1>5. CASE Outside
  BY <1>2, <1>5 DEF Outside, ColleagueActs, MemberRegistersDevice
<1>6. ASSUME NEW r \in Run, handleCreate(r) \/ Receives(r) PROVE UNCHANGED rows
  BY <1>6 DEF handleCreate, Receives, ReceiveAccount, ReceiveProfile, ReceiveDevice, Finish, Crash
<1>7. ASSUME Refreshes \/ Clicks \/ Dialog, ~ServeCall PROVE UNCHANGED rows
  BY <1>7 DEF Refreshes, Clicks, Dialog, Focus, ServeTeam, ReceiveTeam, Click, ReceiveAnswer,
              LoseAnswer, OpenWizard, Back, DismissWizard, Done, FillIn
<1> QED
  BY <1>1, <1>3, <1>4, <1>5, <1>6, <1>7, NextCases DEF Handles

LEMMA TeamStep ==
    ASSUME RowsOK, TeamOK(team), Next
    PROVE  TeamOK(team')
<1>1. IsMember(findAll)
  BY FindAllTypes
<1> DEFINE kept == { team, Cache!Fetched(team), Cache!Overtaken(team), Cache!Failed(team),
                     Cache!Loaded(team), Cache!Answered(team, findAll),
                     Cache!Invalidated(team, ShowsTeam(me)) }
<1>2. \A q \in kept : TeamOK(q)
  <2>1. ShowsTeam(me) \in BOOLEAN
    BY DEF ShowsTeam
  <2> HIDE DEF TeamOK
  <2> QED
    BY <1>1, <2>1, TeamKept
<1>3. ASSUME Refreshes PROVE team' \in kept
  BY <1>3 DEF Refreshes, Focus, ServeTeam, ReceiveTeam
<1>4. ASSUME Clicks PROVE team' \in kept
  BY <1>4 DEF Clicks, Click, ServeCall, ReceiveAnswer, LoseAnswer
<1>5. ASSUME Dialog \/ Outside PROVE team' \in kept
  BY <1>5 DEF Dialog, Outside, OpenWizard, Back, DismissWizard, Done, FillIn, ColleagueActs,
              MemberRegistersDevice
<1>6. ASSUME NEW r \in Run, Handles(r) PROVE team' \in kept
  BY <1>6 DEF Handles, handleCreate, Serves, ServeAccount, InsertPerson, LogPerson,
              RegisterDevice, ReadDevice, ServeError, Receives, ReceiveAccount,
              ReceiveProfile, ReceiveDevice, Finish, Crash
<1>7. team' \in kept
  BY <1>3, <1>4, <1>5, <1>6, NextCases
<1> QED
  BY <1>2, <1>7

LEMMA PageStep ==
    ASSUME RowsOK, PageOK, Next
    PROVE  PageOK'
<1> USE AccountAssumption, BoundAssumption DEF PageOK
<1>1. CASE Refreshes
  <2>1. NoControl \in Control
    BY DEF NoControl, Control
  <2>2. me' \in Role \cup {"NOBODY"}
    BY <1>1 DEF Refreshes, Focus, ServeTeam, ReceiveTeam, RowsOK
  <2>3. control' \in {control, NoControl} /\ UNCHANGED <<elsewhere, writes, crashed>>
    BY <1>1 DEF Refreshes, Focus, ServeTeam, ReceiveTeam, history
  <2>4. untold' \in BOOLEAN
    BY <1>1 DEF Refreshes, Focus, ServeTeam, ReceiveTeam, history
  <2> QED
    BY <2>1, <2>2, <2>3, <2>4
<1>2. CASE Clicks
  <2>1. ASSUME NEW c \in Call, Click(c) PROVE PageOK'
    <3>1. control' \in Control
      BY <2>1 DEF Click, Control
    <3>2. writes' \in 0..MaxWrites
      BY <2>1 DEF Click
    <3> QED
      BY <2>1, <3>1, <3>2 DEF Click
  <2>2. ASSUME ServeCall \/ ReceiveAnswer \/ LoseAnswer
        PROVE  control' \in Control
    <3>1. ASSUME control.pc = "sent", NEW x \in {"ok", "refused"}
          PROVE  [control EXCEPT !.pc = x] \in Control
      BY <3>1 DEF Control
    <3>2. NoControl \in Control /\ [pc |-> "stuck", call |-> None] \in Control
      BY DEF NoControl, Control
    <3> QED
      BY <2>2, <3>1, <3>2 DEF ServeCall, ReceiveAnswer, LoseAnswer
  <2>3. ASSUME ServeCall \/ ReceiveAnswer \/ LoseAnswer
        PROVE  UNCHANGED <<elsewhere, me, writes, crashed>> /\ untold' \in BOOLEAN
    BY <2>3 DEF ServeCall, ReceiveAnswer, LoseAnswer, history, KeepsOldFetch
  <2> QED
    BY <1>2, <2>1, <2>2, <2>3 DEF Clicks
<1>3. CASE Dialog
  BY <1>3 DEF Dialog, OpenWizard, Back, DismissWizard, Done, FillIn, history
<1>4. CASE Outside
  BY <1>4 DEF Outside, ColleagueActs, MemberRegistersDevice, history
<1>5. ASSUME NEW r \in Run, Handles(r) PROVE PageOK'
  <2>1. UNCHANGED <<elsewhere, me, control>>
    BY <1>5 DEF Handles, handleCreate, Serves, ServeAccount, InsertPerson, LogPerson,
                RegisterDevice, ReadDevice, ServeError, Receives, ReceiveAccount,
                ReceiveProfile, ReceiveDevice, Finish, Crash
  <2>2. writes' \in 0..MaxWrites
    <3>1. CASE handleCreate(r)
      BY <3>1 DEF handleCreate
    <3>2. ASSUME ~handleCreate(r) PROVE UNCHANGED writes
      BY <1>5, <3>2
         DEF Handles, Serves, ServeAccount, InsertPerson, LogPerson, RegisterDevice, ReadDevice,
             ServeError, Receives, ReceiveAccount, ReceiveProfile, ReceiveDevice, Finish,
             Crash, history
    <3> QED
      BY <3>1, <3>2
  <2>3. untold' \in BOOLEAN /\ crashed' \in BOOLEAN
    BY <1>5 DEF Handles, handleCreate, Serves, ServeAccount, InsertPerson, LogPerson,
                RegisterDevice, ReadDevice, ServeError, Receives, ReceiveAccount, ReceiveProfile,
                ReceiveDevice, Finish, Crash, history, KeepsOldFetch
  <2> QED
    BY <2>1, <2>2, <2>3
<1> QED
  BY <1>1, <1>2, <1>3, <1>4, <1>5, NextCases

LEMMA RunStep ==
    ASSUME WizardOK, run \in [Run -> Handler], Next
    PROVE  run' \in [Run -> Handler]
<1>1. Idle \in Handler
  BY DEF Idle, Handler
<1>2. ASSUME Refreshes PROVE run' \in [Run -> Handler]
  <2>1. \A h \in Handler : [h EXCEPT !.shown = FALSE] \in Handler
    BY DEF Handler
  <2> QED
    BY <1>2, <2>1 DEF Refreshes, Focus, ServeTeam, ReceiveTeam
<1>3. CASE Clicks \/ Dialog \/ Outside
  BY <1>3 DEF Clicks, Click, ServeCall, ReceiveAnswer, LoseAnswer, Dialog, OpenWizard,
              Back, DismissWizard, Done, FillIn, Outside, ColleagueActs, MemberRegistersDevice
<1>4. ASSUME NEW r \in Run, handleCreate(r) PROVE run' \in [Run -> Handler]
  <2>1. wizard.form \in Forms
    BY <1>4 DEF handleCreate, WizardOK, Prepared
  <2>2. [Idle EXCEPT !.pc = "account", !.form = wizard.form, !.shown = TRUE] \in Handler
    BY <2>1 DEF Idle, Handler
  <2> QED
    BY <1>4, <2>2 DEF handleCreate
<1>5. ASSUME NEW r \in Run, Serves(r) PROVE run' \in [Run -> Handler]
  <2>1. run[r] \in Handler /\ run[r].pc # "idle"
    BY <1>5 DEF Serves, ServeAccount, InsertPerson, LogPerson, RegisterDevice, ReadDevice,
                ServeError, Waits
  <2>2. /\ [run[r] EXCEPT !.made = TRUE] \in Handler
        /\ \A a \in {"ok", "refused"} : [run[r] EXCEPT !.answer = a] \in Handler
    BY <2>1 DEF Handler
  <2>3. \/ run' = [run EXCEPT ![r] = [run[r] EXCEPT !.made = TRUE]]
        \/ \E a \in {"ok", "refused"} : run' = [run EXCEPT ![r] = [run[r] EXCEPT !.answer = a]]
    BY <1>5 DEF Serves, ServeAccount, InsertPerson, LogPerson, RegisterDevice, ReadDevice,
                ServeError, Answer
  <2> QED
    BY <2>2, <2>3
<1>6. ASSUME NEW r \in Run, Receives(r) PROVE run' \in [Run -> Handler]
  <2>1. run[r] \in Handler /\ run[r].pc # "idle"
    BY <1>6 DEF Receives, ReceiveAccount, ReceiveProfile, ReceiveDevice, Finish, Crash
  <2> DEFINE gone(pc, b) ==
        [run[r] EXCEPT !.pc = pc, !.answer = "none", !.made = FALSE, !.profileOk = b]
  <2>2. /\ [run[r] EXCEPT !.pc = "refresh"] \in Handler
        /\ \A pc \in {"profile", "device", "refresh"}, b \in BOOLEAN : gone(pc, b) \in Handler
    BY <2>1 DEF Handler
  <2>3. \/ run' = [run EXCEPT ![r] = Idle]
        \/ run' = [run EXCEPT ![r] = [run[r] EXCEPT !.pc = "refresh"]]
        \/ \E pc \in {"profile", "device", "refresh"}, b \in BOOLEAN :
              run' = [run EXCEPT ![r] = gone(pc, b)]
    BY <1>6 DEF Receives, ReceiveAccount, ReceiveProfile, ReceiveDevice, Finish, Crash, GoOn,
                AfterProfile
  <2> QED
    BY <1>1, <2>2, <2>3
<1> QED
  BY <1>2, <1>3, <1>4, <1>5, <1>6, NextCases DEF Handles

LEMMA WizardStep ==
    ASSUME WizardOK, run \in [Run -> Handler], Next
    PROVE  WizardOK'
<1> USE DEF WizardOK, Prepared
<1>1. ASSUME UNCHANGED wizard PROVE WizardOK'
  BY <1>1
<1>2. Closed \in Wizard /\ Closed.step = "closed" /\ Closed.form = None
  BY DEF Closed, Wizard
<1>3. CASE Refreshes \/ Clicks \/ Outside
  BY <1>1, <1>2, <1>3
     DEF Refreshes, Focus, ServeTeam, ReceiveTeam, Clicks, Click, ServeCall, ReceiveAnswer,
         LoseAnswer, Outside, ColleagueActs, MemberRegistersDevice
<1>4. CASE Dialog
  <2>1. CASE OpenWizard \/ Done
    BY <2>1 DEF OpenWizard, Done, Wizard
  <2>2. CASE Back \/ DismissWizard
    BY <1>2, <2>2 DEF Back, DismissWizard, Wizard
  <2>3. ASSUME NEW form \in Forms, FillIn(form) PROVE WizardOK'
    BY <2>3 DEF FillIn, Wizard
  <2> QED
    BY <1>4, <2>1, <2>2, <2>3 DEF Dialog
<1>5. ASSUME NEW r \in Run, handleCreate(r) PROVE WizardOK'
  BY <1>5 DEF handleCreate, Wizard
<1>6. ASSUME NEW r \in Run, Serves(r) PROVE WizardOK'
  BY <1>1, <1>6 DEF Serves, ServeAccount, InsertPerson, LogPerson, RegisterDevice, ReadDevice,
                    ServeError
<1>7. ASSUME NEW r \in Run, ReceiveAccount(r) PROVE WizardOK'
  BY <1>7 DEF ReceiveAccount, SetState, Wizard
<1>8. ASSUME NEW r \in Run, Finish(r) PROVE WizardOK'
  <2> DEFINE result == [email |-> run[r].form.email, profileOk |-> run[r].profileOk,
                        deviceOk |-> run[r].answer = "ok"]
  <2>1. result \in Result /\ result # None
    <3>1. run[r].form.email \in Account /\ run[r].profileOk \in BOOLEAN
      <4>1. run[r] \in Handler /\ run[r].pc # "idle"
        BY <1>8 DEF Finish
      <4> QED
        BY <1>8, <4>1, HandlerForm DEF Handler
    <3>2. result \in Result
      BY <3>1 DEF Result
    <3> QED
      BY <3>2, NoneAssumption
  <2> HIDE DEF result
  <2>2. wizard' \in {wizard, [wizard EXCEPT !.submitting = FALSE, !.result = result]}
    BY <1>8 DEF Finish, SetState, result
  <2> QED
    BY <2>1, <2>2 DEF Wizard
<1>9. ASSUME NEW r \in Run, ReceiveProfile(r) \/ ReceiveDevice(r) \/ Crash(r) PROVE WizardOK'
  BY <1>1, <1>9 DEF ReceiveProfile, ReceiveDevice, Crash
<1> QED
  BY <1>3, <1>4, <1>5, <1>6, <1>7, <1>8, <1>9, NextCases DEF Handles, Receives

LEMMA NextTypes == TypeOK /\ Prepared /\ [Next]_vars => TypeOK' /\ Prepared'
<1> SUFFICES ASSUME TypeOK, Prepared, [Next]_vars PROVE TypeOK' /\ Prepared'
  OBVIOUS
<1>1. CASE UNCHANGED vars
  BY <1>1 DEF vars, rows, history, TypeOK, Prepared
<1>2. CASE Next
  <2>1. RowsOK /\ TeamOK(team) /\ PageOK /\ WizardOK /\ run \in [Run -> Handler]
    BY TypeParts
  <2>2. RowsOK' /\ TeamOK(team') /\ PageOK' /\ WizardOK' /\ run' \in [Run -> Handler]
    BY <1>2, <2>1, RowsStep, TeamStep, PageStep, WizardStep, RunStep DEF PageOK
  <2> QED
    BY <2>2 DEF TypeOK, RowsOK, TeamOK, PageOK, WizardOK
<1> QED
  BY <1>1, <1>2

\* The rows behind the team page and what its dialogs and handlers hold keep
\* their types; a closed wizard has been reset or shows a summary.
THEOREM TypeCorrectness == Spec => []TypeOK
<1>1. Spec => [](TypeOK /\ Prepared)
  BY InitTypes, NextTypes, PTL DEF Spec
<1> QED
  BY <1>1, PTL

-----------------------------------------------------------------------------
(* The guards of the page and those of the service *)

LEMMA OfferedTo ==
    ASSUME NEW who, NEW c \in Call
    PROVE  c \in Offers(who) <=>
              /\ ShowsTeam(who) /\ c.on \in Known
              /\ c \in RoleOffers(who, c.on, team.data[c.on])
                    \cup ToggleOffers(who, c.on, team.data[c.on])
                    \cup EditOffers(who, c.on, team.data[c.on])
<1> DEFINE offers(a) == RoleOffers(who, a, team.data[a]) \cup ToggleOffers(who, a, team.data[a])
                           \cup EditOffers(who, a, team.data[a])
<1>1. c \in Offers(who) <=> ShowsTeam(who) /\ \E a \in Known : c \in offers(a)
  BY DEF Offers
<1>2. \A a : c \in offers(a) => c.on = a
  BY DEF RoleOffers, ToggleOffers, EditOffers
<1> QED
  BY <1>1, <1>2

LEMMA OffersAccepted ==
    ASSUME RowsOK, team.data = findAll, me = role[Me], status[Me] = "ACTIVE",
           NEW c \in Call, c \in Offers(me)
    PROVE  Accepts(Me, c)
<1> DEFINE a == c.on
<1>1. /\ a \in Account /\ status[a] # "ABSENT"
      /\ team.data[a] = [role |-> role[a], status |-> status[a]]
  <2>1. a \in DOMAIN findAll
    BY OfferedTo DEF Known
  <2> QED
    BY <2>1 DEF findAll
<1> HIDE DEF a
<1>2. c \in RoleOffers(me, a, team.data[a]) \cup ToggleOffers(me, a, team.data[a])
               \cup EditOffers(me, a, team.data[a])
  BY OfferedTo DEF a
<1>3. ManagesTarget(Me, a)
  BY <1>1, <1>2 DEF RoleOffers, ToggleOffers, EditOffers, canManage, ManagesTarget
<1>4. Authorized(Me)
  BY OfferedTo, AccountAssumption
     DEF ShowsTeam, Authorized, hasPermission, ROLE_PERMISSIONS, Role, Permission
<1>5. CASE c \in RoleOffers(me, a, team.data[a])
  <2>1. /\ c.do = "role"
        /\ c.to = "SUPER_ADMIN" => isSuperAdmin(me)
        /\ ~(a = Me /\ role[a] = "SUPER_ADMIN")
    BY <1>1, <1>5 DEF RoleOffers
  <2>2. updateRoleAccepts(Me, c.on, c.to)
    BY <1>3, <2>1 DEF updateRoleAccepts, a
  <2> QED
    BY <1>1, <1>4, <2>1, <2>2 DEF Accepts, a
<1>6. CASE c \in ToggleOffers(me, a, team.data[a])
  <2>1. c.do \in {"deactivate", "reactivate"} /\ a # Me
    BY <1>6 DEF ToggleOffers
  <2>2. role[a] = "SUPER_ADMIN" => OtherActiveSuperAdmin(a)
    BY <1>1, <1>3, <2>1, AccountAssumption
       DEF ManagesTarget, isSuperAdmin, OtherActiveSuperAdmin
  <2>3. deactivateAccepts(Me, c.on)
    BY <1>3, <2>1, <2>2 DEF deactivateAccepts, a
  <2> QED
    BY <1>1, <1>3, <1>4, <2>1, <2>3 DEF Accepts, a
<1>7. CASE c \in EditOffers(me, a, team.data[a])
  <2>1. c.do = "edit"
    BY <1>7 DEF EditOffers
  <2> QED
    BY <1>1, <1>3, <1>4, <2>1 DEF Accepts, a
<1> QED
  BY <1>2, <1>5, <1>6, <1>7

\* The four calls that the service accepts and the page keeps from offering.
Withheld(c) ==
    \/ c.do = "role" /\ \/ c.on = Me /\ role[Me] = "SUPER_ADMIN"
                        \/ status[c.on] = "DISABLED"
                        \/ c.to = role[c.on]
    \/ c.do = "deactivate" /\ status[c.on] = "DISABLED"
    \/ c.do = "reactivate" /\ status[c.on] = "ACTIVE"

LEMMA AcceptedOffered ==
    ASSUME RowsOK, ShowsTeam(me), team.data = findAll, me = role[Me], status[Me] = "ACTIVE",
           NEW c \in Call, Accepts(Me, c), ~Withheld(c)
    PROVE  c \in Offers(me)
<1> DEFINE a == c.on
<1>1. /\ a \in Account /\ status[a] # "ABSENT"
      /\ \/ c \in [do : {"role"}, on : {a}, to : Role]
         \/ c \in [do : {"edit", "deactivate", "reactivate"}, on : {a}, to : {None}]
  BY DEF Accepts, Call
<1>2. /\ a \in DOMAIN findAll
      /\ findAll[a] = [role |-> role[a], status |-> status[a]]
  BY <1>1 DEF findAll
<1>3. findAll # None
  <2> DEFINE members == {x \in Account : status[x] # "ABSENT"}
  <2>1. \A x \in members : [role |-> role[x], status |-> status[x]] \in Row
    BY DEF RowsOK, Row
  <2>2. findAll \in [members -> Row]
    BY <2>1 DEF findAll
  <2>3. members \in SUBSET Account
    OBVIOUS
  <2> HIDE DEF members
  <2>4. findAll \in UNION { [S -> Row] : S \in SUBSET Account }
    BY <2>2, <2>3
  <2> QED
    BY <2>4, NoneAssumption
<1>4. a \in Known
  BY <1>2, <1>3 DEF Known
<1>5. canManage(me, team.data[a])
  <2>1. ManagesTarget(Me, a)
    <3>1. CASE c.do = "role"
      BY <3>1 DEF Accepts, updateRoleAccepts
    <3>2. CASE c.do = "deactivate"
      BY <3>2 DEF Accepts, deactivateAccepts
    <3>3. CASE c.do \in {"edit", "reactivate"}
      BY <3>3 DEF Accepts
    <3> QED
      BY <1>1, <3>1, <3>2, <3>3
  <2> QED
    BY <1>2, <2>1 DEF canManage, ManagesTarget
<1>6. CASE c \in [do : {"role"}, on : {a}, to : Role]
  <2>1. updateRoleAccepts(Me, c.on, c.to)
    BY <1>6 DEF Accepts
  <2>2. /\ status[a] = "ACTIVE" /\ c.to # role[a]
        /\ ~(a = Me /\ role[a] = "SUPER_ADMIN")
    BY <1>1, <1>6 DEF Withheld, RowsOK
  <2>3. c \in RoleOffers(me, a, team.data[a])
    BY <1>2, <1>5, <1>6, <2>1, <2>2 DEF RoleOffers, updateRoleAccepts
  <2> QED
    BY <1>4, <2>3, OfferedTo DEF a
<1>7. CASE c \in [do : {"deactivate", "reactivate"}, on : {a}, to : {None}]
  <2>1. a # Me
    <3>1. CASE c.do = "deactivate"
      BY <3>1 DEF Accepts, deactivateAccepts
    <3>2. CASE c.do = "reactivate"
      BY <3>2 DEF Withheld
    <3> QED
      BY <1>7, <3>1, <3>2
  <2>2. c.do = IF status[a] = "ACTIVE" THEN "deactivate" ELSE "reactivate"
    BY <1>1, <1>7 DEF Withheld, RowsOK
  <2>3. c \in ToggleOffers(me, a, team.data[a])
    BY <1>2, <1>5, <1>7, <2>1, <2>2 DEF ToggleOffers
  <2> QED
    BY <1>4, <2>3, OfferedTo DEF a
<1>8. CASE c \in [do : {"edit"}, on : {a}, to : {None}]
  <2>1. c \in EditOffers(me, a, team.data[a])
    BY <1>5, <1>8 DEF EditOffers
  <2> QED
    BY <1>4, <2>1, OfferedTo DEF a
<1> QED
  BY <1>1, <1>6, <1>7, <1>8

\* The page offers what the service accepts, and but for four calls all of it:
\* the two sets of guards, written apart, agree on every team.
THEOREM TeamPageAgrees == Spec => []TeamPageMatchesBackend
<1>1. TypeOK => TeamPageMatchesBackend
  <2> SUFFICES ASSUME TypeOK, ShowsTeam(me), team.data = findAll, me = role[Me],
                      status[Me] = "ACTIVE", NEW c \in Call
               PROVE  /\ c \in Offers(me) => Accepts(Me, c)
                      /\ Accepts(Me, c) /\ ~Withheld(c) => c \in Offers(me)
    BY DEF TeamPageMatchesBackend, Withheld
  <2> QED
    BY OffersAccepted, AcceptedOffered DEF TypeOK, RowsOK
<1> QED
  BY <1>1, TypeCorrectness, PTL

-----------------------------------------------------------------------------
(* What the summary reports *)

\* What a handler of the wizard has been told is in the rows.
Obtained(h) ==
    LET a == h.form.email
    IN  /\ \/ h.pc \in {"profile", "device", "refresh"}
           \/ h.pc = "account" /\ h.answer = "ok"
           => status[a] # "ABSENT"
        /\ (h.pc = "profile" /\ h.made) \/ h.profileOk => people[a] > 0
        /\ h.pc = "device" /\ h.made => devices[a] > 0
        /\ h.pc = "profile" /\ h.answer = "ok" => h.made
        /\ h.pc \in {"device", "refresh"} /\ h.answer = "ok" => devices[a] > 0

Saved == \A r \in Run : run[r].pc # "idle" => Obtained(run[r])

\* A handler that does not move keeps what it obtained: no row is taken away.
LEMMA ObtainedKept ==
    ASSUME RowsOK, control \in Control, run \in [Run -> Handler], Next,
           NEW r \in Run, run[r].pc # "idle", Obtained(run[r]),
           run'[r].pc # "idle" => UNCHANGED run[r]
    PROVE  run'[r].pc # "idle" => Obtained(run[r])'
<1>1. run[r].form.email \in Account
  BY HandlerForm
<1> QED
  BY <1>1, RowsStep DEF Obtained

LEMMA SavedStep ==
    ASSUME TypeOK, Prepared, Saved, Next
    PROVE  Saved'
<1>1. RowsOK /\ control \in Control /\ run \in [Run -> Handler]
  BY DEF TypeOK, RowsOK
<1>2. ASSUME NEW r \in Run, run'[r].pc # "idle" => run[r].pc # "idle" /\ run'[r] = run[r]
      PROVE  run'[r].pc # "idle" => Obtained(run[r])'
  BY <1>1, <1>2, ObtainedKept DEF Saved
<1>3. CASE Refreshes
  <2>1. ASSUME NEW r \in Run
        PROVE  /\ run'[r].pc = run[r].pc /\ run'[r].form = run[r].form
               /\ run'[r].made = run[r].made /\ run'[r].answer = run[r].answer
               /\ run'[r].profileOk = run[r].profileOk
    <3>1. run[r] \in Handler
      BY <1>1
    <3>2. run'[r] \in {run[r], [run[r] EXCEPT !.shown = FALSE]}
      BY <1>3 DEF Refreshes, Focus, ServeTeam, ReceiveTeam
    <3> QED
      BY <3>1, <3>2 DEF Handler
  <2>2. UNCHANGED rows
    BY <1>3 DEF Refreshes, Focus, ServeTeam, ReceiveTeam
  <2> QED
    BY <2>1, <2>2 DEF Saved, Obtained, rows
<1>4. CASE Clicks \/ Dialog \/ Outside
  <2>1. run' = run
    BY <1>4 DEF Clicks, Click, ServeCall, ReceiveAnswer, LoseAnswer, Dialog, OpenWizard,
                Back, DismissWizard, Done, FillIn, Outside, ColleagueActs, MemberRegistersDevice
  <2> QED
    BY <1>2, <2>1 DEF Saved
<1>5. ASSUME NEW r \in Run, Handles(r) PROVE Saved'
  <2>1. ASSUME NEW s \in Run, s # r PROVE run'[s].pc # "idle" => Obtained(run[s])'
    <3>1. run'[s] = run[s]
      BY <1>1, <1>5, <2>1
         DEF Handles, handleCreate, Serves, ServeAccount, InsertPerson, LogPerson, RegisterDevice,
             ReadDevice, ServeError, Receives, ReceiveAccount, ReceiveProfile, ReceiveDevice,
             Finish, Crash, Answer, GoOn
    <3> QED
      BY <1>2, <3>1
  <2>2. SUFFICES ASSUME run'[r].pc # "idle" PROVE Obtained(run[r])'
    BY <2>1 DEF Saved
  <2>3. CASE handleCreate(r)
    <3>1. /\ run'[r].pc = "account" /\ run'[r].answer = "none"
          /\ run'[r].made = FALSE /\ run'[r].profileOk = FALSE
      BY <1>1, <2>3 DEF handleCreate, Idle
    <3> QED
      BY <3>1 DEF Obtained
  <2>4. ASSUME run[r].pc # "idle" PROVE Obtained(run[r])'
    <3> DEFINE a == run[r].form.email
    <3>1. a \in Account /\ run[r] \in Handler /\ Obtained(run[r])
      BY <1>1, <2>4, HandlerForm DEF Saved
    <3>2. /\ status[a] # "ABSENT" => status'[a] # "ABSENT"
          /\ people[a] > 0 => people'[a] > 0
          /\ devices[a] > 0 => devices'[a] > 0
          /\ people[a] \in Nat
      BY <1>1, <1>5, <3>1, RowsStep, NextCases DEF RowsOK
    <3> HIDE DEF a
    <3>3. CASE ServeAccount(r)
      <4>1. \/ run'[r] = [run[r] EXCEPT !.answer = "ok"] /\ status'[a] # "ABSENT"
            \/ run'[r] = [run[r] EXCEPT !.answer = "refused"]
        BY <1>1, <3>1, <3>3 DEF ServeAccount, Answer, RowsOK, a
      <4>2. run[r].pc = "account"
        BY <3>3 DEF ServeAccount, Waits
      <4> QED
        BY <3>1, <3>2, <4>1, <4>2 DEF Obtained, a, Handler
    <3>4. CASE InsertPerson(r)
      <4>1. /\ run'[r] = [run[r] EXCEPT !.made = TRUE] /\ run[r].pc = "profile"
            /\ people'[a] > 0
        BY <1>1, <3>1, <3>2, <3>4 DEF InsertPerson, Waits, RowsOK, a
      <4> QED
        BY <3>1, <3>2, <4>1 DEF Obtained, a, Handler
    <3>5. CASE LogPerson(r)
      <4>1. run'[r] = [run[r] EXCEPT !.answer = "ok"] /\ run[r].pc = "profile" /\ run[r].made
        BY <1>1, <3>5 DEF LogPerson, Waits, Answer
      <4> QED
        BY <3>1, <3>2, <4>1 DEF Obtained, a, Handler
    <3>6. CASE RegisterDevice(r) \/ ReadDevice(r)
      <4>1. run[r].pc = "device"
        BY <3>6 DEF RegisterDevice, ReadDevice, Waits
      <4>2. CASE RegisterDevice(r)
        <5>1. run'[r] = [run[r] EXCEPT !.made = TRUE] /\ devices'[a] > 0
          BY <1>1, <3>1, <4>2 DEF RegisterDevice, RowsOK, a
        <5> QED
          BY <3>1, <3>2, <4>1, <5>1 DEF Obtained, a, Handler
      <4>3. CASE ReadDevice(r)
        <5>1. run'[r] = [run[r] EXCEPT !.answer = "ok"] /\ run[r].made
          BY <1>1, <4>3 DEF ReadDevice, Waits, Answer
        <5> QED
          BY <3>1, <3>2, <4>1, <5>1 DEF Obtained, a, Handler
      <4> QED
        BY <3>6, <4>2, <4>3
    <3>7. CASE ServeError(r)
      <4>1. run'[r] = [run[r] EXCEPT !.answer = "refused"]
        BY <1>1, <3>7 DEF ServeError, Answer
      <4> QED
        BY <3>1, <3>2, <4>1 DEF Obtained, a, Handler
    <3>8. CASE ReceiveAccount(r) \/ ReceiveProfile(r) \/ ReceiveDevice(r)
      <4>1. CASE ReceiveDevice(r)
        <5>1. run'[r] = [run[r] EXCEPT !.pc = "refresh"] /\ run[r].pc = "device"
          BY <1>1, <4>1 DEF ReceiveDevice
        <5> QED
          BY <3>1, <3>2, <5>1 DEF Obtained, a, Handler
      <4>2. ASSUME NEW pc \in {"profile", "device", "refresh"}, NEW b \in BOOLEAN,
                   run'[r] = [run[r] EXCEPT !.pc = pc, !.answer = "none", !.made = FALSE,
                                            !.profileOk = b],
                   b => people[a] > 0, status[a] # "ABSENT"
            PROVE  Obtained(run[r])'
        BY <3>1, <3>2, <4>2 DEF Obtained, a, Handler
      <4>3. CASE ReceiveAccount(r)
        <5>1. run[r].answer = "ok" /\ status[a] # "ABSENT"
          <6>1. run[r].answer # "refused"
            <7>1. run[r].answer = "refused" => run'[r] = Idle
              BY <1>1, <4>3 DEF ReceiveAccount
            <7> QED
              BY <2>2, <7>1 DEF Idle
          <6> QED
            BY <3>1, <4>3, <6>1 DEF ReceiveAccount, Handler, Obtained, a
        <5>2. \E pc \in {"profile", "device", "refresh"} :
                 run'[r] = [run[r] EXCEPT !.pc = pc, !.answer = "none", !.made = FALSE,
                                          !.profileOk = FALSE]
          BY <1>1, <4>3, <5>1 DEF ReceiveAccount, GoOn, AfterProfile
        <5> QED
          BY <4>2, <5>1, <5>2
      <4>4. CASE ReceiveProfile(r)
        <5>1. status[a] # "ABSENT" /\ (run[r].answer = "ok" => people[a] > 0)
          BY <3>1, <4>4 DEF ReceiveProfile, Obtained, a
        <5>2. \E pc \in {"profile", "device", "refresh"} :
                 run'[r] = [run[r] EXCEPT !.pc = pc, !.answer = "none", !.made = FALSE,
                                          !.profileOk = (run[r].answer = "ok")]
          BY <1>1, <4>4 DEF ReceiveProfile, GoOn, AfterProfile
        <5> QED
          BY <4>2, <5>1, <5>2
      <4> QED
        BY <3>8, <4>1, <4>3, <4>4
    <3>9. CASE Finish(r) \/ Crash(r)
      BY <1>1, <2>2, <3>9 DEF Finish, Crash, Idle
    <3> QED
      BY <1>5, <2>3, <3>3, <3>4, <3>5, <3>6, <3>7, <3>8, <3>9 DEF Handles, Serves, Receives
  <2>5. run[r].pc = "idle" => handleCreate(r)
    BY <1>5 DEF Handles, Serves, ServeAccount, InsertPerson, LogPerson, RegisterDevice,
                ReadDevice, ServeError, Waits, Receives, ReceiveAccount, ReceiveProfile,
                ReceiveDevice, Finish, Crash
  <2> QED
    BY <2>3, <2>4, <2>5
<1> QED
  BY <1>3, <1>4, <1>5, NextCases

\* Only a handler brings a result, or disables the button.
LEMMA DialogKeeps ==
    ASSUME wizard \in Wizard, Refreshes \/ Clicks \/ Dialog \/ Outside
    PROVE  /\ wizard'.result \in {None, wizard.result}
           /\ wizard'.submitting => wizard.submitting
<1>1. CASE UNCHANGED wizard
  BY <1>1
<1>2. CASE wizard' = Closed
  BY <1>2 DEF Closed
<1>3. ASSUME NEW x, wizard' = [wizard EXCEPT !.step = x]
      PROVE  wizard'.result = wizard.result /\ wizard'.submitting = wizard.submitting
  BY <1>3 DEF Wizard
<1>4. ASSUME NEW x, NEW y, wizard' = [wizard EXCEPT !.step = x, !.form = y]
      PROVE  wizard'.result = wizard.result /\ wizard'.submitting = wizard.submitting
  BY <1>4 DEF Wizard
<1>5. CASE Refreshes \/ Clicks \/ Outside
  BY <1>1, <1>2, <1>5
     DEF Refreshes, Focus, ServeTeam, ReceiveTeam, Clicks, Click, ServeCall, ReceiveAnswer,
         LoseAnswer, Outside, ColleagueActs, MemberRegistersDevice
<1>6. CASE OpenWizard \/ Back \/ Done \/ DismissWizard
  BY <1>2, <1>3, <1>4, <1>6 DEF OpenWizard, Back, Done, DismissWizard
<1>7. ASSUME NEW form \in Forms, FillIn(form)
      PROVE  wizard'.result = wizard.result /\ wizard'.submitting = wizard.submitting
  BY <1>4, <1>7 DEF FillIn
<1> QED
  BY <1>5, <1>6, <1>7 DEF Dialog

\* A step of a handler leaves the others alone, and its own page as it was while
\* it runs.
LEMMA HandlerKeeps ==
    ASSUME run \in [Run -> Handler], NEW r \in Run, Serves(r) \/ Receives(r)
    PROVE  /\ \A s \in Run \ {r} : run'[s] = run[s]
           /\ run'[r] = Idle \/ run'[r].shown = run[r].shown
<1>1. run[r] \in Handler
  OBVIOUS
<1> DEFINE gone(pc, b) ==
      [run[r] EXCEPT !.pc = pc, !.answer = "none", !.made = FALSE, !.profileOk = b]
<1>2. /\ [run[r] EXCEPT !.made = TRUE].shown = run[r].shown
      /\ [run[r] EXCEPT !.pc = "refresh"].shown = run[r].shown
      /\ \A a \in {"ok", "refused"} : [run[r] EXCEPT !.answer = a].shown = run[r].shown
      /\ \A pc \in {"profile", "device", "refresh"}, b \in BOOLEAN :
            gone(pc, b).shown = run[r].shown
  BY <1>1 DEF Handler
<1>3. CASE Serves(r)
  <2>1. \/ run' = [run EXCEPT ![r] = [run[r] EXCEPT !.made = TRUE]]
        \/ \E a \in {"ok", "refused"} : run' = [run EXCEPT ![r] = [run[r] EXCEPT !.answer = a]]
    BY <1>3 DEF Serves, ServeAccount, InsertPerson, LogPerson, RegisterDevice, ReadDevice,
                ServeError, Answer
  <2> QED
    BY <1>2, <2>1
<1>4. CASE Receives(r)
  <2>1. \/ run' = [run EXCEPT ![r] = Idle]
        \/ run' = [run EXCEPT ![r] = [run[r] EXCEPT !.pc = "refresh"]]
        \/ \E pc \in {"profile", "device", "refresh"}, b \in BOOLEAN :
              run' = [run EXCEPT ![r] = gone(pc, b)]
    BY <1>4 DEF Receives, ReceiveAccount, ReceiveProfile, ReceiveDevice, Finish, Crash, GoOn,
                AfterProfile
  <2> HIDE DEF gone
  <2> QED
    BY <1>2, <2>1
<1> QED
  BY <1>3, <1>4

LEMMA ReportedStep ==
    ASSUME TypeOK, Prepared, Saved, ReportedIsSaved, Next
    PROVE  ReportedIsSaved'
<1>1. RowsOK /\ control \in Control /\ run \in [Run -> Handler] /\ wizard \in Wizard
  BY DEF TypeOK, RowsOK
<1>2. ASSUME wizard'.result \in {None, wizard.result} PROVE ReportedIsSaved'
  <2>1. wizard.result # None => wizard.result.email \in Account
    BY <1>1 DEF Wizard, Result
  <2> QED
    BY <1>1, <1>2, <2>1, RowsStep DEF ReportedIsSaved
<1>3. CASE Refreshes \/ Clicks \/ Dialog \/ Outside
  BY <1>1, <1>2, <1>3, DialogKeeps
<1>4. ASSUME NEW r \in Run, Handles(r), ~Finish(r) PROVE ReportedIsSaved'
  <2>1. wizard'.result = wizard.result
    BY <1>1, <1>4
       DEF Handles, handleCreate, Serves, ServeAccount, InsertPerson, LogPerson, RegisterDevice,
           ReadDevice, ServeError, Receives, ReceiveAccount, ReceiveProfile, ReceiveDevice, Crash,
           SetState, Wizard
  <2> QED
    BY <1>2, <2>1
<1>5. ASSUME NEW r \in Run, Finish(r) PROVE ReportedIsSaved'
  <2> DEFINE a == run[r].form.email
             result == [email |-> a, profileOk |-> run[r].profileOk,
                        deviceOk |-> run[r].answer = "ok"]
  <2>1. run[r].pc = "refresh" /\ Obtained(run[r]) /\ UNCHANGED rows
    BY <1>5 DEF Finish, Saved
  <2>2. /\ status'[a] # "ABSENT"
        /\ run[r].profileOk => people'[a] > 0
        /\ run[r].answer = "ok" => devices'[a] > 0
    BY <2>1 DEF Obtained, rows
  <2>3. wizard'.result \in {wizard.result, result}
    BY <1>1, <1>5 DEF Finish, SetState, Wizard
  <2>4. /\ result.email = a /\ result.profileOk = run[r].profileOk
        /\ result.deviceOk = (run[r].answer = "ok")
    OBVIOUS
  <2> HIDE DEF a, result
  <2>5. CASE wizard'.result = result
    BY <2>2, <2>4, <2>5 DEF ReportedIsSaved
  <2> QED
    BY <1>2, <2>3, <2>5
<1> QED
  BY <1>3, <1>4, <1>5, NextCases

\* The summary tells what was saved, whatever failed or was closed in between.
THEOREM SummaryIsTrue == Spec => []ReportedIsSaved
<1> DEFINE IInv == TypeOK /\ Prepared /\ Saved /\ ReportedIsSaved
<1>1. Init => IInv
  <2>1. Init => Saved /\ ReportedIsSaved
    BY DEF Init, Saved, ReportedIsSaved, Idle, Closed
  <2> QED
    BY <2>1, InitTypes
<1>2. IInv /\ [Next]_vars => IInv'
  <2>1. ASSUME IInv, UNCHANGED vars PROVE Saved' /\ ReportedIsSaved'
    BY <2>1 DEF Saved, Obtained, ReportedIsSaved, vars, rows
  <2> QED
    BY <2>1, NextTypes, SavedStep, ReportedStep
<1> QED
  BY <1>1, <1>2, PTL DEF Spec

-----------------------------------------------------------------------------
(* The disabled button *)

LEMMA SubmittingStep ==
    ASSUME TypeOK, SubmittingHasHandler, Next
    PROVE  SubmittingHasHandler'
<1>1. wizard \in Wizard /\ run \in [Run -> Handler]
  BY DEF TypeOK
<1>2. CASE Refreshes
  <2>1. CASE UNCHANGED <<wizard, run, crashed>>
    BY <2>1 DEF SubmittingHasHandler
  <2>2. CASE wizard' = Closed
    BY <2>2 DEF SubmittingHasHandler, Closed
  <2> QED
    BY <1>2, <2>1, <2>2 DEF Refreshes, Focus, ServeTeam, ReceiveTeam, history
<1>3. CASE Clicks \/ Dialog \/ Outside
  <2>1. UNCHANGED <<run, crashed>>
    BY <1>3 DEF Clicks, Click, ServeCall, ReceiveAnswer, LoseAnswer, Dialog, OpenWizard,
                Back, DismissWizard, Done, FillIn, Outside, ColleagueActs, MemberRegistersDevice,
                history
  <2>2. wizard'.submitting => wizard.submitting
    BY <1>1, <1>3, DialogKeeps
  <2> QED
    BY <2>1, <2>2 DEF SubmittingHasHandler
<1>4. ASSUME NEW r \in Run, handleCreate(r) PROVE SubmittingHasHandler'
  <2>1. run'[r].shown
    BY <1>1, <1>4 DEF handleCreate, Idle
  <2> QED
    BY <2>1 DEF SubmittingHasHandler
<1>5. ASSUME NEW r \in Run, Serves(r) PROVE SubmittingHasHandler'
  <2>1. \A s \in Run : run'[s].shown \/ ~run[s].shown
    <3>1. run'[r] # Idle
      BY <1>1, <1>5 DEF Serves, ServeAccount, InsertPerson, LogPerson, RegisterDevice, ReadDevice,
                        ServeError, Waits, Answer, Idle, Handler
    <3> QED
      BY <1>1, <1>5, <3>1, HandlerKeeps
  <2>2. UNCHANGED <<wizard, crashed>>
    BY <1>5 DEF Serves, ServeAccount, InsertPerson, LogPerson, RegisterDevice, ReadDevice,
                ServeError, history
  <2> QED
    BY <2>1, <2>2 DEF SubmittingHasHandler
<1>6. ASSUME NEW r \in Run, Crash(r) PROVE SubmittingHasHandler'
  BY <1>6 DEF Crash, SubmittingHasHandler
<1>7. ASSUME NEW r \in Run, ReceiveAccount(r) \/ ReceiveProfile(r) \/ ReceiveDevice(r) \/ Finish(r)
      PROVE  SubmittingHasHandler'
  <2>1. UNCHANGED crashed
    BY <1>7 DEF ReceiveAccount, ReceiveProfile, ReceiveDevice, Finish, history
  <2>2. /\ \A s \in Run \ {r} : run'[s] = run[s]
        /\ run'[r] = Idle \/ run'[r].shown = run[r].shown
    BY <1>1, <1>7, HandlerKeeps DEF Receives
  <2>3. \/ run'[r].shown = run[r].shown /\ wizard' = wizard
        \/ run[r].shown /\ ~wizard'.submitting
        \/ ~run[r].shown /\ wizard' = wizard
    <3>1. CASE \/ ReceiveProfile(r) \/ ReceiveDevice(r)
               \/ ReceiveAccount(r) /\ run[r].answer # "refused"
      <4>1. run'[r] # Idle
        BY <1>1, <3>1 DEF ReceiveProfile, ReceiveDevice, ReceiveAccount, GoOn, Idle, Handler,
                          AfterProfile
      <4> QED
        BY <2>2, <3>1, <4>1 DEF ReceiveProfile, ReceiveDevice, ReceiveAccount
    <3>3. CASE ReceiveAccount(r) /\ run[r].answer = "refused"
      BY <1>1, <3>3 DEF ReceiveAccount, SetState, Wizard
    <3>4. CASE Finish(r)
      BY <1>1, <3>4 DEF Finish, SetState, Wizard
    <3> QED
      BY <1>7, <3>1, <3>3, <3>4
  <2> QED
    BY <2>1, <2>2, <2>3 DEF SubmittingHasHandler
<1> QED
  BY <1>2, <1>3, <1>4, <1>5, <1>6, <1>7, NextCases DEF Handles, Receives

\* As long as the button says "Creating..." a handler runs that will enable it,
\* unless one was ended by an exception.
THEOREM ButtonHasHandler == Spec => []SubmittingHasHandler
<1>1. Init => SubmittingHasHandler
  BY DEF Init, SubmittingHasHandler, Closed
<1>2. TypeOK /\ SubmittingHasHandler /\ [Next]_vars => SubmittingHasHandler'
  BY SubmittingStep DEF SubmittingHasHandler, vars, history
<1> QED
  BY <1>1, <1>2, TypeCorrectness, PTL DEF Spec

-----------------------------------------------------------------------------
(* The browser's own writes *)

\* A handler whose call changed the members and that has not refreshed them yet.
Owes(h) == ~(h.pc = "idle" \/ (h.pc = "account" /\ h.answer # "ok"))

Pending == control.pc = "ok" \/ \E r \in Run : Owes(run[r])

\* A list without the browser's own write is marked, on its way out, or has
\* somebody left who will refresh it, unless the browser could not know.
Told ==
    /\ team.lacks /\ ~team.stale => untold \/ Pending
    /\ team.fetch = "old" => untold \/ Pending

LEMMA TeamEffects ==
    ASSUME TeamOK(team)
    PROVE  LET q == team
               i(b) == Cache!Invalidated(q, b)
           IN  /\ Cache!Overtaken(q).fetch # "new"
               /\ \A b \in BOOLEAN :
                     /\ i(b).stale /\ i(b).lacks = q.lacks
                     /\ i(b).fetch = "old" => q.fetch = "old" /\ (q.data = None \/ ~b)
               /\ Cache!Fetched(q).lacks = q.lacks /\ Cache!Fetched(q).stale = q.stale
               /\ Cache!Fetched(q).fetch = "old" => q.fetch = "old"
               /\ Cache!Failed(q).fetch = "none" /\ Cache!Failed(q).stale
               /\ Cache!Loaded(q).fetch = "none" /\ Cache!Loaded(q).lacks = (q.fetch = "old")
               /\ \A d : /\ Cache!Answered(q, d).lacks = q.lacks
                         /\ Cache!Answered(q, d).stale = q.stale
                         /\ Cache!Answered(q, d).fetch = "new"
BY DEF TeamOK, Cache!Query, Cache!Overtaken, Cache!Invalidated, Cache!Fetched, Cache!Failed,
       Cache!Loaded, Cache!Answered

\* A step that leaves the list of members, and whoever owes it a refresh, alone.
LEMMA ToldKept ==
    ASSUME Told, UNCHANGED <<team, untold>>, Pending => Pending'
    PROVE  Told'
BY DEF Told

\* A refresh marks the list; an older answer is loaded only if that was noted.
LEMMA ToldInvalidated ==
    ASSUME TeamOK(team), team' = Cache!Invalidated(team, ShowsTeam(me)),
           untold' = (untold \/ KeepsOldFetch)
    PROVE  Told'
<1> DEFINE b == ShowsTeam(me)
<1>1. b \in BOOLEAN
  BY DEF ShowsTeam
<1>2. KeepsOldFetch <=> team.fetch = "old" /\ (team.data = None \/ ~b)
  BY DEF KeepsOldFetch
<1> HIDE DEF b
<1>3. /\ team'.stale
      /\ team'.fetch = "old" => team.fetch = "old" /\ (team.data = None \/ ~b)
  BY <1>1, TeamEffects DEF b
<1> QED
  BY <1>2, <1>3 DEF Told

LEMMA ToldRefreshes ==
    ASSUME TypeOK, Told, Refreshes
    PROVE  Told'
<1>1. TeamOK(team) /\ run \in [Run -> Handler] /\ control \in Control /\ untold \in BOOLEAN
  BY DEF TypeOK, TeamOK
<1>2. Pending => Pending'
  <2>1. control.pc = "ok" => control'.pc = "ok"
    BY DEF Refreshes, Focus, ServeTeam, ReceiveTeam
  <2>2. \A r \in Run : Owes(run[r]) => Owes(run'[r])
    <3>1. ASSUME NEW r \in Run PROVE run'[r].pc = run[r].pc /\ run'[r].answer = run[r].answer
      <4>1. run[r] \in Handler /\ run'[r] \in {run[r], [run[r] EXCEPT !.shown = FALSE]}
        BY <1>1 DEF Refreshes, Focus, ServeTeam, ReceiveTeam
      <4> QED
        BY <4>1 DEF Handler
    <3> QED
      BY <3>1 DEF Owes
  <2> QED
    BY <2>1, <2>2 DEF Pending
<1>3. CASE Focus
  <2>1. /\ UNCHANGED untold
        /\ team' = team \/ team' = Cache!Fetched(team)
    BY <1>3 DEF Focus, history
  <2> QED
    BY <1>1, <1>2, <2>1, TeamEffects DEF Told
<1>4. CASE ServeTeam
  <2>1. UNCHANGED untold /\ team' \in {Cache!Answered(team, findAll), Cache!Failed(team)}
    BY <1>4 DEF ServeTeam, history
  <2> QED
    BY <1>1, <1>2, <2>1, TeamEffects DEF Told
<1>5. CASE ReceiveTeam
  <2>1. team' = Cache!Loaded(team) /\ untold' = (untold /\ team.fetch = "old")
    BY <1>5 DEF ReceiveTeam
  <2> QED
    BY <1>1, <1>2, <2>1, TeamEffects DEF Told
<1> QED
  BY <1>3, <1>4, <1>5 DEF Refreshes

LEMMA ToldClicks ==
    ASSUME TypeOK, Told, Clicks
    PROVE  Told'
<1>1. TeamOK(team) /\ control \in Control /\ untold \in BOOLEAN
  BY DEF TypeOK, TeamOK
<1>2. UNCHANGED run
  BY DEF Clicks, Click, ServeCall, ReceiveAnswer, LoseAnswer
<1>3. ASSUME control'.pc # "ok", control.pc # "ok", UNCHANGED <<team, untold>> PROVE Told'
  BY <1>2, <1>3, ToldKept DEF Pending
<1>4. ASSUME NEW c \in Call, Click(c) PROVE Told'
  BY <1>3, <1>4 DEF Click
<1>5. CASE ServeCall
  <2>1. CASE Accepts(Me, control.call)
    <3>1. control'.pc = "ok"
      BY <1>1, <1>5, <2>1 DEF ServeCall, Control
    <3> QED
      BY <3>1 DEF Told, Pending
  <2>2. CASE ~Accepts(Me, control.call)
    <3>1. control'.pc = "refused" /\ control.pc = "sent" /\ UNCHANGED <<team, untold>>
      BY <1>1, <1>5, <2>2 DEF ServeCall, Control, history
    <3> QED
      BY <1>3, <3>1
  <2> QED
    BY <2>1, <2>2
<1>6. CASE ReceiveAnswer
  <2>1. CASE control.pc = "ok"
    <3>1. /\ team' = Cache!Invalidated(team, ShowsTeam(me))
          /\ untold' = (untold \/ KeepsOldFetch)
      BY <1>6, <2>1 DEF ReceiveAnswer
    <3> QED
      BY <1>1, <3>1, ToldInvalidated
  <2>2. CASE control.pc = "refused"
    <3>1. control'.pc = "idle" /\ UNCHANGED <<team, untold>>
      BY <1>1, <1>6, <2>2 DEF ReceiveAnswer, NoControl
    <3> QED
      BY <1>3, <2>2, <3>1
  <2> QED
    BY <1>6, <2>1, <2>2 DEF ReceiveAnswer
<1>7. CASE LoseAnswer
  <2>1. control'.pc = "stuck" /\ UNCHANGED team /\ untold' = (untold \/ control.pc = "ok")
    BY <1>1, <1>7 DEF LoseAnswer, Control
  <2> QED
    BY <1>2, <2>1 DEF Told, Pending
<1> QED
  BY <1>4, <1>5, <1>6, <1>7 DEF Clicks

LEMMA ToldHandles ==
    ASSUME TypeOK, Told, NEW r \in Run, Handles(r)
    PROVE  Told'
<1>1. TeamOK(team) /\ run \in [Run -> Handler] /\ untold \in BOOLEAN
  BY DEF TypeOK, TeamOK
<1>2. UNCHANGED control /\ \A s \in Run \ {r} : run'[s] = run[s]
  BY <1>1 DEF Handles, handleCreate, Serves, ServeAccount, InsertPerson, LogPerson,
              RegisterDevice, ReadDevice, ServeError, Receives, ReceiveAccount, ReceiveProfile,
              ReceiveDevice, Finish, Crash, Answer, GoOn
<1>3. ASSUME Owes(run[r]) => Owes(run'[r]), UNCHANGED <<team, untold>> PROVE Told'
  BY <1>2, <1>3, ToldKept DEF Pending
<1>4. CASE handleCreate(r)
  <2>1. ~Owes(run[r]) /\ UNCHANGED <<team, untold>>
    BY <1>4 DEF handleCreate, Owes, Idle
  <2> QED
    BY <1>3, <2>1
<1>5. CASE ServeAccount(r)
  <2>1. run[r] \in Handler /\ run[r].pc = "account" /\ run[r].answer = "none"
    BY <1>1, <1>5 DEF ServeAccount, Waits
  <2>2. CASE run'[r] = [run[r] EXCEPT !.answer = "ok"]
    <3>1. Owes(run'[r])
      BY <2>1, <2>2 DEF Owes, Handler
    <3> QED
      BY <3>1 DEF Told, Pending
  <2>3. CASE UNCHANGED team
    BY <1>3, <1>5, <2>1, <2>3 DEF ServeAccount, Owes, history
  <2> QED
    BY <1>1, <1>5, <2>2, <2>3 DEF ServeAccount, Answer
<1>6. CASE InsertPerson(r) \/ LogPerson(r) \/ RegisterDevice(r) \/ ReadDevice(r)
  <2>1. UNCHANGED <<team, untold>> /\ run[r] \in Handler /\ run[r].pc \in {"profile", "device"}
    BY <1>1, <1>6 DEF InsertPerson, LogPerson, RegisterDevice, ReadDevice, Waits, history
  <2>2. \/ run'[r] = [run[r] EXCEPT !.made = TRUE]
        \/ \E a \in {"ok", "refused"} : run'[r] = [run[r] EXCEPT !.answer = a]
    BY <1>1, <1>6 DEF InsertPerson, LogPerson, RegisterDevice, ReadDevice, Answer
  <2>3. run'[r].pc = run[r].pc
    BY <2>1, <2>2 DEF Handler
  <2> QED
    BY <1>3, <2>1, <2>3 DEF Owes
<1>7. CASE ServeError(r)
  <2>1. UNCHANGED <<team, untold>> /\ run[r] \in Handler /\ run[r].answer = "none"
    BY <1>1, <1>7 DEF ServeError, history
  <2>2. run'[r].pc = run[r].pc
    BY <1>1, <1>7, <2>1 DEF ServeError, Answer, Handler
  <2>3. Owes(run[r]) => Owes(run'[r])
    BY <2>1, <2>2 DEF Owes
  <2> QED
    BY <1>3, <2>1, <2>3
<1>8. CASE ReceiveAccount(r) \/ ReceiveProfile(r) \/ ReceiveDevice(r)
  <2>1. UNCHANGED <<team, untold>> /\ run[r] \in Handler
    BY <1>1, <1>8 DEF ReceiveAccount, ReceiveProfile, ReceiveDevice, history
  <2>2. Owes(run[r]) => run'[r].pc \in {"profile", "device", "refresh"}
    <3>1. CASE ReceiveDevice(r)
      BY <1>1, <2>1, <3>1 DEF ReceiveDevice, Handler
    <3>2. CASE ReceiveProfile(r)
      BY <1>1, <2>1, <3>2 DEF ReceiveProfile, GoOn, AfterProfile, Handler
    <3>3. CASE ReceiveAccount(r)
      <4>1. SUFFICES ASSUME run[r].answer = "ok"
                     PROVE  run'[r].pc \in {"profile", "device", "refresh"}
        BY <3>3 DEF ReceiveAccount, Owes
      <4>2. \E pc \in {"profile", "device", "refresh"} :
               run'[r] = [run[r] EXCEPT !.pc = pc, !.answer = "none", !.made = FALSE,
                                        !.profileOk = FALSE]
        BY <1>1, <3>3, <4>1 DEF ReceiveAccount, GoOn, AfterProfile
      <4> QED
        BY <2>1, <4>2 DEF Handler
    <3> QED
      BY <1>8, <3>1, <3>2, <3>3
  <2>3. Owes(run[r]) => Owes(run'[r])
    BY <2>2 DEF Owes
  <2> QED
    BY <1>3, <2>1, <2>3
<1>9. CASE Finish(r)
  <2>1. /\ team' = Cache!Invalidated(team, ShowsTeam(me))
        /\ untold' = (untold \/ KeepsOldFetch)
    BY <1>9 DEF Finish
  <2> QED
    BY <1>1, <2>1, ToldInvalidated
<1>10. CASE Crash(r)
  <2>1. UNCHANGED team /\ untold' = (untold \/ Owes(run[r]))
    BY <1>10 DEF Crash, Owes
  <2> QED
    BY <1>2, <2>1 DEF Told, Pending
<1> QED
  BY <1>4, <1>5, <1>6, <1>7, <1>8, <1>9, <1>10 DEF Handles, Serves, Receives

LEMMA ToldStep ==
    ASSUME TypeOK, Told, [Next]_vars
    PROVE  Told'
<1>1. CASE UNCHANGED vars
  BY <1>1 DEF vars, history, Told, Pending
<1>2. CASE Dialog \/ Outside
  <2>1. UNCHANGED <<team, untold, control, run>>
    BY <1>2 DEF Dialog, OpenWizard, Back, DismissWizard, Done, FillIn, Outside, ColleagueActs,
                MemberRegistersDevice, history
  <2> QED
    BY <2>1, ToldKept DEF Pending
<1> QED
  BY <1>1, <1>2, ToldRefreshes, ToldClicks, ToldHandles, NextCases

\* Once its calls are finished, the page shows a team with its own writes in it,
\* however its fetches, its calls and other people's writes overlapped.
THEOREM TeamIsOwn == Spec => []TeamShowsOwnWrites
<1>1. Init => Told
  BY DEF Init, Told, Cache!Unfetched
<1>2. TypeOK /\ Told => TeamShowsOwnWrites
  BY DEF Told, Pending, Owes, TeamShowsOwnWrites, Settled, Cache!LooksCurrent
<1>3. Spec => []Told
  BY <1>1, ToldStep, TypeCorrectness, PTL DEF Spec
<1> QED
  BY <1>2, <1>3, TypeCorrectness, PTL
=============================================================================
