--------------------------- MODULE SessionsProofs ---------------------------
(***************************************************************************)
(* Proofs about Sessions: the tab and its cookie implement Users, so what  *)
(* is proved of the members holds with a browser in front of them, and     *)
(* what the tab shows follows its session.                                 *)
(***************************************************************************)
EXTENDS Sessions, UsersProofs

-----------------------------------------------------------------------------
(* The members, seen through a browser, are still those of Users *)

\* Only two steps of the tab's world reach the backend's rows and calls: a
\* registration, and a step of anybody's call.
LEMMA SessionsStepIsUsersStep == [SessionsNext]_sessionVars => [Next]_vars
<1>1. ASSUME NEW r \in Request, BackendStep(r) PROVE Next
  BY <1>1 DEF BackendStep, Next
<1>2. ASSUME NEW p \in Secret, SignUp(p) PROVE [Next]_vars
  <2>1. ASSUME NEW r \in Request, RegisterOrganization(r, p), Overtake PROVE Next
    BY <2>1 DEF RegisterOrganization, Next, Step, Call
  <2> QED
    BY <1>2, <2>1 DEF SignUp
<1>3. ASSUME Tab, ~\E p \in Secret : SignUp(p) PROVE UNCHANGED vars
  BY <1>3 DEF Tab, SignIn, SignOut, login, logout, RouteFails, LoseAnswer, ReceiveRefusal,
              ReceiveSignIn, ReceiveSignOut, Navigate, Reload, Focus, ServeMe, FailMe,
              ReceiveMe, LoseMe, CookieChanges
<1>4. CASE UNCHANGED sessionVars
  BY <1>4 DEF sessionVars
<1> QED
  BY <1>1, <1>2, <1>3, <1>4 DEF SessionsNext

\* Every behaviour of a tab and the calls around it is one of Users.
THEOREM SessionsImplementsUsers == SessionsSpec => Spec
<1>1. SessionsInit => Init
  BY DEF SessionsInit
<1> QED
  BY <1>1, SessionsStepIsUsersStep, PTL DEF SessionsSpec, Spec

\* A lost top tier stays lost whatever a browser does: no sign-in, sign-out or
\* registration brings it back.
THEOREM SessionsLockoutPermanence == SessionsSpec => LockoutIsPermanent
BY SessionsImplementsUsers, LockoutPermanence

\* What holds of overlapping calls holds with a browser in front of them: the last
\* super admin goes only to a demotion that was overtaken, and the row of a super
\* admin is left to super admins and to calls that were.
THEOREM SessionsSuperAdmins == SessionsSpec => LastSuperAdminKept /\ SuperAdminsUntouched
BY SessionsImplementsUsers, LastSuperAdminKeeping, SuperAdminsLeftAlone

-----------------------------------------------------------------------------
(* Types of the browser *)

\* A registration that has not been answered is still running.
Awaited == form.slot # None => req[form.slot].pc # "idle"

LEMMA RegistrationStep ==
    ASSUME TypeOK, [Next]_vars, NEW r \in Request,
           req[r].op = "register", req[r].pc # "idle", req'[r].pc # "idle"
    PROVE  req'[r].op = "register"
<1> USE DEF TypeOK
<1>1. ASSUME NEW s \in Request, req[s].pc = "idle", Call(s) PROVE req'[r] = req[r]
  <2>1. r # s
    BY <1>1
  <2>2. ASSUME NEW p \in Secret, RegisterOrganization(s, p) PROVE req'[r] = req[r]
    BY <2>1, <2>2 DEF RegisterOrganization
  <2>3. ASSUME NEW a, NEW op, NEW t, NEW to, NEW p, Authenticate(s, a, op, t, to, p)
        PROVE  req'[r] = req[r]
    BY <2>1, <2>3 DEF Authenticate
  <2> QED
    BY <1>1, <2>2, <2>3 DEF Call
<1>2. ASSUME NEW s \in Request, Continue(s) PROVE req'[r].op = "register"
  <2>1. CASE s = r
    BY <1>2, <2>1 DEF Continue, RegisterFails, ReadEmail, ReadTarget, CountSuperAdmins, Insert,
                      WriteRole, WritePassword, KeepPassword, WriteStatus, Goto, Finish, Idle
  <2>2. CASE s # r
    <3>1. req'[r] = req[r]
      BY <1>2, <2>2 DEF Continue, RegisterFails, ReadEmail, ReadTarget, CountSuperAdmins,
                        Insert, WriteRole, WritePassword, KeepPassword, WriteStatus, Goto, Finish
    <3> QED
      BY <3>1
  <2> QED
    BY <2>1, <2>2
<1>3. CASE UNCHANGED vars
  BY <1>3 DEF vars
<1> QED
  BY <1>1, <1>2, <1>3 DEF Next, Step

\* What a query of members is: an answer is there while it is on its way.
Fetches == { q \in Cache!Query(Member) : q.fetch \in {"new", "old"} <=> q.answer # None }

LEMMA FetchesKept ==
    ASSUME NEW q \in Fetches
    PROVE  /\ Cache!Fetched(q) \in Fetches
           /\ Cache!Overtaken(q) \in Fetches
           /\ Cache!Invalidated(q, FALSE) \in Fetches
           /\ Cache!Failed(q) \in Fetches
           /\ q.fetch \in {"new", "old"} => Cache!Loaded(q) \in Fetches
           /\ q.fetch = "sent" => \A m \in Member : Cache!Answered(q, m) \in Fetches
<1> USE GuestAssumption, NoneAssumption DEF Fetches, Cache!Query
<1>1. Cache!Fetched(q) \in Fetches
  BY DEF Cache!Fetched
<1>2. Cache!Overtaken(q) \in Fetches
  BY DEF Cache!Overtaken
<1>3. Cache!Invalidated(q, FALSE) \in Fetches
  BY DEF Cache!Invalidated
<1>4. Cache!Failed(q) \in Fetches
  BY DEF Cache!Failed
<1>5. ASSUME q.fetch \in {"new", "old"} PROVE Cache!Loaded(q) \in Fetches
  BY <1>5 DEF Cache!Loaded
<1>6. ASSUME q.fetch = "sent", NEW m \in Member PROVE Cache!Answered(q, m) \in Fetches
  BY <1>6 DEF Cache!Answered, Member
<1> QED
  BY <1>1, <1>2, <1>3, <1>4, <1>5, <1>6

\* What the pages rest on beside the rows.
Tabbed ==
    /\ cookie \in Account \cup {None}
    /\ page \in AuthPage \cup AppPage
    /\ me \in Fetches
    /\ token \in Account \cup {None}
    /\ me.fetch = "none" => token = None
    /\ unaware \in BOOLEAN

LEMMA BrowserTypeParts ==
    BrowserTypeOK <=> /\ TypeOK
                      /\ form \in Form
                      /\ form.slot # None => req[form.slot].op = "register"
                      /\ Tabbed
BY DEF BrowserTypeOK, Tabbed, Fetches

LEMMA LandingTypes ==
    ASSUME NEW p \in AuthPage \cup AppPage, NEW c
    PROVE  Landing(p, c) \in AuthPage \cup AppPage
BY DEF Landing, AuthPage, AppPage

LEMMA SetMeTypes ==
    ASSUME Tabbed, NEW q \in Fetches, NEW c \in Account \cup {None}, SetMe(q, c)
    PROVE  /\ me' \in Fetches
           /\ token' \in Account \cup {None}
           /\ me'.fetch = "none" => token' = None
BY DEF SetMe, Tabbed

LEMMA OpenedTypes ==
    ASSUME NEW q \in Fetches, NEW from, NEW to
    PROVE  Opened(q, from, to) \in Fetches
BY FetchesKept DEF Opened

LEMMA SignOutTypes ==
    ASSUME NEW q \in Fetches, NEW b \in BOOLEAN
    PROVE  [q EXCEPT !.data = "guest", !.stale = FALSE, !.lacks = b] \in Fetches
BY DEF Fetches, Cache!Query, Member

LEMMA UnfetchedTypes == Cache!Unfetched \in Fetches
BY DEF Cache!Unfetched, Fetches, Cache!Query

LEMMA TabTabbed ==
    ASSUME TypeOK, form \in Form, Tabbed, Tab
    PROVE  Tabbed'
<1> USE DEF Tabbed
<1>1. CASE \/ \E p \in Secret : SignUp(p) \/ \E a \in Account : SignIn(a, p)
           \/ SignOut \/ login \/ logout \/ RouteFails \/ LoseAnswer \/ ReceiveRefusal
  BY <1>1 DEF SignUp, SignIn, SignOut, login, logout, RouteFails, LoseAnswer, ReceiveRefusal
<1>2. CASE ReceiveSignIn
  <2> DEFINE q == IF cookie' = cookie THEN me ELSE Cache!Overtaken(me)
             o == Opened(Cache!Invalidated(q, FALSE), page, page')
  <2>1. cookie' \in Account /\ page' \in AuthPage \cup AppPage
    <3>1. "dashboard" \in AuthPage \cup AppPage
      BY DEF AppPage
    <3> QED
      BY <1>2, <3>1, LandingTypes, FounderAssumption DEF ReceiveSignIn, Form
  <2>2. o \in Fetches
    BY FetchesKept, OpenedTypes
  <2>3. SetMe(o, cookie')
    BY <1>2 DEF ReceiveSignIn
  <2>4. unaware' \in BOOLEAN
    BY <1>2 DEF ReceiveSignIn, Crossed
  <2> HIDE DEF o
  <2> QED
    BY <2>1, <2>2, <2>3, <2>4, SetMeTypes
<1>3. CASE ReceiveSignOut
  <2> DEFINE q == IF cookie' = cookie THEN me ELSE Cache!Overtaken(me)
             n == [q EXCEPT !.data = "guest", !.stale = FALSE,
                            !.lacks = validate(cookie') # "guest"]
             o == Opened(n, page, page')
  <2>1. cookie' \in Account \cup {None} /\ page' \in AuthPage \cup AppPage
    <3>1. "login" \in AuthPage \cup AppPage
      BY DEF AuthPage
    <3> QED
      BY <1>3, <3>1, LandingTypes DEF ReceiveSignOut
  <2>2. o \in Fetches
    <3>1. q \in Fetches
      BY FetchesKept
    <3> HIDE DEF q
    <3>2. n \in Fetches
      BY <3>1, SignOutTypes
    <3> HIDE DEF n
    <3> QED
      BY <3>2, OpenedTypes
  <2>3. SetMe(o, cookie')
    BY <1>3 DEF ReceiveSignOut
  <2>4. unaware' \in BOOLEAN
    BY <1>3 DEF ReceiveSignOut, Crossed
  <2> HIDE DEF o
  <2> QED
    BY <2>1, <2>2, <2>3, <2>4, SetMeTypes
<1>4. ASSUME NEW p \in AuthPage \cup AppPage, Navigate(p) PROVE Tabbed'
  <2>1. Opened(me, page, page') \in Fetches /\ page' \in AuthPage \cup AppPage
    BY <1>4, OpenedTypes, LandingTypes DEF Navigate
  <2> QED
    BY <1>4, <2>1, SetMeTypes DEF Navigate
<1>5. ASSUME NEW p \in AuthPage \cup AppPage, Reload(p) PROVE Tabbed'
  <2>1. me' \in Fetches /\ page' \in AuthPage \cup AppPage
    BY <1>5, OpenedTypes, LandingTypes, UnfetchedTypes DEF Reload
  <2>2. me'.fetch = "none" => token' = None
    BY <1>5, <2>1 DEF Reload, Opened, Cache!Fetched, Cache!Unfetched, AuthPage, AppPage
  <2> QED
    BY <1>5, <2>1, <2>2 DEF Reload
<1>6. CASE Focus
  BY <1>6, FetchesKept, SetMeTypes DEF Focus
<1>7. CASE ServeMe \/ FailMe
  <2>1. validate(token) \in Member /\ "guest" \in Member
    BY DEF validate, Member
  <2>2. \A m \in Member :
           /\ Cache!Answered(me, m) \in Fetches
           /\ [Cache!Answered(me, m) EXCEPT !.fetch = "old"] \in Fetches
           /\ Cache!Answered(me, m).fetch = "new"
           /\ [Cache!Answered(me, m) EXCEPT !.fetch = "old"].fetch = "old"
    BY <1>7, GuestAssumption, NoneAssumption
       DEF ServeMe, FailMe, Fetches, Cache!Query, Cache!Answered, Member
  <2>3. me'.fetch # "none" /\ me' \in Fetches
    BY <1>7, <2>1, <2>2 DEF ServeMe, FailMe
  <2> QED
    BY <1>7, <2>3 DEF ServeMe, FailMe
<1>8. CASE ReceiveMe \/ LoseMe
  BY <1>8, FetchesKept, SetMeTypes DEF ReceiveMe, LoseMe
<1>9. ASSUME NEW c \in Account \cup {None}, CookieChanges(c) PROVE Tabbed'
  <2>1. Cache!Overtaken(me) \in Fetches /\ (Cache!Overtaken(me).fetch = "none" <=> me.fetch = "none")
    BY FetchesKept DEF Cache!Overtaken, Fetches, Cache!Query
  <2> QED
    BY <1>9, <2>1 DEF CookieChanges
<1> QED
  BY <1>1, <1>2, <1>3, <1>4, <1>5, <1>6, <1>7, <1>8, <1>9 DEF Tab

\* The form in this tab, and the request its registration runs in.
FormOK ==
    /\ form \in Form
    /\ form.slot # None => req[form.slot].op = "register"
    /\ Awaited

LEMMA TabFormOK ==
    ASSUME TypeOK, FormOK, Tab
    PROVE  FormOK'
<1> USE DEF FormOK, Awaited
<1>1. NoForm \in Form /\ NoForm.slot = None
  BY DEF NoForm, Form
<1>2. ASSUME NEW p \in Secret, SignUp(p) PROVE FormOK'
  <2>1. ASSUME form'.pc = "refused", UNCHANGED vars,
               form' = [pc |-> "refused", do |-> "register", email |-> Founder,
                        secret |-> p, slot |-> None]
        PROVE  FormOK'
    BY <2>1 DEF Form
  <2>2. ASSUME NEW r \in Request, RegisterOrganization(r, p),
               form' = [pc |-> "sent", do |-> "register", email |-> Founder, secret |-> p,
                        slot |-> r]
        PROVE  FormOK'
    <3>1. req'[r].op = "register" /\ req'[r].pc = "write"
      BY <2>2 DEF RegisterOrganization, TypeOK, Idle
    <3>2. form' \in Form
      BY <2>2 DEF Form
    <3> QED
      BY <2>2, <3>1, <3>2
  <2> QED
    BY <1>2, <2>1, <2>2 DEF SignUp
<1>3. ASSUME NEW p \in Secret, NEW a \in Account, SignIn(a, p) PROVE FormOK'
  BY <1>3 DEF SignIn, Form
<1>4. CASE SignOut
  BY <1>4 DEF SignOut, Form, NoForm
<1>5. CASE login \/ logout
  <2>1. form.do \in {"login", "logout"} /\ form.slot = None
    BY <1>5, NoneAssumption DEF login, logout, Form, Operation
  <2>2. \A x \in {"ok", "refused"} : [form EXCEPT !.pc = x] \in Form
    BY <1>5, <2>1 DEF login, logout, Form
  <2>3. form' \in Form /\ form'.slot = None
    BY <1>5, <2>1, <2>2 DEF login, logout, Form
  <2> QED
    BY <2>3
<1>6. CASE RouteFails
  <2>1. [form EXCEPT !.pc = "refused", !.slot = None] \in Form
    BY <1>6 DEF RouteFails, Form
  <2> QED
    BY <1>6, <2>1 DEF RouteFails, Form
<1>7. CASE LoseAnswer \/ ReceiveRefusal \/ ReceiveSignIn \/ ReceiveSignOut
  BY <1>1, <1>7 DEF LoseAnswer, ReceiveRefusal, ReceiveSignIn, ReceiveSignOut
<1>8. ASSUME NEW p \in AuthPage \cup AppPage, Navigate(p) \/ Reload(p) PROVE FormOK'
  BY <1>1, <1>8 DEF Navigate, Reload, vars
<1>9. CASE \/ Focus \/ ServeMe \/ FailMe \/ ReceiveMe \/ LoseMe
           \/ \E c \in Account \cup {None} : CookieChanges(c)
  BY <1>9 DEF Focus, ServeMe, FailMe, ReceiveMe, LoseMe, CookieChanges, vars
<1> QED
  BY <1>2, <1>3, <1>4, <1>5, <1>6, <1>7, <1>8, <1>9 DEF Tab

LEMMA BackendFormOK ==
    ASSUME TypeOK, FormOK, NEW s \in Request, BackendStep(s)
    PROVE  FormOK'
<1> USE DEF FormOK, Awaited
<1>1. CASE form.slot = None
  BY <1>1 DEF BackendStep
<1>2. CASE form.slot # None /\ req'[form.slot].pc # "idle"
  <2>1. form.slot \in Request
    BY <1>2 DEF Form
  <2>2. req'[form.slot].op = "register"
    BY <1>2, <2>1, RegistrationStep DEF BackendStep, Next
  <2> QED
    BY <1>2, <2>2 DEF BackendStep
<1>3. CASE form.slot # None /\ req'[form.slot].pc = "idle"
  <2>1. \A x \in {"ok", "refused"} : [form EXCEPT !.slot = None, !.pc = x] \in Form
    BY <1>3 DEF Form
  <2>2. \A x \in {"ok", "refused"} : [form EXCEPT !.slot = None, !.pc = x].slot = None
    BY DEF Form
  <2>3. \E x \in {"ok", "refused"} : form' = [form EXCEPT !.slot = None, !.pc = x]
    BY <1>3 DEF BackendStep
  <2> QED
    BY <2>1, <2>2, <2>3
<1> QED
  BY <1>1, <1>2, <1>3

LEMMA BackendTabbed ==
    ASSUME Tabbed, NEW s \in Request, BackendStep(s)
    PROVE  Tabbed'
<1>1. /\ Cache!Overtaken(me) \in Fetches
      /\ Cache!Overtaken(me).fetch = "none" <=> me.fetch = "none"
  BY FetchesKept DEF Tabbed, Cache!Overtaken, Fetches, Cache!Query
<1>2. \/ UNCHANGED <<me, unaware>>
      \/ me' = Cache!Overtaken(me) /\ unaware' = TRUE
  BY ZenonT(30) DEF BackendStep
<1> QED
  BY <1>1, <1>2 DEF BackendStep, Tabbed

LEMMA BrowserTypesStep ==
    ASSUME BrowserTypeOK, Awaited, [SessionsNext]_sessionVars
    PROVE  BrowserTypeOK' /\ Awaited'
<1>1. TypeOK'
  BY BrowserTypeParts, SessionsStepIsUsersStep, NextTypes
<1>2. FormOK' /\ Tabbed'
  <2>1. TypeOK /\ FormOK /\ Tabbed
    BY BrowserTypeParts DEF FormOK
  <2>2. CASE UNCHANGED sessionVars
    BY <2>1, <2>2 DEF sessionVars, vars, browser, FormOK, Awaited, Tabbed
  <2>3. ASSUME NEW s \in Request, BackendStep(s) PROVE FormOK' /\ Tabbed'
    BY <2>1, <2>3, BackendFormOK, BackendTabbed
  <2>4. CASE Tab
    BY <2>1, <2>4, TabFormOK, TabTabbed DEF FormOK
  <2> QED
    BY <2>2, <2>3, <2>4 DEF SessionsNext
<1> QED
  BY <1>1, <1>2 DEF BrowserTypeOK, FormOK, Tabbed, Fetches

LEMMA BrowserTypesInit == SessionsInit => BrowserTypeOK /\ Awaited
<1> SUFFICES ASSUME SessionsInit PROVE BrowserTypeOK /\ Awaited
  OBVIOUS
<1>1. TypeOK
  BY InitTypes DEF SessionsInit
<1>2. FormOK
  BY DEF SessionsInit, FormOK, Awaited, NoForm, Form
<1>3. Tabbed
  BY UnfetchedTypes DEF SessionsInit, Tabbed, AuthPage, Cache!Unfetched
<1> QED
  BY <1>1, <1>2, <1>3, BrowserTypeParts DEF FormOK

\* The tab, its cookie and its query keep their types, a registration on the
\* page is answered by its own request, and an answer on its way has a fetch.
THEOREM BrowserTypeCorrectness == SessionsSpec => []BrowserTypeOK
<1>1. SessionsSpec => [](BrowserTypeOK /\ Awaited)
  BY BrowserTypesInit, BrowserTypesStep, PTL DEF SessionsSpec
<1> QED
  BY <1>1, PTL

-----------------------------------------------------------------------------
(* What the tab shows *)

\* Where an answer or cached data that is not this session's can come from,
\* and that the tab was then not told; every other one is what the backend
\* says of the cookie.
Attributed ==
    /\ Crossed => unaware
    /\ me.fetch = "old" => unaware
    /\ me.lacks /\ ~me.stale /\ me.data # None => unaware
    /\ me.fetch = "new" => me.answer = validate(cookie)
    /\ ~me.lacks /\ me.data # None => me.data = validate(cookie)

LEMMA AttributedInit == SessionsInit => Attributed
BY DEF SessionsInit, Attributed, Crossed, Cache!Unfetched

\* The page that opens may start a fetch, and changes nothing else.
LEMMA OpenedKeeps ==
    ASSUME NEW q \in Fetches, NEW from, NEW to
    PROVE  LET o == Opened(q, from, to)
           IN  /\ o.data = q.data /\ o.stale = q.stale /\ o.lacks = q.lacks
               /\ o.answer = q.answer
               /\ o.fetch = q.fetch \/ (q.fetch = "none" /\ o.fetch = "sent")
<1>1. CASE to \in AppPage /\ to # from
  BY <1>1 DEF Opened, Cache!Fetched, Fetches, Cache!Query
<1>2. CASE ~(to \in AppPage /\ to # from)
  BY <1>2 DEF Opened
<1> QED
  BY <1>1, <1>2

\* Neither the row nor the cookie changed.
LEMMA SameSession ==
    ASSUME UNCHANGED <<status, cookie>>
    PROVE  validate(cookie') = validate(cookie) /\ validate(cookie)' = validate(cookie)
BY DEF validate

LEMMA ReceiveSignInAttributed ==
    ASSUME Tabbed, Attributed, ReceiveSignIn
    PROVE  Attributed'
<1> DEFINE q == IF cookie' = cookie THEN me ELSE Cache!Overtaken(me)
           i == Cache!Invalidated(q, FALSE)
           o == Opened(i, page, page')
<1>1. me' = o /\ SetMe(o, cookie') /\ unaware' = (unaware \/ Crossed') /\ UNCHANGED status
  BY DEF ReceiveSignIn, SetMe, vars, userRows
<1>2. i \in Fetches
  BY FetchesKept DEF Tabbed
<1>3. /\ i.stale /\ i.data = me.data /\ i.answer = me.answer
      /\ cookie' = cookie => i.lacks = me.lacks /\ i.fetch = me.fetch
      /\ cookie' # cookie => i.lacks /\ i.fetch = IF me.fetch = "new" THEN "old" ELSE me.fetch
  BY DEF Tabbed, Fetches, Cache!Query, Cache!Invalidated, Cache!Overtaken
<1> HIDE DEF i
<1>4. /\ o.data = i.data /\ o.stale = i.stale /\ o.lacks = i.lacks /\ o.answer = i.answer
      /\ o.fetch = i.fetch \/ (i.fetch = "none" /\ o.fetch = "sent")
  BY <1>2, OpenedKeeps
<1> HIDE DEF o
<1>5. me'.fetch \in {"old", "new"} => token' = token
  BY <1>1, <1>2, <1>3, <1>4 DEF SetMe
<1>6. CASE cookie' = cookie
  <2>1. validate(cookie)' = validate(cookie)
    BY <1>1, <1>6, SameSession
  <2> QED
    BY <1>1, <1>3, <1>4, <1>6, <2>1 DEF Attributed
<1>7. CASE cookie' # cookie
  <2>1. me'.fetch # "new"
    BY <1>1, <1>3, <1>4, <1>7
  <2>2. me'.fetch = "old" => unaware'
    BY <1>1, <1>3, <1>4, <1>5, <1>7 DEF Attributed, Crossed
  <2> QED
    BY <1>1, <1>3, <1>4, <1>7, <2>1, <2>2 DEF Attributed
<1> QED
  BY <1>6, <1>7

LEMMA ReceiveSignOutAttributed ==
    ASSUME Tabbed, Attributed, ReceiveSignOut
    PROVE  Attributed'
<1> DEFINE q == IF cookie' = cookie THEN me ELSE Cache!Overtaken(me)
           i == [q EXCEPT !.data = "guest", !.stale = FALSE,
                          !.lacks = validate(cookie') # "guest"]
           o == Opened(i, page, page')
<1>1. /\ me' = o /\ SetMe(o, cookie') /\ UNCHANGED status
      /\ unaware' = (unaware \/ Crossed' \/ validate(cookie') # "guest")
  BY DEF ReceiveSignOut, SetMe, vars, userRows
<1>2. q \in Fetches
  BY FetchesKept DEF Tabbed
<1>3. /\ q.answer = me.answer
      /\ cookie' = cookie => q.fetch = me.fetch
      /\ cookie' # cookie => q.fetch = IF me.fetch = "new" THEN "old" ELSE me.fetch
  BY DEF Tabbed, Fetches, Cache!Query, Cache!Overtaken
<1> HIDE DEF q
<1>4. /\ i \in Fetches
      /\ ~i.stale /\ i.data = "guest" /\ (i.lacks <=> validate(cookie') # "guest")
      /\ i.answer = q.answer /\ i.fetch = q.fetch
  BY <1>2 DEF Fetches, Cache!Query, Member
<1> HIDE DEF i
<1>5. /\ o.data = i.data /\ o.stale = i.stale /\ o.lacks = i.lacks /\ o.answer = i.answer
      /\ o.fetch = i.fetch \/ (i.fetch = "none" /\ o.fetch = "sent")
  BY <1>4, OpenedKeeps
<1> HIDE DEF o
<1>6. me'.fetch \in {"old", "new"} => token' = token
  BY <1>1, <1>3, <1>4, <1>5 DEF SetMe
<1>7. validate(cookie)' = validate(cookie')
  BY <1>1 DEF validate
<1>8. (me'.lacks => unaware') /\ (~me'.lacks => me'.data = validate(cookie)')
  BY <1>1, <1>4, <1>5, <1>7
<1>9. me'.fetch = "new" => me'.answer = validate(cookie)'
  BY <1>1, <1>3, <1>4, <1>5, SameSession DEF Attributed
<1>10. me'.fetch = "old" => unaware'
  BY <1>1, <1>3, <1>4, <1>5, <1>6 DEF Attributed, Crossed
<1> QED
  BY <1>1, <1>8, <1>9, <1>10 DEF Attributed

LEMMA TabAttributed ==
    ASSUME TypeOK, Tabbed, Attributed, Tab
    PROVE  Attributed'
<1>1. CASE \/ \E p \in Secret : SignUp(p) \/ \E a \in Account : SignIn(a, p)
           \/ SignOut \/ login \/ logout \/ RouteFails \/ LoseAnswer \/ ReceiveRefusal
  <2>1. UNCHANGED <<status, cookie, me, token, unaware>>
    BY <1>1 DEF SignUp, SignIn, SignOut, login, logout, RouteFails, LoseAnswer, ReceiveRefusal,
                RegisterOrganization, vars, userRows
  <2> QED
    BY <2>1, SameSession DEF Attributed, Crossed
<1>2. CASE ReceiveSignIn \/ ReceiveSignOut
  BY <1>2, ReceiveSignInAttributed, ReceiveSignOutAttributed
<1>3. ASSUME NEW q \in {Cache!Fetched(me)} \cup {Opened(me, page, p) : p \in {page'}},
             SetMe(q, cookie), UNCHANGED <<status, cookie, unaware>>
      PROVE  Attributed'
  <2>1. /\ q.data = me.data /\ q.stale = me.stale /\ q.lacks = me.lacks /\ q.answer = me.answer
        /\ q.fetch = me.fetch \/ (me.fetch = "none" /\ q.fetch = "sent")
    BY <1>3, OpenedKeeps DEF Tabbed, Fetches, Cache!Query, Cache!Fetched
  <2>2. validate(cookie)' = validate(cookie)
    BY <1>3, SameSession
  <2>3. Crossed' => Crossed
    BY <1>3, <2>1 DEF SetMe, Crossed
  <2> QED
    BY <1>3, <2>1, <2>2, <2>3 DEF Attributed, SetMe
<1>4. CASE Focus \/ \E p \in AuthPage \cup AppPage : Navigate(p)
  BY <1>3, <1>4 DEF Focus, Navigate, vars, userRows
<1>5. ASSUME NEW p \in AuthPage \cup AppPage, Reload(p) PROVE Attributed'
  <2>1. /\ me'.data = None /\ me'.fetch \in {"none", "sent"}
        /\ me'.fetch # "none" => token' = cookie
        /\ UNCHANGED cookie
    <3>1. /\ Cache!Unfetched \in Fetches
          /\ Cache!Unfetched.data = None /\ Cache!Unfetched.fetch = "none"
      BY UnfetchedTypes DEF Cache!Unfetched
    <3>2. me'.data = None /\ me'.fetch \in {"none", "sent"}
      BY <1>5, <3>1, OpenedKeeps DEF Reload
    <3>3. me'.fetch # "none" => page' \in AppPage
      BY <1>5, <3>1 DEF Reload, Opened
    <3> QED
      BY <1>5, <3>2, <3>3 DEF Reload
  <2> QED
    BY <2>1 DEF Attributed, Crossed
<1>6. CASE ServeMe
  <2> DEFINE v == validate(token)
  <2>1. /\ UNCHANGED <<status, cookie, token, unaware>> /\ me.fetch = "sent"
        /\ v = validate(cookie) => me' = Cache!Answered(me, v)
        /\ v # validate(cookie) => me' = [Cache!Answered(me, v) EXCEPT !.fetch = "old"]
    BY <1>6 DEF ServeMe, vars, userRows
  <2> HIDE DEF v
  <2>2. /\ me'.data = me.data /\ me'.stale = me.stale /\ me'.lacks = me.lacks /\ me'.answer = v
        /\ me'.fetch = IF v = validate(cookie) THEN "new" ELSE "old"
    BY <2>1 DEF Cache!Answered, Tabbed, Fetches, Cache!Query
  <2>3. v # validate(cookie) => Crossed
    BY <2>1 DEF v, Crossed
  <2> QED
    BY <2>1, <2>2, <2>3, SameSession DEF Attributed, Crossed
<1>7. CASE FailMe
  <2>1. /\ me'.data = me.data /\ me'.lacks = me.lacks /\ me'.fetch = "old" /\ unaware'
        /\ UNCHANGED <<status, cookie>>
    BY <1>7 DEF FailMe, Cache!Answered, Tabbed, Fetches, Cache!Query, vars, userRows
  <2> QED
    BY <2>1, SameSession DEF Attributed
<1>8. CASE ReceiveMe \/ LoseMe
  <2>1. me'.fetch = "none" /\ UNCHANGED <<status, cookie>>
    BY <1>8 DEF ReceiveMe, LoseMe, SetMe, Cache!Loaded, Cache!Failed, Tabbed, Fetches,
                Cache!Query, vars, userRows
  <2>2. CASE ReceiveMe
    <3>1. /\ me'.data = me.answer /\ me'.lacks = (me.fetch = "old")
          /\ me.fetch \in {"new", "old"}
          /\ unaware' = (unaware /\ me.fetch = "old")
      BY <2>2 DEF ReceiveMe, SetMe, Cache!Loaded
    <3> QED
      BY <2>1, <3>1, SameSession DEF Attributed, Crossed, Tabbed
  <2>3. CASE LoseMe
    <3>1. me'.data = me.data /\ me'.lacks = me.lacks /\ me'.stale /\ UNCHANGED unaware
      BY <2>3 DEF LoseMe, SetMe, Cache!Failed, Tabbed, Fetches, Cache!Query
    <3> QED
      BY <2>1, <3>1, SameSession DEF Attributed, Crossed
  <2> QED
    BY <1>8, <2>2, <2>3
<1>9. ASSUME NEW c \in Account \cup {None}, CookieChanges(c) PROVE Attributed'
  <2>1. me'.lacks /\ me'.fetch # "new" /\ unaware'
    BY <1>9 DEF CookieChanges, Cache!Overtaken, Tabbed, Fetches, Cache!Query
  <2> QED
    BY <2>1 DEF Attributed
<1> QED
  BY <1>1, <1>2, <1>4, <1>5, <1>6, <1>7, <1>8, <1>9 DEF Tab

LEMMA BackendAttributed ==
    ASSUME Tabbed, Attributed, NEW s \in Request, BackendStep(s)
    PROVE  Attributed'
<1>1. CASE validate(cookie)' = validate(cookie)
  <2>1. UNCHANGED <<cookie, token, me, unaware>>
    BY <1>1, ZenonT(30) DEF BackendStep
  <2> QED
    BY <1>1, <2>1 DEF Attributed, Crossed
<1>2. CASE validate(cookie)' # validate(cookie)
  <2>1. me' = Cache!Overtaken(me) /\ unaware' = TRUE
    BY <1>2, ZenonT(30) DEF BackendStep
  <2>2. me'.lacks /\ me'.fetch # "new"
    BY <2>1 DEF Cache!Overtaken, Tabbed, Fetches, Cache!Query
  <2> QED
    BY <2>1, <2>2 DEF Attributed
<1> QED
  BY <1>1, <1>2

LEMMA AttributedStep ==
    ASSUME BrowserTypeOK, Attributed, [SessionsNext]_sessionVars
    PROVE  Attributed'
<1>1. TypeOK /\ Tabbed
  BY BrowserTypeParts
<1>2. CASE UNCHANGED sessionVars
  BY <1>2, SameSession DEF sessionVars, vars, userRows, browser, Attributed, Crossed
<1> QED
  BY <1>1, <1>2, TabAttributed, BackendAttributed DEF SessionsNext

LEMMA SessionsInvariant == SessionsSpec => [](BrowserTypeOK /\ Attributed)
<1>1. SessionsSpec => [](BrowserTypeOK /\ Awaited /\ Attributed)
  BY BrowserTypesInit, BrowserTypesStep, AttributedInit, AttributedStep, PTL DEF SessionsSpec
<1> QED
  BY <1>1, PTL

\* Signing in and out through the tab leaves no other member on its pages: data
\* that looks current and is not is never there without a reason the tab could
\* not know.
THEOREM MeFollowsItsSession == SessionsSpec => []MeFollowsSession
<1>1. BrowserTypeOK /\ Attributed => MeFollowsSession
  BY BrowserTypeParts DEF Attributed, MeFollowsSession, Cache!LooksCurrent, Tabbed
<1> QED
  BY <1>1, SessionsInvariant, PTL

\* The member that looks current is the one of the cookie, and active.
THEOREM MeMatchesTheBackend == SessionsSpec => []MeMatchesBackend
<1>1. BrowserTypeOK /\ Attributed => MeMatchesBackend
  BY BrowserTypeParts, GuestAssumption
     DEF Attributed, MeMatchesBackend, Cache!LooksCurrent, Tabbed, validate
<1> QED
  BY <1>1, SessionsInvariant, PTL
=============================================================================
