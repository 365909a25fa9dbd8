------------------------------ MODULE Sessions ------------------------------
(***************************************************************************)
(* Signing in, up and out in one tab of a browser: the pages of app/(auth),*)
(* the menu of the Navbar, the cookie with the token, the proxy that sends *)
(* a page without it to /login, and the query for /auth/me that every page *)
(* of the dashboard reads.                                                 *)
(*                                                                         *)
(* Everybody else is Users.  The token names its account and outlives any  *)
(* change of it: JwtStrategy reads the row again for every call.           *)
(***************************************************************************)
EXTENDS Users

Cache == INSTANCE QueryCache

VARIABLES
    cookie,     \* the account in the cookie's token, shared by all tabs
    page,
    form,       \* the login, registration or logout under way in this tab
    me,         \* the query ["auth", "me"]
    token,      \* the account whose token the fetch of me carries
    (* history *)
    unaware     \* me may show another session, and nothing told this tab

browser == <<cookie, page, form, me, token, unaware>>
sessionVars == <<vars, browser>>

-----------------------------------------------------------------------------
(* Types *)

AuthPage == {"login", "register"}

\* /dashboard, /services and /settings need a cookie; /tasks, /policies and
\* the others open without one.
AppPage == {"dashboard", "tasks"}

\* slot: the request that registers the founder, while it runs.
Form ==
    [pc : {"idle"}, do : {None}, email : {None}, secret : {None}, slot : {None}] \cup
    [pc : {"sent", "ok", "refused"}, do : {"login"}, email : Account,
     secret : Secret, slot : {None}] \cup
    [pc : {"sent"}, do : {"register"}, email : {Founder}, secret : Secret, slot : Request] \cup
    [pc : {"ok", "refused"}, do : {"register"}, email : {Founder}, secret : Secret,
     slot : {None}] \cup
    [pc : {"sent", "ok", "refused"}, do : {"logout"}, email : {None}, secret : {None},
     slot : {None}]

NoForm == [pc |-> "idle", do |-> None, email |-> None, secret |-> None, slot |-> None]

ASSUME GuestAssumption == "guest" \notin Account \cup {None}

\* The query holds a member or, for every answer that is not one, null.
Member == Account \cup {"guest"}

\* TypeOK of Users; a registration is answered by its own request, and an
\* answer on its way has a fetch.
BrowserTypeOK ==
    /\ TypeOK
    /\ cookie \in Account \cup {None}
    /\ page \in AuthPage \cup AppPage
    /\ form \in Form
    /\ form.slot # None => req[form.slot].op = "register"
    /\ me \in Cache!Query(Member)
    /\ me.fetch \in {"new", "old"} <=> me.answer # None
    /\ token \in Account \cup {None}
    /\ me.fetch = "none" => token = None
    /\ unaware \in BOOLEAN

SessionsInit ==
    /\ Init
    /\ cookie = None
    /\ page = "login"
    /\ form = NoForm
    /\ me = Cache!Unfetched
    /\ token = None
    /\ unaware = FALSE

-----------------------------------------------------------------------------

\* proxy(): the page a navigation ends on.
Landing(p, c) ==
    CASE p = "dashboard" /\ c = None -> "login"
      [] p \in AuthPage /\ c # None  -> "dashboard"
      [] OTHER                       -> p

\* Mutant: a token is as good as the account it was signed for.
validate_AnyStatus(c) == IF c # None /\ Exists(c) THEN c ELSE "guest"

\* What /auth/me answers to a token: 401, or the member.
validate(c) == IF c # None /\ status[c] = "ACTIVE" THEN c ELSE "guest"

\* me becomes q; a fetch that starts takes the cookie c along.
SetMe(q, c) ==
    /\ me' = q
    /\ token' = IF q.fetch = "none" THEN None
                ELSE IF me.fetch = "none" \/ (me.fetch # "sent" /\ q.fetch = "sent") THEN c
                ELSE token

\* A fetch that was sent for another session is on its way.
Crossed == me.fetch # "none" /\ token # cookie

\* The page opens; a page of the dashboard asks for the member as it mounts.
Opened(q, from, to) == IF to \in AppPage /\ to # from THEN Cache!Fetched(q) ELSE q

-----------------------------------------------------------------------------
(* The forms and the menu *)

SignIn(a, p) ==
    /\ page = "login" /\ form.pc = "idle"
    /\ form' = [pc |-> "sent", do |-> "login", email |-> a, secret |-> p, slot |-> None]
    /\ UNCHANGED <<vars, cookie, page, me, token, unaware>>

\* The read of the address is part of the call: a taken one is refused at once.
SignUp(p) ==
    /\ page = "register" /\ form.pc = "idle"
    /\ \/ /\ Exists(Founder)
          /\ form' = [pc |-> "refused", do |-> "register", email |-> Founder, secret |-> p,
                      slot |-> None]
          /\ UNCHANGED vars
       \/ \E r \in Request :
          /\ RegisterOrganization(r, p) /\ Overtake
          /\ form' = [pc |-> "sent", do |-> "register", email |-> Founder, secret |-> p,
                      slot |-> r]
    /\ UNCHANGED <<cookie, page, me, token, unaware>>

SignOut ==
    /\ page \in AppPage /\ form.pc = "idle"
    /\ form' = [NoForm EXCEPT !.pc = "sent", !.do = "logout"]
    /\ UNCHANGED <<vars, cookie, page, me, token, unaware>>

\* AuthService.login: one read, and the checks on what it returned.
login ==
    /\ form.pc = "sent" /\ form.do = "login"
    /\ form' = [form EXCEPT !.pc =
                   IF status[form.email] = "ACTIVE" /\ passwordHash[form.email] = form.secret
                   THEN "ok" ELSE "refused"]
    /\ UNCHANGED <<vars, cookie, page, me, token, unaware>>

logout ==
    /\ form.pc = "sent" /\ form.do = "logout"
    /\ form' = [form EXCEPT !.pc = "ok"]
    /\ UNCHANGED <<vars, cookie, page, me, token, unaware>>

\* The route handler of the frontend cannot reach the backend, or fails itself.
RouteFails ==
    /\ form.pc = "sent"
    /\ form' = [form EXCEPT !.pc = "refused", !.slot = None]
    /\ UNCHANGED <<vars, cookie, page, me, token, unaware>>

\* fetch throws and the rest of the handler does not run; react-hook-form
\* enables the button again.  The cookie comes with the answer or not at all.
LoseAnswer ==
    /\ form.pc # "idle"
    /\ form' = NoForm
    /\ UNCHANGED <<vars, cookie, page, me, token, unaware>>

ReceiveRefusal ==
    /\ form.pc = "refused" /\ form.do # "logout"
    /\ form' = NoForm
    /\ UNCHANGED <<vars, cookie, page, me, token, unaware>>

\* The cookie, the invalidation of a query no page has mounted, and
\* router.push("/dashboard").
ReceiveSignIn ==
    /\ form.pc = "ok" /\ form.do \in {"login", "register"}
    /\ form' = NoForm
    /\ cookie' = form.email
    /\ page' = Landing("dashboard", cookie')
    /\ LET q == IF cookie' = cookie THEN me ELSE Cache!Overtaken(me)
       IN  SetMe(Opened(Cache!Invalidated(q, FALSE), page, page'), cookie')
    /\ unaware' = (unaware \/ Crossed')
    /\ UNCHANGED vars

\* Mutant: the member stays in the cache.
ReceiveSignOut_KeepsMember ==
    /\ form.pc \in {"ok", "refused"} /\ form.do = "logout"
    /\ form' = NoForm
    /\ cookie' = IF form.pc = "ok" THEN None ELSE cookie
    /\ page' = Landing("login", cookie')
    /\ SetMe(Opened([me EXCEPT !.lacks = TRUE, !.fetch = IF @ = "new" THEN "old" ELSE @],
                    page, page'), cookie')
    /\ unaware' = (unaware \/ Crossed' \/ cookie' # None)
    /\ UNCHANGED vars

\* Whether the call went well is not looked at: setQueryData(["auth", "me"],
\* null), which no fetch on its way minds, and router.push("/login").
ReceiveSignOut ==
    /\ form.pc \in {"ok", "refused"} /\ form.do = "logout"
    /\ form' = NoForm
    /\ cookie' = IF form.pc = "ok" THEN None ELSE cookie
    /\ page' = Landing("login", cookie')
    /\ LET q == IF cookie' = cookie THEN me ELSE Cache!Overtaken(me)
       IN  SetMe(Opened([q EXCEPT !.data = "guest", !.stale = FALSE,
                                  !.lacks = validate(cookie') # "guest"], page, page'),
                 cookie')
    /\ unaware' = (unaware \/ Crossed' \/ validate(cookie') # "guest")
    /\ UNCHANGED vars

-----------------------------------------------------------------------------
(* Moving about *)

\* Bound: not while a form or the menu waits for its answer.
Navigate(p) ==
    /\ form.pc = "idle"
    /\ page' = Landing(p, cookie)
    /\ SetMe(Opened(me, page, page'), cookie)
    /\ UNCHANGED <<vars, cookie, form, unaware>>

\* The document is loaded again: what was cached or running is gone.
Reload(p) ==
    /\ page' = Landing(p, cookie)
    /\ me' = Opened(Cache!Unfetched, "login", page')
    /\ token' = IF page' \in AppPage THEN cookie ELSE None
    /\ form' = NoForm
    /\ unaware' = FALSE
    /\ UNCHANGED <<vars, cookie>>

Focus ==
    /\ page \in AppPage
    /\ SetMe(Cache!Fetched(me), cookie)
    /\ UNCHANGED <<vars, cookie, page, form, unaware>>

\* The token went along when the fetch was sent; the row is read now.
ServeMe ==
    /\ me.fetch = "sent"
    /\ me' = LET q == Cache!Answered(me, validate(token))
             IN  IF validate(token) = validate(cookie) THEN q ELSE [q EXCEPT !.fetch = "old"]
    /\ UNCHANGED <<vars, cookie, page, form, token, unaware>>

\* Any other answer than 200 is null, a failure of the backend too.
FailMe ==
    /\ me.fetch = "sent"
    /\ me' = [Cache!Answered(me, "guest") EXCEPT !.fetch = "old"]
    /\ unaware' = TRUE
    /\ UNCHANGED <<vars, cookie, page, form, token>>

ReceiveMe ==
    /\ me.fetch \in {"new", "old"}
    /\ SetMe(Cache!Loaded(me), cookie)
    /\ unaware' = (unaware /\ me.fetch = "old")
    /\ UNCHANGED <<vars, cookie, page, form>>

\* retry: false
LoseMe ==
    /\ me.fetch # "none"
    /\ SetMe(Cache!Failed(me), cookie)
    /\ UNCHANGED <<vars, cookie, page, form, unaware>>

-----------------------------------------------------------------------------
(* Elsewhere *)

\* Another tab signs in or out, or the cookie reaches its maxAge, which is
\* the life of the token.
CookieChanges(c) ==
    /\ c # cookie
    /\ c # None => status[c] = "ACTIVE"
    /\ cookie' = c
    /\ me' = Cache!Overtaken(me)
    /\ unaware' = TRUE
    /\ UNCHANGED <<vars, page, form, token>>

\* A step of Users.  The one that ends this tab's registration answers it.
BackendStep(r) ==
    /\ Step(r)
    /\ UNCHANGED <<cookie, page, token>>
    /\ form' = IF form.slot = None \/ req'[form.slot].pc # "idle" THEN form
               ELSE [form EXCEPT !.slot = None,
                        !.pc = IF userRows' # userRows THEN "ok" ELSE "refused"]
    /\ IF validate(cookie)' = validate(cookie) THEN UNCHANGED <<me, unaware>>
       ELSE me' = Cache!Overtaken(me) /\ unaware' = TRUE

-----------------------------------------------------------------------------

\* Bound: a call made elsewhere runs from its authentication to its write
\* before this tab moves.  Only the write changes what the tab can read.
Quiet == \A r \in Request : req[r].pc = "idle" \/ r = form.slot

\* Bound: calls overlap as long as this tab is as it was opened.  Afterwards there
\* is one at a time, in the first slot: the slots are alike.
Turn(r) ==
    \/ /\ page = "login" /\ cookie = None /\ form = NoForm
       /\ me = Cache!Unfetched /\ ~unaware
    \/ /\ \A s \in Request \ {r} : req[s].pc = "idle"
       /\ req[r].pc = "idle" => r = CHOOSE s \in Request : TRUE

Tab ==
    \/ \E p \in Secret : SignUp(p) \/ \E a \in Account : SignIn(a, p)
    \/ SignOut \/ login \/ logout \/ RouteFails \/ LoseAnswer
    \/ ReceiveRefusal \/ ReceiveSignIn \/ ReceiveSignOut
    \/ \E p \in AuthPage \cup AppPage : Navigate(p) \/ Reload(p)
    \/ Focus \/ ServeMe \/ FailMe \/ ReceiveMe \/ LoseMe
    \/ \E c \in Account \cup {None} : CookieChanges(c)

SessionsNext ==
    \/ \E r \in Request : Turn(r) /\ BackendStep(r)
    \/ Quiet /\ Tab

SessionsSpec == SessionsInit /\ [][SessionsNext]_sessionVars

-----------------------------------------------------------------------------
(* Properties *)

\* Signing in and out through this tab never leaves another member on its
\* pages: what looks current belongs to the session of the cookie and to the
\* account as it is, unless nothing told the tab of a change, an answer was a
\* failure, or a fetch of the session before was still on its way.
MeFollowsSession == Cache!LooksCurrent(me) /\ me.lacks => unaware

\* A member is shown only while the cookie is that member's and the account is
\* active, and nobody only when there is no such session: the token of a
\* deactivated member is worth nothing from the next fetch on.
MeMatchesBackend ==
    Cache!LooksCurrent(me) /\ ~me.lacks =>
        /\ me.data # "guest" => me.data = cookie /\ status[me.data] = "ACTIVE"
        /\ me.data = "guest" => cookie = None \/ status[cookie] # "ACTIVE"
=============================================================================
