---------------------------- MODULE PolicyPages ----------------------------
(***************************************************************************)
(* The policies and trainings pages of one member's browser, over the      *)
(* services that Policies models (frontend/components/policies,            *)
(* frontend/components/trainings and the pages and hooks they belong to).  *)
(* The list comes from a cached query; the sheet shows a row of that list; *)
(* colleagues edit and accept elsewhere.                                   *)
(***************************************************************************)
EXTENDS Policies

CONSTANTS
    Me,         \* the member at the browser
    Accepting   \* bound: the colleagues that accept policies; all of them edit

ASSUME MeAssumption == Me \in Member
ASSUME RequestAssumption == None \notin Request

Cache == INSTANCE QueryCache
Client == INSTANCE ClientPermissions

VARIABLES
    page,     \* the page that is open: "policies" or "trainings"
    list,     \* its query
    sheet,    \* the item selected, or None
    call,     \* the call on its way
    stuck,    \* components whose answer never came: they stay disabled
    untold    \* history: a write the browser was not told of, or cannot show yet

browser == <<page, list, sheet, call, stuck, untold>>
pageVars == <<vars, browser>>

-----------------------------------------------------------------------------

Item == Policy \cup Training

\* findAll: the rows as this member sees them.
PolicyRow(p) ==
    [text |-> content[p], version |-> version[p], status |-> toPublic(p, Me)]

TrainingRow(t) ==
    [text |-> training[t], version |-> 0,
     status |-> IF <<t, Me>> \in completions THEN "COMPLETED" ELSE "PENDING"]

findAll ==
    IF page = "policies"
    THEN [p \in {x \in Policy : content[x] # None} |-> PolicyRow(p)]
    ELSE [t \in {x \in Training : training[x] # None} |-> TrainingRow(t)]

Row == [text : Text, version : Nat, status : {"PENDING", "ACCEPTED", "COMPLETED"}]

\* None stands for a list that was never loaded, and is none.
ASSUME ListAssumption == \A S \in SUBSET Item : None \notin [S -> Row]

IsList(d) ==
    d # None => DOMAIN d \subseteq Item /\ \A i \in DOMAIN d : d[i] \in Row

Agree == IF page = "policies" THEN "accept" ELSE "complete"
CanManage ==
    Client!may(role[Me], IF page = "policies" THEN "POLICIES_MANAGE" ELSE "TRAININGS_MANAGE")

NoCall == [pc |-> "idle", do |-> None, item |-> None, text |-> None, slot |-> None]

Component(do) == IF do = "create" THEN "dialog" ELSE "sheet"

\* TypeOK of Policies; a call and an open sheet belong to what is there.
PagesTypeOK ==
    /\ TypeOK
    /\ page \in {"policies", "trainings"}
    /\ list \in Cache!Query({list.data, list.answer})
    /\ IsList(list.data) /\ IsList(list.answer)
    /\ list.fetch \in {"old", "new"} <=> list.answer # None
    /\ sheet # None => list.data # None /\ sheet \in DOMAIN list.data
    /\ call.pc \in {"idle", "sent", "serving", "ok", "refused"}
    /\ call.pc = "idle" <=> call = NoCall
    /\ call.pc = "serving" <=> call.slot # None
    /\ call.pc = "serving" => req[call.slot].pc # "idle"
    /\ call.pc # "idle" => Component(call.do) \notin stuck
    /\ stuck \subseteq {"sheet", "dialog"} /\ ("sheet" \in stuck => sheet # None)
    /\ untold \in BOOLEAN

PagesInit ==
    /\ Init
    /\ page \in {"policies", "trainings"}
    /\ list = Cache!Fetched(Cache!Unfetched)
    /\ sheet = None
    /\ call = NoCall
    /\ stuck = {}
    /\ untold = FALSE

-----------------------------------------------------------------------------
(* The query of the list *)

Focus ==
    /\ list' = Cache!Fetched(list)
    /\ UNCHANGED <<vars, page, sheet, call, stuck, untold>>

ServeFetch ==
    /\ list.fetch = "sent"
    /\ list' = Cache!Answered(list, findAll)
    /\ UNCHANGED <<vars, page, sheet, call, stuck, untold>>

ReceiveFetch ==
    /\ list.fetch \in {"old", "new"}
    /\ list' = Cache!Loaded(list)
    /\ untold' = (untold /\ list.fetch = "old")
    /\ UNCHANGED <<vars, page, sheet, call, stuck>>

LoseFetch ==
    /\ list.fetch # "none"
    /\ list' = Cache!Failed(list)
    /\ UNCHANGED <<vars, page, sheet, call, stuck, untold>>

-----------------------------------------------------------------------------
(* PolicyDetailSheet and TrainingDetailSheet *)

OpenSheet(i) ==
    /\ sheet = None
    /\ list.data # None /\ i \in DOMAIN list.data
    /\ sheet' = i
    /\ UNCHANGED <<vars, page, list, call, stuck, untold>>

\* The body is keyed by the row: it forgets its state when the sheet goes.  Bound:
\* not while the sheet's call is on its way.
CloseSheet ==
    /\ sheet # None /\ (call.pc = "idle" \/ call.do = "create")
    /\ sheet' = None
    /\ stuck' = stuck \ {"sheet"}
    /\ UNCHANGED <<vars, page, list, call, untold>>

\* Bound: one call of the browser at a time.
Send(do, i, x) ==
    /\ call.pc = "idle" /\ Component(do) \notin stuck
    /\ call' = [NoCall EXCEPT !.pc = "sent", !.do = do, !.item = i, !.text = x]
    /\ UNCHANGED <<vars, page, list, sheet, stuck, untold>>

\* The fields of the sheet start from the row as it was when the sheet was
\* opened, and can be anything when they are saved.
saveEdit(x) == sheet # None /\ CanManage /\ Send("edit", sheet, x)

accept ==
    /\ sheet # None
    /\ list.data[sheet].status = "PENDING"
    /\ Send(Agree, sheet, None)

\* CreatePolicyDialog and CreateTrainingDialog.
submitNew(i, x) ==
    /\ CanManage /\ sheet = None
    /\ i \in (IF page = "policies" THEN Policy ELSE Training)
    /\ Send("create", i, x)

-----------------------------------------------------------------------------
(* The call in the services, and its answer *)

\* accept and complete read their row once more after the write: they may still
\* answer an error then.  The other handlers write in their last await.
AnswersToWrite(do) == IF do \in {"accept", "complete"} THEN {"ok", "refused"} ELSE {"ok"}

\* The handlers of one step.
Serve ==
    LET c == call IN
    /\ c.pc = "sent"
    /\ \/ c.do = "create" /\ c.item \in Policy /\ CreatePolicy(Me, c.item, c.text)
       \/ c.do \in {"create", "edit"} /\ c.item \in Training /\ SaveTraining(Me, c.item, c.text)
       \/ c.do = "complete" /\ Complete(Me, c.item)
    /\ list' = Cache!Overtaken(list)
    /\ \E pc \in AnswersToWrite(c.do) :
          /\ call' = [call EXCEPT !.pc = pc]
          /\ untold' = (untold \/ pc = "refused")
    /\ UNCHANGED <<page, sheet, stuck>>

ServeRead(r) ==
    LET c == call IN
    /\ c.pc = "sent"
    /\ \/ c.do = "edit" /\ c.item \in Policy /\ ReadUpdate(r, Me, c.item, c.text)
       \/ c.do = "accept" /\ ReadAccept(r, Me, c.item)
    /\ call' = [call EXCEPT !.pc = "serving", !.slot = r]
    /\ UNCHANGED <<page, list, sheet, stuck, untold>>

\* A handler of the browser's call writes, also when nobody waits for its answer,
\* or the handler of a colleague's.
HandlerWrites(r) ==
    LET waited == call.slot = r
        ours == waited \/ (req[r].pc = "accept" /\ req[r].member = Me)
    IN  /\ WriteUpdate(r) \/ WriteAccept(r)
        /\ list' = IF ours THEN Cache!Overtaken(list) ELSE list
        /\ \/ /\ waited
              /\ \E pc \in AnswersToWrite(call.do) :
                    /\ call' = [call EXCEPT !.pc = pc, !.slot = None]
                    /\ untold' = (untold \/ pc = "refused")
           \/ /\ ~waited
              /\ call' = call
              /\ untold' = (untold \/ ours)
        /\ UNCHANGED <<page, sheet, stuck>>

\* An await of the handler rejects before its write.
ServeError ==
    /\ call.pc \in {"sent", "serving"}
    /\ call' = [call EXCEPT !.pc = "refused", !.slot = None]
    /\ IF call.pc = "serving" THEN HandlerFails(call.slot) ELSE UNCHANGED vars
    /\ UNCHANGED <<page, list, sheet, stuck, untold>>

\* The same in a handler that this browser does not wait for.
OtherHandlerFails(r) ==
    /\ r # call.slot
    /\ HandlerFails(r)
    /\ UNCHANGED browser

\* Mutant: the answer to an acceptance refreshes nothing.
ReceiveOk_AcceptKeepsList ==
    /\ call.pc = "ok"
    /\ call' = NoCall
    /\ IF call.do = Agree THEN UNCHANGED list ELSE list' = Cache!Invalidated(list, TRUE)
    /\ UNCHANGED <<vars, page, sheet, stuck, untold>>

\* A dialog can be used before the list was ever loaded: the first fetch, which
\* may have read the rows already, then goes on.
ReceiveOk ==
    /\ call.pc = "ok"
    /\ call' = NoCall
    /\ list' = Cache!Invalidated(list, TRUE)
    /\ untold' = (untold \/ (list.data = None /\ list.fetch = "old"))
    /\ UNCHANGED <<vars, page, sheet, stuck>>

\* The message is shown in the component; the list stays.
ReceiveRefusal ==
    /\ call.pc = "refused"
    /\ call' = NoCall
    /\ UNCHANGED <<vars, page, list, sheet, stuck, untold>>

\* fetch throws, and nothing catches it.  A handler that has begun goes on.
LoseAnswer ==
    /\ call.pc # "idle"
    /\ call' = NoCall
    /\ stuck' = stuck \cup {Component(call.do)}
    /\ untold' = (untold \/ call.pc = "ok")
    /\ UNCHANGED <<vars, page, list, sheet>>

-----------------------------------------------------------------------------
(* Colleagues.  Bound: they use the items of the page that is open, and no *)
(* call of theirs begins while a handler runs that this page does not      *)
(* wait for.                                                               *)

ColleagueActs ==
    /\ \A r \in Request : req[r].pc = "idle" \/ r = call.slot
    /\ \E m \in Member \ {Me} :
          IF page = "policies"
          THEN \E p \in Policy :
                  \/ \E x \in Text : CreatePolicy(m, p, x)
                  \/ \E r \in Request :
                        \/ \E x \in Text : ReadUpdate(r, m, p, x)
                        \/ m \in Accepting /\ ReadAccept(r, m, p)
          ELSE \E t \in Training :
                  (\E x \in Text : SaveTraining(m, t, x)) \/ Complete(m, t)
    /\ UNCHANGED browser

PagesNext ==
    \/ Focus \/ ServeFetch \/ ReceiveFetch \/ LoseFetch
    \/ \E i \in Item : OpenSheet(i)
    \/ CloseSheet \/ accept
    \/ \E x \in Text : saveEdit(x) \/ \E i \in Item : submitNew(i, x)
    \/ Serve \/ ServeError
    \/ \E r \in Request : ServeRead(r) \/ HandlerWrites(r) \/ OtherHandlerFails(r)
    \/ ReceiveOk \/ ReceiveRefusal \/ LoseAnswer
    \/ ColleagueActs

PagesSpec == PagesInit /\ [][PagesNext]_pageVars

-----------------------------------------------------------------------------
(* Properties *)

\* What a page shows once it has finished with its calls includes what its
\* member accepted, completed, edited or created there, as far as it was told so:
\* not what was written although the answer was lost or reported an error, nor
\* what was written before the list was first loaded.  In particular a member
\* who accepted a version it had not seen gets to see it.
PageShowsOwnWrites ==
    call.pc # "ok" /\ Cache!LooksCurrent(list) => ~list.lacks \/ untold
=============================================================================
