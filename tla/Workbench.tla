----------------------------- MODULE Workbench -----------------------------
(***************************************************************************)
(* A member works on one finding or task in the browser, while colleagues  *)
(* work on it elsewhere: the detail sheets and their controls              *)
(* (frontend/components/findings, frontend/components/tasks), the cached   *)
(* queries behind them (frontend/hooks), and the exchange that brings a    *)
(* file into the evidence bucket (EvidenceUploader.tsx, the evidence       *)
(* handlers of both services, evidence-storage.service.ts).                *)
(*                                                                         *)
(* A call travels, is served, and its answer travels back or is lost.  The *)
(* handlers of status, review and assignment are one step here: Findings   *)
(* and Tasks take them apart.  Verification is manual.                     *)
(***************************************************************************)
EXTENDS FindingTransitions, TaskTransitions, Naturals, Sequences

CONSTANTS
    User,
    Me,             \* the member at the browser
    OrgAccount,     \* FALSE: an individual account, which only self-assigns
    MaxAttempt,     \* bound on the uploads that are started
    MaxElsewhere,   \* bound on what happens outside this browser
    None

ASSUME MeAssumption == Me \in User /\ None \notin User
ASSUME BoundAssumption ==
    MaxAttempt \in Nat \ {0} /\ MaxElsewhere \in Nat /\ OrgAccount \in BOOLEAN

Client == INSTANCE ClientPermissions

VARIABLES
    (* the backend *)
    kind,       \* "finding" or "task": what the item is
    item,       \* its row, with the ids of its Evidence rows
    role,       \* roles of the members
    object,     \* the object of an upload in the bucket
    confirming, \* the handler that confirms an upload
    elsewhere,  \* number of steps taken outside this browser
    (* the browser *)
    me,         \* the role that /auth/me answered
    open,       \* the sheet is open
    shown,      \* data of the query for the item, or None
    query,      \* the state of that query
    answer,     \* the row on its way to the sheet
    control,    \* the button, picker or review control in use
    upload,     \* the uploader
    (* history *)
    lost,       \* attempts the answer to whose confirmation was lost
    untold,     \* a write was made and the browser not told, and it shows
    replaced    \* attempts whose object was replaced after it was checked

server == <<kind, item, role, object, confirming, elsewhere>>
cacheVars == <<shown, query, answer>>
history == <<lost, untold, replaced>>
vars == <<server, me, open, cacheVars, control, upload, history>>

-----------------------------------------------------------------------------
(* Types *)

Attempt == 1..MaxAttempt

Item == [status : FindingStatus, assignee : User \cup {None},
         evidence : SUBSET Attempt]

\* None stands for a row that was never loaded, and is none.
ASSUME RowAssumption == None \notin Item

\* stale: invalidated since its data came.  lacks: its data is older than the
\* last write this browser made.  An answer on its way is "new" if it was read
\* after that write.
QueryState ==
    [stale : BOOLEAN, lacks : BOOLEAN, fetch : {"none", "sent", "old", "new"}]

Call == [do : {"status"}, to : FindingStatus] \cup
        [do : {"review"}, to : {"RESOLVED", "IN_PROGRESS"}] \cup
        [do : {"assign"}, to : User]

\* "stuck": the answer never came, and the control stays disabled.
Control ==
    [pc : {"idle"}, call : {None}] \cup
    [pc : {"sent", "ok", "refused", "stuck"}, call : Call]

Upload ==
    [pc : {"empty", "file", "presign", "put", "confirm"},
     first : Attempt \cup {MaxAttempt + 1},   \* first attempt for this file
     next : Attempt \cup {MaxAttempt + 1}]

TypeOK ==
    /\ kind \in {"finding", "task"}
    /\ item \in Item
    /\ role \in [User -> {"ADMIN", "DEV"}]
    /\ object \in [Attempt -> {"missing", "stored", "oversized"}]
    /\ confirming \in [Attempt -> {"none", "sent", "head", "store", "ok", "refused"}]
    /\ elsewhere \in 0..MaxElsewhere
    /\ me \in {"ADMIN", "DEV", "NOBODY"}
    /\ open \in BOOLEAN
    /\ shown \in Item \cup {None}
    /\ query \in QueryState
    /\ answer \in Item \cup {None}
    /\ control \in Control
    /\ upload \in Upload
    /\ upload.first <= upload.next
    /\ lost \subseteq Attempt
    /\ untold \in BOOLEAN
    /\ replaced \subseteq Attempt

NoControl == [pc |-> "idle", call |-> None]

Init ==
    /\ kind \in {"finding", "task"}
    /\ item \in {[status |-> "OPEN", assignee |-> None, evidence |-> {}],
                [status |-> "ASSIGNED", assignee |-> Me, evidence |-> {}]}
    /\ role \in {[u \in User |-> IF u = Me THEN ro ELSE "ADMIN"] :
                    ro \in {"ADMIN", "DEV"}}
    /\ object = [a \in Attempt |-> "missing"]
    /\ confirming = [a \in Attempt |-> "none"]
    /\ elsewhere = 0
    /\ me = "NOBODY"
    /\ open = FALSE
    /\ shown = None
    /\ query = [stale |-> FALSE, lacks |-> FALSE, fetch |-> "none"]
    /\ answer = None
    /\ control = NoControl
    /\ upload = [pc |-> "empty", first |-> 1, next |-> 1]
    /\ lost = {}
    /\ untold = FALSE
    /\ replaced = {}

-----------------------------------------------------------------------------
(* What the backend accepts *)

\* devScope: a developer's queries for tasks are restricted to its own.
Readable(u) == kind = "finding" \/ role[u] # "DEV" \/ item.assignee = u

AcceptsStatus(u, to) ==
    /\ Readable(u)
    /\ IF kind = "finding"
       THEN \E t \in FINDING_TRANSITIONS :
               /\ t.from = item.status /\ t.to = to
               /\ canActorTransition(t, role[u], u = item.assignee)
       ELSE \E t \in TASK_TRANSITIONS :
               /\ t.from = item.status /\ t.to = to
               /\ canActorTransitionTask(t, role[u], u = item.assignee)
    /\ to = "EVIDENCE_SUBMITTED" => item.evidence # {}

AcceptsReview(u) ==
    /\ hasPermission(role[u],
           IF kind = "finding" THEN "FINDINGS_REVIEW" ELSE "TASKS_REVIEW")
    /\ item.status = "UNDER_REVIEW"

AcceptsAssign(u, v) ==
    /\ hasPermission(role[u],
           IF kind = "finding" THEN "FINDINGS_ASSIGN" ELSE "TASKS_ASSIGN")
    /\ item.status # "RESOLVED"
    /\ OrgAccount \/ v = u

AcceptsUpload(u) ==
    /\ Readable(u)
    /\ IF kind = "finding"
       THEN canUploadEvidence(item.status, role[u], u = item.assignee)
       ELSE canUploadTaskEvidence(item.status, role[u], u = item.assignee)

Accepts(u, c) ==
    CASE c.do = "status" -> AcceptsStatus(u, c.to)
      [] c.do = "review" -> AcceptsReview(u)
      [] c.do = "assign" -> AcceptsAssign(u, c.to)

Written(c) ==
    IF c.do = "assign"
    THEN [item EXCEPT !.status = "ASSIGNED", !.assignee = c.to]
    ELSE [item EXCEPT !.status = c.to]

-----------------------------------------------------------------------------
(* What the sheets offer *)

Mine(row) == row.assignee = Me

Status(to) == [do |-> "status", to |-> to]

\* AssigneePicker: members of an organisation may be picked, an individual
\* takes the item itself; who has the item already is not offered.
Candidates(row) ==
    {[do |-> "assign", to |-> v] :
        v \in (IF OrgAccount THEN User ELSE {Me}) \ {row.assignee}}

FindingSheetOffers(who, row) ==
    { c \in Call :
        \/ c = Status("IN_PROGRESS") /\ Client!canStartWork(who, Mine(row), row)
        \/ c = Status("EVIDENCE_SUBMITTED") /\ Client!canSubmitForReview(who, Mine(row), row)
        \/ c = Status("UNDER_REVIEW") /\ Client!canClaimForReview(who, row)
        \/ c.do = "review" /\ row.status = "UNDER_REVIEW" /\ Client!canReview(who)
        \/ c \in Candidates(row) /\ Client!canAssign(who) }

TaskSheetOffers(who, row) ==
    { c \in Call :
        \/ c = Status("IN_PROGRESS") /\ Client!canStartTaskWork(who, Mine(row), row)
        \/ c = Status("EVIDENCE_SUBMITTED") /\ Client!canSubmitTaskForReview(who, Mine(row), row)
        \/ c = Status("UNDER_REVIEW") /\ Client!canClaimTaskForReview(who, row)
        \/ c.do = "review" /\ row.status = "UNDER_REVIEW" /\ Client!canReviewTask(who)
        \/ c \in Candidates(row) /\ Client!canAssignTask(who) }

Offers(who, row) ==
    IF row = None THEN {}
    ELSE IF kind = "finding" THEN FindingSheetOffers(who, row)
    ELSE TaskSheetOffers(who, row)

OffersUpload(who, row) ==
    /\ row # None
    /\ IF kind = "finding"
       THEN Client!canUploadEvidence(who, Mine(row), row)
       ELSE Client!canUploadTaskEvidence(who, Mine(row), row)

-----------------------------------------------------------------------------
(* The query of the sheet.  TanStack Query is external: a mounted query is *)
(* fetched on mount and on focus unless a fetch is on its way already;     *)
(* invalidating it marks it stale and, if it is mounted, cancels that      *)
(* fetch and starts another one.                                           *)

\* The controls after a render with this role and row.  One that is no longer
\* rendered forgets its state; a handler that is running goes on.
Rendered(c, who, row) ==
    IF c.do = "assign"
    THEN row # None /\ (IF kind = "finding" THEN Client!canAssign(who)
                                           ELSE Client!canAssignTask(who))
    ELSE c \in Offers(who, row)

Render(who, row) ==
    /\ control' = IF control.pc = "stuck" /\ ~Rendered(control.call, who, row)
                  THEN NoControl ELSE control
    /\ upload' = IF upload.pc = "file" /\ ~OffersUpload(who, row)
                 THEN [upload EXCEPT !.pc = "empty", !.first = upload.next] ELSE upload

Fetch == query' = [query EXCEPT !.fetch = IF @ = "none" THEN "sent" ELSE @]

\* The window gets the focus: the member's own record is asked for as well.
Focus ==
    /\ IF open THEN Fetch ELSE UNCHANGED query
    /\ me' = role[Me]
    /\ Render(role[Me], shown)
    /\ UNCHANGED <<server, open, shown, answer, history>>

OpenSheet ==
    /\ ~open
    /\ open' = TRUE
    /\ Fetch
    /\ UNCHANGED <<server, me, shown, answer, control, upload, history>>

\* The controls unmount, and come back as new ones.  Bound: not while a call
\* or an upload is on its way.
CloseSheet ==
    /\ open
    /\ control.pc \in {"idle", "stuck"} /\ upload.pc \in {"empty", "file"}
    /\ open' = FALSE
    /\ control' = NoControl
    /\ upload' = [upload EXCEPT !.pc = "empty", !.first = upload.next]
    /\ UNCHANGED <<server, me, cacheVars, history>>

\* A fetch that failed for good leaves the data, marked stale.
FetchFailed ==
    /\ query' = [query EXCEPT !.fetch = "none", !.stale = TRUE]
    /\ answer' = None

\* The backend reads the row, or refuses.
ServeFetch ==
    /\ query.fetch = "sent"
    /\ IF Readable(Me)
       THEN query' = [query EXCEPT !.fetch = "new"] /\ answer' = item
       ELSE FetchFailed
    /\ UNCHANGED <<server, me, open, shown, control, upload, history>>

ReceiveFetch ==
    /\ query.fetch \in {"old", "new"}
    /\ query' = [stale |-> FALSE, lacks |-> query.fetch = "old", fetch |-> "none"]
    /\ shown' = answer
    /\ answer' = None
    /\ Render(me, answer)
    /\ untold' = (untold /\ query.fetch = "old")
    /\ UNCHANGED <<server, me, open, lost, replaced>>

LoseFetch ==
    /\ query.fetch # "none"
    /\ FetchFailed
    /\ UNCHANGED <<server, me, open, shown, control, upload, history>>

Invalidate ==
    /\ query' = [query EXCEPT !.stale = TRUE, !.fetch = IF open THEN "sent" ELSE @]
    /\ answer' = IF open THEN None ELSE answer

\* A write of this browser: what is shown, or was read before it, lacks it.
Overtaken ==
    query' = [query EXCEPT !.lacks = TRUE, !.fetch = IF @ = "new" THEN "old" ELSE @]

-----------------------------------------------------------------------------
(* Status buttons, assignee picker and review controls.  Bound: one of     *)
(* them is in use at a time, next to the uploader.                         *)

Click(c) ==
    /\ open /\ control.pc = "idle"
    /\ c \in Offers(me, shown)
    /\ control' = [pc |-> "sent", call |-> c]
    /\ UNCHANGED <<server, me, open, cacheVars, upload, history>>

\* After its commit a handler reads the row again, and may have the parent
\* record to bring up to date: when one of these fails, or the row is no longer
\* the member's to read, a write that was made is answered by an error.
ServeCall ==
    LET c == control.call IN
    /\ control.pc = "sent"
    /\ \E pc \in {"ok", "refused"} :
          /\ control' = [control EXCEPT !.pc = pc]
          /\ IF Accepts(Me, c)
             THEN /\ item' = Written(c)
                  /\ Overtaken
                  /\ untold' = (untold \/ pc = "refused")
             ELSE /\ pc = "refused"
                  /\ UNCHANGED <<item, query, untold>>
    /\ UNCHANGED <<kind, role, object, confirming, elsewhere, me, open, shown,
                   answer, upload, lost, replaced>>

\* Mutant: the sheet is not refreshed after a call.
ReceiveOk_WithoutInvalidate ==
    /\ control.pc = "ok"
    /\ control' = NoControl
    /\ UNCHANGED <<server, me, open, cacheVars, upload, history>>

\* The control is enabled again before the queries are fetched.
ReceiveOk ==
    /\ control.pc = "ok"
    /\ control' = NoControl
    /\ Invalidate
    /\ UNCHANGED <<server, me, open, shown, upload, history>>

\* The error is shown, or nothing is; no query is invalidated.
ReceiveRefusal ==
    /\ control.pc = "refused"
    /\ control' = NoControl
    /\ UNCHANGED <<server, me, open, cacheVars, upload, history>>

\* fetch throws: the handlers have no catch, and leave the control disabled.
LoseAnswer ==
    /\ control.pc \in {"sent", "ok", "refused"}
    /\ control' = [control EXCEPT !.pc = "stuck"]
    /\ untold' = (untold \/ control.pc = "ok")
    /\ UNCHANGED <<server, me, open, cacheVars, upload, lost, replaced>>

-----------------------------------------------------------------------------
(* The uploader: presign, PUT into the bucket, confirm.  An attempt is     *)
(* known by the evidenceId that presign generates.                         *)

Current == upload.next - 1

ChooseFile ==
    /\ open /\ upload.pc = "empty" /\ OffersUpload(me, shown)
    /\ upload' = [upload EXCEPT !.pc = "file", !.first = upload.next]
    /\ UNCHANGED <<server, me, open, cacheVars, control, history>>

StartUpload ==
    /\ open /\ upload.pc = "file" /\ OffersUpload(me, shown)
    /\ upload.next <= MaxAttempt
    /\ upload' = [upload EXCEPT !.pc = "presign"]
    /\ UNCHANGED <<server, me, open, cacheVars, control, history>>

\* Every failure ends in the catch block of handleSubmit: the file stays.
UploadFails == upload' = [upload EXCEPT !.pc = "file"]

Presigned ==
    /\ upload.pc = "presign"
    /\ \/ /\ AcceptsUpload(Me)
          /\ upload' = [upload EXCEPT !.pc = "put", !.next = @ + 1]
       \/ UploadFails
    /\ UNCHANGED <<server, me, open, cacheVars, control, history>>

\* The signature fixes key and content type, not the size.
PutSucceeds ==
    /\ upload.pc = "put"
    /\ \E o \in {"stored", "oversized"} : object' = [object EXCEPT ![Current] = o]
    /\ upload' = [upload EXCEPT !.pc = "confirm"]
    /\ confirming' = [confirming EXCEPT ![Current] = "sent"]
    /\ UNCHANGED <<kind, item, role, elsewhere, me, open, cacheVars, control,
                   history>>

\* The address has expired, the connection broke, or only the answer did.
PutFails ==
    /\ upload.pc = "put"
    /\ \E o \in {"missing", "stored"} : object' = [object EXCEPT ![Current] = o]
    /\ UploadFails
    /\ UNCHANGED <<kind, item, role, confirming, elsewhere, me, open, cacheVars,
                   control, history>>

\* The address stays valid for 300 s, whatever became of the attempt: another
\* PUT to it replaces the object, a checked and recorded one too.  It counts
\* as a step taken elsewhere; its expiry is not modelled.
PutAgain(a) ==
    /\ elsewhere < MaxElsewhere
    /\ a < upload.next
    /\ \E o \in {"stored", "oversized"} : object' = [object EXCEPT ![a] = o]
    /\ elsewhere' = elsewhere + 1
    /\ replaced' = IF confirming[a] \in {"store", "ok"} THEN replaced \cup {a} ELSE replaced
    /\ UNCHANGED <<kind, item, role, confirming, me, open, cacheVars, control,
                   upload, lost, untold>>

CheckConfirm(a) ==
    /\ confirming[a] = "sent"
    /\ confirming' = [confirming EXCEPT ![a] =
                         IF AcceptsUpload(Me) THEN "head" ELSE "refused"]
    /\ UNCHANGED <<kind, item, role, object, elsewhere, me, open, cacheVars,
                   control, upload, history>>

\* Mutant: the size of the object is not looked at.
HeadObject_AnySize(a) ==
    /\ confirming[a] = "head"
    /\ confirming' = [confirming EXCEPT ![a] =
                         IF object[a] # "missing" THEN "store" ELSE "refused"]
    /\ UNCHANGED <<kind, item, role, object, elsewhere, me, open, cacheVars,
                   control, upload, history>>

HeadObject(a) ==
    /\ confirming[a] = "head"
    /\ confirming' = [confirming EXCEPT ![a] =
                         IF object[a] = "stored" THEN "store" ELSE "refused"]
    /\ object' = IF object[a] = "oversized"
                 THEN [object EXCEPT ![a] = "missing"] ELSE object
    /\ UNCHANGED <<kind, item, role, elsewhere, me, open, cacheVars, control,
                   upload, history>>

\* An await of the handler rejects before the row is stored.
ConfirmFails(a) ==
    /\ confirming[a] \in {"sent", "head", "store"}
    /\ confirming' = [confirming EXCEPT ![a] = "refused"]
    /\ UNCHANGED <<kind, item, role, object, elsewhere, me, open, cacheVars,
                   control, upload, history>>

StoreEvidence(a) ==
    /\ confirming[a] = "store"
    /\ confirming' = [confirming EXCEPT ![a] = "ok"]
    /\ item' = [item EXCEPT !.evidence = @ \cup {a}]
    /\ Overtaken
    /\ untold' = (untold \/ a \in lost)
    /\ UNCHANGED <<kind, role, object, elsewhere, me, open, shown, answer,
                   control, upload, lost, replaced>>

\* Mutant: the file stays chosen after it was recorded.
ReceiveConfirmation_KeepsFile ==
    /\ upload.pc = "confirm"
    /\ \/ /\ confirming[Current] = "ok"
          /\ UploadFails
          /\ Invalidate
       \/ /\ confirming[Current] = "refused"
          /\ UploadFails
          /\ UNCHANGED <<query, answer>>
    /\ UNCHANGED <<server, me, open, shown, control, history>>

\* Mutant: the next file is taken to start one attempt later.
ReceiveConfirmation_SkipsAttempt ==
    /\ upload.pc = "confirm"
    /\ \/ /\ confirming[Current] = "ok"
          /\ upload' = [upload EXCEPT !.pc = "empty", !.first = upload.next + 1]
          /\ Invalidate
       \/ /\ confirming[Current] = "refused"
          /\ UploadFails
          /\ UNCHANGED <<query, answer>>
    /\ UNCHANGED <<server, me, open, shown, control, history>>

ReceiveConfirmation ==
    /\ upload.pc = "confirm"
    /\ \/ /\ confirming[Current] = "ok"
          /\ upload' = [upload EXCEPT !.pc = "empty", !.first = upload.next]
          /\ Invalidate
       \/ /\ confirming[Current] = "refused"
          /\ UploadFails
          /\ UNCHANGED <<query, answer>>
    /\ UNCHANGED <<server, me, open, shown, control, history>>

\* The handler, if the call reached it, goes on.
LoseConfirmation ==
    /\ upload.pc = "confirm"
    /\ UploadFails
    /\ lost' = lost \cup {Current}
    /\ untold' = (untold \/ confirming[Current] = "ok")
    /\ UNCHANGED <<server, me, open, cacheVars, control, replaced>>

-----------------------------------------------------------------------------
(* Elsewhere: colleagues use their own browsers, and roles change.         *)

ColleagueActs(u, c) ==
    /\ elsewhere < MaxElsewhere
    /\ Accepts(u, c)
    /\ item' = Written(c)
    /\ elsewhere' = elsewhere + 1
    /\ UNCHANGED <<kind, role, object, confirming, me, open, cacheVars, control,
                   upload, history>>

RoleChanges(ro) ==
    /\ elsewhere < MaxElsewhere
    /\ role' = [role EXCEPT ![Me] = ro]
    /\ elsewhere' = elsewhere + 1
    /\ UNCHANGED <<kind, item, object, confirming, me, open, cacheVars, control,
                   upload, history>>

Fetches == ServeFetch \/ ReceiveFetch \/ LoseFetch
Calls ==
    ServeCall \/ ReceiveOk \/ ReceiveRefusal \/ LoseAnswer
Confirms(a) ==
    CheckConfirm(a) \/ HeadObject(a) \/ StoreEvidence(a) \/ ConfirmFails(a)
Uploads ==
    \/ Presigned \/ PutSucceeds \/ PutFails
    \/ \E a \in Attempt : Confirms(a) \/ PutAgain(a)
    \/ ReceiveConfirmation \/ LoseConfirmation

Next ==
    \/ Focus \/ OpenSheet \/ CloseSheet
    \/ Fetches
    \/ \E c \in Call : Click(c)
    \/ Calls
    \/ ChooseFile \/ StartUpload
    \/ Uploads
    \/ \E u \in User \ {Me}, c \in Call : ColleagueActs(u, c)
    \/ \E ro \in {"ADMIN", "DEV"} : RoleChanges(ro)

Spec == Init /\ [][Next]_vars

-----------------------------------------------------------------------------
(* Properties *)

\* The two copies of the permission tables agree where it counts: on the row
\* and role as they are, a sheet offers exactly the calls that the backend
\* accepts.  The picker differs in two points: it offers to reassign a resolved
\* item, which the backend refuses, and not to assign the assignee again.
SheetMatchesBackend ==
    shown = item /\ me = role[Me] =>
        /\ OffersUpload(me, shown) <=> AcceptsUpload(Me)
        /\ \A c \in Call :
              LET differs == c.do = "assign" /\
                             (item.status = "RESOLVED" \/ c.to = item.assignee)
              IN  differs \/ (c \in Offers(me, shown) <=> Accepts(Me, c))

\* "An abandoned/failed upload never creates a dangling database record"
\* (EvidenceUploader.tsx): the object behind an Evidence row is in the bucket, and
\* of an admissible size unless its address was used again after the size was
\* checked, which nothing prevents while the address is valid.
EvidenceHasObject ==
    \A a \in item.evidence :
        object[a] = "stored" \/ (object[a] = "oversized" /\ a \in replaced)

\* A file that the uploader still holds for another attempt was not recorded
\* already, unless the answer that said so was lost.
HeldFileNotRecorded ==
    upload.pc \in {"file", "presign", "put"} =>
        \A a \in Attempt :
            upload.first <= a /\ a < upload.next /\ a \in item.evidence => a \in lost

\* Once the browser has finished with its calls, what it shows includes the
\* writes it was told of: all of its own, unless a refetch failed (and the query
\* is still marked stale), or the answer of a write was lost or was an error.
Settled ==
    /\ open /\ query.fetch = "none"
    /\ control.pc # "ok"
    /\ upload.pc = "confirm" => confirming[Current] # "ok"

ShowsOwnWrites ==
    Settled /\ query.lacks => query.stale \/ untold
=============================================================================
