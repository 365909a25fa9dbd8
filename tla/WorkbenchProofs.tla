-------------------------- MODULE WorkbenchProofs --------------------------
(***************************************************************************)
(* Proofs about Workbench, for every set of members and every number of    *)
(* uploads and of steps taken elsewhere.                                   *)
(***************************************************************************)
EXTENDS Workbench, TLAPS

-----------------------------------------------------------------------------
(* Type correctness *)

LEMMA InitTypes == Init => TypeOK
<1> SUFFICES ASSUME Init PROVE TypeOK
  OBVIOUS
<1>1. item \in Item /\ Me \in User
  BY MeAssumption DEF Init, Item, FindingStatus
<1>2. role \in [User -> {"ADMIN", "DEV"}]
  BY DEF Init
<1>3. /\ control \in Control /\ query \in QueryState /\ upload \in Upload
      /\ upload.first <= upload.next
  BY BoundAssumption DEF Init, Control, NoControl, QueryState, Upload, Attempt
<1>4. elsewhere \in 0..MaxElsewhere
  BY BoundAssumption DEF Init
<1> QED
  BY <1>1, <1>2, <1>3, <1>4 DEF Init, TypeOK, Attempt

\* A render may take the file away or enable a control that was stuck.
LEMMA RenderTypes ==
    ASSUME TypeOK, NEW who, NEW row, Render(who, row)
    PROVE  /\ control' \in Control /\ upload' \in Upload
           /\ upload'.first <= upload'.next
<1>1. control' \in Control
  BY DEF Render, TypeOK, Control, NoControl
<1>2. upload \in Upload /\ upload.first <= upload.next /\ upload.next <= upload.next
  BY BoundAssumption DEF TypeOK, Upload, Attempt
<1>3. CASE upload' = upload
  BY <1>1, <1>2, <1>3
<1>4. CASE upload' = [upload EXCEPT !.pc = "empty", !.first = upload.next]
  BY <1>1, <1>2, <1>4 DEF Upload
<1> QED
  BY <1>3, <1>4 DEF Render

LEMMA FetchTypes ==
    ASSUME TypeOK, Focus \/ OpenSheet \/ CloseSheet \/ Fetches
    PROVE  TypeOK'
<1>1. CASE Focus
  <2>1. role[Me] \in {"ADMIN", "DEV"}
    BY MeAssumption DEF TypeOK
  <2>2. query' \in QueryState
    BY <1>1 DEF Focus, Fetch, TypeOK, QueryState
  <2>3. Render(role[Me], shown)
    BY <1>1 DEF Focus
  <2> QED
    BY <1>1, <2>1, <2>2, <2>3, RenderTypes DEF Focus, TypeOK, server, history
<1>2. CASE OpenSheet
  BY <1>2 DEF OpenSheet, Fetch, TypeOK, QueryState, server, history
<1>3. CASE CloseSheet
  <2>1. upload' \in Upload /\ upload'.first <= upload'.next
    <3>1. upload \in Upload /\ upload.next <= upload.next
      BY BoundAssumption DEF TypeOK, Upload, Attempt
    <3>2. upload' = [upload EXCEPT !.pc = "empty", !.first = upload.next]
      BY <1>3 DEF CloseSheet
    <3> QED
      BY <3>1, <3>2 DEF Upload
  <2>2. control' \in Control
    BY <1>3 DEF CloseSheet, Control, NoControl
  <2> QED
    BY <1>3, <2>1, <2>2 DEF CloseSheet, TypeOK, server, cacheVars, history
<1>4. CASE ServeFetch
  BY <1>4 DEF ServeFetch, FetchFailed, TypeOK, QueryState, server, history
<1>5. CASE ReceiveFetch
  <2>1. query' \in QueryState /\ untold' \in BOOLEAN
    BY <1>5 DEF ReceiveFetch, TypeOK, QueryState
  <2>2. Render(me, answer)
    BY <1>5 DEF ReceiveFetch
  <2> QED
    BY <1>5, <2>1, <2>2, RenderTypes DEF ReceiveFetch, TypeOK, server
<1>6. CASE LoseFetch
  BY <1>6 DEF LoseFetch, FetchFailed, TypeOK, QueryState, server, history
<1> QED
  BY <1>1, <1>2, <1>3, <1>4, <1>5, <1>6 DEF Fetches

LEMMA WrittenTypes ==
    ASSUME item \in Item, NEW c \in Call
    PROVE  Written(c) \in Item /\ Written(c).evidence = item.evidence
BY DEF Written, Item, Call, FindingStatus

LEMMA InvalidateTypes ==
    ASSUME TypeOK, Invalidate
    PROVE  query' \in QueryState /\ answer' \in Item \cup {None}
BY DEF Invalidate, TypeOK, QueryState

LEMMA OvertakenTypes ==
    ASSUME TypeOK, Overtaken
    PROVE  query' \in QueryState
BY DEF Overtaken, TypeOK, QueryState

LEMMA CallTypes ==
    ASSUME TypeOK, (\E c \in Call : Click(c)) \/ Calls
    PROVE  TypeOK'
<1>1. ASSUME NEW c \in Call, Click(c) PROVE TypeOK'
  <2>1. control' \in Control
    BY <1>1 DEF Click, Control
  <2> QED
    BY <1>1, <2>1 DEF Click, TypeOK, server, cacheVars, history
<1>2. ASSUME NEW pc \in {"ok", "refused", "stuck"}, control.pc # "idle"
      PROVE  [control EXCEPT !.pc = pc] \in Control
  BY <1>2 DEF TypeOK, Control
<1>3. CASE ServeCall
  <2>1. control.call \in Call
    BY <1>3 DEF ServeCall, TypeOK, Control
  <2>2. control' \in Control
    BY <1>2, <1>3 DEF ServeCall
  <2>3. CASE Accepts(Me, control.call)
    <3>1. item' \in Item /\ query' \in QueryState
      BY <1>3, <2>1, <2>3, WrittenTypes, OvertakenTypes DEF ServeCall, TypeOK
    <3>2. untold' \in BOOLEAN
      BY <1>3, <2>3 DEF ServeCall, TypeOK
    <3> QED
      BY <1>3, <2>2, <3>1, <3>2 DEF ServeCall, TypeOK
  <2>4. CASE ~Accepts(Me, control.call)
    BY <1>3, <2>2, <2>4 DEF ServeCall, TypeOK
  <2> QED
    BY <2>3, <2>4
<1>4. NoControl \in Control
  BY DEF NoControl, Control
<1>5. CASE ReceiveOk
  BY <1>4, <1>5, InvalidateTypes DEF ReceiveOk, TypeOK, server, history
<1>6. CASE ReceiveRefusal
  BY <1>4, <1>6 DEF ReceiveRefusal, TypeOK, server, cacheVars, history
<1>7. CASE LoseAnswer
  <2>1. control' \in Control
    BY <1>2, <1>7 DEF LoseAnswer
  <2> QED
    BY <1>7, <2>1 DEF LoseAnswer, TypeOK, server, cacheVars
<1> QED
  BY <1>1, <1>3, <1>5, <1>6, <1>7 DEF Calls

LEMMA ElsewhereTypes ==
    ASSUME TypeOK,
           \/ \E u \in User \ {Me}, c \in Call : ColleagueActs(u, c)
           \/ \E ro \in {"ADMIN", "DEV"} : RoleChanges(ro)
    PROVE  TypeOK'
<1>1. ASSUME NEW u \in User, NEW c \in Call, ColleagueActs(u, c) PROVE TypeOK'
  <2>1. elsewhere' \in 0..MaxElsewhere
    BY <1>1, BoundAssumption DEF ColleagueActs, TypeOK
  <2>2. item' \in Item
    BY <1>1, WrittenTypes DEF ColleagueActs, TypeOK
  <2> QED
    BY <1>1, <2>1, <2>2 DEF ColleagueActs, TypeOK, cacheVars, history
<1>2. ASSUME NEW ro \in {"ADMIN", "DEV"}, RoleChanges(ro) PROVE TypeOK'
  <2>1. elsewhere' \in 0..MaxElsewhere
    BY <1>2, BoundAssumption DEF RoleChanges, TypeOK
  <2>2. role' \in [User -> {"ADMIN", "DEV"}]
    BY <1>2 DEF RoleChanges, TypeOK
  <2> QED
    BY <1>2, <2>1, <2>2 DEF RoleChanges, TypeOK, cacheVars, history
<1> QED
  BY <1>1, <1>2

\* Every failure of the uploader ends here.
LEMMA FailTypes ==
    ASSUME TypeOK, UploadFails
    PROVE  /\ upload' \in Upload /\ upload'.pc = "file"
           /\ upload'.first = upload.first /\ upload'.next = upload.next
           /\ upload'.first <= upload'.next
BY DEF UploadFails, TypeOK, Upload

\* The attempt that an upload is at.
LEMMA CurrentAttempt ==
    ASSUME TypeOK, upload.next > 1
    PROVE  Current \in Attempt /\ Current + 1 = upload.next
BY BoundAssumption DEF TypeOK, Upload, Attempt, Current

\* Where the uploader is in its three calls.
UploadSteps ==
    /\ upload.pc = "presign" => upload.next <= MaxAttempt
    /\ upload.pc \in {"put", "confirm"} => upload.first < upload.next

LEMMA UploaderTypes ==
    ASSUME TypeOK, UploadSteps,
           \/ ChooseFile \/ StartUpload \/ Presigned \/ PutSucceeds \/ PutFails
           \/ ReceiveConfirmation \/ LoseConfirmation
    PROVE  TypeOK' /\ UploadSteps'
<1>1. /\ upload \in Upload /\ upload.next \in Nat /\ upload.first \in Nat
      /\ upload.first <= upload.next /\ MaxAttempt \in Nat
  BY BoundAssumption DEF TypeOK, Upload, Attempt
<1>2. upload.pc \in {"put", "confirm"} => Current \in Attempt
  BY <1>1, CurrentAttempt DEF UploadSteps, Upload, Attempt
<1>3. ASSUME UploadFails
      PROVE  upload' \in Upload /\ upload'.first <= upload'.next /\ UploadSteps'
  BY <1>3, FailTypes DEF UploadSteps
<1>4. CASE ChooseFile
  <2>1. upload' = [pc |-> "file", first |-> upload.next, next |-> upload.next]
    BY <1>1, <1>4 DEF ChooseFile, Upload
  <2>2. upload' \in Upload /\ upload'.first <= upload'.next /\ UploadSteps'
    BY <1>1, <2>1 DEF Upload, UploadSteps
  <2> QED
    BY <1>4, <2>2 DEF ChooseFile, TypeOK, server, cacheVars, history
<1>5. CASE StartUpload
  <2>1. upload' \in Upload /\ upload'.first <= upload'.next /\ UploadSteps'
    BY <1>1, <1>5 DEF StartUpload, Upload, UploadSteps
  <2> QED
    BY <1>5, <2>1 DEF StartUpload, TypeOK, server, cacheVars, history
<1>6. CASE Presigned
  <2>1. ASSUME upload' = [upload EXCEPT !.pc = "put", !.next = @ + 1], upload.pc = "presign"
        PROVE  upload' \in Upload /\ upload'.first <= upload'.next /\ UploadSteps'
    <3>1. /\ upload'.pc = "put" /\ upload'.first = upload.first
          /\ upload'.next = upload.next + 1
          /\ upload' = [pc |-> "put", first |-> upload.first, next |-> upload.next + 1]
      BY <1>1, <2>1 DEF Upload
    <3>2. upload.next + 1 \in Attempt \cup {MaxAttempt + 1}
      BY <1>1, <2>1 DEF UploadSteps, Attempt
    <3> QED
      BY <1>1, <3>1, <3>2 DEF Upload, UploadSteps
  <2>2. upload' \in Upload /\ upload'.first <= upload'.next /\ UploadSteps'
    BY <1>3, <1>6, <2>1 DEF Presigned
  <2> QED
    BY <1>6, <2>2 DEF Presigned, TypeOK, server, cacheVars, history
<1>7. CASE PutSucceeds
  <2>1. upload' \in Upload /\ upload'.first <= upload'.next /\ UploadSteps'
    BY <1>1, <1>7 DEF PutSucceeds, Upload, UploadSteps
  <2>2. /\ object' \in [Attempt -> {"missing", "stored", "oversized"}]
        /\ confirming' \in [Attempt -> {"none", "sent", "head", "store", "ok", "refused"}]
    BY <1>2, <1>7 DEF PutSucceeds, TypeOK
  <2> QED
    BY <1>7, <2>1, <2>2 DEF PutSucceeds, TypeOK, cacheVars, history
<1>8. CASE PutFails
  <2>1. object' \in [Attempt -> {"missing", "stored", "oversized"}]
    BY <1>2, <1>8 DEF PutFails, TypeOK
  <2> QED
    BY <1>3, <1>8, <2>1 DEF PutFails, TypeOK, cacheVars, history
<1>9. CASE ReceiveConfirmation
  <2>1. upload' \in Upload /\ upload'.first <= upload'.next /\ UploadSteps'
    <3>1. ASSUME upload' = [upload EXCEPT !.pc = "empty", !.first = upload.next]
          PROVE  upload' \in Upload /\ upload'.first <= upload'.next /\ UploadSteps'
      <4>1. upload' = [pc |-> "empty", first |-> upload.next, next |-> upload.next]
        BY <1>1, <3>1 DEF Upload
      <4> QED
        BY <1>1, <4>1 DEF Upload, UploadSteps
    <3> QED
      BY <1>3, <1>9, <3>1 DEF ReceiveConfirmation
  <2>2. query' \in QueryState /\ answer' \in Item \cup {None}
    BY <1>9, InvalidateTypes DEF ReceiveConfirmation, TypeOK
  <2> QED
    BY <1>9, <2>1, <2>2 DEF ReceiveConfirmation, TypeOK, server, history
<1>10. CASE LoseConfirmation
  BY <1>2, <1>3, <1>10 DEF LoseConfirmation, TypeOK, server, cacheVars
<1> QED
  BY <1>4, <1>5, <1>6, <1>7, <1>8, <1>9, <1>10

LEMMA ConfirmTypes ==
    ASSUME TypeOK, UploadSteps, NEW a \in Attempt, Confirms(a)
    PROVE  TypeOK' /\ UploadSteps'
<1>1. upload' = upload /\ UploadSteps'
  BY DEF Confirms, CheckConfirm, HeadObject, StoreEvidence, ConfirmFails, UploadSteps
<1>2. CASE CheckConfirm(a)
  <2>1. confirming' \in [Attempt -> {"none", "sent", "head", "store", "ok", "refused"}]
    BY <1>2 DEF CheckConfirm, TypeOK
  <2> QED
    BY <1>1, <1>2, <2>1 DEF CheckConfirm, TypeOK, cacheVars, history
<1>3. CASE HeadObject(a)
  <2>1. /\ confirming' \in [Attempt -> {"none", "sent", "head", "store", "ok", "refused"}]
        /\ object' \in [Attempt -> {"missing", "stored", "oversized"}]
    BY <1>3 DEF HeadObject, TypeOK
  <2> QED
    BY <1>1, <1>3, <2>1 DEF HeadObject, TypeOK, cacheVars, history
<1>4. CASE StoreEvidence(a)
  <2>1. /\ confirming' \in [Attempt -> {"none", "sent", "head", "store", "ok", "refused"}]
        /\ untold' \in BOOLEAN
    BY <1>4 DEF StoreEvidence, TypeOK
  <2>2. item' \in Item
    BY <1>4 DEF StoreEvidence, TypeOK, Item
  <2>3. query' \in QueryState
    BY <1>4, OvertakenTypes DEF StoreEvidence
  <2> QED
    BY <1>1, <1>4, <2>1, <2>2, <2>3 DEF StoreEvidence, TypeOK
<1>5. CASE ConfirmFails(a)
  <2>1. confirming' \in [Attempt -> {"none", "sent", "head", "store", "ok", "refused"}]
    BY <1>5 DEF ConfirmFails, TypeOK
  <2> QED
    BY <1>1, <1>5, <2>1 DEF ConfirmFails, TypeOK, cacheVars, history
<1> QED
  BY <1>2, <1>3, <1>4, <1>5 DEF Confirms

LEMMA PutAgainTypes ==
    ASSUME TypeOK, UploadSteps, NEW a \in Attempt, PutAgain(a)
    PROVE  TypeOK' /\ UploadSteps'
<1>1. elsewhere' \in 0..MaxElsewhere
  BY BoundAssumption DEF PutAgain, TypeOK
<1>2. /\ object' \in [Attempt -> {"missing", "stored", "oversized"}]
      /\ replaced' \subseteq Attempt
  BY DEF PutAgain, TypeOK
<1> QED
  BY <1>1, <1>2 DEF PutAgain, TypeOK, UploadSteps, cacheVars

\* The steps that leave the upload to its calls, or throw a file away.
LEMMA OtherSteps ==
    ASSUME TypeOK, UploadSteps,
           \/ Focus \/ OpenSheet \/ CloseSheet \/ Fetches
           \/ (\E c \in Call : Click(c)) \/ Calls
           \/ \E u \in User \ {Me}, c \in Call : ColleagueActs(u, c)
           \/ \E ro \in {"ADMIN", "DEV"} : RoleChanges(ro)
           \/ UNCHANGED vars
    PROVE  /\ UNCHANGED <<object, confirming, lost, replaced>>
           /\ item'.evidence = item.evidence
           /\ \/ upload' = upload
              \/ /\ upload.pc \in {"empty", "file"}
                 /\ upload' = [upload EXCEPT !.pc = "empty", !.first = upload.next]
<1>1. CASE Focus \/ OpenSheet \/ CloseSheet
  BY <1>1 DEF Focus, OpenSheet, CloseSheet, Render, TypeOK, Upload, server, history
<1>2. CASE Fetches
  BY <1>2 DEF Fetches, ServeFetch, ReceiveFetch, LoseFetch, Render, TypeOK, Upload, server,
              history
<1>3. CASE (\E c \in Call : Click(c)) \/ ReceiveOk \/ ReceiveRefusal \/ LoseAnswer
  BY <1>3 DEF Click, ReceiveOk, ReceiveRefusal, LoseAnswer, server, history
<1>4. CASE ServeCall
  <2>1. control.call \in Call
    BY <1>4 DEF ServeCall, TypeOK, Control
  <2> QED
    BY <1>4, <2>1, WrittenTypes DEF ServeCall, TypeOK
<1>5. ASSUME NEW u \in User, NEW c \in Call, ColleagueActs(u, c)
      PROVE  /\ UNCHANGED <<object, confirming, lost, replaced, upload>>
             /\ item'.evidence = item.evidence
  BY <1>5, WrittenTypes DEF ColleagueActs, TypeOK, history
<1>6. ASSUME NEW ro \in {"ADMIN", "DEV"}, RoleChanges(ro)
      PROVE  /\ UNCHANGED <<object, confirming, lost, replaced, upload>>
             /\ item'.evidence = item.evidence
  BY <1>6 DEF RoleChanges, history
<1>7. CASE UNCHANGED vars
  BY <1>7 DEF vars, server, history
<1> QED
  BY <1>1, <1>2, <1>3, <1>4, <1>5, <1>6, <1>7 DEF Calls

LEMMA OtherTypes ==
    ASSUME TypeOK, UploadSteps,
           \/ Focus \/ OpenSheet \/ CloseSheet \/ Fetches
           \/ (\E c \in Call : Click(c)) \/ Calls
           \/ \E u \in User \ {Me}, c \in Call : ColleagueActs(u, c)
           \/ \E ro \in {"ADMIN", "DEV"} : RoleChanges(ro)
           \/ UNCHANGED vars
    PROVE  TypeOK' /\ UploadSteps'
<1>1. TypeOK'
  <2>1. CASE UNCHANGED vars
    BY <2>1 DEF vars, server, cacheVars, history, TypeOK
  <2> QED
    BY <2>1, FetchTypes, CallTypes, ElsewhereTypes
<1>2. UploadSteps'
  BY OtherSteps DEF UploadSteps, TypeOK, Upload
<1> QED
  BY <1>1, <1>2

LEMMA NextTypes == TypeOK /\ UploadSteps /\ [Next]_vars => TypeOK' /\ UploadSteps'
BY OtherTypes, UploaderTypes, ConfirmTypes, PutAgainTypes DEF Next, Uploads

LEMMA InitSteps == Init => UploadSteps
BY DEF Init, UploadSteps

\* The item, the queries, the controls and the uploader keep their shape, and an
\* attempt is not numbered before it is made.
THEOREM TypeCorrectness == Spec => []TypeOK
BY InitTypes, InitSteps, NextTypes, PTL DEF Spec

-----------------------------------------------------------------------------
(* What an upload leaves in the bucket and in the database *)

\* Nothing is known of an attempt before it is made; the object whose size was
\* found admissible stays, unless another PUT replaces it; a handler that may
\* still record it is the one the uploader waits for, or its answer was lost.
AttemptAgrees(a) ==
    /\ a >= upload.next =>
          object[a] = "missing" /\ confirming[a] = "none" /\ a \notin item.evidence
    /\ upload.pc = "put" /\ a = Current => confirming[a] = "none"
    /\ confirming[a] \in {"store", "ok"} =>
          object[a] = "stored" \/ (object[a] = "oversized" /\ a \in replaced)
    /\ a \in item.evidence => confirming[a] = "ok"
    /\ confirming[a] \in {"sent", "head", "store", "ok"} /\ upload.first <= a /\ a < upload.next =>
          a \in lost \/ (upload.pc = "confirm" /\ a = Current)

\* The inductive invariant.
UploadInvariant == TypeOK /\ UploadSteps /\ \A a \in Attempt : AttemptAgrees(a)

LEMMA InitAttempts == Init => \A a \in Attempt : AttemptAgrees(a)
BY BoundAssumption DEF Init, AttemptAgrees, Attempt

LEMMA OtherAttempts ==
    ASSUME UploadInvariant, NEW a \in Attempt,
           UNCHANGED <<object, confirming, lost, replaced>>, item'.evidence = item.evidence,
           \/ upload' = upload
           \/ /\ upload.pc \in {"empty", "file"}
              /\ upload' = [upload EXCEPT !.pc = "empty", !.first = upload.next]
    PROVE  AttemptAgrees(a)'
<1>1. upload \in Upload
  BY DEF UploadInvariant, TypeOK
<1>2. AttemptAgrees(a)
  BY DEF UploadInvariant
<1>3. CASE upload' = upload
  BY <1>2, <1>3 DEF AttemptAgrees, Current
<1>4. CASE upload' = [upload EXCEPT !.pc = "empty", !.first = upload.next]
  <2>1. upload'.pc = "empty" /\ upload'.first = upload.next /\ upload'.next = upload.next
    BY <1>1, <1>4 DEF Upload
  <2>2. a \in Nat /\ upload.next \in Nat
    BY <1>1, BoundAssumption DEF Attempt, Upload
  <2> QED
    BY <1>2, <2>1, <2>2 DEF AttemptAgrees
<1> QED
  BY <1>3, <1>4

LEMMA UploaderAttempts ==
    ASSUME UploadInvariant, NEW a \in Attempt,
           \/ ChooseFile \/ StartUpload \/ Presigned \/ PutSucceeds \/ PutFails
           \/ ReceiveConfirmation \/ LoseConfirmation
    PROVE  AttemptAgrees(a)'
<1>1. /\ upload \in Upload /\ upload.next \in Nat /\ upload.first \in Nat
      /\ upload.first <= upload.next /\ MaxAttempt \in Nat /\ a \in Nat
      /\ object \in [Attempt -> {"missing", "stored", "oversized"}]
      /\ confirming \in [Attempt -> {"none", "sent", "head", "store", "ok", "refused"}]
  BY BoundAssumption DEF UploadInvariant, TypeOK, Upload, Attempt
<1>2. AttemptAgrees(a) /\ UploadSteps /\ TypeOK
  BY DEF UploadInvariant
<1>3. Current = upload.next - 1
  BY DEF Current
<1>4. CASE ChooseFile
  <2>1. /\ upload'.pc = "file" /\ upload'.first = upload.next /\ upload'.next = upload.next
        /\ UNCHANGED <<object, confirming, lost, replaced, item>>
    BY <1>1, <1>4 DEF ChooseFile, Upload, server, history
  <2> QED
    BY <1>1, <1>2, <2>1 DEF AttemptAgrees
<1>5. CASE StartUpload
  <2>1. /\ upload'.pc = "presign" /\ upload'.first = upload.first /\ upload'.next = upload.next
        /\ UNCHANGED <<object, confirming, lost, replaced, item>> /\ upload.pc = "file"
    BY <1>1, <1>5 DEF StartUpload, Upload, server, history
  <2> QED
    BY <1>2, <2>1 DEF AttemptAgrees
<1>6. CASE Presigned
  <2>1. upload.pc = "presign" /\ UNCHANGED <<object, confirming, lost, replaced, item>>
    BY <1>6 DEF Presigned, server, history
  <2>2. CASE UploadFails
    BY <1>2, <2>1, <2>2, FailTypes DEF AttemptAgrees
  <2>3. CASE upload' = [upload EXCEPT !.pc = "put", !.next = @ + 1]
    <3>1. /\ upload'.pc = "put" /\ upload'.first = upload.first
          /\ upload'.next = upload.next + 1 /\ Current' = upload.next
      BY <1>1, <2>3 DEF Upload, Current
    <3> QED
      BY <1>1, <1>2, <2>1, <3>1 DEF AttemptAgrees
  <2> QED
    BY <1>6, <2>2, <2>3 DEF Presigned
<1>7. CASE PutSucceeds
  <2>1. /\ upload'.pc = "confirm" /\ upload'.first = upload.first
        /\ upload'.next = upload.next /\ Current' = Current /\ upload.pc = "put"
        /\ UNCHANGED <<item, lost, replaced>>
    BY <1>1, <1>7 DEF PutSucceeds, Upload, Current, history
  <2>2. /\ confirming' = [confirming EXCEPT ![Current] = "sent"]
        /\ a # Current => object'[a] = object[a]
    BY <1>1, <1>7 DEF PutSucceeds
  <2>3. Current < upload.next
    BY <1>1, <1>3
  <2> QED
    BY <1>1, <1>2, <2>1, <2>2, <2>3 DEF AttemptAgrees
<1>8. CASE PutFails
  <2>1. upload.pc = "put" /\ UNCHANGED <<item, lost, replaced, confirming>> /\ UploadFails
    BY <1>8 DEF PutFails, history
  <2>2. /\ upload'.pc = "file" /\ upload'.first = upload.first
        /\ upload'.next = upload.next /\ Current' = Current
    BY <2>1, <1>2, FailTypes DEF Current
  <2>3. a # Current => object'[a] = object[a]
    BY <1>1, <1>8 DEF PutFails
  <2>4. Current < upload.next
    BY <1>1, <1>3
  <2> QED
    BY <1>1, <1>2, <2>1, <2>2, <2>3, <2>4 DEF AttemptAgrees
<1>9. CASE ReceiveConfirmation
  <2>1. upload.pc = "confirm" /\ UNCHANGED <<object, confirming, lost, replaced, item>>
    BY <1>9 DEF ReceiveConfirmation, server, history
  <2>2. CASE UploadFails /\ confirming[Current] = "refused"
    BY <1>2, <2>1, <2>2, FailTypes DEF AttemptAgrees
  <2>3. CASE upload' = [upload EXCEPT !.pc = "empty", !.first = upload.next]
    <3>1. upload'.pc = "empty" /\ upload'.first = upload.next /\ upload'.next = upload.next
      BY <1>1, <2>3 DEF Upload
    <3> QED
      BY <1>1, <1>2, <2>1, <3>1 DEF AttemptAgrees
  <2> QED
    BY <1>9, <2>2, <2>3 DEF ReceiveConfirmation
<1>10. CASE LoseConfirmation
  <2>1. /\ upload.pc = "confirm" /\ UNCHANGED <<object, confirming, replaced, item>> /\ UploadFails
        /\ lost' = lost \cup {Current}
    BY <1>10 DEF LoseConfirmation, server
  <2> QED
    BY <1>2, <2>1, FailTypes DEF AttemptAgrees
<1> QED
  BY <1>4, <1>5, <1>6, <1>7, <1>8, <1>9, <1>10

LEMMA ConfirmAttempts ==
    ASSUME UploadInvariant, NEW a \in Attempt, NEW b \in Attempt, Confirms(b)
    PROVE  AttemptAgrees(a)'
<1>1. /\ object \in [Attempt -> {"missing", "stored", "oversized"}]
      /\ confirming \in [Attempt -> {"none", "sent", "head", "store", "ok", "refused"}]
      /\ item \in Item /\ upload \in Upload
  BY DEF UploadInvariant, TypeOK
<1>2. AttemptAgrees(a)
  BY DEF UploadInvariant
<1>3. UNCHANGED <<upload, lost, replaced>> /\ Current' = Current
  BY DEF Confirms, CheckConfirm, HeadObject, StoreEvidence, ConfirmFails, Current, history
<1>4. CASE CheckConfirm(b)
  <2>1. /\ UNCHANGED <<object, item>> /\ confirming[b] = "sent"
        /\ confirming'[b] \in {"head", "refused"}
        /\ a # b => confirming'[a] = confirming[a]
    BY <1>1, <1>4 DEF CheckConfirm
  <2> QED
    BY <1>2, <1>3, <2>1 DEF AttemptAgrees
<1>5. CASE HeadObject(b)
  <2>1. /\ UNCHANGED item /\ confirming[b] = "head"
        /\ confirming'[b] \in {"store", "refused"}
        /\ confirming'[b] = "store" => object'[b] = "stored"
        /\ a # b => confirming'[a] = confirming[a] /\ object'[a] = object[a]
    BY <1>1, <1>5 DEF HeadObject
  <2> QED
    BY <1>2, <1>3, <2>1 DEF AttemptAgrees
<1>6. CASE StoreEvidence(b)
  <2>1. /\ UNCHANGED object /\ confirming[b] = "store"
        /\ confirming'[b] = "ok" /\ item'.evidence = item.evidence \cup {b}
        /\ a # b => confirming'[a] = confirming[a]
    BY <1>1, <1>6 DEF StoreEvidence, Item
  <2> QED
    BY <1>2, <1>3, <2>1 DEF AttemptAgrees
<1>7. CASE ConfirmFails(b)
  <2>1. /\ UNCHANGED <<object, item>> /\ confirming[b] \in {"sent", "head", "store"}
        /\ confirming'[b] = "refused"
        /\ a # b => confirming'[a] = confirming[a]
    BY <1>1, <1>7 DEF ConfirmFails
  <2> QED
    BY <1>2, <1>3, <2>1 DEF AttemptAgrees
<1> QED
  BY <1>4, <1>5, <1>6, <1>7 DEF Confirms

\* Only an attempt that was made is replaced, and its replacement is known of if
\* it comes after the check.
LEMMA PutAgainAttempts ==
    ASSUME UploadInvariant, NEW a \in Attempt, NEW b \in Attempt, PutAgain(b)
    PROVE  AttemptAgrees(a)'
<1>1. /\ object \in [Attempt -> {"missing", "stored", "oversized"}]
      /\ upload.next \in Nat /\ a \in Nat /\ b \in Nat
  BY BoundAssumption DEF UploadInvariant, TypeOK, Upload, Attempt
<1>2. AttemptAgrees(a)
  BY DEF UploadInvariant
<1>3. UNCHANGED <<upload, lost, item, confirming>> /\ Current' = Current /\ b < upload.next
  BY DEF PutAgain, Current
<1>4. CASE a = b
  <2>1. object'[a] \in {"stored", "oversized"}
    BY <1>1, <1>4 DEF PutAgain
  <2>2. confirming[a] \in {"store", "ok"} => a \in replaced'
    BY <1>4 DEF PutAgain
  <2>3. ~(a >= upload.next)
    BY <1>1, <1>3, <1>4
  <2> QED
    BY <1>2, <1>3, <2>1, <2>2, <2>3 DEF AttemptAgrees
<1>5. CASE a # b
  <2>1. object'[a] = object[a] /\ (a \in replaced => a \in replaced')
    BY <1>1, <1>5 DEF PutAgain
  <2> QED
    BY <1>2, <1>3, <2>1 DEF AttemptAgrees
<1> QED
  BY <1>4, <1>5

LEMMA NextUpload == UploadInvariant /\ [Next]_vars => UploadInvariant'
<1> SUFFICES ASSUME UploadInvariant, [Next]_vars PROVE UploadInvariant'
  OBVIOUS
<1>1. TypeOK' /\ UploadSteps'
  BY NextTypes DEF UploadInvariant
<1>2. ASSUME NEW a \in Attempt PROVE AttemptAgrees(a)'
  <2>1. CASE \/ ChooseFile \/ StartUpload \/ Presigned \/ PutSucceeds \/ PutFails
             \/ ReceiveConfirmation \/ LoseConfirmation
    BY <2>1, UploaderAttempts
  <2>2. CASE \E b \in Attempt : Confirms(b) \/ PutAgain(b)
    BY <2>2, ConfirmAttempts, PutAgainAttempts
  <2>3. CASE \/ Focus \/ OpenSheet \/ CloseSheet \/ Fetches
             \/ (\E c \in Call : Click(c)) \/ Calls
             \/ \E u \in User \ {Me}, c \in Call : ColleagueActs(u, c)
             \/ \E ro \in {"ADMIN", "DEV"} : RoleChanges(ro)
             \/ UNCHANGED vars
    <3>1. TypeOK /\ UploadSteps
      BY DEF UploadInvariant
    <3> QED
      BY <2>3, <3>1, OtherSteps, OtherAttempts
  <2> QED
    BY <2>1, <2>2, <2>3 DEF Next, Uploads
<1> QED
  BY <1>1, <1>2 DEF UploadInvariant

\* What is known of an attempt stays true through retries, lost answers and
\* handlers that go on after the browser gave up.
THEOREM UploadInvariance == Spec => []UploadInvariant
<1>1. Init => UploadInvariant
  BY InitTypes, InitSteps, InitAttempts DEF UploadInvariant
<1> QED
  BY <1>1, NextUpload, PTL DEF Spec

\* The object behind an Evidence row is in the bucket, whatever answers are lost,
\* whoever else works on the item and however often an address is used again; it
\* is too large only if it was replaced after its size was checked.
THEOREM StoredEvidence == Spec => []EvidenceHasObject
<1>1. UploadInvariant => EvidenceHasObject
  <2> SUFFICES ASSUME UploadInvariant, NEW a \in item.evidence
               PROVE  object[a] = "stored" \/ (object[a] = "oversized" /\ a \in replaced)
    BY DEF EvidenceHasObject
  <2>1. a \in Attempt
    BY DEF UploadInvariant, TypeOK, Item
  <2> QED
    BY <2>1 DEF UploadInvariant, AttemptAgrees
<1> QED
  BY <1>1, UploadInvariance, PTL

\* A file that is tried again was not recorded already, unless an answer was lost.
THEOREM RecordedOnce == Spec => []HeldFileNotRecorded
<1>1. UploadInvariant => HeldFileNotRecorded
  BY DEF UploadInvariant, AttemptAgrees, HeldFileNotRecorded
<1> QED
  BY <1>1, UploadInvariance, PTL

-----------------------------------------------------------------------------
(* What the sheet shows of its own writes *)

\* The answer to a write has reached the browser or is on its way to it.
Owed ==
    control.pc = "ok" \/ (upload.pc = "confirm" /\ confirming[Current] = "ok")

\* The inductive invariant: data that lack a write and are taken for current, or an
\* answer read before it, are there only until the sheet has been told of the
\* write, or if it never will be.
Told ==
    (query.lacks /\ ~query.stale) \/ query.fetch = "old" => untold \/ Owed

\* A sheet that waits for an answer is open, so the answer fetches its query.
InUse ==
    control.pc \notin {"idle", "stuck"} \/ upload.pc \notin {"empty", "file"} => open

\* A handler that will still record an upload is the one the uploader waits for,
\* or it was given up.
Waited ==
    \A a \in Attempt : confirming[a] \in {"sent", "head", "store"} =>
        a \in lost \/ (upload.pc = "confirm" /\ a = Current)

Awaited == Told /\ InUse /\ Waited

LEMMA RenderKeeps ==
    ASSUME TypeOK, NEW who, NEW row, Render(who, row)
    PROVE  /\ control' = control \/ (control.pc = "stuck" /\ control'.pc = "idle")
           /\ \/ upload' = upload
              \/ upload.pc = "file" /\ upload'.pc = "empty"
BY DEF Render, NoControl, TypeOK, Upload

\* A step that tells nobody anything, and one that only moves the sheet's fetch.
LEMMA QuietStep ==
    ASSUME TypeOK, Awaited,
           UNCHANGED <<confirming, lost>>,
           \/ control' = control
           \/ control.pc \in {"idle", "stuck"} /\ control'.pc \in {"idle", "stuck"},
           \/ upload' = upload
           \/ upload.pc \in {"empty", "file"} /\ upload'.pc \in {"empty", "file"},
           \/ open' = open
           \/ open'
           \/ control.pc \in {"idle", "stuck"} /\ upload.pc \in {"empty", "file"},
           (query'.lacks /\ ~query'.stale) \/ query'.fetch = "old" =>
               untold' \/ Owed
    PROVE  Awaited'
<1>1. Owed => Owed'
  BY DEF Owed, Current
<1>2. Waited'
  BY DEF Awaited, Waited, Current
<1>3. InUse'
  BY DEF Awaited, InUse
<1> QED
  BY <1>1, <1>2, <1>3 DEF Awaited, Told

LEMMA FetchAwaits ==
    ASSUME TypeOK, Awaited, Focus \/ OpenSheet \/ CloseSheet \/ Fetches
    PROVE  Awaited'
<1> DEFINE Fresh == (query'.lacks /\ ~query'.stale) \/ query'.fetch = "old" => untold' \/ Owed
<1>0. query \in QueryState /\ untold \in BOOLEAN /\ Told
  BY DEF TypeOK, Awaited
<1>1. CASE Focus
  <2>1. Render(role[Me], shown) /\ UNCHANGED <<confirming, lost, open, untold>>
    BY <1>1 DEF Focus, server, history
  <2>2. Fresh
    BY <1>0, <1>1, <2>1 DEF Focus, Fetch, Told, QueryState
  <2> QED
    BY <2>1, <2>2, RenderKeeps, QuietStep
<1>2. CASE OpenSheet
  <2>1. Fresh
    BY <1>0, <1>2 DEF OpenSheet, Fetch, Told, QueryState, history
  <2> QED
    BY <1>2, <2>1, QuietStep DEF OpenSheet, server, history
<1>3. CASE CloseSheet
  <2>1. Fresh
    BY <1>0, <1>3 DEF CloseSheet, Told, cacheVars, history
  <2>2. control'.pc = "idle" /\ upload'.pc = "empty"
    BY <1>3 DEF CloseSheet, NoControl, TypeOK, Upload
  <2> QED
    BY <1>3, <2>1, <2>2, QuietStep DEF CloseSheet, server, history
<1>4. CASE ServeFetch
  <2>1. Fresh
    BY <1>0, <1>4 DEF ServeFetch, FetchFailed, Told, QueryState, history
  <2> QED
    BY <1>4, <2>1, QuietStep DEF ServeFetch, server, history
<1>5. CASE ReceiveFetch
  <2>1. Render(me, answer) /\ UNCHANGED <<confirming, lost, open>>
    BY <1>5 DEF ReceiveFetch, server
  <2>2. Fresh
    BY <1>0, <1>5 DEF ReceiveFetch, Told, QueryState
  <2> QED
    BY <2>1, <2>2, RenderKeeps, QuietStep
<1>6. CASE LoseFetch
  <2>1. Fresh
    BY <1>0, <1>6 DEF LoseFetch, FetchFailed, Told, QueryState, history
  <2> QED
    BY <1>6, <2>1, QuietStep DEF LoseFetch, server, history
<1> QED
  BY <1>1, <1>2, <1>3, <1>4, <1>5, <1>6 DEF Fetches

\* An answer that says that something was written: the query is fetched again.
LEMMA InvalidateTold ==
    ASSUME TypeOK, open, Invalidate
    PROVE  query'.stale = TRUE /\ query'.fetch = "sent"
BY DEF Invalidate, TypeOK, QueryState

LEMMA CallAwaits ==
    ASSUME TypeOK, Awaited, (\E c \in Call : Click(c)) \/ Calls
    PROVE  Awaited'
<1>0. /\ query \in QueryState /\ untold \in BOOLEAN /\ control \in Control
      /\ Told /\ InUse /\ Waited
  BY DEF TypeOK, Awaited
<1>1. UNCHANGED <<upload, confirming, lost, open>> /\ Current' = Current /\ Waited'
  BY <1>0 DEF Click, Calls, ServeCall, ReceiveOk, ReceiveRefusal, LoseAnswer, server, history,
              Current, Waited
<1>2. ASSUME NEW c \in Call, Click(c) PROVE Awaited'
  <2>1. control.pc = "idle" /\ control'.pc = "sent" /\ open /\ UNCHANGED <<query, untold>>
    BY <1>2 DEF Click, cacheVars, history
  <2> QED
    BY <1>0, <1>1, <2>1 DEF Awaited, Told, InUse, Owed
<1>3. CASE ServeCall
  <2>1. control.pc = "sent" /\ control'.pc \in {"ok", "refused"} /\ open
    BY <1>0, <1>3 DEF ServeCall, Control, InUse
  <2>2. CASE Accepts(Me, control.call)
    <3>1. untold' = (untold \/ control'.pc = "refused")
      BY <1>0, <1>3, <2>2 DEF ServeCall, Control
    <3>2. untold' \/ Owed'
      BY <2>1, <3>1 DEF Owed
    <3> QED
      BY <1>0, <1>1, <2>1, <3>2 DEF Awaited, Told, InUse
  <2>3. CASE ~Accepts(Me, control.call)
    <3>1. UNCHANGED <<query, untold>>
      BY <1>3, <2>3 DEF ServeCall
    <3> QED
      BY <1>0, <1>1, <2>1, <3>1 DEF Awaited, Told, InUse, Owed
  <2> QED
    BY <2>2, <2>3
<1>4. CASE ReceiveOk
  <2>1. control.pc = "ok" /\ control'.pc = "idle" /\ Invalidate
    BY <1>4 DEF ReceiveOk, NoControl
  <2>2. query'.stale = TRUE /\ query'.fetch = "sent"
    BY <1>0, <2>1, InvalidateTold DEF InUse
  <2> QED
    BY <1>0, <1>1, <2>1, <2>2 DEF Awaited, Told, InUse
<1>5. CASE ReceiveRefusal \/ LoseAnswer
  <2>1. /\ control'.pc \in {"idle", "stuck"} /\ query' = query
        /\ untold' = (untold \/ control.pc = "ok")
    BY <1>0, <1>5 DEF ReceiveRefusal, LoseAnswer, NoControl, Control, cacheVars, history
  <2> QED
    BY <1>0, <1>1, <2>1 DEF Awaited, Told, InUse, Owed
<1> QED
  BY <1>2, <1>3, <1>4, <1>5 DEF Calls

LEMMA UploaderAwaits ==
    ASSUME TypeOK, Awaited,
           \/ ChooseFile \/ StartUpload \/ Presigned \/ PutSucceeds \/ PutFails
           \/ ReceiveConfirmation \/ LoseConfirmation
    PROVE  Awaited'
<1>0. /\ query \in QueryState /\ untold \in BOOLEAN /\ upload \in Upload
      /\ Told /\ InUse /\ Waited
      /\ confirming \in [Attempt -> {"none", "sent", "head", "store", "ok", "refused"}]
  BY DEF TypeOK, Awaited
<1>1. UNCHANGED <<control, open>>
  BY DEF ChooseFile, StartUpload, Presigned, PutSucceeds, PutFails, ReceiveConfirmation,
         LoseConfirmation
<1>2. CASE ChooseFile \/ StartUpload \/ Presigned \/ PutFails
  <2>1. /\ upload.pc # "confirm" /\ upload'.pc # "confirm"
        /\ UNCHANGED <<query, untold, confirming, lost>>
        /\ upload'.pc \notin {"empty", "file"} => open
    BY <1>0, <1>2 DEF ChooseFile, StartUpload, Presigned, PutFails, UploadFails, Upload, InUse,
                      server, cacheVars, history
  <2> QED
    BY <1>0, <1>1, <2>1 DEF Awaited, Told, InUse, Waited, Owed
<1>3. CASE PutSucceeds
  <2>1. /\ upload.pc = "put" /\ upload'.pc = "confirm" /\ Current' = Current
        /\ UNCHANGED <<query, untold, lost>> /\ open
        /\ confirming' = [confirming EXCEPT ![Current] = "sent"]
    BY <1>0, <1>3 DEF PutSucceeds, Upload, InUse, Current, cacheVars, history
  <2>2. Waited'
    BY <1>0, <2>1 DEF Waited
  <2> QED
    BY <1>0, <1>1, <2>1, <2>2 DEF Awaited, Told, InUse, Owed
<1>4. CASE ReceiveConfirmation
  <2>1. /\ upload.pc = "confirm" /\ upload'.pc \in {"empty", "file"} /\ open
        /\ confirming[Current] \in {"ok", "refused"}
        /\ UNCHANGED <<confirming, lost, untold>>
    BY <1>0, <1>4 DEF ReceiveConfirmation, UploadFails, Upload, InUse, server, history
  <2>2. Waited'
    BY <1>0, <2>1 DEF Waited
  <2>3. CASE confirming[Current] = "ok"
    <3>1. query'.stale = TRUE /\ query'.fetch = "sent"
      BY <1>4, <2>1, <2>3, InvalidateTold DEF ReceiveConfirmation
    <3> QED
      BY <1>0, <1>1, <2>1, <2>2, <3>1 DEF Awaited, Told, InUse
  <2>4. CASE confirming[Current] = "refused"
    <3>1. query' = query
      BY <1>4, <2>4 DEF ReceiveConfirmation
    <3> QED
      BY <1>0, <1>1, <2>1, <2>2, <2>4, <3>1 DEF Awaited, Told, InUse, Owed
  <2> QED
    BY <2>1, <2>3, <2>4
<1>5. CASE LoseConfirmation
  <2>1. /\ upload.pc = "confirm" /\ upload'.pc = "file"
        /\ UNCHANGED <<query, confirming>> /\ lost' = lost \cup {Current}
        /\ untold' = (untold \/ confirming[Current] = "ok")
    BY <1>0, <1>5 DEF LoseConfirmation, UploadFails, Upload, server, cacheVars
  <2>2. Waited'
    BY <1>0, <2>1 DEF Waited
  <2> QED
    BY <1>0, <1>1, <2>1, <2>2 DEF Awaited, Told, InUse, Owed
<1> QED
  BY <1>2, <1>3, <1>4, <1>5

LEMMA ConfirmAwaits ==
    ASSUME TypeOK, UploadSteps, Awaited, NEW a \in Attempt, Confirms(a)
    PROVE  Awaited'
<1>0. /\ untold \in BOOLEAN /\ Told /\ InUse /\ Waited
      /\ confirming \in [Attempt -> {"none", "sent", "head", "store", "ok", "refused"}]
  BY DEF TypeOK, Awaited
<1>1. UNCHANGED <<control, upload, open, lost>> /\ Current' = Current /\ InUse'
  BY <1>0 DEF Confirms, CheckConfirm, HeadObject, StoreEvidence, ConfirmFails, history, Current,
              InUse
<1>2. /\ confirming[a] \in {"sent", "head", "store"}
      /\ \A b \in Attempt : b # a => confirming'[b] = confirming[b]
  BY <1>0 DEF Confirms, CheckConfirm, HeadObject, StoreEvidence, ConfirmFails
<1>3. Waited'
  BY <1>0, <1>1, <1>2 DEF Waited
<1>4. CASE CheckConfirm(a) \/ HeadObject(a) \/ ConfirmFails(a)
  <2>1. UNCHANGED <<query, untold>>
    BY <1>4 DEF CheckConfirm, HeadObject, ConfirmFails, cacheVars, history
  <2>2. upload.pc = "confirm" => Current \in Attempt
    <3>1. upload.next \in Nat /\ upload.first \in Nat \ {0}
      BY BoundAssumption DEF TypeOK, Upload, Attempt
    <3> QED
      BY <3>1, CurrentAttempt DEF UploadSteps
  <2>3. Owed => Owed'
    BY <1>1, <1>2, <2>2 DEF Owed
  <2> QED
    BY <1>0, <1>1, <1>3, <2>1, <2>3 DEF Awaited, Told
<1>5. CASE StoreEvidence(a)
  <2>1. confirming'[a] = "ok" /\ untold' = (untold \/ a \in lost)
    BY <1>0, <1>5 DEF StoreEvidence
  <2>2. a \in lost \/ (upload.pc = "confirm" /\ a = Current)
    BY <1>0, <1>2 DEF Waited
  <2>3. untold' \/ Owed'
    BY <1>1, <2>1, <2>2 DEF Owed
  <2> QED
    BY <1>1, <1>3, <2>3 DEF Awaited, Told
<1> QED
  BY <1>4, <1>5 DEF Confirms

LEMMA NextAwaits == TypeOK /\ UploadSteps /\ Awaited /\ [Next]_vars => Awaited'
<1> SUFFICES ASSUME TypeOK, UploadSteps, Awaited, [Next]_vars PROVE Awaited'
  OBVIOUS
<1>1. ASSUME UNCHANGED <<query, control, upload, confirming, open, lost, untold>>
      PROVE  Awaited'
  BY <1>1 DEF Awaited, Told, InUse, Waited, Owed, Current
<1>2. ASSUME NEW u \in User, NEW c \in Call, ColleagueActs(u, c) PROVE Awaited'
  BY <1>1, <1>2 DEF ColleagueActs, cacheVars, history
<1>3. ASSUME NEW ro \in {"ADMIN", "DEV"}, RoleChanges(ro) PROVE Awaited'
  BY <1>1, <1>3 DEF RoleChanges, cacheVars, history
<1>4. CASE UNCHANGED vars
  BY <1>1, <1>4 DEF vars, server, cacheVars, history
<1>5. ASSUME NEW a \in Attempt, PutAgain(a) PROVE Awaited'
  BY <1>1, <1>5 DEF PutAgain, cacheVars
<1> QED
  BY <1>2, <1>3, <1>4, <1>5, FetchAwaits, CallAwaits, UploaderAwaits, ConfirmAwaits DEF Next, Uploads

\* Once the browser has finished with its calls and uploads, what the open sheet
\* shows includes the writes it was told of: a write is missing only if its answer
\* was lost or was an error.
THEOREM OwnWrites == Spec => []ShowsOwnWrites
<1>1. Init => Awaited
  BY DEF Init, Awaited, Told, InUse, Waited, NoControl
<1>2. Awaited => ShowsOwnWrites
  BY DEF Awaited, Told, ShowsOwnWrites, Settled, Owed
<1>3. UploadInvariant => TypeOK /\ UploadSteps
  BY DEF UploadInvariant
<1> QED
  BY <1>1, <1>2, <1>3, NextAwaits, UploadInvariance, PTL DEF Spec

-----------------------------------------------------------------------------
(* The guards of the sheets and those of the services.  The tables are     *)
(* written twice: what each says is worked out separately and compared.    *)

LEMMA ClientTables ==
    ASSUME NEW who \in {"ADMIN", "DEV"}, NEW p \in Permission
    PROVE  Client!may(who, p) <=> hasPermission(who, p)
BY DEF Client!may, Client!ROLE_PERMISSIONS, Client!Shared!Role, Client!Shared!Permission,
       hasPermission, ROLE_PERMISSIONS, Role, Permission

LEMMA UploadsAgree ==
    ASSUME item \in Item, role[Me] \in {"ADMIN", "DEV"}
    PROVE  OffersUpload(role[Me], item) <=> AcceptsUpload(Me)
<1>1. item # None
  BY RowAssumption
<1>2. Client!may(role[Me], "EVIDENCE_UPLOAD") <=> hasPermission(role[Me], "EVIDENCE_UPLOAD")
  BY ClientTables DEF Permission
<1>3. CASE kind = "finding"
  BY <1>1, <1>2, <1>3
     DEF OffersUpload, AcceptsUpload, Readable, Mine, Client!canUploadEvidence, Client!owns,
         canUploadEvidence, EVIDENCE_UPLOAD_STATUSES, isAdminRole
<1>4. CASE kind # "finding"
  BY <1>1, <1>2, <1>4
     DEF OffersUpload, AcceptsUpload, Readable, Mine, Client!canUploadTaskEvidence, Client!owns,
         canUploadTaskEvidence, isAdminRole
<1> QED
  BY <1>3, <1>4

\* The edges of the two tables, as the services look them up.
LEMMA AcceptedStatus ==
    ASSUME item \in Item, role[Me] \in {"ADMIN", "DEV"}, NEW to \in FindingStatus
    PROVE  AcceptsStatus(Me, to) <=>
              \/ /\ item.status = "ASSIGNED" /\ to = "IN_PROGRESS"
                 /\ role[Me] = "ADMIN" \/ item.assignee = Me
              \/ /\ item.status = "IN_PROGRESS" /\ to = "EVIDENCE_SUBMITTED"
                 /\ role[Me] = "ADMIN" \/ item.assignee = Me
                 /\ item.evidence # {}
              \/ /\ item.status = "EVIDENCE_SUBMITTED" /\ to = "UNDER_REVIEW"
                 /\ role[Me] = "ADMIN"
<1> USE DEF AcceptsStatus, Readable, hasPermission, ROLE_PERMISSIONS, Role, Permission, isAdminRole
<1>1. CASE kind = "finding"
  BY <1>1 DEF FINDING_TRANSITIONS, canActorTransition
<1>2. CASE kind # "finding"
  BY <1>2 DEF TASK_TRANSITIONS, canActorTransitionTask
<1> QED
  BY <1>1, <1>2

LEMMA OfferedStatus ==
    ASSUME item \in Item, role[Me] \in {"ADMIN", "DEV"}, NEW c \in Call, c.do = "status"
    PROVE  c \in Offers(role[Me], item) <=>
              \/ /\ item.status = "ASSIGNED" /\ c.to = "IN_PROGRESS"
                 /\ role[Me] = "ADMIN" \/ item.assignee = Me
              \/ /\ item.status = "IN_PROGRESS" /\ c.to = "EVIDENCE_SUBMITTED"
                 /\ role[Me] = "ADMIN" \/ item.assignee = Me
                 /\ item.evidence # {}
              \/ /\ item.status = "EVIDENCE_SUBMITTED" /\ c.to = "UNDER_REVIEW"
                 /\ role[Me] = "ADMIN"
<1>1. item # None
  BY RowAssumption
<1>2. /\ c = Status(c.to) /\ c \notin Candidates(item)
      /\ \A to : c = Status(to) <=> c.to = to
  BY DEF Call, Status, Candidates
<1>3. \A p \in Permission : Client!may(role[Me], p) <=> hasPermission(role[Me], p)
  BY ClientTables
<1>4. /\ hasPermission(role[Me], "FINDINGS_WORK") /\ hasPermission(role[Me], "TASKS_WORK")
      /\ hasPermission(role[Me], "FINDINGS_REVIEW") <=> role[Me] = "ADMIN"
      /\ hasPermission(role[Me], "TASKS_REVIEW") <=> role[Me] = "ADMIN"
      /\ {"FINDINGS_WORK", "TASKS_WORK", "FINDINGS_REVIEW", "TASKS_REVIEW"} \subseteq Permission
  BY DEF hasPermission, ROLE_PERMISSIONS, Role, Permission
<1> HIDE DEF Permission
<1>5. CASE kind = "finding"
  BY <1>1, <1>2, <1>3, <1>4, <1>5
     DEF Offers, FindingSheetOffers, Mine, Client!canStartWork, Client!canSubmitForReview,
         Client!canClaimForReview, Client!canReview, Client!owns
<1>6. CASE kind # "finding"
  BY <1>1, <1>2, <1>3, <1>4, <1>6
     DEF Offers, TaskSheetOffers, Mine, Client!canStartTaskWork, Client!canSubmitTaskForReview,
         Client!canClaimTaskForReview, Client!canReviewTask, Client!owns
<1> QED
  BY <1>5, <1>6

LEMMA ReviewsAgree ==
    ASSUME item \in Item, role[Me] \in {"ADMIN", "DEV"}, NEW c \in Call, c.do = "review"
    PROVE  c \in Offers(role[Me], item) <=> AcceptsReview(Me)
<1>1. item # None
  BY RowAssumption
<1>2. c \notin Candidates(item) /\ \A to : c # Status(to)
  BY DEF Status, Candidates
<1>3. \A p \in {"FINDINGS_REVIEW", "TASKS_REVIEW"} :
          Client!may(role[Me], p) <=> hasPermission(role[Me], p)
  BY ClientTables DEF Permission
<1> QED
  BY <1>1, <1>2, <1>3
     DEF Offers, FindingSheetOffers, TaskSheetOffers, Client!canReview, Client!canReviewTask,
         AcceptsReview

LEMMA AssignmentsAgree ==
    ASSUME item \in Item, role[Me] \in {"ADMIN", "DEV"}, NEW c \in Call, c.do = "assign",
           item.status # "RESOLVED", c.to # item.assignee
    PROVE  c \in Offers(role[Me], item) <=> AcceptsAssign(Me, c.to)
<1>1. item # None
  BY RowAssumption
<1>2. \A to : c # Status(to)
  BY DEF Status
<1>3. c \in Candidates(item) <=> OrgAccount \/ c.to = Me
  BY MeAssumption DEF Candidates, Call
<1>4. \A p \in {"FINDINGS_ASSIGN", "TASKS_ASSIGN"} :
          Client!may(role[Me], p) <=> hasPermission(role[Me], p)
  BY ClientTables DEF Permission
<1> QED
  BY <1>1, <1>2, <1>3, <1>4
     DEF Offers, FindingSheetOffers, TaskSheetOffers, Client!canAssign, Client!canAssignTask,
         AcceptsAssign

\* A sheet offers what the services accept and nothing else, but for the two
\* calls named in SheetMatchesBackend.
THEOREM SheetsAgree == Spec => []SheetMatchesBackend
<1>1. TypeOK => SheetMatchesBackend
  <2> SUFFICES ASSUME TypeOK, shown = item, me = role[Me]
               PROVE  /\ OffersUpload(me, shown) <=> AcceptsUpload(Me)
                      /\ \A c \in Call :
                            \/ c.do = "assign" /\ (item.status = "RESOLVED" \/ c.to = item.assignee)
                            \/ c \in Offers(me, shown) <=> Accepts(Me, c)
    BY DEF SheetMatchesBackend
  <2>1. item \in Item /\ role[Me] \in {"ADMIN", "DEV"}
    BY MeAssumption DEF TypeOK
  <2>2. ASSUME NEW c \in Call
        PROVE  \/ c.do = "assign" /\ (item.status = "RESOLVED" \/ c.to = item.assignee)
               \/ c \in Offers(role[Me], item) <=> Accepts(Me, c)
    <3>1. CASE c.do = "status"
      <4>1. c.to \in FindingStatus
        BY <3>1 DEF Call
      <4> QED
        BY <2>1, <3>1, <4>1, AcceptedStatus, OfferedStatus DEF Accepts
    <3>2. CASE c.do = "review"
      BY <2>1, <3>2, ReviewsAgree DEF Accepts
    <3>3. CASE c.do = "assign"
      BY <2>1, <3>3, AssignmentsAgree DEF Accepts
    <3> QED
      BY <3>1, <3>2, <3>3 DEF Call
  <2> QED
    BY <2>1, <2>2, UploadsAgree
<1> QED
  BY <1>1, TypeCorrectness, PTL
=============================================================================
