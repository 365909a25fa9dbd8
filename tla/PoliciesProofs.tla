--------------------------- MODULE PoliciesProofs ---------------------------
(***************************************************************************)
(* Proofs about Policies and, at the end, about PolicyPages, for every set *)
(* of members, policies, trainings, texts and calls in flight, and any     *)
(* number of versions.                                                     *)
(***************************************************************************)
EXTENDS PolicyPages, TLAPS

-----------------------------------------------------------------------------
(* Type correctness, one lemma per kind of step *)

LEMMA InitTypes == Init => TypeOK
BY DEF Init, TypeOK, Idle, RequestRecord

LEMMA RowTypes ==
    ASSUME TypeOK, NEW p \in Policy, NEW m \in Member, NEW i \in DOMAIN acceptances[p][m]
    PROVE  /\ acceptances[p][m][i] \in Acceptance
           /\ acceptances[p][m][i].version \in Nat \ {0}
           /\ acceptances[p][m][i].version <= version[p]
<1>1. acceptances[p][m] \in Seq(Acceptance)
  BY DEF TypeOK
<1>2. acceptances[p][m][i] \in Acceptance
  BY <1>1
<1>3. acceptances[p][m][i].version <= version[p]
  BY DEF TypeOK
<1> QED
  BY <1>2, <1>3 DEF Acceptance

LEMMA CreateTypes ==
    ASSUME TypeOK, NEW m \in Member, NEW p \in Policy, NEW x \in Text, CreatePolicy(m, p, x)
    PROVE  TypeOK'
<1>1. /\ content[p] = None /\ x # None /\ version[p] = 0
      /\ content' = [content EXCEPT ![p] = x] /\ version' = [version EXCEPT ![p] = 1]
      /\ UNCHANGED <<acceptances, training, completions, req>>
  BY NoneAssumption DEF CreatePolicy, TypeOK, trainingVars
<1>2. \A n \in Member : \A i \in DOMAIN acceptances[p][n] :
          acceptances[p][n][i].version <= 1
  BY <1>1, RowTypes
<1>3. \A s \in Request : req[s].pc # "idle" => req[s].policy # p
  BY <1>1 DEF TypeOK
<1>4. /\ content' \in [Policy -> Text \cup {None}] /\ version' \in [Policy -> Nat]
      /\ \A q \in Policy : content'[q] = None <=> version'[q] = 0
  BY <1>1 DEF TypeOK
<1>5. \A s \in Request : req[s].pc # "idle" =>
          content'[req[s].policy] = content[req[s].policy] /\
          version'[req[s].policy] = version[req[s].policy]
  BY <1>1, <1>3 DEF TypeOK
<1>6. \A q \in Policy, n \in Member : \A i \in DOMAIN acceptances[q][n] :
          acceptances[q][n][i].version <= version'[q]
  BY <1>1, <1>2 DEF TypeOK
<1> QED
  BY <1>1, <1>4, <1>5, <1>6 DEF TypeOK

LEMMA EditTypes ==
    ASSUME TypeOK, NEW r \in Request, WriteUpdate(r)
    PROVE  TypeOK'
<1> DEFINE p == req[r].policy
<1>1. /\ p \in Policy /\ req[r].text \in Text /\ content[p] # None
      /\ version[p] \in Nat \ {0} /\ req[r].text # None
  BY NoneAssumption DEF WriteUpdate, TypeOK
<1>2. /\ content' = [content EXCEPT ![p] = req[r].text]
      /\ version' = [version EXCEPT ![p] = @ + 1]
      /\ req' = [req EXCEPT ![r] = Idle]
      /\ UNCHANGED <<acceptances, training, completions>>
  BY DEF WriteUpdate, Finish, trainingVars
<1>3. /\ content' \in [Policy -> Text \cup {None}] /\ version' \in [Policy -> Nat]
      /\ \A q \in Policy : /\ content'[q] = None <=> version'[q] = 0
                           /\ version[q] \in Nat /\ version'[q] \in Nat
                           /\ version[q] <= version'[q]
                           /\ content[q] # None => content'[q] # None
  BY <1>1, <1>2 DEF TypeOK
<1>4. \A q \in Policy, n \in Member : \A i \in DOMAIN acceptances[q][n] :
          acceptances[q][n][i].version <= version'[q]
  BY <1>3, RowTypes
<1>5. req' \in [Request -> RequestRecord] /\ req'[r].pc = "idle"
  BY <1>2 DEF TypeOK, Idle, RequestRecord
<1>6. \A s \in Request : s # r => req'[s] = req[s]
  BY <1>2 DEF TypeOK
<1>7. \A s \in Request : req[s].pc = "accept" => req[s].version \in 1..version'[req[s].policy]
  BY <1>3 DEF TypeOK, RequestRecord
<1> QED
  BY <1>2, <1>3, <1>4, <1>5, <1>6, <1>7 DEF TypeOK

LEMMA AcceptTypes ==
    ASSUME TypeOK, NEW r \in Request, WriteAccept(r)
    PROVE  TypeOK'
<1> DEFINE q == req[r]
           rows == acceptances[q.policy][q.member]
           row == [version |-> q.version, of |-> q.text]
<1>1. /\ q.policy \in Policy /\ q.member \in Member /\ q.text \in Text
      /\ q.version \in 1..version[q.policy] /\ version[q.policy] \in Nat
  BY DEF WriteAccept, TypeOK
<1>2. row \in Acceptance /\ rows \in Seq(Acceptance)
  <2>1. q.version \in Nat \ {0}
    BY <1>1
  <2>2. row \in Acceptance
    BY <1>1, <2>1 DEF Acceptance
  <2>3. rows \in Seq(Acceptance)
    BY <1>1 DEF TypeOK
  <2> QED
    BY <2>2, <2>3
<1>3. UNCHANGED <<content, version, training, completions>> /\ req' = [req EXCEPT ![r] = Idle]
  BY DEF WriteAccept, Finish, trainingVars
<1>4. CASE acceptances' = acceptances
  BY <1>3, <1>4 DEF TypeOK, Idle, RequestRecord
<1>5. CASE /\ \A i \in DOMAIN rows : rows[i].version # q.version
           /\ acceptances' = [acceptances EXCEPT ![q.policy][q.member] = Append(@, row)]
  <2>1. acceptances' \in [Policy -> [Member -> Seq(Acceptance)]]
    BY <1>1, <1>2, <1>5 DEF TypeOK
  <2>2. acceptances'[q.policy][q.member] = Append(rows, row)
    BY <1>1, <1>5 DEF TypeOK
  <2>3. \A p \in Policy, m \in Member : p # q.policy \/ m # q.member =>
            acceptances'[p][m] = acceptances[p][m]
    BY <1>1, <1>5 DEF TypeOK
  <2>4. \A i \in DOMAIN Append(rows, row) :
            \/ i \in DOMAIN rows /\ Append(rows, row)[i] = rows[i]
            \/ i = Len(rows) + 1 /\ Append(rows, row)[i] = row
    BY <1>2
  <2>5. \A i \in DOMAIN Append(rows, row) : Append(rows, row)[i].version <= version[q.policy]
    BY <1>1, <2>4 DEF TypeOK
  <2>6. \A i, j \in DOMAIN Append(rows, row) :
            Append(rows, row)[i].version = Append(rows, row)[j].version => i = j
    <3>1. \A i, j \in DOMAIN rows : rows[i].version = rows[j].version => i = j
      BY <1>1 DEF TypeOK
    <3>2. \A i \in DOMAIN rows : rows[i].version # row.version
      BY <1>5
    <3> QED
      BY <2>4, <3>1, <3>2
  <2>7. \A p \in Policy, m \in Member :
            /\ \A i \in DOMAIN acceptances'[p][m] : acceptances'[p][m][i].version <= version[p]
            /\ \A i, j \in DOMAIN acceptances'[p][m] :
                  acceptances'[p][m][i].version = acceptances'[p][m][j].version => i = j
    <3> TAKE p \in Policy, m \in Member
    <3>1. CASE p = q.policy /\ m = q.member
      <4>1. acceptances'[p][m] = Append(rows, row) /\ version[p] = version[q.policy]
        BY <3>1, <2>2
      <4> HIDE DEF q, rows, row
      <4> QED
        BY <4>1, <2>5, <2>6
    <3>2. CASE ~(p = q.policy /\ m = q.member)
      BY <3>2, <2>3 DEF TypeOK
    <3> QED
      BY <3>1, <3>2
  <2>8. /\ req' \in [Request -> RequestRecord] /\ req'[r].pc = "idle"
        /\ \A s \in Request : s # r => req'[s] = req[s]
    BY <1>3 DEF TypeOK, Idle, RequestRecord
  <2> QED
    BY <1>3, <2>1, <2>7, <2>8 DEF TypeOK
<1> QED
  BY <1>4, <1>5 DEF WriteAccept

LEMMA ReadTypes ==
    ASSUME TypeOK, NEW r \in Request, NEW m \in Member, NEW p \in Policy,
           (\E x \in Text : ReadUpdate(r, m, p, x)) \/ ReadAccept(r, m, p)
    PROVE  TypeOK'
<1>1. ASSUME NEW x \in Text, ReadUpdate(r, m, p, x) PROVE TypeOK'
  <2> DEFINE q == [Idle EXCEPT !.pc = "edit", !.policy = p, !.text = x]
  <2>1. /\ q \in RequestRecord /\ q.pc = "edit" /\ q.policy = p /\ q.text = x
    BY DEF Idle, RequestRecord
  <2>2. /\ req' = [req EXCEPT ![r] = q] /\ content[p] # None
        /\ UNCHANGED <<content, version, acceptances, training, completions>>
    BY <1>1 DEF ReadUpdate, Begin, policyVars, trainingVars
  <2> HIDE DEF q
  <2> QED
    BY <2>1, <2>2 DEF TypeOK
<1>2. CASE ReadAccept(r, m, p)
  <2>1. content[p] \in Text /\ version[p] \in Nat \ {0}
    BY <1>2 DEF ReadAccept, TypeOK
  <2> DEFINE q == [Idle EXCEPT !.pc = "accept", !.policy = p, !.member = m,
                               !.version = version[p], !.text = content[p]]
  <2>2. /\ q \in RequestRecord /\ q.pc = "accept" /\ q.policy = p /\ q.text \in Text
        /\ q.member = m /\ q.version \in 1..version[p]
    <3>1. version[p] \in Nat /\ version[p] \in 1..version[p]
      BY <2>1
    <3>2. /\ q.pc = "accept" /\ q.policy = p /\ q.member = m
          /\ q.version = version[p] /\ q.text = content[p]
      BY DEF Idle
    <3>3. q \in RequestRecord
      BY <2>1, <3>1 DEF Idle, RequestRecord
    <3> HIDE DEF q
    <3> QED
      BY <2>1, <3>1, <3>2, <3>3
  <2>3. /\ req' = [req EXCEPT ![r] = q] /\ content[p] # None
        /\ UNCHANGED <<content, version, acceptances, training, completions>>
    BY <1>2 DEF ReadAccept, Begin, policyVars, trainingVars
  <2> HIDE DEF q
  <2> QED
    BY <2>2, <2>3 DEF TypeOK
<1> QED
  BY <1>1, <1>2

LEMMA TrainingTypes ==
    ASSUME TypeOK, NEW m \in Member, NEW t \in Training,
           (\E x \in Text : SaveTraining(m, t, x)) \/ Complete(m, t)
    PROVE  TypeOK'
<1>1. /\ UNCHANGED <<content, version, acceptances, req>>
      /\ training' \in [Training -> Text \cup {None}]
      /\ completions' \in SUBSET (Training \X Member)
  BY DEF SaveTraining, Complete, policyVars, TypeOK
<1> QED
  BY <1>1 DEF TypeOK

LEMMA FailTypes ==
    ASSUME TypeOK, NEW r \in Request, HandlerFails(r)
    PROVE  TypeOK'
<1>1. /\ req' = [req EXCEPT ![r] = Idle]
      /\ UNCHANGED <<content, version, acceptances, training, completions>>
  BY DEF HandlerFails, Finish, policyVars, trainingVars
<1>2. /\ req' \in [Request -> RequestRecord] /\ req'[r].pc = "idle"
      /\ \A s \in Request : s # r => req'[s] = req[s]
  BY <1>1 DEF TypeOK, Idle, RequestRecord
<1> QED
  BY <1>1, <1>2 DEF TypeOK

LEMMA NextTypes == TypeOK /\ [Next]_vars => TypeOK'
<1> SUFFICES ASSUME TypeOK, [Next]_vars PROVE TypeOK'
  OBVIOUS
<1>1. CASE UNCHANGED vars
  BY <1>1 DEF vars, policyVars, trainingVars, TypeOK
<1> QED
  BY <1>1, CreateTypes, ReadTypes, TrainingTypes, EditTypes, AcceptTypes, FailTypes DEF Next

\* Rows of policies, acceptances and trainings keep their shape, no acceptance
\* is ahead of its policy, and a member has one for each version.
THEOREM TypeCorrectness == Spec => []TypeOK
BY InitTypes, NextTypes, PTL DEF Spec

-----------------------------------------------------------------------------
(* The content of a version *)

\* The inductive invariant: what was read under the version that is still in
\* force is the content that is still in force, in rows and in calls.
TextsAgree ==
    /\ \A p \in Policy, m \in Member : \A i \in DOMAIN acceptances[p][m] :
          acceptances[p][m][i].version = version[p] => acceptances[p][m][i].of = content[p]
    /\ \A r \in Request :
          req[r].pc = "accept" /\ req[r].version = version[req[r].policy] =>
              req[r].text = content[req[r].policy]

\* What a member is shown depends on the rows for the version in force only.
LEMMA LatestCounts ==
    ASSUME TypeOK, NEW p \in Policy, NEW m \in Member
    PROVE  toPublic(p, m) = "ACCEPTED" <=>
               \E i \in DOMAIN acceptances[p][m] : acceptances[p][m][i].version = version[p]
BY DEF TypeOK, toPublic

LEMMA InitTexts == Init => TextsAgree
BY DEF Init, TextsAgree, Idle

\* A step that leaves the rows and the policy of a call alone, and one that
\* edits or creates the policy under a version nobody can have accepted yet.
LEMMA CreateTexts ==
    ASSUME TypeOK, TextsAgree, NEW m \in Member, NEW p \in Policy, NEW x \in Text,
           CreatePolicy(m, p, x)
    PROVE  TextsAgree'
<1>1. /\ content[p] = None /\ version[p] = 0
      /\ content' = [content EXCEPT ![p] = x] /\ version' = [version EXCEPT ![p] = 1]
      /\ UNCHANGED <<acceptances, req>>
  BY DEF CreatePolicy, TypeOK
<1>2. \A n \in Member : \A i \in DOMAIN acceptances[p][n] : acceptances[p][n][i].version # 1
  <2> TAKE n \in Member
  <2> TAKE i \in DOMAIN acceptances[p][n]
  <2> QED
    BY <1>1 DEF TypeOK
<1>3. \A r \in Request : req[r].pc = "accept" => req[r].policy \in Policy \ {p}
  BY <1>1 DEF TypeOK
<1> QED
  BY <1>1, <1>2, <1>3 DEF TextsAgree, TypeOK

LEMMA EditTexts ==
    ASSUME TypeOK, TextsAgree, NEW r \in Request, WriteUpdate(r)
    PROVE  TextsAgree'
<1> DEFINE p == req[r].policy
<1>1. /\ p \in Policy /\ version[p] \in Nat
      /\ content' = [content EXCEPT ![p] = req[r].text]
      /\ version' = [version EXCEPT ![p] = @ + 1]
      /\ req' = [req EXCEPT ![r] = Idle]
      /\ acceptances' = acceptances
  BY DEF WriteUpdate, Finish, TypeOK
<1>2. \A n \in Member : \A i \in DOMAIN acceptances[p][n] :
          acceptances[p][n][i].version # version[p] + 1
  BY <1>1, RowTypes
<1>3. \A q \in Policy \ {p} : content'[q] = content[q] /\ version'[q] = version[q]
  BY <1>1 DEF TypeOK
<1>4. version'[p] = version[p] + 1
  BY <1>1 DEF TypeOK
<1>5. \A s \in Request : req'[s].pc = "accept" =>
          /\ req'[s] = req[s] /\ req[s].policy \in Policy
          /\ req[s].policy = p => req[s].version # version[p] + 1
  BY <1>1 DEF TypeOK, Idle
<1> QED
  BY <1>1, <1>2, <1>3, <1>4, <1>5 DEF TextsAgree

LEMMA AcceptTexts ==
    ASSUME TypeOK, TextsAgree, NEW r \in Request, WriteAccept(r)
    PROVE  TextsAgree'
<1> DEFINE q == req[r]
           rows == acceptances[q.policy][q.member]
           row == [version |-> q.version, of |-> q.text]
<1>1. /\ q.policy \in Policy /\ q.member \in Member /\ q.pc = "accept"
      /\ req' = [req EXCEPT ![r] = Idle] /\ UNCHANGED <<content, version>>
  BY DEF WriteAccept, Finish, TypeOK
<1>2. \A s \in Request : req'[s].pc = "accept" => req'[s] = req[s]
  BY <1>1 DEF TypeOK, Idle
<1>3. CASE acceptances' = acceptances
  BY <1>1, <1>2, <1>3 DEF TextsAgree
<1>4. CASE acceptances' = [acceptances EXCEPT ![q.policy][q.member] = Append(@, row)]
  <2>1. /\ acceptances'[q.policy][q.member] = Append(rows, row)
        /\ \A p \in Policy, m \in Member : p # q.policy \/ m # q.member =>
              acceptances'[p][m] = acceptances[p][m]
    BY <1>1, <1>4 DEF TypeOK
  <2>2. rows \in Seq(Acceptance)
    BY <1>1 DEF TypeOK
  <2>3. \A i \in DOMAIN Append(rows, row) :
            \/ i \in DOMAIN rows /\ Append(rows, row)[i] = rows[i]
            \/ Append(rows, row)[i] = row
    BY <2>2
  <2>4. row.version = version[q.policy] => row.of = content[q.policy]
    BY <1>1 DEF TextsAgree
  <2>5. \A i \in DOMAIN Append(rows, row) :
            Append(rows, row)[i].version = version[q.policy] =>
                Append(rows, row)[i].of = content[q.policy]
    <3>1. \A i \in DOMAIN rows :
              rows[i].version = version[q.policy] => rows[i].of = content[q.policy]
      BY <1>1 DEF TextsAgree
    <3> QED
      BY <2>3, <2>4, <3>1
  <2>6. \A p \in Policy, m \in Member : \A i \in DOMAIN acceptances'[p][m] :
            acceptances'[p][m][i].version = version[p] =>
                acceptances'[p][m][i].of = content[p]
    <3> TAKE p \in Policy, m \in Member
    <3>1. CASE p = q.policy /\ m = q.member
      <4>1. /\ acceptances'[p][m] = Append(rows, row)
            /\ version[p] = version[q.policy] /\ content[p] = content[q.policy]
        BY <3>1, <2>1
      <4> HIDE DEF q, rows, row
      <4> QED
        BY <4>1, <2>5
    <3>2. CASE ~(p = q.policy /\ m = q.member)
      <4>1. acceptances'[p][m] = acceptances[p][m]
        BY <3>2, <2>1
      <4>2. \A i \in DOMAIN acceptances[p][m] :
                acceptances[p][m][i].version = version[p] =>
                    acceptances[p][m][i].of = content[p]
        BY DEF TextsAgree
      <4> QED
        BY <4>1, <4>2
    <3> QED
      BY <3>1, <3>2
  <2> QED
    BY <1>1, <1>2, <2>6 DEF TextsAgree
<1> QED
  BY <1>3, <1>4 DEF WriteAccept

LEMMA OtherTexts ==
    ASSUME TypeOK, TextsAgree, NEW m \in Member,
           \/ \E r \in Request, p \in Policy :
                 (\E x \in Text : ReadUpdate(r, m, p, x)) \/ ReadAccept(r, m, p)
           \/ \E t \in Training : (\E x \in Text : SaveTraining(m, t, x)) \/ Complete(m, t)
    PROVE  TextsAgree'
<1>1. UNCHANGED <<content, version, acceptances>>
  BY DEF ReadUpdate, ReadAccept, SaveTraining, Complete, policyVars
<1>2. ASSUME NEW s \in Request, req'[s].pc = "accept" PROVE
          req'[s] = req[s] \/ req'[s].text = content[req'[s].policy]
  <2>1. CASE req' = req
    BY <2>1
  <2>2. ASSUME NEW r \in Request, NEW p \in Policy, NEW x \in Text, ReadUpdate(r, m, p, x)
        PROVE  req'[s] = req[s]
    BY <1>2, <2>2 DEF ReadUpdate, Begin, Idle, TypeOK
  <2>3. ASSUME NEW r \in Request, NEW p \in Policy, ReadAccept(r, m, p)
        PROVE  req'[s] = req[s] \/ req'[s].text = content[req'[s].policy]
    BY <1>2, <2>3 DEF ReadAccept, Begin, Idle, TypeOK
  <2> QED
    BY <2>1, <2>2, <2>3 DEF SaveTraining, Complete
<1> QED
  BY <1>1, <1>2 DEF TextsAgree

LEMMA FailTexts ==
    ASSUME TypeOK, TextsAgree, NEW r \in Request, HandlerFails(r)
    PROVE  TextsAgree'
<1>1. UNCHANGED <<content, version, acceptances>> /\ req' = [req EXCEPT ![r] = Idle]
  BY DEF HandlerFails, Finish, policyVars
<1>2. \A s \in Request : req'[s].pc = "accept" => req'[s] = req[s]
  BY <1>1 DEF TypeOK, Idle
<1> QED
  BY <1>1, <1>2 DEF TextsAgree

LEMMA NextTexts == TypeOK /\ TextsAgree /\ [Next]_vars => TextsAgree'
<1> SUFFICES ASSUME TypeOK, TextsAgree, [Next]_vars PROVE TextsAgree'
  OBVIOUS
<1>1. CASE UNCHANGED vars
  BY <1>1 DEF vars, policyVars, TextsAgree
<1> QED
  BY <1>1, CreateTexts, EditTexts, AcceptTexts, FailTexts, OtherTexts DEF Next

\* Whoever is shown as having accepted a policy called accept while the content
\* in force was in force.
THEOREM Acceptances == Spec => []AcceptedContentInForce
<1>1. TypeOK /\ TextsAgree => AcceptedContentInForce
  BY LatestCounts DEF TextsAgree, AcceptedContentInForce
<1> QED
  BY <1>1, InitTypes, NextTypes, InitTexts, NextTexts, PTL DEF Spec

-----------------------------------------------------------------------------
(* Acceptances are taken back by edits only *)

LEMMA RowsStay ==
    ASSUME TypeOK, [Next]_vars, NEW p \in Policy, NEW m \in Member,
           NEW i \in DOMAIN acceptances[p][m]
    PROVE  i \in DOMAIN acceptances'[p][m] /\ acceptances'[p][m][i] = acceptances[p][m][i]
<1>1. CASE acceptances' = acceptances
  BY <1>1
<1>2. ASSUME NEW r \in Request, WriteAccept(r), acceptances' # acceptances
      PROVE  /\ i \in DOMAIN acceptances'[p][m]
             /\ acceptances'[p][m][i] = acceptances[p][m][i]
  <2> DEFINE q == req[r]
             row == [version |-> q.version, of |-> q.text]
  <2>1. acceptances' = [acceptances EXCEPT ![q.policy][q.member] = Append(@, row)]
    BY <1>2 DEF WriteAccept
  <2>4. /\ acceptances \in [Policy -> [Member -> Seq(Acceptance)]]
        /\ acceptances[p][m] \in Seq(Acceptance)
    BY DEF TypeOK
  <2> HIDE DEF q, row
  <2>2. acceptances'[p][m] \in {acceptances[p][m], Append(acceptances[p][m], row)}
    <3>1. CASE p = q.policy /\ m = q.member
      BY <3>1, <2>1, <2>4
    <3>2. CASE ~(p = q.policy /\ m = q.member)
      BY <3>2, <2>1, <2>4
    <3> QED
      BY <3>1, <3>2
  <2>3. i \in 1..Len(acceptances[p][m])
    BY <2>4
  <2> QED
    BY <2>2, <2>3, <2>4
<1> QED
  BY <1>1, <1>2 DEF Next, vars, policyVars, CreatePolicy, ReadUpdate, ReadAccept,
                    SaveTraining, Complete, WriteUpdate, HandlerFails

\* An acceptance that counts goes on counting until the policy is edited.
THEOREM Reopening == Spec => OnlyEditsReopen
<1>1. ASSUME TypeOK, TypeOK', [Next]_vars, NEW p \in Policy, NEW m \in Member,
             toPublic(p, m) = "ACCEPTED", version'[p] = version[p]
      PROVE  toPublic(p, m)' = "ACCEPTED"
  <2>1. PICK i \in DOMAIN acceptances[p][m] : acceptances[p][m][i].version = version[p]
    BY <1>1, LatestCounts
  <2>2. i \in DOMAIN acceptances'[p][m] /\ acceptances'[p][m][i].version = version'[p]
    BY <1>1, <2>1, RowsStay
  <2> QED
    BY <1>1, <2>2 DEF TypeOK, toPublic
<1>2. TypeOK /\ TypeOK' /\ [Next]_vars =>
          [\A p \in Policy, m \in Member :
              toPublic(p, m) = "ACCEPTED" /\ version'[p] = version[p] =>
                  toPublic(p, m)' = "ACCEPTED"]_vars
  BY <1>1
<1> QED
  BY <1>2, TypeCorrectness, PTL DEF Spec, OnlyEditsReopen

-----------------------------------------------------------------------------
(* The pages implement the services: whatever a browser does, every step   *)
(* of theirs is a step of Policies or changes nothing there.               *)

PageItem == IF page = "policies" THEN Policy ELSE Training

CallOK ==
    /\ call \in [pc : {"idle", "sent", "serving", "ok", "refused"},
                 do : {"create", "edit", "accept", "complete", None},
                 item : Item \cup {None}, text : Text \cup {None},
                 slot : Request \cup {None}]
    /\ call.pc = "idle" <=> call = NoCall
    /\ call.pc = "serving" <=> call.slot # None
    /\ call.pc # "idle" =>
          /\ call.do \in {"create", "edit", "accept", "complete"}
          /\ call.do \in {"create", "edit"} => call.item \in Item /\ call.text \in Text
          /\ call.do = "accept" => call.item \in Policy
          /\ call.do = "complete" => call.item \in Training
          /\ call.do # "create" => sheet # None

\* The lists show rows that exist, and rows do not go away: a newer list has all
\* the rows of an older one.
Existing == {i \in PageItem : IF page = "policies" THEN content[i] # None
                                                  ELSE training[i] # None}

ListOK(q) ==
    /\ q \in Cache!Query({q.data, q.answer})
    /\ IsList(q.data) /\ IsList(q.answer)
    /\ q.fetch \in {"old", "new"} <=> q.answer # None
    /\ q.data # None => DOMAIN q.data \subseteq Existing
    /\ q.answer # None => DOMAIN q.answer \subseteq Existing
    /\ q.data # None /\ q.answer # None => DOMAIN q.data \subseteq DOMAIN q.answer

\* The inductive invariant.
PagesOK ==
    /\ TypeOK
    /\ page \in {"policies", "trainings"}
    /\ ListOK(list)
    /\ sheet # None => list.data # None /\ sheet \in DOMAIN list.data
    /\ CallOK
    /\ call.pc = "serving" => req[call.slot].pc # "idle"
    /\ call.pc # "idle" => Component(call.do) \notin stuck
    /\ stuck \subseteq {"sheet", "dialog"} /\ ("sheet" \in stuck => sheet # None)
    /\ untold \in BOOLEAN

LEMMA PagesTypes == PagesOK => PagesTypeOK
BY DEF PagesOK, ListOK, CallOK, PagesTypeOK

LEMMA CallCases ==
    ASSUME PagesOK, call.pc # "idle"
    PROVE  /\ call.do \in {"create", "edit", "accept", "complete"}
           /\ call.do \in {"create", "edit"} => call.text \in Text
           /\ call.do = "accept" => call.item \in Policy
           /\ call.do = "complete" => call.item \in Training
BY DEF PagesOK, CallOK

\* One step of the pages is one step of the services, or none.
LEMMA PagesSimulate == PagesOK /\ [PagesNext]_pageVars => [Next]_vars
<1> SUFFICES ASSUME PagesOK, [PagesNext]_pageVars PROVE [Next]_vars
  OBVIOUS
<1> USE MeAssumption
<1>1. CASE UNCHANGED vars
  BY <1>1
<1>2. CASE Serve
  <2>1. call.pc # "idle"
    BY <1>2 DEF Serve
  <2> QED
    BY <1>2, <2>1, CallCases DEF Serve, Next
<1>3. ASSUME NEW r \in Request, ServeRead(r) PROVE Next
  <2>1. call.pc # "idle"
    BY <1>3 DEF ServeRead
  <2> QED
    BY <1>3, <2>1, CallCases DEF ServeRead, Next
<1>4. ASSUME NEW r \in Request, HandlerWrites(r) \/ OtherHandlerFails(r) PROVE Next
  BY <1>4 DEF HandlerWrites, OtherHandlerFails, Next
<1>5. CASE ServeError
  <2>1. call.pc = "serving" => call.slot \in Request
    BY DEF PagesOK, CallOK
  <2> QED
    BY <1>5, <2>1 DEF ServeError, Next
<1>6. CASE ColleagueActs
  BY <1>6 DEF ColleagueActs, Next
<1>7. ASSUME Focus \/ ServeFetch \/ ReceiveFetch \/ LoseFetch \/ CloseSheet \/ accept \/
             ReceiveOk \/ ReceiveRefusal \/ LoseAnswer
      PROVE  UNCHANGED vars
  BY <1>7 DEF Focus, ServeFetch, ReceiveFetch, LoseFetch, CloseSheet, accept, Send, ReceiveOk,
              ReceiveRefusal, LoseAnswer
<1>8. ASSUME NEW i \in Item, OpenSheet(i) PROVE UNCHANGED vars
  BY <1>8 DEF OpenSheet
<1>9. ASSUME NEW x \in Text, saveEdit(x) \/ \E i \in Item : submitNew(i, x)
      PROVE  UNCHANGED vars
  BY <1>9 DEF saveEdit, submitNew, Send
<1>10. CASE UNCHANGED pageVars
  BY <1>10 DEF pageVars
<1> QED
  BY <1>1, <1>2, <1>3, <1>4, <1>5, <1>6, <1>7, <1>8, <1>9, <1>10 DEF PagesNext

LEMMA PagesInitOK == PagesInit => PagesOK
<1> SUFFICES ASSUME PagesInit PROVE PagesOK
  OBVIOUS
<1>1. TypeOK
  BY InitTypes DEF PagesInit
<1>2. ListOK(list)
  BY DEF PagesInit, ListOK, IsList, Cache!Fetched, Cache!Unfetched, Cache!Query
<1>3. CallOK
  BY RequestAssumption DEF PagesInit, CallOK, NoCall
<1> QED
  BY <1>1, <1>2, <1>3 DEF PagesInit, PagesOK, NoCall

\* What the cache does with a list of rows.
LEMMA ListKept ==
    ASSUME NEW q, ListOK(q)
    PROVE  /\ ListOK(Cache!Fetched(q))
           /\ ListOK(Cache!Overtaken(q))
           /\ ListOK(Cache!Failed(q))
           /\ q.answer # None => ListOK(Cache!Loaded(q))
           /\ ListOK(Cache!Invalidated(q, TRUE))
<1> USE DEF ListOK, Cache!Query
<1> HIDE DEF IsList, Existing
<1>0. IsList(None)
  BY DEF IsList
<1>1. ListOK(Cache!Fetched(q))
  BY DEF Cache!Fetched
<1>2. ListOK(Cache!Overtaken(q))
  BY DEF Cache!Overtaken
<1>3. ListOK(Cache!Failed(q))
  BY <1>0 DEF Cache!Failed
<1>4. q.answer # None => ListOK(Cache!Loaded(q))
  BY <1>0 DEF Cache!Loaded
<1>5. ListOK(Cache!Invalidated(q, TRUE))
  BY <1>0, <1>1 DEF Cache!Invalidated, Cache!Fetched
<1> QED
  BY <1>1, <1>2, <1>3, <1>4, <1>5

LEMMA FindAllTypes ==
    ASSUME TypeOK, page \in {"policies", "trainings"}
    PROVE  IsList(findAll) /\ findAll # None /\ DOMAIN findAll = Existing
<1>1. DOMAIN findAll = Existing /\ Existing \in SUBSET Item
  BY DEF findAll, Existing, PageItem, Item
<1>2. \A i \in Existing : findAll[i] \in Row
  BY DEF findAll, Existing, PageItem, PolicyRow, TrainingRow, toPublic, Row, TypeOK
<1>3. findAll \in [Existing -> Row]
  BY <1>1, <1>2 DEF findAll, Existing, PageItem
<1>4. findAll # None
  BY <1>1, <1>3, ListAssumption
<1> QED
  BY <1>1, <1>2, <1>4 DEF IsList

LEMMA AnsweredOK ==
    ASSUME TypeOK, page \in {"policies", "trainings"}, ListOK(list)
    PROVE  ListOK(Cache!Answered(list, findAll))
<1>1. IsList(findAll) /\ findAll # None /\ DOMAIN findAll = Existing
  BY FindAllTypes
<1> HIDE DEF IsList, Existing
<1> QED
  BY <1>1 DEF ListOK, Cache!Query, Cache!Answered

\* Rows stay: neither kind is ever deleted.
LEMMA ExistingGrows ==
    ASSUME TypeOK, [Next]_vars, page' = page
    PROVE  Existing \subseteq Existing'
<1>1. \A p \in Policy : content[p] # None => content'[p] # None
  <2>1. ASSUME NEW m \in Member, NEW p \in Policy, NEW x \in Text, CreatePolicy(m, p, x)
        PROVE  \A q \in Policy : content[q] # None => content'[q] # None
    BY <2>1, NoneAssumption DEF CreatePolicy, TypeOK
  <2>2. ASSUME NEW r \in Request, WriteUpdate(r)
        PROVE  \A q \in Policy : content[q] # None => content'[q] # None
    <3>1. req[r].policy \in Policy /\ req[r].text \in Text /\ req[r].text # None
      BY <2>2, NoneAssumption DEF WriteUpdate, TypeOK
    <3> QED
      BY <2>2, <3>1 DEF WriteUpdate, TypeOK
  <2>3. \/ UNCHANGED content
        \/ \E m \in Member, p \in Policy, x \in Text : CreatePolicy(m, p, x)
        \/ \E r \in Request : WriteUpdate(r)
    BY DEF Next, vars, policyVars, ReadUpdate, ReadAccept, SaveTraining, Complete, WriteAccept,
           HandlerFails
  <2> QED
    BY <2>1, <2>2, <2>3
<1>2. \A t \in Training : training[t] # None => training'[t] # None
  <2>1. \/ UNCHANGED training
        \/ \E m \in Member, t \in Training, x \in Text : SaveTraining(m, t, x)
    BY DEF Next, vars, trainingVars, CreatePolicy, ReadUpdate, ReadAccept, Complete, WriteUpdate,
           WriteAccept, HandlerFails
  <2> QED
    BY <2>1, NoneAssumption DEF SaveTraining, TypeOK
<1> QED
  BY <1>1, <1>2 DEF Existing, PageItem

\* The steps, grouped by what they touch.
Fetches == Focus \/ ServeFetch \/ ReceiveFetch \/ LoseFetch
Sheets == (\E i \in Item : OpenSheet(i)) \/ CloseSheet
Sends == accept \/ \E x \in Text : saveEdit(x) \/ \E i \in Item : submitNew(i, x)
Serves == Serve \/ ServeError \/ \E r \in Request : ServeRead(r) \/ HandlerWrites(r)
Receives == ReceiveOk \/ ReceiveRefusal \/ LoseAnswer
Others == ColleagueActs \/ \E r \in Request : OtherHandlerFails(r)

LEMMA PagesCases ==
    PagesNext <=> Fetches \/ Sheets \/ Sends \/ Serves \/ Receives \/ Others
BY DEF PagesNext, Fetches, Sheets, Sends, Serves, Receives, Others

LEMMA PageStays == PagesNext => page' = page
<1> SUFFICES ASSUME PagesNext PROVE page' = page
  OBVIOUS
<1>1. ASSUME Fetches PROVE page' = page
  BY <1>1 DEF Fetches, Focus, ServeFetch, ReceiveFetch, LoseFetch
<1>2. ASSUME Sheets PROVE page' = page
  BY <1>2 DEF Sheets, OpenSheet, CloseSheet
<1>3. ASSUME Sends PROVE page' = page
  BY <1>3 DEF Sends, accept, saveEdit, submitNew, Send
<1>4. ASSUME Serves PROVE page' = page
  BY <1>4 DEF Serves, Serve, ServeError, ServeRead, HandlerWrites
<1>5. ASSUME Receives PROVE page' = page
  BY <1>5 DEF Receives, ReceiveOk, ReceiveRefusal, LoseAnswer
<1>6. ASSUME Others PROVE page' = page
  BY <1>6 DEF Others, ColleagueActs, OtherHandlerFails, browser
<1> QED
  BY <1>1, <1>2, <1>3, <1>4, <1>5, <1>6, PagesCases

\* The list of the page, and the row of it that the sheet shows.
LEMMA ListStep ==
    ASSUME PagesOK, PagesNext
    PROVE  /\ ListOK(list)'
           /\ list.data # None =>
                 list'.data # None /\ DOMAIN list.data \subseteq DOMAIN list'.data
<1> DEFINE kept == { list, Cache!Fetched(list), Cache!Overtaken(list), Cache!Failed(list),
                     Cache!Answered(list, findAll), Cache!Invalidated(list, TRUE) }
<1>1. /\ TypeOK /\ page \in {"policies", "trainings"} /\ ListOK(list)
      /\ list.fetch \in {"old", "new"} => list.answer # None
  BY DEF PagesOK, ListOK
<1>2. \A q \in kept : ListOK(q) /\ q.data = list.data
  <2>1. \A q \in kept : ListOK(q)
    <3> HIDE DEF ListOK
    <3> QED
      BY <1>1, ListKept, AnsweredOK
  <2>2. \A q \in kept : q.data = list.data
    BY <1>1 DEF ListOK, Cache!Query, Cache!Fetched, Cache!Overtaken, Cache!Failed,
                Cache!Answered, Cache!Invalidated
  <2> QED
    BY <2>1, <2>2
<1>3. list' \in kept \/ (list.answer # None /\ list' = Cache!Loaded(list))
  <2>1. ASSUME Fetches
        PROVE  list' \in kept \/ (list.answer # None /\ list' = Cache!Loaded(list))
    BY <1>1, <2>1 DEF Fetches, Focus, ServeFetch, ReceiveFetch, LoseFetch
  <2>2. ASSUME Sheets \/ Sends PROVE list' \in kept
    BY <2>2 DEF Sheets, OpenSheet, CloseSheet, Sends, accept, saveEdit, submitNew, Send
  <2>3. ASSUME Serves PROVE list' \in kept
    BY <2>3 DEF Serves, Serve, ServeError, ServeRead, HandlerWrites
  <2>4. ASSUME Receives \/ Others PROVE list' \in kept
    BY <2>4 DEF Receives, ReceiveOk, ReceiveRefusal, LoseAnswer, Others, ColleagueActs,
                OtherHandlerFails, browser
  <2> QED
    BY <2>1, <2>2, <2>3, <2>4, PagesCases
<1>4. ListOK(Cache!Loaded(list)) \/ list.answer = None
  BY <1>1, ListKept
<1>5. Cache!Loaded(list).data = list.answer
  BY DEF Cache!Loaded
<1> HIDE DEF kept
<1>6. ListOK(list')
  BY <1>2, <1>3, <1>4
<1>7. Existing \subseteq Existing'
  BY <1>1, PagesSimulate, PageStays, ExistingGrows
<1>8. ListOK(list)'
  BY <1>6, <1>7 DEF ListOK, IsList
<1>9. list.data # None => list'.data # None /\ DOMAIN list.data \subseteq DOMAIN list'.data
  <2>1. list.data # None /\ list.answer # None => DOMAIN list.data \subseteq DOMAIN list.answer
    BY <1>1 DEF ListOK
  <2> QED
    BY <1>2, <1>3, <1>5, <2>1
<1> QED
  BY <1>8, <1>9

SheetOK == sheet # None => list.data # None /\ sheet \in DOMAIN list.data

LEMMA SheetStep ==
    ASSUME PagesOK, PagesNext
    PROVE  SheetOK'
<1>1. SheetOK
  BY DEF PagesOK, SheetOK
<1>2. \/ sheet' \in {sheet, None}
      \/ sheet' # None /\ list.data # None /\ sheet' \in DOMAIN list.data
  <2>1. ASSUME Fetches PROVE sheet' = sheet
    BY <2>1 DEF Fetches, Focus, ServeFetch, ReceiveFetch, LoseFetch
  <2>2. ASSUME Sheets PROVE sheet' = None \/ (list.data # None /\ sheet' \in DOMAIN list.data)
    BY <2>2 DEF Sheets, OpenSheet, CloseSheet
  <2>3. ASSUME Sends PROVE sheet' = sheet
    BY <2>3 DEF Sends, accept, saveEdit, submitNew, Send
  <2>4. ASSUME Serves PROVE sheet' = sheet
    BY <2>4 DEF Serves, Serve, ServeError, ServeRead, HandlerWrites
  <2>5. ASSUME Receives \/ Others PROVE sheet' = sheet
    BY <2>5 DEF Receives, ReceiveOk, ReceiveRefusal, LoseAnswer, Others, ColleagueActs,
                OtherHandlerFails, browser
  <2> QED
    BY <2>1, <2>2, <2>3, <2>4, <2>5, PagesCases
<1> QED
  BY <1>1, <1>2, ListStep DEF SheetOK

\* The call, its handler, and the component that waits for it.
WaitOK ==
    /\ CallOK
    /\ call.pc = "serving" => req[call.slot].pc # "idle"
    /\ call.pc # "idle" => Component(call.do) \notin stuck
    /\ stuck \subseteq {"sheet", "dialog"} /\ ("sheet" \in stuck => sheet # None)
    /\ untold \in BOOLEAN

LEMMA SendStep ==
    ASSUME PagesOK, Sends
    PROVE  WaitOK'
<1>1. PICK do \in {"create", "edit", "accept", "complete"}, i \in Item, x \in Text \cup {None} :
          /\ Send(do, i, x)
          /\ do \in {"create", "edit"} => x \in Text
          /\ do = "accept" => i \in Policy
          /\ do = "complete" => i \in Training
          /\ do # "create" => sheet # None
  <2>1. sheet # None => sheet \in PageItem /\ sheet \in Item
    BY DEF PagesOK, ListOK, Existing, PageItem, Item
  <2>2. CASE accept
    BY <2>1, <2>2 DEF accept, Agree, PageItem
  <2>3. ASSUME NEW x \in Text, saveEdit(x)
        PROVE  Send("edit", sheet, x) /\ sheet # None
    BY <2>3 DEF saveEdit
  <2>4. ASSUME NEW x \in Text, NEW i \in Item, submitNew(i, x) PROVE Send("create", i, x)
    BY <2>4 DEF submitNew
  <2> QED
    BY <2>1, <2>2, <2>3, <2>4 DEF Sends
<1>2. /\ call' = [pc |-> "sent", do |-> do, item |-> i, text |-> x, slot |-> None]
      /\ UNCHANGED <<sheet, stuck, untold>> /\ Component(do) \notin stuck
  BY <1>1 DEF Send, NoCall
<1>3. CallOK'
  BY <1>1, <1>2, NoneAssumption DEF CallOK, NoCall
<1> QED
  BY <1>2, <1>3 DEF WaitOK, PagesOK

\* What the answer to the call, the lost answer and the handlers leave of it.
LEMMA CallMoves ==
    ASSUME CallOK, call.pc # "idle", NEW pc \in {"ok", "refused"}, UNCHANGED sheet,
           call' = [call EXCEPT !.pc = pc, !.slot = None]
    PROVE  CallOK' /\ call'.pc = pc /\ call'.do = call.do
<1>1. /\ call'.pc = pc /\ call'.do = call.do /\ call'.slot = None
      /\ call'.item = call.item /\ call'.text = call.text
  BY DEF CallOK
<1>2. call' \in [pc : {"idle", "sent", "serving", "ok", "refused"},
                 do : {"create", "edit", "accept", "complete", None},
                 item : Item \cup {None}, text : Text \cup {None},
                 slot : Request \cup {None}]
  BY DEF CallOK
<1>3. call' # NoCall
  BY <1>1 DEF NoCall
<1> QED
  BY <1>1, <1>2, <1>3 DEF CallOK

LEMMA ServesStep ==
    ASSUME PagesOK, Serves
    PROVE  WaitOK'
<1>0. /\ CallOK /\ WaitOK /\ untold \in BOOLEAN /\ req \in [Request -> RequestRecord]
  BY DEF PagesOK, WaitOK, TypeOK
<1>1. ASSUME Serve \/ ServeError PROVE WaitOK'
  <2>1. /\ call.pc # "idle" /\ UNCHANGED <<page, sheet, stuck>> /\ untold' \in BOOLEAN
        /\ \E pc \in {"ok", "refused"} : call' = [call EXCEPT !.pc = pc, !.slot = None]
    <3>1. CASE Serve
      <4>1. call.slot = None
        BY <1>0, <3>1 DEF Serve, CallOK
      <4>2. PICK pc \in {"ok", "refused"} : call' = [call EXCEPT !.pc = pc]
        BY <3>1 DEF Serve, AnswersToWrite
      <4>3. call' = [call EXCEPT !.pc = pc, !.slot = None]
        BY <1>0, <4>1, <4>2 DEF CallOK
      <4>4. call.pc # "idle" /\ UNCHANGED <<page, sheet, stuck>> /\ untold' \in BOOLEAN
        BY <3>1 DEF Serve
      <4> QED
        BY <4>3, <4>4
    <3>2. CASE ServeError
      BY <1>0, <3>2 DEF ServeError
    <3> QED
      BY <1>1, <3>1, <3>2
  <2>2. CallOK' /\ call'.pc \in {"ok", "refused"} /\ call'.do = call.do
    BY <1>0, <2>1, CallMoves
  <2> QED
    BY <1>0, <2>1, <2>2 DEF WaitOK
<1>2. ASSUME NEW r \in Request, ServeRead(r) PROVE WaitOK'
  <2>1. /\ call.pc = "sent" /\ UNCHANGED <<page, sheet, stuck, untold>>
        /\ call' = [call EXCEPT !.pc = "serving", !.slot = r]
    BY <1>2 DEF ServeRead
  <2>2. r # None /\ call'.slot = r /\ call'.do = call.do /\ call'.pc = "serving"
    BY <1>0, <2>1, RequestAssumption DEF CallOK
  <2>3. CallOK'
    BY <1>0, <2>1, <2>2 DEF CallOK, NoCall
  <2>4. req'[r].pc # "idle"
    BY <1>0, <1>2 DEF ServeRead, ReadUpdate, ReadAccept, Begin, Idle
  <2> QED
    BY <1>0, <2>1, <2>2, <2>3, <2>4 DEF WaitOK
<1>3. ASSUME NEW r \in Request, HandlerWrites(r) PROVE WaitOK'
  <2>1. /\ req' = [req EXCEPT ![r] = Idle] /\ UNCHANGED <<page, sheet, stuck>>
        /\ untold' \in BOOLEAN
    BY <1>0, <1>3 DEF HandlerWrites, WriteUpdate, WriteAccept, Finish
  <2>2. CASE call.slot = r
    <3>1. PICK pc \in {"ok", "refused"} : call' = [call EXCEPT !.pc = pc, !.slot = None]
      BY <1>3, <2>2 DEF HandlerWrites, AnswersToWrite
    <3>0. call.pc # "idle"
      BY <1>0, <2>2, RequestAssumption DEF CallOK
    <3>2. CallOK' /\ call'.pc = pc /\ call'.do = call.do
      BY <3>0, <1>0, <2>1, <3>1, CallMoves
    <3> QED
      BY <1>0, <2>1, <3>0, <3>1, <3>2 DEF WaitOK
  <2>3. CASE call.slot # r
    <3>1. call' = call
      BY <1>3, <2>3 DEF HandlerWrites
    <3>2. CallOK'
      BY <1>0, <2>1, <3>1 DEF CallOK
    <3>3. call.pc = "serving" => call.slot \in Request /\ req'[call.slot] = req[call.slot]
      BY <1>0, <2>1, <2>3 DEF CallOK
    <3> QED
      BY <1>0, <2>1, <3>1, <3>2, <3>3 DEF WaitOK
  <2> QED
    BY <2>2, <2>3
<1> QED
  BY <1>1, <1>2, <1>3 DEF Serves

LEMMA OtherStep ==
    ASSUME PagesOK, Fetches \/ Sheets \/ Receives \/ Others
    PROVE  WaitOK'
<1>0. /\ CallOK /\ WaitOK /\ req \in [Request -> RequestRecord]
  BY DEF PagesOK, WaitOK, TypeOK
<1>1. ASSUME UNCHANGED <<call, sheet, stuck>>, untold' \in BOOLEAN,
             call.pc = "serving" => req'[call.slot] = req[call.slot]
      PROVE  WaitOK'
  BY <1>0, <1>1 DEF WaitOK, CallOK
<1>2. ASSUME Fetches PROVE WaitOK'
  BY <1>0, <1>1, <1>2 DEF Fetches, Focus, ServeFetch, ReceiveFetch, LoseFetch, WaitOK, vars
<1>3. ASSUME Sheets PROVE WaitOK'
  <2>1. UNCHANGED <<call, untold, req>>
    BY <1>3 DEF Sheets, OpenSheet, CloseSheet, vars
  <2>2. ASSUME NEW i \in Item, OpenSheet(i) PROVE WaitOK'
    <3>1. sheet = None /\ sheet' = i /\ stuck' = stuck
      BY <2>2 DEF OpenSheet
    <3>2. "sheet" \notin stuck /\ (call.pc # "idle" => call.do = "create")
      BY <1>0, <3>1 DEF WaitOK, CallOK
    <3>3. CallOK'
      BY <1>0, <2>1, <3>2 DEF CallOK
    <3> QED
      BY <1>0, <2>1, <3>1, <3>2, <3>3 DEF WaitOK
  <2>3. CASE CloseSheet
    <3>1. /\ call.pc # "idle" => call.do = "create"
          /\ sheet' = None /\ stuck' = stuck \ {"sheet"}
      BY <1>0, <2>3 DEF CloseSheet, CallOK
    <3>2. CallOK'
      BY <1>0, <2>1, <3>1 DEF CallOK
    <3> QED
      BY <1>0, <2>1, <3>1, <3>2 DEF WaitOK
  <2> QED
    BY <1>3, <2>2, <2>3 DEF Sheets
<1>4. ASSUME Receives PROVE WaitOK'
  <2>1. call' = NoCall /\ UNCHANGED sheet /\ untold' \in BOOLEAN
    BY <1>0, <1>4 DEF Receives, ReceiveOk, ReceiveRefusal, LoseAnswer, WaitOK
  <2>2. CallOK' /\ call'.pc = "idle"
    BY <2>1 DEF CallOK, NoCall
  <2>3. stuck' = stuck \/ (LoseAnswer /\ stuck' = stuck \cup {Component(call.do)})
    BY <1>4 DEF Receives, ReceiveOk, ReceiveRefusal, LoseAnswer
  <2>4. LoseAnswer /\ Component(call.do) = "sheet" => sheet # None
    BY <1>0 DEF LoseAnswer, CallOK, Component
  <2> QED
    BY <1>0, <2>1, <2>2, <2>3, <2>4 DEF WaitOK, Component
<1>5. ASSUME Others PROVE WaitOK'
  <2>1. UNCHANGED <<call, sheet, stuck, untold>>
    BY <1>5 DEF Others, ColleagueActs, OtherHandlerFails, browser
  <2>2. ASSUME call.pc = "serving" PROVE req'[call.slot] = req[call.slot]
    <3>1. call.slot \in Request /\ req[call.slot].pc # "idle"
      BY <1>0, <2>2 DEF WaitOK, CallOK
    <3>2. ASSUME NEW r \in Request, OtherHandlerFails(r) PROVE req'[call.slot] = req[call.slot]
      BY <1>0, <3>1, <3>2 DEF OtherHandlerFails, HandlerFails, Finish
    <3>3. CASE ColleagueActs
      BY <1>0, <3>1, <3>3 DEF ColleagueActs, CreatePolicy, ReadUpdate, ReadAccept, Begin,
                              SaveTraining, Complete
    <3> QED
      BY <1>5, <3>2, <3>3 DEF Others
  <2> QED
    BY <1>0, <1>1, <2>1, <2>2 DEF WaitOK
<1> QED
  BY <1>2, <1>3, <1>4, <1>5

LEMMA PagesStep == PagesOK /\ [PagesNext]_pageVars => PagesOK'
<1> SUFFICES ASSUME PagesOK, [PagesNext]_pageVars PROVE PagesOK'
  OBVIOUS
<1>1. CASE UNCHANGED pageVars
  BY <1>1 DEF pageVars, vars, policyVars, trainingVars, browser, PagesOK, TypeOK, ListOK, CallOK,
              IsList, Existing, PageItem, toPublic
<1>2. CASE PagesNext
  <2>1. TypeOK'
    BY PagesSimulate, NextTypes DEF PagesOK
  <2>2. WaitOK'
    BY <1>2, PagesCases, SendStep, ServesStep, OtherStep
  <2>3. page' \in {"policies", "trainings"}
    BY <1>2, PageStays DEF PagesOK
  <2> QED
    BY <1>2, <2>1, <2>2, <2>3, ListStep, SheetStep DEF PagesOK, WaitOK, SheetOK
<1> QED
  BY <1>1, <1>2

LEMMA PagesInvariant == PagesSpec => []PagesOK
BY PagesInitOK, PagesStep, PTL DEF PagesSpec

\* What the pages hold keeps its type; an open sheet shows a row of the list,
\* also while newer lists replace it, and a call that waits for its handler has one.
THEOREM PagesTypeCorrectness == PagesSpec => []PagesTypeOK
BY PagesInvariant, PagesTypes, PTL

\* The pages over the services are an implementation of the services.
THEOREM PagesImplementPolicies == PagesSpec => Spec
<1>1. PagesInit => Init
  BY DEF PagesInit
<1> QED
  BY <1>1, PagesInvariant, PagesSimulate, PTL DEF PagesSpec, Spec

\* So what holds of the services holds under the pages: a member shown as having
\* accepted a policy called accept while the content in force was in force (its
\* page may have shown an older one), and the acceptance counts until an edit.
THEOREM PagesAcceptances == PagesSpec => []AcceptedContentInForce /\ OnlyEditsReopen
BY PagesImplementPolicies, Acceptances, Reopening, PTL

-----------------------------------------------------------------------------
(* What a page shows of its own writes *)

\* The inductive invariant: data that lack a write and are taken for current, or
\* an answer read before it, are there only until the page has been told of the
\* write, or if it may never be.
Told ==
    (list.lacks /\ ~list.stale) \/ list.fetch = "old" => untold \/ call.pc = "ok"

LEMMA ToldStep == PagesOK /\ Told /\ [PagesNext]_pageVars => Told'
<1> SUFFICES ASSUME PagesOK, Told, [PagesNext]_pageVars PROVE Told'
  OBVIOUS
<1>0. list \in Cache!Query({list.data, list.answer}) /\ untold \in BOOLEAN /\ CallOK
  BY DEF PagesOK, ListOK
<1> USE DEF Told
<1>1. CASE UNCHANGED <<list, call, untold>>
  BY <1>1
<1>2. CASE Focus
  BY <1>0, <1>2 DEF Focus, Cache!Fetched, Cache!Query
<1>3. CASE ServeFetch
  BY <1>0, <1>3 DEF ServeFetch, Cache!Answered, Cache!Query
<1>4. CASE ReceiveFetch
  BY <1>0, <1>4 DEF ReceiveFetch, Cache!Loaded
<1>5. CASE LoseFetch
  BY <1>0, <1>5 DEF LoseFetch, Cache!Failed, Cache!Query
<1>6. CASE Serve
  <2>1. untold' \/ call'.pc = "ok"
    BY <1>0, <1>6 DEF Serve, AnswersToWrite, CallOK
  <2> QED
    BY <2>1
<1>7. ASSUME NEW r \in Request, HandlerWrites(r) PROVE Told'
  <2>1. CASE call.slot = r
    <3>1. untold' \/ call'.pc = "ok"
      BY <1>0, <1>7, <2>1 DEF HandlerWrites, AnswersToWrite, CallOK
    <3> QED
      BY <3>1
  <2>2. CASE call.slot # r
    BY <1>0, <1>7, <2>2 DEF HandlerWrites
  <2> QED
    BY <2>1, <2>2
<1>8. CASE Sends
  <2>1. UNCHANGED <<list, untold>> /\ call.pc = "idle"
    BY <1>8 DEF Sends, accept, saveEdit, submitNew, Send
  <2> QED
    BY <2>1
<1>9. ASSUME ServeError \/ \E r \in Request : ServeRead(r) PROVE Told'
  <2>1. UNCHANGED <<list, untold>> /\ call.pc # "ok"
    BY <1>9 DEF ServeError, ServeRead
  <2> QED
    BY <2>1
<1>10. CASE ReceiveOk
  <2>1. /\ list' = Cache!Invalidated(list, TRUE)
        /\ untold' = (untold \/ (list.data = None /\ list.fetch = "old"))
    BY <1>10 DEF ReceiveOk
  <2>2. list'.stale = TRUE /\ (list'.fetch = "old" => list.data = None /\ list.fetch = "old")
    BY <1>0, <2>1 DEF Cache!Invalidated, Cache!Fetched, Cache!Query
  <2> QED
    BY <2>1, <2>2
<1>11. ASSUME ReceiveRefusal \/ LoseAnswer PROVE Told'
  BY <1>11 DEF ReceiveRefusal, LoseAnswer
<1>12. ASSUME Sheets \/ Others PROVE UNCHANGED <<list, call, untold>>
  BY <1>12 DEF Sheets, OpenSheet, CloseSheet, Others, ColleagueActs, OtherHandlerFails, browser
<1>13. CASE UNCHANGED pageVars
  BY <1>1, <1>13 DEF pageVars, browser
<1> QED
  BY <1>1, <1>2, <1>3, <1>4, <1>5, <1>6, <1>7, <1>8, <1>9, <1>10, <1>11, <1>12, <1>13, PagesCases
     DEF Fetches, Serves, Receives

\* Once the page has finished with its calls, what it shows includes what its
\* member wrote and was told of.
THEOREM OwnWrites == PagesSpec => []PageShowsOwnWrites
<1>1. PagesInit => Told
  BY DEF PagesInit, Told, Cache!Fetched, Cache!Unfetched
<1>2. Told => PageShowsOwnWrites
  BY DEF Told, PageShowsOwnWrites, Cache!LooksCurrent
<1> QED
  BY <1>1, <1>2, PagesInvariant, ToldStep, PTL DEF PagesSpec
=============================================================================
