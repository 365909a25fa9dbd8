------------------------------ MODULE Policies ------------------------------
(***************************************************************************)
(* The policies an organisation's members accept and the trainings they    *)
(* complete (policies.service.ts and trainings.service.ts under            *)
(* backend/src).  A policy is edited while members accept it: the version  *)
(* an acceptance is for is read first and written later.                   *)
(***************************************************************************)
EXTENDS Permissions, Naturals, Sequences

CONSTANTS
    Member, role,   \* of one organisation
    Policy,         \* ids of rows
    Training,
    Text,           \* contents
    Request,        \* slots for calls in flight
    MaxVersion,     \* bound on the edits of a policy
    None

ASSUME RoleAssumption == role \in [Member -> Role]
ASSUME NoneAssumption == None \notin Member \cup Policy \cup Training \cup Text
ASSUME BoundAssumption == MaxVersion \in Nat \ {0}

VARIABLES
    content,        \* of a Policy row; None before it exists
    version,
    acceptances,    \* the PolicyAcceptance rows of a policy and a member, oldest first
    training,       \* the text of a Training row
    completions,    \* the TrainingCompletion rows
    req

policyVars == <<content, version, acceptances>>
trainingVars == <<training, completions>>
vars == <<policyVars, trainingVars, req>>

-----------------------------------------------------------------------------

\* of: the content in force when accept read the version.  No column: it is the
\* content the row stands for.
Acceptance == [version : Nat \ {0}, of : Text]

RequestRecord ==
    [pc : {"idle", "edit", "accept"}, policy : Policy \cup {None},
     member : Member \cup {None}, version : Nat, text : Text \cup {None}]

Idle == [pc |-> "idle", policy |-> None, member |-> None, version |-> 0, text |-> None]

Init ==
    /\ content = [p \in Policy |-> None]
    /\ version = [p \in Policy |-> 0]
    /\ acceptances = [p \in Policy |-> [m \in Member |-> <<>>]]
    /\ training = [t \in Training |-> None]
    /\ completions = {}
    /\ req = [r \in Request |-> Idle]

Finish(r) == req' = [req EXCEPT ![r] = Idle]

Begin(r, q) == req[r].pc = "idle" /\ req' = [req EXCEPT ![r] = q]

\* Mutant: the acceptance stored last is the one that counts.
toPublic_ByDate(p, m) ==
    LET rows == acceptances[p][m]
    IN  IF rows # <<>> /\ rows[Len(rows)].version = version[p] THEN "ACCEPTED" ELSE "PENDING"

\* The acceptance of the highest version counts, if it is the policy's version.
toPublic(p, m) ==
    LET rows == acceptances[p][m]
        latest == { i \in DOMAIN rows :
                        \A j \in DOMAIN rows : rows[j].version <= rows[i].version }
    IN  IF \E i \in latest : rows[i].version = version[p] THEN "ACCEPTED" ELSE "PENDING"

-----------------------------------------------------------------------------
(* PoliciesService *)

CreatePolicy(m, p, x) ==
    /\ hasPermission(role[m], "POLICIES_MANAGE")
    /\ content[p] = None
    /\ content' = [content EXCEPT ![p] = x]
    /\ version' = [version EXCEPT ![p] = 1]
    /\ UNCHANGED <<acceptances, trainingVars, req>>

ReadUpdate(r, m, p, x) ==
    /\ hasPermission(role[m], "POLICIES_MANAGE")
    /\ content[p] # None
    /\ Begin(r, [Idle EXCEPT !.pc = "edit", !.policy = p, !.text = x])
    /\ UNCHANGED <<policyVars, trainingVars>>

\* Mutant: the version stays the same.
WriteUpdate_SameVersion(r) ==
    /\ req[r].pc = "edit"
    /\ content' = [content EXCEPT ![req[r].policy] = req[r].text]
    /\ Finish(r)
    /\ UNCHANGED <<version, acceptances, trainingVars>>

\* The database increments the version as it stores the content.
WriteUpdate(r) ==
    LET p == req[r].policy
    IN  /\ req[r].pc = "edit"
        /\ version[p] < MaxVersion
        /\ content' = [content EXCEPT ![p] = req[r].text]
        /\ version' = [version EXCEPT ![p] = @ + 1]
        /\ Finish(r)
        /\ UNCHANGED <<acceptances, trainingVars>>

ReadAccept(r, m, p) ==
    /\ content[p] # None
    /\ Begin(r, [Idle EXCEPT !.pc = "accept", !.policy = p, !.member = m,
                             !.version = version[p], !.text = content[p]])
    /\ UNCHANGED <<policyVars, trainingVars>>

\* Mutant: a plain insert, without the unique key.
WriteAccept_Inserts(r) ==
    LET q == req[r]
        row == [version |-> q.version, of |-> q.text]
    IN  /\ q.pc = "accept"
        /\ acceptances' = [acceptances EXCEPT ![q.policy][q.member] = Append(@, row)]
        /\ Finish(r)
        /\ UNCHANGED <<content, version, trainingVars>>

\* upsert: a row for this version is left as it is.
WriteAccept(r) ==
    LET q == req[r]
        rows == acceptances[q.policy][q.member]
        row == [version |-> q.version, of |-> q.text]
    IN  /\ q.pc = "accept"
        /\ acceptances' =
               IF \E i \in DOMAIN rows : rows[i].version = q.version THEN acceptances
               ELSE [acceptances EXCEPT ![q.policy][q.member] = Append(@, row)]
        /\ Finish(r)
        /\ UNCHANGED <<content, version, trainingVars>>

\* An await of the handler rejects before its write.  (When the one after the
\* write rejects, WriteAccept has happened; only the answer differs.)
HandlerFails(r) ==
    /\ req[r].pc # "idle"
    /\ Finish(r)
    /\ UNCHANGED <<policyVars, trainingVars>>

-----------------------------------------------------------------------------
(* TrainingsService.  What is read only tells that the row exists, and rows *)
(* are never deleted: a handler is one step.                                *)

SaveTraining(m, t, x) ==
    /\ hasPermission(role[m], "TRAININGS_MANAGE")
    /\ training' = [training EXCEPT ![t] = x]
    /\ UNCHANGED <<policyVars, completions, req>>

\* Not versioned: an edit asks nobody to complete the training again.
Complete(m, t) ==
    /\ training[t] # None
    /\ completions' = completions \cup {<<t, m>>}
    /\ UNCHANGED <<policyVars, training, req>>

-----------------------------------------------------------------------------
Next ==
    \/ \E m \in Member :
          \/ \E p \in Policy, x \in Text : CreatePolicy(m, p, x)
          \/ \E r \in Request, p \in Policy, x \in Text : ReadUpdate(r, m, p, x)
          \/ \E r \in Request, p \in Policy : ReadAccept(r, m, p)
          \/ \E t \in Training, x \in Text : SaveTraining(m, t, x)
          \/ \E t \in Training : Complete(m, t)
    \/ \E r \in Request : WriteUpdate(r) \/ WriteAccept(r) \/ HandlerFails(r)

Spec == Init /\ [][Next]_vars

-----------------------------------------------------------------------------
(* Properties *)

\* Rows and calls keep their shape; a policy that exists has a version, no
\* acceptance is ahead of it, and a member has one acceptance per version.
TypeOK ==
    /\ content \in [Policy -> Text \cup {None}]
    /\ version \in [Policy -> Nat]
    /\ acceptances \in [Policy -> [Member -> Seq(Acceptance)]]
    /\ training \in [Training -> Text \cup {None}]
    /\ completions \in SUBSET (Training \X Member)
    /\ req \in [Request -> RequestRecord]
    /\ \A p \in Policy :
          /\ content[p] = None <=> version[p] = 0
          /\ \A m \in Member :
                LET rows == acceptances[p][m]
                IN  /\ \A i \in DOMAIN rows : rows[i].version <= version[p]
                    /\ \A i, j \in DOMAIN rows : rows[i].version = rows[j].version => i = j
    /\ \A r \in Request : req[r].pc # "idle" =>
          /\ req[r].policy \in Policy /\ content[req[r].policy] # None
          /\ req[r].text \in Text
          /\ req[r].pc = "accept" =>
                /\ req[r].member \in Member
                /\ req[r].version \in 1..version[req[r].policy]

\* "Editing a policy correctly puts everyone back to pending instead of silently
\* leaving stale acceptances looking valid": whoever is shown as ACCEPTED called
\* accept while the content that is now in force was in force, even when edits
\* overlap each other and the calls that accept.  (Which content the page showed
\* the member is not recorded anywhere: it may have been an older one.)
AcceptedContentInForce ==
    \A p \in Policy, m \in Member : content[p] # None /\ toPublic(p, m) = "ACCEPTED" =>
        \E i \in DOMAIN acceptances[p][m] :
            /\ acceptances[p][m][i].version = version[p]
            /\ acceptances[p][m][i].of = content[p]

\* Only an edit takes an acceptance back: a call that accepts an older version
\* and lands late does not.
OnlyEditsReopen ==
    [][\A p \in Policy, m \in Member :
          toPublic(p, m) = "ACCEPTED" /\ version'[p] = version[p] =>
              toPublic(p, m)' = "ACCEPTED"]_vars
=============================================================================
