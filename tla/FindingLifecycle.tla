-------------------------- MODULE FindingLifecycle --------------------------
(***************************************************************************)
(* What the product promises about a finding, free of requests, scans and  *)
(* queues: the status graph of finding-transitions.ts completed by the     *)
(* edges its comments give to /assign and /review, and the rule that work  *)
(* is submitted with evidence.                                             *)
(***************************************************************************)
EXTENDS FindingTransitions

CONSTANT Finding

VARIABLES
    stage,          \* a FindingStatus, or "ABSENT"
    evidenced       \* TRUE once the finding has evidence

lifecycle == <<stage, evidenced>>

TypeOK ==
    /\ stage \in [Finding -> FindingStatus \cup {"ABSENT"}]
    /\ evidenced \in [Finding -> BOOLEAN]

Init ==
    /\ stage = [f \in Finding |-> "ABSENT"]
    /\ evidenced = [f \in Finding |-> FALSE]

Move(f, from, to) ==
    /\ stage[f] \in from
    /\ stage' = [stage EXCEPT ![f] = to]
    /\ UNCHANGED evidenced

\* A scan may report several findings at once.
Report(rows) ==
    /\ \A f \in rows : stage[f] = "ABSENT"
    /\ stage' = [f \in Finding |-> IF f \in rows THEN "OPEN" ELSE stage[f]]
    /\ UNCHANGED evidenced

Assign(f) == Move(f, FindingStatus \ {"RESOLVED"}, "ASSIGNED")

Provide(f) ==
    /\ stage[f] \in EVIDENCE_UPLOAD_STATUSES
    /\ evidenced' = [evidenced EXCEPT ![f] = TRUE]
    /\ UNCHANGED stage

\* An edge of the transition table; submitting takes evidence.
Advance(f, t) ==
    /\ t.to = "EVIDENCE_SUBMITTED" => evidenced[f]
    /\ Move(f, {t.from}, t.to)

Approve(f) == Move(f, {"UNDER_REVIEW"}, "RESOLVED")

Reject(f) == Move(f, {"UNDER_REVIEW"}, "IN_PROGRESS")

Next ==
    \/ \E rows \in SUBSET Finding : Report(rows)
    \/ \E f \in Finding :
          \/ Assign(f)
          \/ Provide(f)
          \/ \E t \in FINDING_TRANSITIONS : Advance(f, t)
          \/ Approve(f)
          \/ Reject(f)

Spec == Init /\ [][Next]_lifecycle
=============================================================================
