------------------------- MODULE ClientPermissions -------------------------
(***************************************************************************)
(* What the pages offer (frontend/lib/permissions.ts).  The file mirrors   *)
(* the backend's tables by hand, so it is translated on its own here and   *)
(* compared with them by the models that use it.                           *)
(*                                                                         *)
(* who is the role of the signed-in user, or "NOBODY" while it is not      *)
(* known; mine says that the user is the assignee of the row shown.        *)
(***************************************************************************)
Shared == INSTANCE Permissions   \* the names only, not the tables

ROLE_PERMISSIONS ==
    [ro \in Shared!Role |->
        IF ro = "DEV" THEN {"FINDINGS_WORK", "EVIDENCE_UPLOAD", "TASKS_WORK"}
        ELSE Shared!Permission]

may(who, permission) ==
    who # "NOBODY" /\ permission \in ROLE_PERMISSIONS[who]

owns(who, mine) == who \in {"ADMIN", "SUPER_ADMIN"} \/ mine

canAssign(who) == may(who, "FINDINGS_ASSIGN")
canReview(who) == may(who, "FINDINGS_REVIEW")

canUploadEvidence(who, mine, shown) ==
    /\ shown.status \in {"ASSIGNED", "IN_PROGRESS", "EVIDENCE_SUBMITTED"}
    /\ may(who, "EVIDENCE_UPLOAD") /\ owns(who, mine)

canStartWork(who, mine, shown) ==
    /\ shown.status = "ASSIGNED"
    /\ may(who, "FINDINGS_WORK") /\ owns(who, mine)

\* Mutant: the button does not wait for evidence.
canSubmitForReview_WithoutEvidence(who, mine, shown) ==
    /\ shown.status = "IN_PROGRESS"
    /\ may(who, "FINDINGS_WORK") /\ owns(who, mine)

canSubmitForReview(who, mine, shown) ==
    /\ shown.status = "IN_PROGRESS"
    /\ shown.evidence # {}
    /\ may(who, "FINDINGS_WORK") /\ owns(who, mine)

canClaimForReview(who, shown) ==
    shown.status = "EVIDENCE_SUBMITTED" /\ canReview(who)

canAssignTask(who) == may(who, "TASKS_ASSIGN")
canReviewTask(who) == may(who, "TASKS_REVIEW")

canUploadTaskEvidence(who, mine, shown) ==
    /\ shown.status \in {"ASSIGNED", "IN_PROGRESS", "EVIDENCE_SUBMITTED"}
    /\ may(who, "EVIDENCE_UPLOAD") /\ owns(who, mine)

canStartTaskWork(who, mine, shown) ==
    /\ shown.status = "ASSIGNED"
    /\ may(who, "TASKS_WORK") /\ owns(who, mine)

canSubmitTaskForReview(who, mine, shown) ==
    /\ shown.status = "IN_PROGRESS"
    /\ shown.evidence # {}
    /\ may(who, "TASKS_WORK") /\ owns(who, mine)

canClaimTaskForReview(who, shown) ==
    shown.status = "EVIDENCE_SUBMITTED" /\ canReviewTask(who)
=============================================================================
