------------------------ MODULE FindingTransitions ------------------------
(***************************************************************************)
(* The status table of a finding and the two questions the service asks of *)
(* it (backend/src/findings/finding-transitions.ts).  The edge OPEN ->     *)
(* ASSIGNED and the edges out of UNDER_REVIEW are not in this table: other *)
(* handlers own them.                                                      *)
(***************************************************************************)
EXTENDS Permissions

FindingStatus ==
    {"OPEN", "ASSIGNED", "IN_PROGRESS", "EVIDENCE_SUBMITTED",
     "UNDER_REVIEW", "RESOLVED"}

Transition ==
    [from : FindingStatus, to : FindingStatus,
     permission : Permission, requireAssignee : BOOLEAN]

FINDING_TRANSITIONS ==
    { [from |-> "ASSIGNED", to |-> "IN_PROGRESS",
       permission |-> "FINDINGS_WORK", requireAssignee |-> TRUE],
      [from |-> "IN_PROGRESS", to |-> "EVIDENCE_SUBMITTED",
       permission |-> "FINDINGS_WORK", requireAssignee |-> TRUE],
      [from |-> "EVIDENCE_SUBMITTED", to |-> "UNDER_REVIEW",
       permission |-> "FINDINGS_REVIEW", requireAssignee |-> FALSE] }

canActorTransition(t, actorRole, isAssignee) ==
    /\ hasPermission(actorRole, t.permission)
    /\ t.requireAssignee => isAdminRole(actorRole) \/ isAssignee

EVIDENCE_UPLOAD_STATUSES == {"ASSIGNED", "IN_PROGRESS", "EVIDENCE_SUBMITTED"}

canUploadEvidence(st, actorRole, isAssignee) ==
    /\ st \in EVIDENCE_UPLOAD_STATUSES
    /\ hasPermission(actorRole, "EVIDENCE_UPLOAD")
    /\ isAdminRole(actorRole) \/ isAssignee
=============================================================================
