-------------------------- MODULE TaskTransitions --------------------------
(***************************************************************************)
(* The status table of a task and the questions the service asks of it     *)
(* (backend/src/tasks/task-transitions.ts).  OPEN -> ASSIGNED and the      *)
(* edges out of UNDER_REVIEW belong to other handlers.                     *)
(***************************************************************************)
EXTENDS Permissions

TaskStatus ==
    {"OPEN", "ASSIGNED", "IN_PROGRESS", "EVIDENCE_SUBMITTED",
     "UNDER_REVIEW", "RESOLVED"}

TaskTransition ==
    [from : TaskStatus, to : TaskStatus,
     permission : Permission, requireAssignee : BOOLEAN]

TASK_TRANSITIONS ==
    { [from |-> "ASSIGNED", to |-> "IN_PROGRESS",
       permission |-> "TASKS_WORK", requireAssignee |-> TRUE],
      [from |-> "IN_PROGRESS", to |-> "EVIDENCE_SUBMITTED",
       permission |-> "TASKS_WORK", requireAssignee |-> TRUE],
      [from |-> "EVIDENCE_SUBMITTED", to |-> "UNDER_REVIEW",
       permission |-> "TASKS_REVIEW", requireAssignee |-> FALSE] }

canActorTransitionTask(t, actorRole, isAssignee) ==
    /\ hasPermission(actorRole, t.permission)
    /\ t.requireAssignee => isAdminRole(actorRole) \/ isAssignee

canUploadTaskEvidence(st, actorRole, isAssignee) ==
    /\ st \in {"ASSIGNED", "IN_PROGRESS", "EVIDENCE_SUBMITTED"}
    /\ hasPermission(actorRole, "EVIDENCE_UPLOAD")
    /\ isAdminRole(actorRole) \/ isAssignee
=============================================================================
