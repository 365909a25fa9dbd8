---------------------------- MODULE Permissions ----------------------------
(***************************************************************************)
(* Roles and permissions (backend/src/auth/permissions.ts).  Every guard   *)
(* of the HTTP handlers goes through hasPermission or isAdminRole.         *)
(***************************************************************************)

Role == {"SUPER_ADMIN", "ADMIN", "DEV"}

Permission ==
    {"USERS_READ", "USERS_WRITE", "FINDINGS_ASSIGN", "FINDINGS_WORK",
     "FINDINGS_REVIEW", "EVIDENCE_UPLOAD", "INTEGRATIONS_MANAGE",
     "TASKS_ASSIGN", "TASKS_WORK", "TASKS_REVIEW", "VULNERABILITIES_WRITE",
     "VULNERABILITIES_ASSIGN", "PEOPLE_WRITE", "PEOPLE_ASSIGN",
     "POLICIES_MANAGE", "TRAININGS_MANAGE", "CLOUD_ACCOUNTS_MANAGE"}

ROLE_PERMISSIONS ==
    [ro \in Role |->
        IF ro = "DEV"
        THEN {"FINDINGS_WORK", "EVIDENCE_UPLOAD", "TASKS_WORK"}
        ELSE Permission]

hasPermission(ro, permission) == permission \in ROLE_PERMISSIONS[ro]

isAdminRole(ro) == ro \in {"ADMIN", "SUPER_ADMIN"}

isSuperAdmin(ro) == ro = "SUPER_ADMIN"
=============================================================================
