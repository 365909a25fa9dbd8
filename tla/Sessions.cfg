CONSTANTS
    u1 = u1
    u2 = u2
    p1 = p1
    r1 = r1
    r2 = r2
    None = None
    Account = {u1, u2}
    Founder = u1
    Secret = {p1}
    Request = {r1, r2}
SPECIFICATION SessionsSpec
INVARIANTS
    BrowserTypeOK
    MeFollowsSession
    MeMatchesBackend
PROPERTIES
    LockoutIsPermanent
    LastSuperAdminKept
    SuperAdminsUntouched
