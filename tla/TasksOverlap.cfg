CONSTANTS
    admin = admin
    dev = dev
    c1 = c1
    c2 = c2
    v1 = v1
    p1 = p1
    t1 = t1
    t2 = t2
    r1 = r1
    r2 = r2
    None = None
    User = {admin, dev}
    role <- MCRole
    Owner = {dev}
    STAFF_DEVICE_CHECKS = {c1, c2}
    Vulnerability = {}
    Person = {}
    Extra = {}
    Request = {r1, r2}
    OrgAccount = TRUE
    MaxEvidence = 1
    Faults = FALSE
SPECIFICATION Spec
SYMMETRY Interchangeable
INVARIANTS
    TypeOK
    SubmittedHasEvidence
    ResolvedChecksComply
PROPERTIES
    CompliantUntilOvertaken
CHECK_DEADLOCK FALSE
