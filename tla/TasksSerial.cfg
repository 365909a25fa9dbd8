CONSTANTS
    admin = admin
    dev = dev
    c1 = c1
    c2 = c2
    v1 = v1
    p1 = p1
    t1 = t1
    t2 = t2
    r1 = r1
    r2 = r2
    None = None
    User = {admin, dev}
    role <- MCRole
    Owner = {dev}
    STAFF_DEVICE_CHECKS = {c1, c2}
    Vulnerability = {v1}
    Person = {p1}
    Extra = {t1}
    Request = {r1}
    OrgAccount = TRUE
    MaxEvidence = 1
    Faults = TRUE
SPECIFICATION Spec
SYMMETRY Interchangeable
INVARIANTS
    WorkHasOwner
