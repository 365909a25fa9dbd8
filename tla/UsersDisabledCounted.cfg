CONSTANTS
    u1 = u1
    u2 = u2
    u3 = u3
    p1 = p1
    p2 = p2
    r1 = r1
    None = None
    Account = {u1, u2}
    Founder = u1
    Secret = {p1}
    Request = {r1}
SPECIFICATION Spec
SYMMETRY Interchangeable
INVARIANTS
    ActiveSuperAdminRemains
CHECK_DEADLOCK FALSE
