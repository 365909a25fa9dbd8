CONSTANTS
    self = self
    colleague = colleague
    p1 = p1
    t1 = t1
    x1 = x1
    x2 = x2
    r1 = r1
    r2 = r2
    None = None
    Member = {self, colleague}
    role <- MCRole
    Policy = {p1}
    Training = {t1}
    Text = {x1, x2}
    Request = {r1, r2}
    MaxVersion = 3
    Me = self
    Accepting = {}
SPECIFICATION PagesSpec
SYMMETRY Interchangeable
INVARIANTS
    PagesTypeOK
    AcceptedContentInForce
    PageShowsOwnWrites
PROPERTIES
    OnlyEditsReopen
CHECK_DEADLOCK FALSE
