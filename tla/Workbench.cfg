CONSTANTS
    self = self
    colleague = colleague
    None = None
    User = {self, colleague}
    Me = self
    OrgAccount = TRUE
    MaxAttempt = 1
    MaxElsewhere = 1
SPECIFICATION Spec
INVARIANTS
    TypeOK
    SheetMatchesBackend
    EvidenceHasObject
    HeldFileNotRecorded
    ShowsOwnWrites
