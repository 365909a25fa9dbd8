CONSTANTS
    admin = admin
    dev = dev
    f1 = f1
    f2 = f2
    s1 = s1
    s2 = s2
    s3 = s3
    r1 = r1
    r2 = r2
    None = None
    User = {admin, dev}
    role <- MCRole
    Finding = {f1}
    ScanId = {s1, s2}
    Request = {r1, r2}
    Modes <- Switched
    OrgAccount = TRUE
    MaxEvidence = 1
    Faults = TRUE
SPECIFICATION Spec
SYMMETRY Interchangeable
INVARIANTS
    WorkHasOwner
    SubmittedHasEvidence
    WorkflowInvariant
    ResolutionIsRecorded
    JobFollowsSubmission
PROPERTIES
    VerdictOfCompletedScan
