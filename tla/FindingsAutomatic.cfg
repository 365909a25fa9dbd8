CONSTANTS
    admin = admin
    dev = dev
    f1 = f1
    f2 = f2
    s1 = s1
    s2 = s2
    s3 = s3
    r1 = r1
    r2 = r2
    None = None
    User = {admin, dev}
    role <- MCRole
    Finding = {f1}
    ScanId = {s1, s2, s3}
    Request = {r1}
    Modes <- AutoOnly
    OrgAccount = TRUE
    MaxEvidence = 2
    Faults = FALSE
SPECIFICATION FairSpec
PROPERTIES
    ScanSettles
    AutomaticReviewEnds
