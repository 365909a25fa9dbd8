CONSTANTS
    i1 = i1
    y1 = y1
    y2 = y2
    w1 = w1
    w2 = w2
    g1 = g1
    g2 = g2
    r1 = r1
    None = None
    Integration = {i1}
    SyncId = {y1, y2}
    Workspace = {w1, w2}
    Slug = {g1, g2}
    RepositoriesOf <- MCRepositories
    Request = {r1}
SPECIFICATION FairSpec
INVARIANTS
    TypeOK
    RefusalKeepsData
    SyncCopiesOneWorkspace
    StatusFollowsSyncs
PROPERTIES
    SyncSettles
