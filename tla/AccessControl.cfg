SPECIFICATION FairSpec
CONSTANTS
    n1 = n1
    n2 = n2
    c1 = c1
    c2 = c2
    None = None
    Nodes = {n1, n2}
    Collections = {c1, c2}
    kMaxAclParentDepth = 2
    ApiAcls <- MCApiAcls
    HandEdited <- MCHandEdited
    Ahead <- MCAhead
    kMaxFutureSkewMs = 0
    kMaxDeltaEntries = 1
    MaxMs = 2
    MaxPuts = 1
    MaxSets = 2
    MaxRestarts = 1
INVARIANTS
    
    OwnAclsSurvive
PROPERTIES
    AclNeverRewinds
    AclReachesShorterLedgers
CHECK_DEADLOCK FALSE
