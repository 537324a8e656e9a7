SPECIFICATION Spec
CONSTANTS
    n1 = n1
    n2 = n2
    b1 = b1
    me = me
    Self = me
    Nodes = {n1, n2}
    Managed = {n1}
    Supervisors = {n2}
    Limited = {n1}
    Placeholders <- MCPlaceholders
    Positions <- MCPositions
    Rank <- MCRank
    KeyPositions = {0, 3}
    ReplicationFactor = 2
    Rebuilders = {r1, r2}
    MaxPeers = 1
    SuspectAge = 1
    StaleAge = 1
    DeadAge = 2
SYMMETRY Symmetry
INVARIANTS
    ReclaimedStaysOut
    
CHECK_DEADLOCK FALSE
