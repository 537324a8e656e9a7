SPECIFICATION FairSpec
CONSTANTS
    Writes = {1, 2}
    Peers = {p1, p2}
    Refusing = {p2}
    Wanted = 1
    PoolThreads = 1
    MaxQueued = 2
    DedupCapacity = 1
    MaxFaults = 2
INVARIANTS
    
    
    
    NoPollOversleeps
PROPERTIES
    Settles
CHECK_DEADLOCK FALSE
