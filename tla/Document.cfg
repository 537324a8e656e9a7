SPECIFICATION Spec
CONSTANTS
    Node = {1, 2, 3}
    TimeOf <- MCTimeOf
    Pasts <- MCPasts
    Values <- MCValues
INVARIANTS
    MergeIsThreeWay
    SameWritesSameCopy
CHECK_DEADLOCK FALSE
