SPECIFICATION FairSpec
CONSTANTS
    n1 = n1
    n2 = n2
    Node = {n1, n2}
    Keys = {1, 2}
    Fields = {f1, f2}
    StampsOf <- MCStampsOf
    MaxDelta = 1
    MaxRounds = 2
    MaxFailures = 1
PROPERTIES  Convergence
