SPECIFICATION Spec
CONSTANTS
    n1 = n1
    n2 = n2
    n3 = n3
    Node = {n1, n2, n3}
    Keys = {1}
    Fields = {f1, f2}
    StampsOf <- MCStampsOf
    MaxDelta = 2
    MaxRounds = 1
    MaxFailures = 1
INVARIANTS RelayMasksOneLoss
