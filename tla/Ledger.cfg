SPECIFICATION Spec
CONSTANTS
    Keys = {k1}
    MaxLsn = 5
    MaxFrames = 4
    MaxSwallow = 1
    MaxCheckpoints = 1
    Faults = {"torn", "write", "sync", "flush", "prune"}
    MaxFaults = 1
INVARIANTS Durable MembersMatchFile  LsnNamesOneRecord
PROPERTY MarkedRecordsSurviveBoot
