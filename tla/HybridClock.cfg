SPECIFICATION ClockSpec
CONSTANTS
    MaxWall = 3
    LogicalSize = 4
    MaxSkew = 1
    SaveEvery = 2
INVARIANTS NoClockPinning
PROPERTIES NowIsFresh CheckpointedStampsStayUsed
