SPECIFICATION FairMigrationSpec
CONSTANTS
    wal = wal
    transit = transit
    catalog = catalog
    rows = rows
    identity = identity
    None = None
    Missing = Missing
    Order <- MCOrder
    Kind <- MCKind
    Directories <- MCDirectories
    kPageSize = 2
    kSealedPageSize = 3
    MaxInterrupts = 2
INVARIANTS
    ContentsKept
    NoMixedBoot
PROPERTIES
    RerunsFinish
CHECK_DEADLOCK FALSE
