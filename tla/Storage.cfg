SPECIFICATION StorageSpec
CONSTANTS
    Threads = {t1, t2}
    Keys = {1, 2}
    Readings <- MCReadings
    RowsPerSegment = 2
    MinRunLength = 3
    ChunkMillis = 2
    RollupBucketMs = 1
    MaxWalkDepth = 3
    Workers <- MCWorkers
    MaxPuts <- MCMaxPuts
    MaxUpkeep = 1
    MaxStops <- MCMaxStops
    KvKeys = {1, 2, 3, 4, 5}
    MaxKeysPerNode = 2
    SlotsPerPage = 2
    MaxDescent = 4
    Loads <- MCLoads
    KvPuts = 2
    MaxEvictions = 2
    KvStops = 2
INVARIANTS
    
    QueriesCoverRows
    EdgesMatchDocuments
    VectorsMatchRows
    LookupsExact
SYMMETRY Symmetry
CHECK_DEADLOCK FALSE
