SPECIFICATION Spec
CONSTANTS
    self = self
    peer = peer
    t1 = t1
    t2 = t2
    Self = self
    Nodes = {self, peer}
    Owner = "owner"
    Docs <- MCDocs
    Ranking <- MCRanking
    MaxHolders = 1
    Budget = 1
    PageSize = 1
    Threads = {t1, t2}
    MaxWrites = 2
    MaxLsn = 4
    MaxFaults = 2
SYMMETRY Symmetry
CHECK_DEADLOCK FALSE
INVARIANTS IntentBeforeBytes BudgetRespected ClaimedWasApplied StoreMatchesLog
 
