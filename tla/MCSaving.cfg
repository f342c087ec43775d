CONSTANTS
    Players = {p1, p2}
    Away = {p2}
    MaxVersion = 3
    MaxFaults = 3
SPECIFICATION SavingFairSpec
INVARIANTS
    SavingTypeOK
    SavedIsKept
    SyncedStays
PROPERTIES
    LoadsNewest
    ReachesMysql
CHECK_DEADLOCK FALSE
