SPECIFICATION TrFairSpec
CONSTANTS
    Words = {}
    Depth = 2
    Columns = 2
    Rows = 2
    Watched = {3}
    Distance = 0
    WaitCount = 1
    RefreshDelay = 1
    RefreshPeriod = 5
    Lengths = {1, 3}
    LaneSets = {{"lo"}, {"hi"}}
INVARIANTS
    ReadsComplete
    AcknowledgedIsStored
    ChipServed
PROPERTIES
    TransactionsEnd
