SPECIFICATION TrFairSpec
CONSTANTS
    Words = {}
    Depth = 2
    Columns = 2
    Rows = 1
    Watched = {0}
    Distance = 2
    WaitCount = 1
    RefreshDelay = 5
    RefreshPeriod = 30
    Lengths = {1}
    LaneSets = {{"lo"}, {"hi"}}
PROPERTIES
    DistantStoresEnd
