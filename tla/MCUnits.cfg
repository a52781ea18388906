SPECIFICATION UnitsSpec
CONSTANTS
    N = 3
    Timeout = 2
    PowerUpMasks <- MCPowerUpMasks
    Targets = {"sdram", "rom"}
    Data = {"w1", "w2"}
    WordsPerLine = 2
    Lines = 2
    Addresses = 8
    ResetVector = 1
    JumpTargets = {0, 5}
    Words = {"w1", "w2"}
    Depth = 4
    Divisors = {0, 2, 5, 27}
    ClockRatio = 2
INVARIANTS
    TypesOK
    IInv
    ErrorReachesPipeline
    FetchTruthful
    LinesMatchTags
    TicksArriveOnce
PROPERTIES
    ImplementsFifo
    NeverStuck
    ImplementsPort
    ImplementsQueue
