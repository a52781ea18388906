SPECIFICATION Or1420Spec
CONSTANTS
    FlashWords = 16
    PageWords = 4
    BlockWords = 2
    Erased = 15
    ByteBase = 4
    WordBytes = 2
    MAGIC = 6
    Preloaded <- Programs
    Codes = {1, 2}
    Repeats = {0, 3}
    LastAddress = 2
    MaxSent = 4
    MaxCommands = 3
    MaxFaults = 1
    SoftLimit = 2
    AdjustWords = 3
    Widths = {4, 5, 6}
    Starts <- SmallStarts
    MaxSteps = 66
    WordSize = 4
    Area = 11
    Width = 4
    Height = 2
    EdWidth = 3
    EdHeight = 3
    Greys = {90, 200}
    Colours = {0, 1, 17, 31, 63}
    Limit = 128
    MaxFrames = 2
    Half = 2
    MaxCount = 3
    Identities = {25}
    Frequencies = {2, 3}
    Durations = {120000, 122002, 7200000, 7320000, 14520004}
    UfDepth = 2
    NoByte = "none"
    HalfBits = 3
    Frames <- MCFrames
    MaxReceived = 3
    Texts <- MCTexts
    BusGap = 2
    MaxCalls = 2
    Wrap = 256
    ImRegisters = {0, 1}
    ImValues = {0, 1}
    IdCalls = 2
    IdChanges = 1
INVARIANTS
    StartsAskedProgram
CHECK_DEADLOCK FALSE
