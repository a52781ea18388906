SPECIFICATION MCSpec
CONSTANTS
    CPUs = {1, 2, 3}
    NR_OF_LOCKS = 2
    Cores = {1, 2, 3}
    MaxRounds = 3
    LastRegister = 3
    StackTop = 18
    Offsets = {9}
    ProgramWords = 1
    HandlerWords = 1
    Raised = {4, 5}
    CameraBurst = 2
    LineWords = 3
    LinePlaces = 4
    FrameBuffers = {0, 8}
    MaxSetups = 2
    UfDepth = 2
    NoByte = "none"
    HalfBits = 3
    Frames <- MCFrames
    MaxReceived = 1
    Texts <- MCTexts
    BusGap = 0
    MaxCalls = 1
    Wrap = 16
    ImRegisters = {0}
    ImValues = {0}
    IdCalls = 1
    IdChanges = 0
INVARIANTS
    MutualExclusion
    NobodyLeavesEarly
    RegistersSurvive
    ImageFresh
    SetUpFromAnyState
PROPERTIES
    WaitersServed
    CallsReturn
CHECK_DEADLOCK FALSE
