SPECIFICATION SbFairSpec
CONSTANTS
    N = 2
    Timeout = 6
    PowerUpMasks <- MCPowerUpMasks
    Targets <- MCTargets
    Data <- MCData
    WordsPerLine = 1
    Lines = 1
    Addresses = 2
    ResetVector = 1
    ShiftClocks = 0
    CountLimit = 2
    Program <- MCTroubledProgram
    Pauses <- MCTwoPauses
    FlashBusy <- MCAnyBusy
    JumpTargets <- MCNoJumps
    CodeSlave <- MCMissingCode
PROPERTIES
    StallsEnd
