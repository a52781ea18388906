SPECIFICATION SbSpec
CONSTANTS
    N = 2
    Timeout = 16
    PowerUpMasks <- MCPowerUpMasks
    Targets <- MCTargets
    Data <- MCData
    WordsPerLine = 2
    Lines = 1
    Addresses = 4
    ResetVector = 1
    ShiftClocks = 1
    CountLimit = 4
    Program <- MCWholeProgram
    Pauses <- MCPauses
    FlashBusy <- MCNeverBusy
    JumpTargets <- MCJumpTargets
    CodeSlave <- MCCodeSlave
INVARIANTS
    OneDriver
    ResultsCorrect
