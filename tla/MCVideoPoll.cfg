SPECIFICATION PollSpec
CONSTANTS
    N = 3
    CameraLine = 0
    ScreenLine = 2
    CpuLine = 1
    Timeout = 2
    PowerUpMasks = {{}}
    BurstWords = 2
    MaxWidth = 6
    CameraBurst = 2
    LineWords = 3
    LinePlaces = 4
    FrameBuffers = {0}
    MaxPause = 1
    RegisterOps <- Accesses
    ScreenEvents = {"none"}
    ScreenLines = 2
    CameraCommands <- Poll
    SensorEvents = {"none", "word", "line", "frame"}
    SensorLines = 1
    FrameArea = 3
INVARIANTS
    DoneClearsItself
