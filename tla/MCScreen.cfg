SPECIFICATION ScreenUseSpec
CONSTANTS
    N = 2
    CameraLine = 2
    ScreenLine = 0
    CpuLine = 1
    Timeout = 2
    PowerUpMasks = {{}}
    BurstWords = 2
    MaxWidth = 6
    CameraBurst = 2
    LineWords = 3
    LinePlaces = 4
    FrameBuffers = {0}
    MaxPause = 1
    RegisterOps <- AllPictures
    ScreenEvents = {"none", "line", "screen"}
    ScreenLines = 2
    CameraCommands <- NoCommands
    SensorEvents = {"none"}
    SensorLines = 2
    FrameArea = 6
INVARIANTS
    PictureShown
