SPECIFICATION CameraUseSpec
CONSTANTS
    N = 2
    CameraLine = 0
    ScreenLine = 2
    CpuLine = 1
    Timeout = 2
    PowerUpMasks = {{}}
    BurstWords = 2
    MaxWidth = 6
    CameraBurst = 2
    LineWords = 3
    LinePlaces = 4
    FrameBuffers = {0, 6}
    MaxPause = 1
    RegisterOps <- MissingPicture
    ScreenEvents = {"none", "line", "screen"}
    ScreenLines = 1
    CameraCommands <- AllCommands
    SensorEvents = {"none", "word", "line", "frame"}
    SensorLines = 2
    FrameArea = 12
INVARIANTS
    BusShared
    ImageStored
PROPERTIES
    Confined
    SingleImage
    MastersRest
