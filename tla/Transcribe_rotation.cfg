SPECIFICATION Spec
CONSTANTS
    a = a
    b = b
    Stream = {a, b}
    Upload = {}
    Lang = {"hi"}
    Default = "hi"
    Sizes = {2}
    Chunk = 2
    Right = 1
    MaxSessions = 2
    MaxBatch = 2
    VadOn = TRUE
    MinSilence = 2
    SafeRoll = 2
    HardRoll = 4
    RollGap = 1
    Endpoint = {}
    Leaver = {}
    Switcher = {}
    Impatient = {}
    Fault = {}
    MaxFed = 4
    MaxSid = 3
CHECK_DEADLOCK FALSE
PROPERTY RotationIsInvisible
