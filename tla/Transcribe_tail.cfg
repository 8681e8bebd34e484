SPECIFICATION Spec
CONSTANTS
    a = a
    b = b
    Stream = {a}
    Upload = {}
    Lang = {"hi"}
    Default = "hi"
    Sizes = {2}
    Chunk = 1
    Right = 1
    MaxSessions = 2
    MaxBatch = 1
    VadOn = TRUE
    MinSilence = 2
    SafeRoll = 9
    HardRoll = 9
    RollGap = 1
    Endpoint = {a}
    Leaver = {}
    Switcher = {}
    Impatient = {}
    Fault = {}
    MaxFed = 6
    MaxSid = 2
CHECK_DEADLOCK FALSE
INVARIANT TailIsSilence
