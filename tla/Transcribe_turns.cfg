SPECIFICATION FairSpec
CONSTANTS
    a = a
    b = b
    Stream = {a, b}
    Upload = {b}
    Lang = {"hi", "ta"}
    Default = "hi"
    Sizes = {2}
    Chunk = 1
    Right = 1
    MaxSessions = 2
    MaxBatch = 2
    VadOn = TRUE
    MinSilence = 2
    SafeRoll = 3
    HardRoll = 4
    RollGap = 1
    Endpoint = {a}
    Leaver = {a}
    Switcher = {a}
    Impatient = {a}
    Fault = {"greet", "encode", "decode"}
    MaxFed = 4
    MaxSid = 3
CHECK_DEADLOCK FALSE
INVARIANT TypeOK
INVARIANT BufferAligned
INVARIANT WholeTurn
INVARIANT OnlySilenceIsGated
INVARIANT LanguageHonoured
INVARIANT NoOrphans
INVARIANT StopKeepsEveryTurn
PROPERTY EveryTurnEnds
