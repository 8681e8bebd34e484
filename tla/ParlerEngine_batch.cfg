SPECIFICATION FairSpec
CONSTANTS
    r1 = r1  r2 = r2  r3 = r3  r4 = r4
    Req = {r1, r2, r3}
    Nobody = Nobody
    MaxBatch = 3
    PromptLens = {1, 5, 6}
    DescLens = {1, 3}
    SelfMax = 5
    CrossMax = 2
    Codebooks = 1
    Hop = 2
    Context = 1
    Stride = 1
    DecodeEvery = 1
    MaxLive = 1
    MaxFinals = 1
    DrainTicks = 3
    Trouble = {"encode", "sample"}
    Leaver = {r1}
INVARIANTS TypeOK CachesAgree RowsAreOwn AudioInOrder CompactsInPlace
PROPERTIES CutOnlyByBacklog DiesOnlyOfFullPrompt EveryoneServed
CHECK_DEADLOCK FALSE
