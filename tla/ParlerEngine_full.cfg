SPECIFICATION Spec
CONSTANTS
    r1 = r1  r2 = r2  r3 = r3  r4 = r4
    Req = {r1, r2}
    Nobody = Nobody
    MaxBatch = 2
    PromptLens = {1, 5}
    DescLens = {1}
    SelfMax = 5
    CrossMax = 2
    Codebooks = 1
    Hop = 1
    Context = 1
    Stride = 2
    DecodeEvery = 2
    MaxLive = 1
    MaxFinals = 2
    DrainTicks = 3
    Trouble = {}
    Leaver = {r1}
SYMMETRY MCSymmetry
INVARIANTS WorkerSurvives
CHECK_DEADLOCK FALSE
