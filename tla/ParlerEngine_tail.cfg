SPECIFICATION Spec
CONSTANTS
    r1 = r1  r2 = r2  r3 = r3  r4 = r4
    Req = {r1, r2, r3}
    Nobody = Nobody
    MaxBatch = 3
    PromptLens = {1}
    DescLens = {1}
    SelfMax = 6
    CrossMax = 2
    Codebooks = 1
    Hop = 1
    Context = 1
    Stride = 2
    DecodeEvery = 2
    MaxLive = 1
    MaxFinals = 1
    DrainTicks = 3
    Trouble = {}
    Leaver = {}
SYMMETRY MCSymmetry
INVARIANTS DoneMeansWhole
CHECK_DEADLOCK FALSE
