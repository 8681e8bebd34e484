SPECIFICATION Spec
CONSTANTS
    a = a  b = b  w1 = w1  w2 = w2  NoRun = NoRun
    Contact = {a, b}
    Worker = {w1, w2}
    MaxRetries = 0
    RetryDelay = 0
    BatchSize = 2
    BatchTimeout = 1
    CompletionTimeout = 1
    CallMax = 0
    Reports = 0
    BreakerOn = FALSE
    MinCalls = 1
    MaxPoolTries = 1
    Redial = FALSE
    Fault = {"cancel", "crash", "pool", "dial", "mongo", "pause", "resume"}
    MaxFaults = 1
    MaxJobs = 1
    MaxEvents = 1
SYMMETRY MCSymmetry
INVARIANTS ExclusiveClaim RunInv StartInv
PROPERTIES RunsAreFinal OnlyDeathStrands OnlyResumeUnpauses
CHECK_DEADLOCK FALSE
