SPECIFICATION Spec
CONSTANTS
    a = a  b = b  w1 = w1  w2 = w2  NoRun = NoRun
    Contact = {a}
    Worker = {w1}
    MaxRetries = 1
    RetryDelay = 1
    BatchSize = 1
    BatchTimeout = 1
    CompletionTimeout = 3
    CallMax = 0
    Reports = 2
    BreakerOn = TRUE
    MinCalls = 2
    MaxPoolTries = 2
    Redial = FALSE
    Fault = {"sync", "empty", "slots", "pool", "orchestrator", "pause"}
    MaxFaults = 1
    MaxJobs = 1
    MaxEvents = 1
SYMMETRY MCSymmetry
INVARIANTS TypeOK CompletedIsDrained DialledOnce
CHECK_DEADLOCK FALSE
