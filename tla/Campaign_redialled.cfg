SPECIFICATION Spec
CONSTANTS
    a = a  b = b  w1 = w1  w2 = w2  NoRun = NoRun
    Contact = {a}
    Worker = {w1}
    MaxRetries = 1
    RetryDelay = 1
    BatchSize = 1
    BatchTimeout = 1
    CompletionTimeout = 3
    CallMax = 1
    Reports = 1
    BreakerOn = FALSE
    MinCalls = 1
    MaxPoolTries = 2
    Redial = FALSE
    Fault = {"cancel"}
    MaxFaults = 1
    MaxJobs = 1
    MaxEvents = 2
SYMMETRY MCSymmetry
INVARIANTS DialledOnce
CHECK_DEADLOCK FALSE
