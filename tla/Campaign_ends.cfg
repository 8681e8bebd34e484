SPECIFICATION FairSpec
CONSTANTS
    a = a  b = b  w1 = w1  w2 = w2  NoRun = NoRun
    Contact = {a}
    Worker = {w1}
    MaxRetries = 1
    RetryDelay = 1
    BatchSize = 2
    BatchTimeout = 1
    CompletionTimeout = 1
    CallMax = 0
    Reports = 1
    BreakerOn = FALSE
    MinCalls = 1
    MaxPoolTries = 2
    Redial = TRUE
    Fault = {"orchestrator", "cancel", "mongo"}
    MaxFaults = 1
    MaxJobs = 1
    MaxEvents = 2
PROPERTIES Ends ClaimsSettle
CHECK_DEADLOCK FALSE
