SPECIFICATION LiveSpec
CONSTANTS
    Trades = {t1, t2}
    Recovery = recovery
    QueueCap = 1
    MaxConcurrent = 1
    MaxAttempts = 2
    MaxTries = 2
    RecoveryRuns = TRUE
    MaxFaults = 2
    MaxPanics = 1
    MaxCrashes = 1
    None = None

CHECK_DEADLOCK FALSE
PROPERTIES
    EventuallySettled
