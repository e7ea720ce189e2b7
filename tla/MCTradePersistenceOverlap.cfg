SPECIFICATION Spec
CONSTANTS
    Trades = {t1}
    Recovery = recovery
    QueueCap = 1
    MaxConcurrent = 1
    MaxAttempts = 3
    MaxTries = 3
    RecoveryRuns = TRUE
    MaxFaults = 0
    MaxPanics = 0
    MaxCrashes = 0
    None = None

CHECK_DEADLOCK FALSE
INVARIANTS
    AppliedOnce
