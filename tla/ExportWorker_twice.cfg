SPECIFICATION Spec
CONSTANTS
    PendingLimit = 1
    MaxJobs = 1
    Overlap = TRUE
    MaxWorkers = 3
    MaxPanics = 0
INVARIANTS
    OneExecutor
CHECK_DEADLOCK FALSE
