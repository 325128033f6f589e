SPECIFICATION FairSpec
CONSTANTS
    PendingLimit = 1
    MaxJobs = 3
    Overlap = FALSE
    MaxWorkers = 2
    MaxPanics = 1
INVARIANTS
    TypeOK
    OutcomeTruthful
    ShutdownAnswersAll
PROPERTIES
    ExportsServed
    StopsTakeEffect
CHECK_DEADLOCK FALSE
