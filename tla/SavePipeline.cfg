SPECIFICATION FairSpec
CONSTANTS
    QueueBound = 1
    Names = {n1, n2}
    MaxSaves = 3
    MaxMoves = 1
    MaxKills = 1
INVARIANTS
    TypeOK
    NamesExclusive
    VerdictsTruthful
    PartsAccounted
PROPERTIES
    ServiceKept
    OnlyMovedReplaced
    NobodyWaitsForever
