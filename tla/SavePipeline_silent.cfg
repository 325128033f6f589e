SPECIFICATION Spec
CONSTANTS
    QueueBound = 1
    Names = {n1, n2}
    MaxSaves = 2
    MaxMoves = 0
    MaxKills = 0
INVARIANT FailuresReported
