SPECIFICATION WorkersSpec
CONSTANTS
    QueueBound = 12
    RestartLimit = 2
    StreamClashes = {FALSE}
    MaxFaults = 1
INVARIANT ReadyHasHistory
