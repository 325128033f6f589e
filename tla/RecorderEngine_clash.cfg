SPECIFICATION Spec
CONSTANTS
    QueueBound = 12
    RestartLimit = 2
    StreamClashes = {TRUE, FALSE}
    MaxFaults = 1
INVARIANT RejectedStartRetryable
