SPECIFICATION FairSpec
CONSTANTS
    QueueBound = 2
    RestartLimit = 2
    StreamClashes = {TRUE, FALSE}
    MaxFaults = 2
INVARIANTS
    TypeOK
    ClipDecodable
    AudioStreamRegistered
PROPERTIES
    FailureNotMasked
    StopTerminates
    PrimingNoticed
    TroubleSettles
