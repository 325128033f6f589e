SPECIFICATION MCSpec
CONSTANTS
    Streams = {video, audio}
    Video = video
    NoDts = NoDts
    Cap = 3
    Retentions = {0, 1, 2}
    KeyBytes = 3
    Lags = {0, 1}
    FrameDuration = 1
    Durations = {1, 2}
    MaxDts = 3
    MaxInserts = 5
    MaxInsertsAmongCalls = 3
    MaxEpochs = 1
INVARIANTS
    TypeOK
    TracksSound
    NoHoles
    MemoryAccounted
    ClipSound
    EvictionExact
PROPERTIES
    SequencesNeverRestart
    PrimedStays
CHECK_DEADLOCK FALSE
