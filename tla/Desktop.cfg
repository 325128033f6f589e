SPECIFICATION DesktopSpec
CONSTANTS
    Dirs = {"d1", "d2"}
    Names = {n1, n2, tmp}
    SweptNames = {tmp}
    NoClip = NoClip
    NoQuota = NoQuota
    MaxClips = 2
    Quotas = {0, 1}
    MaxFaults = 2
    NoManager = NoManager
    NoFile = NoFile
    Documents <- MCDocuments
    DefaultDocument <- MCDefault
    RingSize = 2
    EventBound = 3
    MinIntervals = {0, 1}
    MaxJump = 2
    Sizes = {"a", "b"}
    Gaps = {1, 4}
    MaxCopies = 3
    MaxResizes = 1
    Candidates = {"nvenc", "qsv", "soft"}
    Hardware = {"nvenc", "qsv"}
    MaxFrames = 2
    MaxConfigures = 2
    MaxFailures = 4
    Second = 10
    AudioRate = 12
    FrameTicks = 6
    PauseTicks = 2
    FrameTime = 3
    VideoKinds <- MCVideoKinds
    VideoSteps = {0, 4, 12}
    AudioStarts <- MCAudioStarts
    AudioSteps = {5, 12}
    MaxVideo = 3
    MaxAudio = 2
    Cuts = {3, 9, 17}
    Keys = {"a"}
    Bindings <- MCBindings
    EventQueueBound = 1
    MaxDowns = 2
    MaxReplacements = 1
    MaxMishaps = 1
    Wanted = 2
    Shelf = 2
    Intervals = {0, 1}
    MaxOffered = 4
    SilenceWait = 50
    RestartPause = 25
    RestartLimit = 2
    MaxDiscontinuity = 120
    Lengths = {30}
    Delays <- MCDelays
    MaxChunks = 4
    MaxLosses = 2
    Policies = {"AttachedHidden", "DetachedShown"}
    CueBound = 1
    Overlays = {"full"}
    MaxHuds = 2
    MaxCues = 2
    Bits = 4
    Micros = 5
    Narrow = 15
    Wide = 255
    Ladder <- MCLadder
    Requests <- MCRequests
INVARIANTS
    DesktopTypeOK
    NothingLost
    QuotaSound
    SettingsAllOrNothing
    PicturesTrue
    ReplacementsSound
    ClipFileSound
    HotkeysSound
    TransformSound
    AudioInStep
    HudSound
    PlanFits
PROPERTIES PtsNeverBack
CHECK_DEADLOCK FALSE
