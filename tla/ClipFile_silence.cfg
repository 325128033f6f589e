SPECIFICATION ClipFileSpec
CONSTANTS
    Second = 10
    AudioRate = 12
    FrameTicks = 6
    PauseTicks = 2
    FrameTime = 3
    VideoKinds <- MCVideoKinds
    VideoSteps = {0, 4, 12}
    AudioStarts <- MCAudioStarts
    AudioSteps = {5, 12}
    MaxVideo = 3
    MaxAudio = 2
    Cuts = {3, 9, 17}
INVARIANT SilenceKept
CHECK_DEADLOCK FALSE
