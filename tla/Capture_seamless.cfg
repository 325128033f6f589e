SPECIFICATION CaptureSpec
CONSTANTS
    RingSize = 2
    EventBound = 3
    MinIntervals = {0, 1}
    MaxJump = 2
    Sizes = {"a", "b"}
    Gaps = {1, 4}
    MaxCopies = 4
    MaxResizes = 1
PROPERTY SeamlessAfterPause
CHECK_DEADLOCK FALSE
