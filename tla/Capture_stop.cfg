SPECIFICATION CaptureFairSpec
CONSTANTS
    RingSize = 2
    EventBound = 3
    MinIntervals = {0, 1}
    MaxJump = 2
    Sizes = {"a", "b"}
    Gaps = {1, 4}
    MaxCopies = 2
    MaxResizes = 1
PROPERTY StopObserved
CHECK_DEADLOCK FALSE
