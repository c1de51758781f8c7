CONSTANTS
    Workers = {w1, w2}
    Kinds = {"IMAGE"}
    Faults = {"blip"}
    ImageFaults = 1
    VideoFaults = 1
    MaxMessages = 2
    MaxCalls = 2
    RetryLimit = 1
SPECIFICATION Spec
INVARIANT EndedMeansRefunded
CHECK_DEADLOCK FALSE
