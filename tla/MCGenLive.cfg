CONSTANTS
    Workers = {w1}
    Kinds = {"IMAGE", "VIDEO"}
    Faults = {"crash", "overrun", "blip", "storage"}
    ImageFaults = 1
    VideoFaults = 1
    MaxMessages = 3
    MaxCalls = 2
    RetryLimit = 1
SPECIFICATION FairSpec
PROPERTIES
    HoldCloses
    ThreadIsTold
CHECK_DEADLOCK FALSE
