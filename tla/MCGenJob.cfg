CONSTANTS
    Workers = {w1, w2}
    Kinds = {"IMAGE", "VIDEO"}
    Faults = {"crash", "overrun", "blip", "storage"}
    ImageFaults = 2
    VideoFaults = 1
    MaxMessages = 2
    MaxCalls = 2
    RetryLimit = 1
SPECIFICATION Spec
INVARIANTS
    EndsRefunded
    OrdersOnce
    AbsorbsRefunded
    TellsTruth
PROPERTY KeepsThePromise
SYMMETRY WorkerSymmetry
CHECK_DEADLOCK FALSE
