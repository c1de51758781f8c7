SPECIFICATION FairSpec
CONSTANTS
    Workers = {w1, w2}
    Channels = {"instagram", "facebook"}
    Faults = {"crash", "blip", "overrun", "outlive"}
    MaxFaults = 1
    MaxMessages = 1
    MaxAttempts = 3
    MaxApprovals = 2
    MaxEdits = 1
    MaxFlips = 2
    RetryLimit = 2
INVARIANTS NeverTwice LiveIsGuarded
PROPERTIES SentWhilePublishing EndsStand ClaimReleased Attended
CHECK_DEADLOCK FALSE
