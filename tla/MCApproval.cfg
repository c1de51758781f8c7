SPECIFICATION FairSpec
CONSTANTS
    Requests = {r1, r2}
    MaxAttempts = 2
    MaxClicks = 2
    Faults = {"crash", "blip", "slow"}
    MaxFaults = 2
INVARIANTS RunsOnce FreeMeansFree
PROPERTIES PaidRunStands HoldsClose StrandedIsTold
CHECK_DEADLOCK FALSE
