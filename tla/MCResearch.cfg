CONSTANTS
    Clicks = {c1, c2}
    MaxFaults = 2
SPECIFICATION FairSpec
PROPERTIES KeepsThePromise HoldCloses CardEnds
CHECK_DEADLOCK FALSE
