SPECIFICATION Spec
CONSTANTS
    Requests = {r1}
    MaxAttempts = 2
    MaxClicks = 2
    Faults = {"crash"}
    MaxFaults = 1
PROPERTY SuccessStands
CHECK_DEADLOCK FALSE
