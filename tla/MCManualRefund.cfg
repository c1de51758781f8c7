CONSTANTS
    t1 = t1
    t2 = t2
    Tickets = {t1, t2}
    Partial = {t2}
    Calls = {c1, c2, c3}
    Received = 4
    Amount <- MCAmount
    Credits = 5
    MaxFaults = 2
SPECIFICATION Spec
SYMMETRY CallSymmetry
INVARIANTS OneRefund NeverBoth ChargedIsPaid TellsTruth
CHECK_DEADLOCK FALSE
