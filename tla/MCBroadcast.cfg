SPECIFICATION Spec
CONSTANTS
    amy1 = amy1
    amy2 = amy2
    ben1 = ben1
    amy = amy
    ben = ben
    Executions = {e1, e2}
    Tabs = {t1, t2}
    Members = {amy1, amy2}
    ContactOf <- Whose
    AxisOrder <- Order
    MaxProactiveSends = 1
    MaxRevision = 4
    MaxWords = 2
SYMMETRY Alike
INVARIANTS CapHolds SentIsCounted CompletedIsDone ConfirmedWasSeen
PROPERTY StopBinds
CHECK_DEADLOCK FALSE
