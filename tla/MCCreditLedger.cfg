CONSTANTS
    Jobs = {j1}
    Turns = {t1}
    ManualRefunds = {m1}
    Purchases = {p1}
    Adjustments = {a1}
    Amounts = {2}
    NoCap = NoCap
    Unreadable = Unreadable
    Caps = {NoCap, 1}
    AdjustLimit = 3
    Window = 1
    TurnMinimum = 1
    TurnElastic = 1
    SlotPrice = 1
    MaxSlots = 2
    LastDay = 2
    MaxSeen = 4
SPECIFICATION Spec
INVARIANTS
    Conservation
    ExactlyOnce
    ReservedIsOpenHolds
    SlotsAreHeld
    AdjustWindowBounded
