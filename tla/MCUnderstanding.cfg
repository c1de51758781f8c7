CONSTANTS
    Handlers = {h1, h2}
    MaxRounds = 3
SPECIFICATION FairSpec
INVARIANT OneRound
PROPERTIES KeepsThePromise HoldCloses
CHECK_DEADLOCK FALSE
