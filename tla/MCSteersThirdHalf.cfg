SPECIFICATION Spec
CONSTANTS
    MaxSteers = 3
    PerTurn = 2
    MaxHalves = 3
    Mishaps = FALSE
INVARIANT SteersKept
CHECK_DEADLOCK FALSE
