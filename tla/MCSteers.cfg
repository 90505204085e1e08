SPECIFICATION Spec
CONSTANTS
    MaxSteers = 4
    PerTurn = 2
    MaxHalves = 2
    Mishaps = TRUE
INVARIANTS
    SteersKept
    SaidOnce
PROPERTIES
    SendStands
CHECK_DEADLOCK FALSE
