\* Two create calls, one exec, the idle sweep and the collector over four instants.
SPECIFICATION Spec
CONSTANTS
    Requests = {r1, r2}
    Specs = {s1, s2}
    MaxBoxes = 3
    Horizon = 3
    IdleTTL = 1
    Grace = 1
    TTL = 2
    LateRevive = FALSE
    Nobody = Nobody
    NoSpec = NoSpec
INVARIANTS
    NotStolen
    SpecHonoured
PROPERTIES
    FilesKept
SYMMETRY Symmetry
CHECK_DEADLOCK FALSE
