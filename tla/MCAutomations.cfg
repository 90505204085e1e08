\* Two firings at a time, three instants over two days, a ceiling of one run.
SPECIFICATION Spec
CONSTANTS
    Firings = {f1, f2}
    Keys = {k1}
    MaxRuns = 2
    Horizon = 2
    PerDay = 2
    Cap = 1
    MaxFailures = 2
    Midnight = FALSE
    LostAnswers = {"tick", "manual"}
    NoFiring = NoFiring
    NoKey = NoKey
INVARIANTS
    PaidOnce
    OffStaysOff
    WithinDay
    OneLiveRun
SYMMETRY Symmetry
CHECK_DEADLOCK FALSE
