SPECIFICATION Spec
CONSTANTS
    MaxTokens = 3
    MaxMishaps = 0
    MaxTransit = 2
    MaxLoads = 2
    GapBuffer = 2
    Paced = FALSE
    SaveAhead = TRUE
    SlowLoads = FALSE
    LostFinish = FALSE
INVARIANT NoHole
CHECK_DEADLOCK FALSE
