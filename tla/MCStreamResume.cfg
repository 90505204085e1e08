SPECIFICATION FairSpec
CONSTANTS
    MaxTokens = 2
    MaxMishaps = 1
    MaxTransit = 2
    MaxLoads = 2
    GapBuffer = 2
    Paced = TRUE
    SaveAhead = FALSE
    SlowLoads = FALSE
    LostFinish = FALSE
INVARIANTS
    Exact

    
CHECK_DEADLOCK FALSE
