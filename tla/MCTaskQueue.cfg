\* Two processes that may serve at once, crash and be replaced.
SPECIFICATION FairSpec
CONSTANTS
    c1 = c1
    c2 = c2
    p = p
    w1 = w1
    w2 = w2
    Chats = {c1, c2}
    Projects = {p}
    Workspace <- OneProject
    Workers = {w1, w2}
    MaxTasks = 2
    MaxConcurrency = 1
    LeaseTicks = 1
    ReapMargin = 1
    Overlap = TRUE
    NoWorker = NoWorker
INVARIANTS
    TypeOK
    ChatExclusion
    ClaimedOnce
    OneExecutor
PROPERTIES
    FirstOutcomeWins
    QueuedServed
    RunningSettles
CHECK_DEADLOCK FALSE
