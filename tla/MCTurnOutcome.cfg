\* The database may refuse a commit or lose its answer.
SPECIFICATION FairTurnSpec
CONSTANT DbOutage = TRUE
INVARIANTS
    TurnTypeOK
    CompletedKeepsReply
PROPERTIES
    OneVerdict
    TurnEnds
    SpinnerCleared
CHECK_DEADLOCK FALSE
