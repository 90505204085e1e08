\* Sends keep clear of a reply's set-up and of a decision under way.
SPECIFICATION FairSpec
CONSTANTS
    MaxMsgs = 5
    SendInSetup = FALSE
    SendOverDecision = FALSE
    FailOverFold = FALSE
INVARIANTS
    TypeOK
    
    
    NoOrphanDecision
    NoCardBehindReply
PROPERTIES
    DecidedSettles
CHECK_DEADLOCK FALSE
