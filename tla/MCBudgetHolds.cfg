\* Two turns of which the second fits under the cap once the first has settled low;
\* a turn is reaped only when its runner is gone.
SPECIFICATION FairSpec
CONSTANTS
    Turns = {t1, t2}
    Estimate = 2
    Costs = {1, 2}
    Cap = 4
    LeaseLoss = FALSE
    SweepBeforeBill = FALSE
    QuietDiscard = FALSE
    LedgerOutage = FALSE
INVARIANTS
    TypeOK
    
    WithinCap
    BilledOnce
    HoldCoversTurn
PROPERTIES
    HoldReleased
CHECK_DEADLOCK FALSE
