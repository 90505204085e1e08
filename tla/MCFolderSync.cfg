SPECIFICATION FairSpec
CONSTANTS
  Tabs = {t1, t2}
  Files = {f, g}
  Spares = {c1, c2, c3, c4}
  Inside = {g, c3, c4}
  MaxEdits = 3
  Big = {2}
  BigInside = FALSE
  MaxMishaps = 1
  Shrinks = FALSE
  AgentFirst = FALSE
  EditPhases = {}
  LateRequests = FALSE
INVARIANT NothingLost
PROPERTIES MergeIsReal Converges
CHECK_DEADLOCK FALSE
