SPECIFICATION Spec
CONSTANTS
  Tabs = {t1}
  Files = {f, g}
  Spares = {c1}
  Inside = {g}
  MaxEdits = 2
  Big = {2}
  BigInside = TRUE
  MaxMishaps = 0
  Shrinks = FALSE
  AgentFirst = FALSE
  EditPhases = {}
  LateRequests = FALSE
INVARIANT NothingLost
CHECK_DEADLOCK FALSE
