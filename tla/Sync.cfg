SPECIFICATION MCSpec
CONSTANTS
  Threads = {a, b, c}
  None = none
  Users = {a, b}
  Observed = {a}
  MaxNest = 2
  Span = 4
  Bounds = {1, 2}
  MaxPushes = 4
INVARIANTS MonitorNesting NoLostWakeup QueueOrder
PROPERTIES CondVarReturns QueueServes QueueCloseReleases
CHECK_DEADLOCK FALSE
