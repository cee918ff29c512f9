SPECIFICATION MCSpec
CONSTANTS
  None = None
  Main = m
  Threads = {m, a, r}
  Ractors = {r}
  EnvArmed = {FALSE}
  Loaders = {m}
  MaxDepth = 3
  Width = 4
INVARIANTS OneRunner NoLostWakeup LatchFires
PROPERTIES ImplementsFairLock AttachedServed AttachedSpawns
CHECK_DEADLOCK FALSE
