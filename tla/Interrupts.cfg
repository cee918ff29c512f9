SPECIFICATION MCSpec
CONSTANTS
  None = None
  Timer = timer
  Main = m
  Threads = {m, a}
  Ractors = {}
  Armed = FALSE
  MaxPosts = 2
INVARIANTS CounterAccounts UntickedPark
PROPERTY UntickedDelivery
CHECK_DEADLOCK FALSE
