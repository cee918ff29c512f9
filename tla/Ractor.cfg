SPECIFICATION RactorSpec
CONSTANTS
  Body = body
  Helpers = {h}
  t1 = t1
  t2 = t2
  main = main
  other = other
  Takers = {t1, t2}
  Home <- Apart
  Nobody = nobody
  MaxWaits = 2
  MaxSends = 1
INVARIANTS TakeAfterEnd TokenOnce MonitorsLive TokenArrives
CHECK_DEADLOCK FALSE
