SPECIFICATION JoinFairSpec
CONSTANTS
  Callers = {c, a, b}
  Creator = c
  Early = TRUE
INVARIANT EmptyHasJoiner
PROPERTY JoinReturns
CHECK_DEADLOCK FALSE
