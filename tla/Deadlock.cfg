SPECIFICATION FairSpec
CONSTANTS
  Main = m
  Ruby = {m, a, b}
  Ractors = {r}
  Joining = {}
  Steadies = {{}, {b}}
  Verdict = 1
INVARIANT NoFalseVerdict
PROPERTY DeadlockReported
CHECK_DEADLOCK FALSE
