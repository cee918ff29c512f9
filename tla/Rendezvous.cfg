SPECIFICATION FairSpec
CONSTANTS
  None = None
  Main = m
  Threads = {m, a, r}
  Ractors = {r}
  MaxStops = 2
INVARIANTS CountExact AskedAreParked
PROPERTY ParkedResumes
CHECK_DEADLOCK FALSE
