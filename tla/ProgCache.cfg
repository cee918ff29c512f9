SPECIFICATION CacheSpec
CONSTANTS
  Procs = {p, q}
  Lib = lib
  Gem = gem
  Texts = {x, y}
  None = none
  Torn = torn
  Quiet = TRUE
  MaxEdits = 2
  MaxFaults = 1
SYMMETRY Symmetry
CONSTRAINT NoLapse
INVARIANTS RunsFresh EntryVouches PackageVouches
