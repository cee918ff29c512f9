SPECIFICATION HeapSpec
CONSTANTS
  a = a
  b = b
  p = p
  Outside = outside
  Nil = nil
  Nodes = {a, b, p}
  Fixed = {p}
  Slots <- Places
  OwnerOf <- InPlace
  Missed = FALSE
INVARIANTS NeverClearsLive ClearsGarbage Freed
