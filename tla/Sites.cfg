SPECIFICATION MCSpec
CONSTANTS
  Threads = {a, b}
  Parent = parent
  Child = child
  Mixin = mixin
  Classes <- MCClasses
  Modules <- MCModules
  Above <- MCAbove
  Site = child
  None = none
  MaxDefs = 2
  Fillers = {f, g, h}
  Values = {v, w}
  MaxWrites = 2
INVARIANTS SendFresh VetFresh ConstFresh
SYMMETRY Symmetric
