SPECIFICATION Spec
CONSTANTS
  Fibers = {f, g}
  Root = root
  Scratch = scratch
  MaxFrames = 2
SYMMETRY Symmetry
INVARIANTS SwitchExact CoroKept ClaimReturns
CHECK_DEADLOCK FALSE
