SPECIFICATION Spec
CONSTANTS
  lib = lib
  gem = gem
  disk = disk
  lib1 = lib1
  lib2 = lib2
  gem1 = gem1
  disk1 = disk1
  Const = Const
  Threads = {a, b}
  Units = {lib, gem}
  Files = {disk}
  Names = {lib1, lib2, gem1, disk1}
  Of <- OfNames
  Consts = {Const}
  Target <- Targets
  Reloaded = {disk}
  MaxFrames = 4
SYMMETRY Symmetry
INVARIANTS OnceOnly LoadingExact
CHECK_DEADLOCK FALSE
