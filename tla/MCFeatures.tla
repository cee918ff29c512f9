----------------------------- MODULE MCFeatures -----------------------------
(* Instances of Features for TLC: a unit under two names, a second unit     *)
(* behind an autoload, and a file on disk that is also run by Kernel#load.  *)
EXTENDS Features, TLC

CONSTANTS lib, gem, disk, lib1, lib2, gem1, disk1, Const

OfNames == lib1 :> lib @@ lib2 :> lib @@ gem1 :> gem @@ disk1 :> disk
Targets == Const :> gem1
Symmetry == Permutations(Threads)
=============================================================================
