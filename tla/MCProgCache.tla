---------------------------- MODULE MCProgCache ----------------------------
(* Instances of ProgCache for TLC.  The processes are alike,               *)
(* and so are the texts.                                                   *)
EXTENDS ProgCache, TLC

Symmetry == Permutations(Procs) \cup Permutations(Texts)

\* The properties say nothing past the first lapse, which no step takes back.
NoLapse == lapses = {}
=============================================================================
