----------------------------- MODULE MCDeadlock -----------------------------
(* Instances of Deadlock for TLC.                                          *)
EXTENDS Deadlock
=============================================================================
