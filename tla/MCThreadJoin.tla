---------------------------- MODULE MCThreadJoin ----------------------------
(* Instances of ThreadJoin for TLC.                                        *)
EXTENDS ThreadJoin
=============================================================================
