---------------------------- MODULE MCCollector ----------------------------
(* An instance of Collector for TLC: two fields in the first node and in   *)
(* the immutable one, one in the other, and two places outside the heap.   *)
EXTENDS Collector

CONSTANTS a, b, p

Places == {<<a, 1>>, <<a, 2>>, <<b, 1>>, <<p, 1>>, <<p, 2>>, <<Outside, 1>>, <<Outside, 2>>}
InPlace == [s \in Places |-> s[1]]
=============================================================================
