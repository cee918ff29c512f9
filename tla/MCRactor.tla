------------------------------ MODULE MCRactor ------------------------------
(* Instances of Ractor for TLC.                                            *)
EXTENDS Ractor, TLC

CONSTANTS t1, t2, main, other

\* Two threads of different Ractors, and two of the same one.
Apart == t1 :> main @@ t2 :> other
Together == t1 :> main @@ t2 :> main
=============================================================================
