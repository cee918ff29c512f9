------------------------------ MODULE FairLock ------------------------------
(***************************************************************************)
(* What the armed Gvl promises, with no ticket in sight: one owner at a    *)
(* time, waiters served in arrival order, and a lock that is switched on   *)
(* at most once with the switching thread as its first owner.  ahead[t]    *)
(* is the set of waiters that arrived before t.                            *)
(***************************************************************************)
CONSTANTS Threads, None

VARIABLES on, owner, waiting, ahead

vars == <<on, owner, waiting, ahead>>

\* Whether the lock starts on is the environment's choice (ZEO_GVL).
Init ==
  /\ on \in BOOLEAN
  /\ owner = None
  /\ waiting = {}
  /\ ahead = [t \in Threads |-> {}]

SwitchOn(t) ==
  /\ ~on
  /\ on' = TRUE
  /\ owner' = t
  /\ UNCHANGED <<waiting, ahead>>

Enqueue(t) ==
  /\ on
  /\ owner # t
  /\ t \notin waiting
  /\ waiting' = waiting \cup {t}
  /\ ahead' = [ahead EXCEPT ![t] = waiting]
  /\ UNCHANGED <<on, owner>>

\* The longest waiter becomes the owner and is no longer ahead of anyone.
Grant(t) ==
  /\ owner = None
  /\ t \in waiting
  /\ ahead[t] = {}
  /\ owner' = t
  /\ waiting' = waiting \ {t}
  /\ ahead' = [u \in Threads |-> ahead[u] \ {t}]
  /\ UNCHANGED on

\* An arrival that finds the lock free and nobody waiting takes it at once.
Take(t) ==
  /\ on
  /\ owner = None
  /\ waiting = {}
  /\ owner' = t
  /\ UNCHANGED <<on, waiting, ahead>>

Release(t) ==
  /\ on
  /\ owner = t
  /\ owner' = None
  /\ UNCHANGED <<on, waiting, ahead>>

Next == \E t \in Threads : SwitchOn(t) \/ Enqueue(t) \/ Grant(t) \/ Take(t) \/ Release(t)

Spec == Init /\ [][Next]_vars
=============================================================================
