------------------------------ MODULE CondVar -------------------------------
(***************************************************************************)
(* A Mutex and a ConditionVariable (thread.rs, condition_variable.rs) used *)
(* the usual way: a thread that finds a flag unset under the mutex waits,  *)
(* a thread that sets the flag under the mutex broadcasts, then or later.  *)
(* wait holds the condition variable's own handoff lock from before it     *)
(* releases the mutex until it is parked.                                  *)
(***************************************************************************)
EXTENDS Naturals, FiniteSets

CONSTANTS Threads, None

ASSUME NoneApart == None \notin Threads

VARIABLES
  owner,       \* the Mutex's owner
  handoff,     \* who holds the condition variable's lock
  parked,      \* threads in the condvar that nothing has woken
  flag,        \* what the waiters wait for
  owing,       \* threads that set the flag and have yet to broadcast
  killed,      \* threads with a kill pending
  pc

vars == <<owner, handoff, parked, flag, owing, killed, pc>>

Pcs == {"run", "lock", "held", "wait", "release", "park", "parked", "relock", "dead"}

TypeOK ==
  /\ owner \in Threads \cup {None}
  /\ handoff \in Threads \cup {None}
  /\ parked \subseteq Threads
  /\ flag \in BOOLEAN
  /\ owing \subseteq Threads
  /\ killed \subseteq Threads
  /\ pc \in [Threads -> Pcs]

Init ==
  /\ owner = None /\ handoff = None
  /\ parked = {} /\ owing = {} /\ killed = {}
  /\ flag = FALSE
  /\ pc = [t \in Threads |-> "run"]

Goto(t, where) == pc' = [pc EXCEPT ![t] = where]

-----------------------------------------------------------------------------
(* Mutex *)

\* mutex_lock is entered; one that does not own it may wait.
Lock(t) ==
  /\ pc[t] = "run"
  /\ Goto(t, "lock")
  /\ UNCHANGED <<owner, handoff, parked, flag, owing, killed>>

\* A free mutex is taken, at once, after a slice, or by wait on its way out.
Locked(t) ==
  /\ pc[t] \in {"lock", "relock"}
  /\ owner = None
  /\ owner' = t
  /\ Goto(t, "held")
  /\ UNCHANGED <<handoff, parked, flag, owing, killed>>

\* A slice ends in the deadlock verdict: the mutex is not taken.
LockFails(t) ==
  /\ pc[t] \in {"lock", "relock"}
  /\ owner # None
  /\ Goto(t, "run")
  /\ UNCHANGED <<owner, handoff, parked, flag, owing, killed>>

TryLock(t) ==
  /\ pc[t] = "run"
  /\ owner = None
  /\ owner' = t
  /\ Goto(t, "held")
  /\ UNCHANGED <<handoff, parked, flag, owing, killed>>

Unlock(t) ==
  /\ pc[t] = "held"
  /\ owner' = None
  /\ Goto(t, "run")
  /\ UNCHANGED <<handoff, parked, flag, owing, killed>>

\* The owner sets the flag; a broadcast is due.
Set(t) ==
  /\ pc[t] = "held" /\ ~flag
  /\ flag' = TRUE
  /\ owing' = owing \cup {t}
  /\ UNCHANGED <<owner, handoff, parked, killed, pc>>

-----------------------------------------------------------------------------
(* ConditionVariable *)

\* An owner that finds the flag unset calls wait.
Wait(t) ==
  /\ pc[t] = "held" /\ ~flag
  /\ Goto(t, "wait")
  /\ UNCHANGED <<owner, handoff, parked, flag, owing, killed>>

\* Mutant: the mutex is released before the handoff lock is taken.
TakeHandoffLate(t) ==
  /\ pc[t] = "wait"
  /\ Goto(t, "release")
  /\ UNCHANGED <<owner, handoff, parked, flag, owing, killed>>

\* wait takes the handoff lock,
TakeHandoff(t) ==
  /\ pc[t] = "wait"
  /\ handoff = None
  /\ handoff' = t
  /\ Goto(t, "release")
  /\ UNCHANGED <<owner, parked, flag, owing, killed>>

\* releases the mutex,
Release(t) ==
  /\ pc[t] = "release"
  /\ owner' = None
  /\ Goto(t, "park")
  /\ UNCHANGED <<handoff, parked, flag, owing, killed>>

\* and parks, giving the handoff lock up.
Park(t) ==
  /\ pc[t] = "park"
  /\ handoff' = IF handoff = t THEN None ELSE handoff
  /\ parked' = parked \cup {t}
  /\ Goto(t, "parked")
  /\ UNCHANGED <<owner, flag, owing, killed>>

\* Mutant: the waiter keeps the handoff lock while it wants the mutex.
WokenHolding(t) ==
  /\ pc[t] = "parked" /\ t \notin parked
  /\ handoff = None
  /\ handoff' = t
  /\ Goto(t, "relock")
  /\ UNCHANGED <<owner, parked, flag, owing, killed>>

\* A notified waiter takes and drops the handoff lock and wants the mutex.
Woken(t) ==
  /\ pc[t] = "parked" /\ t \notin parked
  /\ handoff = None
  /\ Goto(t, "relock")
  /\ UNCHANGED <<owner, handoff, parked, flag, owing, killed>>

\* wait(mutex, timeout) runs out.
TimesOut(t) ==
  /\ pc[t] = "parked" /\ t \in parked
  /\ handoff = None
  /\ parked' = parked \ {t}
  /\ Goto(t, "relock")
  /\ UNCHANGED <<owner, handoff, flag, owing, killed>>

\* broadcast, and signal, under the handoff lock; the caller may own the
\* mutex.
Broadcast(t) ==
  /\ pc[t] \in {"run", "held"} /\ t \in owing
  /\ handoff = None
  /\ parked' = {}
  /\ owing' = owing \ {t}
  /\ UNCHANGED <<owner, handoff, flag, killed, pc>>

Signal(t) ==
  /\ pc[t] \in {"run", "held"}
  /\ handoff = None
  /\ \E u \in parked : parked' = parked \ {u}
  /\ UNCHANGED <<owner, handoff, flag, owing, killed, pc>>

-----------------------------------------------------------------------------
(* Thread#kill *)

\* thread_kill fills the slot; neither wait has registered a context to wake.
Kill(t, u) ==
  /\ pc[t] = "run" /\ t # u
  /\ pc[u] # "dead"
  /\ killed' = killed \cup {u}
  /\ UNCHANGED <<owner, handoff, parked, flag, owing, pc>>

\* An emitted checkpoint of running code delivers it.  synchronize unlocks on
\* the way out; this protocol's setter broadcasts from an ensure clause, so a
\* thread that owes a broadcast has it done before it is gone.
Die(t) ==
  /\ pc[t] \in {"run", "held"} /\ t \in killed /\ t \notin owing
  /\ owner' = IF owner = t THEN None ELSE owner
  /\ Goto(t, "dead")
  /\ UNCHANGED <<handoff, parked, flag, owing, killed>>

-----------------------------------------------------------------------------

Step(t) ==
  \/ Lock(t) \/ Locked(t) \/ LockFails(t) \/ TryLock(t) \/ Unlock(t) \/ Set(t)
  \/ Wait(t) \/ TakeHandoff(t) \/ Release(t) \/ Park(t) \/ Woken(t) \/ TimesOut(t)
  \/ Broadcast(t) \/ Signal(t) \/ Die(t)
  \/ \E u \in Threads : Kill(t, u)

Next == \E t \in Threads : Step(t)

Spec == Init /\ [][Next]_vars

\* Running code goes on: it unlocks and broadcasts what it owes.  The handoff
\* lock and the mutex may be barged for, and are taken by whoever keeps trying.
FairSpec ==
  /\ Spec
  /\ \A t \in Threads :
       /\ WF_vars(Release(t) \/ Park(t) \/ Unlock(t))
       /\ SF_vars(TakeHandoff(t) \/ Woken(t) \/ Broadcast(t))
       /\ SF_vars(Locked(t))

-----------------------------------------------------------------------------
(* Properties. *)

Owning == {"held", "wait", "release"}

\* Mutual exclusion through lock, try_lock and wait's release and re-lock,
\* failed re-locks included: who runs as the owner is the owner.
Exclusive == \A t \in Threads : pc[t] \in Owning <=> owner = t

\* "the classic no-lost-wakeup guarantee": once the flag is set and nobody
\* owes a broadcast, no waiter is left parked and none is on its way to park.
NoLostWakeup ==
  flag /\ owing = {} =>
    parked = {} /\ \A t \in Threads : pc[t] \notin {"wait", "release", "park"}

\* A waiter on a flag that was set gets back from wait.
WaiterReturns(t) == (flag /\ pc[t] = "parked") ~> pc[t] # "parked"

\* "Called from every blocking primitive that can park a thread indefinitely"
\* (check_interrupt's comment): a killed thread does not stay in wait.
KillEndsWait == \A t \in Threads : (t \in killed /\ pc[t] = "parked") ~> pc[t] # "parked"
=============================================================================
