------------------------------ MODULE Monitor -------------------------------
(***************************************************************************)
(* Monitor (ext/monitor): a Mutex whose owner may enter again, and a count *)
(* of how deep it is.  wait_for_cond parks the count at zero and hands the *)
(* Mutex to a ConditionVariable (module CondVar), which releases it and    *)
(* locks it again.  A kill is left to CondVar: it is delivered to running  *)
(* code, which unwinds by exit.                                            *)
(***************************************************************************)
EXTENDS CondVar

CONSTANTS
  MaxNest,     \* bound on a thread's entries
  Span         \* what the count wraps at; in the code 2^64

\* A thread's stack ends long before its entries fill the count.
ASSUME CountFits == MaxNest \in Nat /\ Span \in Nat /\ MaxNest < Span

VARIABLES
  count,       \* the nesting depth
  saved,       \* per thread: the count wait_for_cond took
  depth,       \* per thread: entries it has not left
  lost         \* a wait came back without the Mutex

monitor == <<count, saved, depth, lost>>
monitorVars == <<vars, monitor>>

MonitorInit ==
  /\ Init
  /\ count = 0 /\ lost = FALSE
  /\ saved = [t \in Threads |-> 0]
  /\ depth = [t \in Threads |-> 0]

Deeper(t) == depth' = [depth EXCEPT ![t] = @ + 1]
Shallower(t) == depth' = [depth EXCEPT ![t] = @ - 1]

-----------------------------------------------------------------------------

\* enter by a thread that does not own the Mutex asks for it;
Enter(t) ==
  /\ depth[t] < MaxNest
  /\ Lock(t)
  /\ UNCHANGED monitor

\* with it the count goes up.  So does try_enter.
Entered(t) ==
  /\ depth[t] < MaxNest
  /\ (pc[t] = "lock" /\ Locked(t)) \/ TryLock(t)
  /\ count' = (count + 1) % Span
  /\ Deeper(t)
  /\ UNCHANGED <<saved, lost>>

\* enter or try_enter by the owner.
EnterAgain(t) ==
  /\ pc[t] = "held" /\ depth[t] < MaxNest
  /\ count' = (count + 1) % Span
  /\ Deeper(t)
  /\ UNCHANGED <<vars, saved, lost>>

\* The verdict of a deadlock ends enter before the count.
EnterFails(t) ==
  /\ pc[t] = "lock" /\ LockFails(t)
  /\ UNCHANGED monitor

\* exit, and the end of synchronize, at the outermost level by the count,
ExitLast(t) ==
  /\ depth[t] > 0 /\ count = 1
  /\ Unlock(t)
  /\ count' = 0
  /\ Shallower(t)
  /\ UNCHANGED <<saved, lost>>

\* at any other,
ExitInner(t) ==
  /\ pc[t] = "held" /\ depth[t] > 0 /\ count # 1
  /\ count' = (count + Span - 1) % Span
  /\ Shallower(t)
  /\ UNCHANGED <<vars, saved, lost>>

\* and by a thread that is not the owner: "current thread not owner".
ExitRefused(t) ==
  /\ pc[t] = "run" /\ depth[t] > 0
  /\ Shallower(t)
  /\ UNCHANGED <<vars, count, saved, lost>>

-----------------------------------------------------------------------------
(* wait_for_cond *)

\* Mutant: only the innermost entry is given up.
WaitForCondOnce(t) ==
  /\ depth[t] > 0
  /\ Wait(t)
  /\ saved' = [saved EXCEPT ![t] = count]
  /\ count' = count - 1
  /\ UNCHANGED <<depth, lost>>

WaitForCond(t) ==
  /\ depth[t] > 0
  /\ Wait(t)
  /\ saved' = [saved EXCEPT ![t] = count]
  /\ count' = 0
  /\ UNCHANGED <<depth, lost>>

\* cond.wait came back with the Mutex,
Reentered(t) ==
  /\ pc[t] = "relock" /\ Locked(t)
  /\ count' = saved[t]
  /\ saved' = [saved EXCEPT ![t] = 0]
  /\ UNCHANGED <<depth, lost>>

\* or without it: the count is stored all the same.
ReenterFails(t) ==
  /\ pc[t] = "relock" /\ LockFails(t)
  /\ count' = saved[t]
  /\ saved' = [saved EXCEPT ![t] = 0]
  /\ lost' = TRUE
  /\ UNCHANGED depth

-----------------------------------------------------------------------------

MonitorStep(t) ==
  \/ Enter(t) \/ Entered(t) \/ EnterAgain(t) \/ EnterFails(t)
  \/ ExitLast(t) \/ ExitInner(t) \/ ExitRefused(t)
  \/ WaitForCond(t) \/ Reentered(t) \/ ReenterFails(t)
  \/ /\ \/ depth[t] > 0 /\ Set(t)
        \/ TakeHandoff(t) \/ Release(t) \/ Park(t) \/ Woken(t) \/ TimesOut(t)
        \/ Broadcast(t) \/ Signal(t)
     /\ UNCHANGED monitor

MonitorNext == \E t \in Threads : MonitorStep(t)

MonitorSpec == MonitorInit /\ [][MonitorNext]_monitorVars

-----------------------------------------------------------------------------
(* Properties. *)

Inside == {"held", "wait", "release"}

\* "count is only ever read or written by the execution that holds the lock":
\* until a wait has come back without the Mutex, who is inside owns it, the
\* count is how deep it is, a waiter's own depth is kept for it meanwhile, and
\* a monitor nobody is inside stands at zero.
NestingExact ==
  ~lost =>
    /\ \A t \in Threads :
         /\ pc[t] \in Inside <=> owner = t
         /\ depth[t] > 0 <=> pc[t] \in Inside \cup {"park", "parked", "relock"}
         /\ pc[t] = "held" => count = depth[t]
         /\ pc[t] \in {"wait", "release", "park", "parked", "relock"} => saved[t] = depth[t]
    /\ (\A t \in Threads : pc[t] # "held") => count = 0
=============================================================================
