---------------------------- MODULE MCInterrupts ----------------------------
(***************************************************************************)
(* Interrupts for TLC, in two worlds of the same two threads.  In the first *)
(* both are Threads, the second one new, and no timer ticks.  In the other *)
(* the second is a Ractor and the Gvl is armed, so that the timer posts    *)
(* too; there only the counter's account is promised.                      *)
(***************************************************************************)
EXTENDS Interrupts

VARIABLE ticking     \* the world with the timer

T == INSTANCE Interrupts WITH Ractors <- Threads \ {Main}, Armed <- TRUE

MCvars == <<vars, ticking>>

MCInit ==
  /\ ticking \in BOOLEAN
  /\ IF ticking THEN T!Init ELSE Init

MCNext ==
  /\ UNCHANGED ticking
  /\ \/ ~ticking /\ Next
     \/ ticking /\ T!Next

MCSpec ==
  /\ MCInit /\ [][MCNext]_MCvars
  /\ \A a \in Actors : WF_MCvars(~ticking /\ UNCHANGED ticking /\ (Count(a) \/ Wake(a)))
  /\ \A t \in Threads : /\ WF_MCvars(~ticking /\ UNCHANGED ticking /\ (CheckInts(t) \/ Advance(t)))
                         /\ WF_MCvars(~ticking /\ UNCHANGED ticking /\ Rescue(t))

\* Of two Threads without the timer, none is parked with an interrupt in its
\* slot or after a wakeup meant for it (ThreadCtx::sleep, blocking_checkpoint).
UntickedPark == ticking \/ (NoLostInterrupt /\ NoLostWakeup)

\* There, a posted kill or raise reaches its target or the target ends
\* (thread_kill, thread_raise).
UntickedDelivery == ~ticking => InterruptDelivered
=============================================================================
