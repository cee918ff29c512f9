------------------------------- MODULE MCGvl -------------------------------
(***************************************************************************)
(* Gvl for TLC, in two worlds of the same three threads.  In the first the *)
(* third thread is a Ractor, the Gvl starts disarmed and Main loads         *)
(* extensions.  In the second every thread is a Thread and ZEO_GVL=1 armed *)
(* the Gvl at start; this is where the scheduler's promises hold, and the  *)
(* only one whose steps are fair.                                          *)
(***************************************************************************)
EXTENDS Gvl

VARIABLE attached    \* the second world

A == INSTANCE Gvl WITH Ractors <- {}, EnvArmed <- {TRUE}, Loaders <- {}, MaxDepth <- 2

MCvars == <<vars, attached>>

MCInit ==
  /\ attached \in BOOLEAN
  /\ IF attached THEN A!Init ELSE Init

MCNext ==
  /\ UNCHANGED attached
  /\ \/ ~attached /\ Next
     \/ attached /\ A!Next

MCSpec ==
  /\ MCInit /\ [][MCNext]_MCvars
  /\ \A t \in Threads : /\ WF_MCvars(attached /\ A!Advance(t) /\ UNCHANGED attached)
                         /\ WF_MCvars(attached /\ A!ServiceTimer(t) /\ UNCHANGED attached)
  /\ WF_MCvars(attached /\ A!TimerTick /\ UNCHANGED attached)

\* The threads whose promises are checked: in the second world the third one
\* is interchangeable with the second.
Observed == Threads \ Ractors

\* Of threads that attach to a Gvl armed at start, whoever queued for it gets
\* it (hold, yield_now, service_timer).
AttachedServed == attached => \A t \in Observed : WaiterServed(t)

\* There, Thread.new returns: the child sends its start message before it
\* queues (the start latch).
AttachedSpawns == attached => \A t \in Observed : SpawnReturns(t)
=============================================================================
