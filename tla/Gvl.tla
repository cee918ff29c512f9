-------------------------------- MODULE Gvl --------------------------------
(***************************************************************************)
(* The process Gvl of zeo-rt (concurrency/gvl.rs): the ticket-FIFO handoff *)
(* with its condition variable, the latch that arms it when a C extension  *)
(* meets a second Ruby thread, the quantum timer, and the guards that take *)
(* and give back the lock around a thread's life (HoldGuard, without,      *)
(* hold_reentrant).  Threads interleave at every lock section and atomic.  *)
(***************************************************************************)
EXTENDS Naturals, Sequences, FiniteSets

CONSTANTS
  Threads,     \* OS threads that run Ruby code
  Main,        \* the thread of exec::run_main
  Ractors,     \* Ractor bodies and C-spawned threads: they never call hold
  None,        \* no thread
  EnvArmed,    \* whether the Gvl starts armed (ZEO_GVL=1), either or both
  Width,       \* the ticket counters wrap at Width (2^64 in the code)
  MaxDepth,    \* bound on the nesting of guards on one thread
  Loaders      \* the threads whose program loads a C extension

ASSUME ThreadsFinite == IsFiniteSet(Threads)
ASSUME MainIsThread == Main \in Threads \ Ractors
ASSUME RactorsAreThreads == Ractors \subseteq Threads
ASSUME NoneIsNoThread == None \notin Threads
ASSUME EnvArmedIsBool == EnvArmed \subseteq BOOLEAN
ASSUME WidthFits == Width \in Nat /\ Cardinality(Threads) < Width
ASSUME MaxDepthIsNat == MaxDepth \in Nat

VARIABLES
  armed, nextTicket, nowServing, holder,   \* struct Gvl and its GvlState
  asleep,                                  \* threads parked on Gvl.cv
  multi, cextLoaded, cextArmed,            \* MULTI_THREADED and the cext latch
  members,                                 \* threads whose ThreadCtx is attached
  timer, tick,                             \* the timer thread; INT_TIMER bits
  pc, cont,                                \* where a thread is, and where it returns to
  frames,                                  \* the guards live on a thread's stack
  ticket,                                  \* the ticket a waiter holds
  started, kid                             \* Thread.new's start latch, and for whom

lockVars  == <<armed, nextTicket, nowServing, holder, asleep, ticket>>
latchVars == <<multi, cextLoaded, cextArmed>>
timerVars == <<members, timer, tick>>
spawnVars == <<started, kid>>
vars == <<lockVars, latchVars, timerVars, spawnVars, pc, cont, frames>>

NoTicket == Width

\* "hold" is a HoldGuard that took the lock, "hold0" one built while unarmed,
\* "off" a ReacquireGuard: the frame of a `without` that released the lock.
FrameKinds == {"hold", "hold0", "off"}

Pcs == {"unborn", "starting", "attached", "hold", "acquire", "wait", "notify",
        "run", "load", "swap", "arm", "spawn", "recv", "done"}

TypeOK ==
  /\ armed \in BOOLEAN
  /\ nextTicket \in 0..(Width - 1)
  /\ nowServing \in 0..(Width - 1)
  /\ holder \in Threads \cup {None}
  /\ asleep \subseteq Threads
  /\ multi \in BOOLEAN /\ cextLoaded \in BOOLEAN /\ cextArmed \in BOOLEAN
  /\ members \subseteq Threads
  /\ timer \in BOOLEAN
  /\ tick \in [Threads -> BOOLEAN]
  /\ pc \in [Threads -> Pcs]
  /\ cont \in [Threads -> Pcs]
  /\ frames \in [Threads -> Seq(FrameKinds)]
  /\ ticket \in [Threads -> 0..Width]
  /\ started \in [Threads -> BOOLEAN]
  /\ kid \in [Threads -> Threads \cup {None}]

Init ==
  /\ armed \in EnvArmed
  /\ nextTicket = 0 /\ nowServing = 0 /\ holder = None
  /\ asleep = {}
  /\ multi = FALSE /\ cextLoaded = FALSE /\ cextArmed = FALSE
  /\ members = {}
  /\ timer = FALSE
  /\ tick = [t \in Threads |-> FALSE]
  /\ pc = [t \in Threads |-> IF t = Main THEN "starting" ELSE "unborn"]
  /\ cont = [t \in Threads |-> "run"]
  /\ frames = [t \in Threads |-> <<>>]
  /\ ticket = [t \in Threads |-> NoTicket]
  /\ started = [t \in Threads |-> FALSE]
  /\ kid = [t \in Threads |-> None]

-----------------------------------------------------------------------------
(* The lock. *)

Inc(n) == IF n + 1 = Width THEN 0 ELSE n + 1

Goto(t, where) == pc' = [pc EXCEPT ![t] = where]

Top(t) == IF frames[t] = <<>> THEN "none" ELSE frames[t][Len(frames[t])]
Push(t, k) == frames' = [frames EXCEPT ![t] = Append(@, k)]
Pop(t) == frames' = [frames EXCEPT ![t] = SubSeq(@, 1, Len(@) - 1)]

\* Running compiled code rather than the closure of a `without`.
InCode(t) == pc[t] = "run" /\ Top(t) # "off"

\* Mutant: an arrival takes a free lock whatever its ticket says.
TakeTicketBarging(t) ==
  /\ nextTicket' = Inc(nextTicket)
  /\ IF holder = None
       THEN holder' = t /\ Goto(t, "run") /\ UNCHANGED <<asleep, ticket>>
       ELSE /\ asleep' = asleep \cup {t}
            /\ ticket' = [ticket EXCEPT ![t] = nextTicket]
            /\ Goto(t, "wait")
            /\ UNCHANGED holder
  /\ UNCHANGED <<armed, nowServing>>

\* acquire's first critical section: take a ticket; go straight through when
\* it is the one being served, otherwise park on the condition variable.
TakeTicket(t) ==
  /\ nextTicket' = Inc(nextTicket)
  /\ IF nextTicket = nowServing
       THEN /\ holder' = t
            /\ Goto(t, "run")
            /\ UNCHANGED <<asleep, ticket>>
       ELSE /\ asleep' = asleep \cup {t}
            /\ ticket' = [ticket EXCEPT ![t] = nextTicket]
            /\ Goto(t, "wait")
            /\ UNCHANGED holder
  /\ UNCHANGED <<armed, nowServing>>

\* A woken waiter re-reads now_serving under the lock.
Recheck(t) ==
  /\ pc[t] = "wait"
  /\ t \notin asleep
  /\ IF ticket[t] = nowServing
       THEN /\ holder' = t
            /\ ticket' = [ticket EXCEPT ![t] = NoTicket]
            /\ started' = [started EXCEPT ![t] = TRUE]
            /\ Goto(t, "run")
            /\ UNCHANGED asleep
       ELSE /\ asleep' = asleep \cup {t}
            /\ UNCHANGED <<holder, ticket, pc, started>>
  /\ UNCHANGED <<armed, nextTicket, nowServing, latchVars, timerVars, kid, cont, frames>>

\* release's critical section; the notify_all follows after the unlock.
Release(t, next) ==
  /\ holder' = None
  /\ nowServing' = Inc(nowServing)
  /\ Goto(t, "notify")
  /\ cont' = [cont EXCEPT ![t] = next]
  /\ UNCHANGED <<armed, nextTicket, asleep, ticket>>

\* A thread leaves a sub-operation for `where`; a thread that ends drops its
\* ctx, and the bits in it are gone.
Return(t, where) ==
  /\ Goto(t, where)
  /\ cont' = [cont EXCEPT ![t] = "run"]
  /\ IF where = "done"
       THEN members' = members \ {t} /\ tick' = [tick EXCEPT ![t] = FALSE]
       ELSE UNCHANGED <<members, tick>>

\* Mutant: notify_one instead of notify_all.
NotifyOne(t) ==
  /\ pc[t] = "notify"
  /\ IF asleep = {} THEN asleep' = {} ELSE \E u \in asleep : asleep' = asleep \ {u}
  /\ Return(t, cont[t])
  /\ UNCHANGED <<armed, nextTicket, nowServing, holder, ticket, latchVars,
                 timer, spawnVars, frames>>

\* cv.notify_all, after the unlock.
NotifyAll(t) ==
  /\ pc[t] = "notify"
  /\ asleep' = {}
  /\ Return(t, cont[t])
  /\ UNCHANGED <<armed, nextTicket, nowServing, holder, ticket, latchVars,
                 timer, spawnVars, frames>>

-----------------------------------------------------------------------------
(* The guards. *)

\* hold(): in the parallel mode nothing is acquired and the guard is inert.
\* An immediate grant also passes the start latch, which run_main has no use for.
Hold(t) ==
  /\ pc[t] = "hold"
  /\ IF armed
       THEN /\ TakeTicket(t)
            /\ Push(t, "hold")
            /\ started' = [started EXCEPT ![t] = @ \/ nextTicket = nowServing]
       ELSE /\ Goto(t, "run")
            /\ Push(t, "hold0")
            /\ started' = [started EXCEPT ![t] = TRUE]
            /\ UNCHANGED lockVars
  /\ UNCHANGED <<latchVars, timerVars, kid, cont>>

\* hold_reentrant, on a thread that arrives without the lock; on any other
\* it is a no-op.
HoldReentrant(t) ==
  /\ pc[t] = "run"
  /\ armed
  /\ holder # t
  /\ Len(frames[t]) < MaxDepth
  /\ TakeTicket(t)
  /\ Push(t, "hold")
  /\ UNCHANGED <<latchVars, timerVars, spawnVars, cont>>

\* A HoldGuard drops: at a thread's end it is the last thing on the stack.
DropHold(t) ==
  /\ InCode(t)
  /\ frames[t] # <<>>
  /\ Pop(t)
  /\ LET next == IF Len(frames[t]) = 1 /\ t \notin Ractors THEN "done" ELSE "run"
     IN IF holder = t
          THEN Release(t, next) /\ UNCHANGED <<members, tick>>
          ELSE Return(t, next) /\ UNCHANGED lockVars
  /\ UNCHANGED <<latchVars, timer, spawnVars>>

\* A Ractor's body returns; it holds no guard.
RactorExit(t) ==
  /\ pc[t] = "run"
  /\ t \in Ractors
  /\ frames[t] = <<>>
  /\ Return(t, "done")
  /\ UNCHANGED <<lockVars, latchVars, timer, spawnVars, frames>>

\* without(f) on the holder: release, then run f under a ReacquireGuard.  On
\* any other thread it only calls f.
Without(t) ==
  /\ InCode(t)
  /\ holder = t
  /\ Len(frames[t]) < MaxDepth
  /\ Release(t, "run")
  /\ Push(t, "off")
  /\ UNCHANGED <<latchVars, timerVars, spawnVars>>

\* Mutant: f's return goes back to the code without the lock.
EndWithoutLock(t) ==
  /\ pc[t] = "run"
  /\ Top(t) = "off"
  /\ Pop(t)
  /\ UNCHANGED <<lockVars, latchVars, timerVars, spawnVars, pc, cont>>

\* f returned, or unwound: the ReacquireGuard drops.
EndWithout(t) ==
  /\ pc[t] = "run"
  /\ Top(t) = "off"
  /\ Pop(t)
  /\ Goto(t, "acquire")
  /\ UNCHANGED <<lockVars, latchVars, timerVars, spawnVars, cont>>

\* yield_now, reached from Thread.pass: a no-op off the holder.
YieldNow(t) ==
  /\ InCode(t)
  /\ holder = t
  /\ Release(t, "acquire")
  /\ UNCHANGED <<latchVars, timerVars, spawnVars, frames>>

\* Mutant: the tick is consumed and nobody yields.
ServiceTimerNoYield(t) ==
  /\ InCode(t)
  /\ t \in members
  /\ tick[t]
  /\ tick' = [tick EXCEPT ![t] = FALSE]
  /\ UNCHANGED <<lockVars, pc, cont, latchVars, members, timer, spawnVars, frames>>

\* service_timer at a checkpoint: the tick is consumed, the holder yields.
ServiceTimer(t) ==
  /\ InCode(t)
  /\ t \in members
  /\ tick[t]
  /\ tick' = [tick EXCEPT ![t] = FALSE]
  /\ IF holder = t
       THEN Release(t, "acquire")
       ELSE UNCHANGED <<lockVars, pc, cont>>
  /\ UNCHANGED <<latchVars, members, timer, spawnVars, frames>>

\* The second half of yield_now and of a ReacquireGuard.
Acquire(t) ==
  /\ pc[t] = "acquire"
  /\ TakeTicket(t)
  /\ UNCHANGED <<latchVars, timerVars, spawnVars, cont, frames>>

TimerTick ==
  /\ timer
  /\ armed
  /\ Cardinality(members) >= 2
  /\ tick' = [t \in Threads |-> tick[t] \/ t \in members]
  /\ UNCHANGED <<lockVars, latchVars, members, timer, spawnVars, pc, cont, frames>>

-----------------------------------------------------------------------------
(* The latch and Thread.new. *)

\* note_thread_spawn, called by Thread.new and Ractor.new before the spawn.
NoteThreadSpawn(t) ==
  /\ InCode(t)
  /\ \E u \in Threads : pc[u] = "unborn"
  /\ multi' = TRUE
  /\ Goto(t, "load")
  /\ cont' = [cont EXCEPT ![t] = "spawn"]
  /\ UNCHANGED <<lockVars, cextLoaded, cextArmed, timerVars, spawnVars, frames>>

\* note_cext_loaded, called before an extension's Init_.
NoteCextLoaded(t) ==
  /\ t \in Loaders
  /\ InCode(t)
  /\ cextLoaded' = TRUE
  /\ Goto(t, "load")
  /\ cont' = [cont EXCEPT ![t] = "run"]
  /\ UNCHANGED <<lockVars, multi, cextArmed, timerVars, spawnVars, frames>>

\* Mutant: the spawning side does not look for a loaded extension.
LatchLoadOneSided(t) ==
  /\ pc[t] = "load"
  /\ IF cont[t] # "spawn" /\ multi
       THEN Goto(t, "swap") /\ UNCHANGED <<cont, members, tick>>
       ELSE Return(t, cont[t])
  /\ UNCHANGED <<lockVars, latchVars, timer, spawnVars, frames>>

\* Each side, having stored its own flag, reads the other's.
LatchLoad(t) ==
  /\ pc[t] = "load"
  /\ IF IF cont[t] = "spawn" THEN cextLoaded ELSE multi
       THEN Goto(t, "swap") /\ UNCHANGED <<cont, members, tick>>
       ELSE Return(t, cont[t])
  /\ UNCHANGED <<lockVars, latchVars, timer, spawnVars, frames>>

\* arm_for_cext fires once.
LatchSwap(t) ==
  /\ pc[t] = "swap"
  /\ cextArmed' = TRUE
  /\ IF cextArmed
       THEN Return(t, cont[t])
       ELSE Goto(t, "arm") /\ UNCHANGED <<cont, members, tick>>
  /\ UNCHANGED <<lockVars, multi, cextLoaded, timer, spawnVars, frames>>

\* Gvl::arm makes the caller the holder, as if its hold had been a real one.
Arm(t) ==
  /\ pc[t] = "arm"
  /\ Return(t, cont[t])
  /\ IF armed
       THEN UNCHANGED <<lockVars, frames>>
       ELSE /\ nextTicket' = 1
            /\ nowServing' = 0
            /\ holder' = t
            /\ armed' = TRUE
            /\ frames' = [frames EXCEPT ![t] = [i \in DOMAIN @ |-> "hold"]]
            /\ UNCHANGED <<asleep, ticket>>
  /\ UNCHANGED <<latchVars, timer, spawnVars>>

\* The OS spawn.  Thread.new's creator then waits for the start latch, a
\* Ractor's does not.
Spawn(t) ==
  /\ pc[t] = "spawn"
  /\ \E u \in Threads :
       /\ pc[u] = "unborn"
       /\ IF u \in Ractors
            THEN /\ pc' = [pc EXCEPT ![u] = "run", ![t] = "run"]
                 /\ UNCHANGED kid
            ELSE /\ pc' = [pc EXCEPT ![u] = "starting", ![t] = "recv"]
                 /\ kid' = [kid EXCEPT ![t] = u]
  /\ UNCHANGED <<lockVars, latchVars, timerVars, started, cont, frames>>

\* Two spawners raced for the last thread of the instance: this one's spawn
\* is outside the bound, and its program goes on without the thread.
SpawnBound(t) ==
  /\ pc[t] = "spawn"
  /\ \A u \in Threads : pc[u] # "unborn"
  /\ Goto(t, "run")
  /\ UNCHANGED <<lockVars, latchVars, timerVars, spawnVars, cont, frames>>

Recv(t) ==
  /\ pc[t] = "recv"
  /\ started[kid[t]]
  /\ kid' = [kid EXCEPT ![t] = None]
  /\ Goto(t, "run")
  /\ UNCHANGED <<lockVars, latchVars, timerVars, started, cont, frames>>

\* install_ctx attaches the thread; the first to find the Gvl armed with a
\* second member starts the timer thread.
Attach(t) ==
  /\ t \notin members
  /\ members' = members \cup {t}
  /\ timer' = (timer \/ (armed /\ Cardinality(members') >= 2))
  /\ UNCHANGED tick

InstallCtx(t) ==
  /\ pc[t] = "starting"
  /\ Attach(t)
  /\ Goto(t, "attached")
  /\ UNCHANGED <<lockVars, latchVars, spawnVars, cont, frames>>

\* A Ractor's thread installs its ctx in its first sleep.
LazyCtx(t) ==
  /\ t \in Ractors
  /\ InCode(t)
  /\ Attach(t)
  /\ UNCHANGED <<lockVars, latchVars, spawnVars, pc, cont, frames>>

\* Mutant: the start latch always waits for the lock.
ReadArmedLate(t) ==
  /\ pc[t] = "attached"
  /\ Goto(t, "hold")
  /\ UNCHANGED <<lockVars, latchVars, timerVars, spawnVars, cont, frames>>

\* Thread.new's closure: under an armed Gvl the creator still holds it, so
\* the start latch is released before the wait for the lock.
ReadArmed(t) ==
  /\ pc[t] = "attached"
  /\ started' = [started EXCEPT ![t] = armed]
  /\ Goto(t, "hold")
  /\ UNCHANGED <<lockVars, latchVars, timerVars, kid, cont, frames>>

-----------------------------------------------------------------------------

\* Steps a thread takes by itself once it is in the middle of an operation.
Advance(t) ==
  \/ Recheck(t) \/ NotifyAll(t) \/ Hold(t) \/ Acquire(t)
  \/ LatchLoad(t) \/ LatchSwap(t) \/ Arm(t)
  \/ Spawn(t) \/ SpawnBound(t) \/ Recv(t) \/ InstallCtx(t) \/ ReadArmed(t)

\* Steps the Ruby program chooses to take.
Program(t) ==
  \/ HoldReentrant(t) \/ DropHold(t) \/ RactorExit(t)
  \/ Without(t) \/ EndWithout(t) \/ YieldNow(t)
  \/ NoteThreadSpawn(t) \/ NoteCextLoaded(t) \/ LazyCtx(t)

\* Every thread of the instance has come and gone.
Finished ==
  /\ \A t \in Threads : pc[t] \in {"unborn", "done"}
  /\ UNCHANGED vars

Next ==
  \/ \E t \in Threads : Advance(t) \/ Program(t) \/ ServiceTimer(t)
  \/ TimerTick
  \/ Finished

Spec == Init /\ [][Next]_vars

\* The OS runs every runnable thread, the timer thread keeps ticking, and
\* running code keeps reaching checkpoints (loop back-edges and prologues).
\* Nothing is assumed about when a blocking call returns or a program ends.
Fairness ==
  /\ \A t \in Threads : /\ WF_vars(Advance(t))
                         /\ WF_vars(ServiceTimer(t))
  /\ WF_vars(TimerTick)

FairSpec == Spec /\ Fairness

-----------------------------------------------------------------------------
(* Properties. *)

Waiters == {t \in Threads : pc[t] = "wait"}

\* A thread runs under a guard that took the lock.
Inside(t) ==
  /\ pc[t] \in {"run", "load", "swap", "arm", "spawn", "recv"}
  /\ Top(t) = "hold"

\* One runner at a time (gvl.rs, the armed mode): code under a HoldGuard that
\* took the lock, including a callback re-entering from inside `without` and
\* the code after a ReacquireGuard, runs only on the holder.
OneRunner == \A t \in Threads : Inside(t) => holder = t

\* How far ticket n is behind ticket s, and behind the one being served.
Dist(n, s) == IF n >= s THEN n - s ELSE n + Width - s
Behind(n) == Dist(n, nowServing)

\* The queue is never corrupted (GvlState.holder's comment: a non-holder that
\* advanced now_serving deadlocked everyone).  The tickets handed out and not
\* yet served belong to the waiters, one each, with no gap.
QueueIntact ==
  LET first == IF holder = None THEN 0 ELSE 1
  IN /\ {Behind(ticket[t]) : t \in Waiters} = first..(Behind(nextTicket) - 1)
     /\ \A t, u \in Waiters : ticket[t] = ticket[u] => t = u

\* A waiter that is next in line is never left parked with nobody about to
\* notify it: release's notify_all comes after the unlock.
NoLostWakeup ==
  \A t \in asleep :
    ticket[t] = nowServing => \E u \in Threads : pc[u] = "notify"

\* A load and a spawn on two threads cannot both miss each other
\* (CEXT_LOADED's comment): once both flags are up and every thread is past
\* its latch steps, the Gvl is armed.
LatchFires ==
  (multi /\ cextLoaded /\ \A t \in Threads : pc[t] \notin {"load", "swap", "arm"})
    => armed

\* The lock is never left with a thread that is gone (HoldGuard's comment:
\* siblings are not stranded).  A Ractor on which the latch fired has no guard
\* and is excepted.
NoStrandedHolder == holder \in Threads \ Ractors => pc[holder] # "done"

\* A thread that asked for the lock gets it: nobody holds it across more
\* than one quantum, and the queue is first come first served.  (Of threads
\* that attach and a Gvl armed at start; see the README.)
WaiterServed(t) == (pc[t] = "wait") ~> (holder = t)

\* Thread.new returns: the creator may hold the lock while it waits for the
\* child to start.
SpawnReturns(t) == (pc[t] = "recv") ~> (pc[t] = "run")

\* The waiters served before each waiter, by their tickets.
Ahead ==
  [t \in Threads |->
     IF t \in Waiters
       THEN {u \in Waiters : Behind(ticket[u]) < Behind(ticket[t])}
       ELSE {}]

\* The ticket queue implements the abstract first-come lock.
Lock == INSTANCE FairLock WITH
  on <- armed, owner <- holder, waiting <- Waiters, ahead <- Ahead

\* Tickets, wake-ups and guards together are a lock served in arrival order,
\* switched on at most once (Gvl::arm, acquire, release).
ImplementsFairLock == Lock!Spec
=============================================================================
