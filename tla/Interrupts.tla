----------------------------- MODULE Interrupts -----------------------------
(***************************************************************************)
(* Interrupts between threads: Thread#kill and #raise fill the target's    *)
(* slot, the quantum timer sets a bit of the target's ctx, and both are    *)
(* counted in one process-wide counter, which is all a checkpoint reads    *)
(* before it looks further.  Kernel#sleep and Thread.stop park on the ctx  *)
(* and are woken by whoever posts.                                         *)
(*                                                                         *)
(* The program runs without ZEO_GC, which is the default: no collection is *)
(* ever due and no ctx is asked to park, so park_if_asked and service_due  *)
(* find nothing to do.  Module Rendezvous has the collector's half.        *)
(***************************************************************************)
EXTENDS Integers, FiniteSets

CONSTANTS
  Threads,     \* OS threads that run Ruby code, all started
  Main,        \* the toplevel's thread
  Ractors,     \* Ractor bodies: thread::CURRENT is never set on them
  Timer,       \* the quantum timer's thread
  None,        \* no ctx
  Armed,       \* whether the timer ticks (an armed Gvl)
  MaxPosts     \* bound on the calls to kill, raise and wakeup

Objects == Threads \ Ractors      \* the Thread objects
Actors == Threads \cup {Timer}    \* who posts

ASSUME ThreadsFinite == IsFiniteSet(Threads)
ASSUME MainIsThread == Main \in Objects
ASSUME Strangers == Timer \notin Threads /\ None \notin Threads
ASSUME ArmedIsBoolean == Armed \in BOOLEAN
ASSUME MaxPostsIsNat == MaxPosts \in Nat

VARIABLES
  counter,     \* PENDING_GLOBAL
  slot,        \* ThreadData.interrupt (a Ractor body's own entries stay unused)
  killed,      \* ThreadData.was_killed
  entered,     \* ThreadData.body_entered
  stop,        \* ThreadData.stopped
  reg,         \* ThreadData.ctx: the thread whose ctx is registered
  ctx,         \* threads with a ctx (install_ctx ran)
  tick,        \* threads whose ctx has INT_TIMER set
  woke,        \* threads whose ctx's wake flag is set
  pc, target,  \* where an actor is, and whom it posts to
  kind,        \* which checkpoint or park a thread is in
  posts        \* calls so far

object == <<slot, killed, entered, stop, reg>>
vars == <<counter, object, ctx, tick, woke, pc, target, kind, posts>>

\* Posting: count, wake.  A checkpoint: timer, untick, deliver, consume.  A
\* park: loop, park.  unwind is a signal on its way up the body.
Pcs == {"run", "count", "wake", "loop", "timer", "untick", "deliver", "consume",
        "park", "unwind", "dead"}

Parks == {"sleep", "nap", "stop"}    \* untimed, timed, Thread.stop

TypeOK ==
  /\ counter \in Int
  /\ slot \in [Threads -> {"none", "kill", "raise"}]
  /\ killed \in [Threads -> BOOLEAN]
  /\ entered \in [Threads -> BOOLEAN]
  /\ stop \in [Threads -> BOOLEAN]
  /\ reg \in [Threads -> Threads \cup {None}]
  /\ ctx \subseteq Threads
  /\ tick \subseteq ctx
  /\ woke \subseteq ctx
  /\ pc \in [Actors -> Pcs]
  /\ target \in [Actors -> Threads]
  /\ kind \in [Threads -> Parks \cup {"emitted"}]
  /\ posts \in 0..MaxPosts

Init ==
  /\ counter = 0
  /\ slot = [o \in Threads |-> "none"]
  /\ killed = [o \in Threads |-> FALSE]
  /\ entered = [o \in Threads |-> o = Main]
  /\ stop = [o \in Threads |-> FALSE]
  /\ reg = [o \in Threads |-> None]
  /\ ctx = Objects
  /\ tick = {} /\ woke = {}
  /\ pc = [a \in Actors |-> "run"]
  /\ target = [a \in Actors |-> Main]
  /\ kind = [t \in Threads |-> "emitted"]
  /\ posts = 0

\* CURRENT, with the fallback to the main Thread.
Current(t) == IF t \in Ractors THEN Main ELSE t

Goto(a, where) == pc' = [pc EXCEPT ![a] = where]

-----------------------------------------------------------------------------
(* Posting. *)

\* A filled slot is replaced, and only a newly filled one is counted.
Fill(t, o, what) ==
  /\ slot' = [slot EXCEPT ![o] = what]
  /\ target' = [target EXCEPT ![t] = o]
  /\ Goto(t, IF slot[o] = "none" THEN "count" ELSE "wake")
  /\ posts < MaxPosts
  /\ posts' = posts + 1

Kill(t, o) ==
  /\ pc[t] = "run"
  /\ killed' = [killed EXCEPT ![o] = TRUE]
  /\ Fill(t, o, "kill")
  /\ UNCHANGED <<counter, entered, stop, reg, ctx, tick, woke, kind>>

Raise(t, o) ==
  /\ pc[t] = "run"
  /\ Fill(t, o, "raise")
  /\ UNCHANGED <<counter, killed, entered, stop, reg, ctx, tick, woke, kind>>

Wakeup(t, o) ==
  /\ pc[t] = "run"
  /\ pc[o] # "dead"
  /\ posts < MaxPosts
  /\ posts' = posts + 1
  /\ stop' = [stop EXCEPT ![o] = FALSE]
  /\ target' = [target EXCEPT ![t] = o]
  /\ Goto(t, "wake")
  /\ UNCHANGED <<counter, slot, killed, entered, reg, ctx, tick, woke, kind>>

\* Mutant: post counts a bit that was already set.
TickAgain ==
  /\ Armed
  /\ pc[Timer] = "run"
  /\ \E t \in ctx :
       /\ tick' = tick \cup {t}
       /\ target' = [target EXCEPT ![Timer] = t]
       /\ Goto(Timer, "count")
  /\ UNCHANGED <<counter, object, ctx, woke, kind, posts>>

\* timer_tick posts INT_TIMER to each member whose ctx is still owned: by its
\* thread, or by the Thread object the ctx is registered with.
Tick ==
  /\ Armed
  /\ pc[Timer] = "run"
  /\ \E t \in ctx :
       /\ pc[t] # "dead" \/ \E o \in Objects : reg[o] = t
       /\ tick' = tick \cup {t}
       /\ target' = [target EXCEPT ![Timer] = t]
       /\ Goto(Timer, IF t \in tick THEN "wake" ELSE "count")
  /\ UNCHANGED <<counter, object, ctx, woke, kind, posts>>

\* note_posted, or the second half of ThreadCtx::post.
Count(a) ==
  /\ pc[a] = "count"
  /\ counter' = counter + 1
  /\ Goto(a, "wake")
  /\ UNCHANGED <<object, ctx, tick, woke, target, kind, posts>>

\* Mutant: wake_target wakes nobody.
WakeNobody(a) ==
  /\ pc[a] = "wake"
  /\ Goto(a, "run")
  /\ UNCHANGED <<counter, object, ctx, tick, woke, target, kind, posts>>

\* ThreadCtx::post wakes the ctx; wake_target the one that is registered.
Wake(a) ==
  /\ pc[a] = "wake"
  /\ woke' = IF a = Timer THEN woke \cup {target[a]}
             ELSE woke \cup ({reg[target[a]]} \ {None})
  /\ Goto(a, "run")
  /\ UNCHANGED <<counter, object, ctx, tick, target, kind, posts>>

-----------------------------------------------------------------------------
(* Checkpoints. *)

\* check_ints goes on only if the counter is not zero.
CheckInts(t) ==
  /\ pc[t] = "run"
  /\ counter # 0
  /\ kind' = [kind EXCEPT ![t] = "emitted"]
  /\ Goto(t, "timer")
  /\ UNCHANGED <<counter, object, ctx, tick, woke, target, posts>>

\* service_timer takes INT_TIMER; park_if_asked is in Rendezvous.
ServiceTimer(t) ==
  /\ pc[t] = "timer"
  /\ tick' = tick \ {t}
  /\ Goto(t, IF t \in tick THEN "untick" ELSE "deliver")
  /\ UNCHANGED <<counter, object, ctx, woke, target, kind, posts>>

Untick(t) ==
  /\ pc[t] = "untick"
  /\ counter' = counter - 1
  /\ Goto(t, "deliver")
  /\ UNCHANGED <<object, ctx, tick, woke, target, kind, posts>>

\* Where a checkpoint that raises nothing goes on: a park parks, and a timed
\* one returns instead if its deadline passed.
GoOn(t) ==
  \/ kind[t] \in {"emitted", "nap"} /\ Goto(t, "run")
  \/ kind[t] \in Parks /\ Goto(t, "park")

\* emitted_checkpoint only marks the arrival of a new body; otherwise
\* deliver_pending takes what is in the slot.
Deliver(t) ==
  /\ pc[t] = "deliver"
  /\ LET o == Current(t) IN
     IF kind[t] = "emitted" /\ ~entered[o]
       THEN entered' = [entered EXCEPT ![o] = TRUE] /\ GoOn(t) /\ UNCHANGED slot
       ELSE /\ slot' = [slot EXCEPT ![o] = "none"]
            /\ IF slot[o] = "none" THEN GoOn(t) ELSE Goto(t, "consume")
            /\ UNCHANGED entered
  /\ UNCHANGED <<counter, killed, stop, reg, ctx, tick, woke, target, kind, posts>>

\* note_consumed, and the signal unwinds the body.
Consume(t) ==
  /\ pc[t] = "consume"
  /\ counter' = counter - 1
  /\ Goto(t, "unwind")
  /\ UNCHANGED <<object, ctx, tick, woke, target, kind, posts>>

\* The signal returns through the frames to a rescue or an ensure clause, which
\* is code that runs on, or to the end of the body.
Rescue(t) ==
  /\ pc[t] = "unwind"
  /\ Goto(t, "run")
  /\ UNCHANGED <<counter, object, ctx, tick, woke, target, kind, posts>>

Exit(t) ==
  /\ pc[t] \in {"run", "unwind"}
  /\ t # Main
  /\ Goto(t, "dead")
  /\ UNCHANGED <<counter, object, ctx, tick, woke, target, kind, posts>>

-----------------------------------------------------------------------------
(* Parking. *)

\* sleep_impl and thread_stop_current: install and register the ctx.  Only
\* Thread.stop asks for another live thread first.
BeginPark(t, k) ==
  /\ pc[t] = "run"
  /\ k = "stop" => \E o \in Objects \ {Current(t)} : pc[o] # "dead"
  /\ ctx' = ctx \cup {t}
  /\ reg' = [reg EXCEPT ![Current(t)] = t]
  /\ stop' = [stop EXCEPT ![Current(t)] = @ \/ k = "stop"]
  /\ kind' = [kind EXCEPT ![t] = k]
  /\ Goto(t, "loop")
  /\ UNCHANGED <<counter, slot, killed, entered, tick, woke, target, posts>>

\* Mutant: the loop parks without the checkpoint.
LoopUnchecked(t) ==
  /\ pc[t] = "loop"
  /\ IF kind[t] = "stop" /\ ~stop[Current(t)] THEN Goto(t, "run") ELSE GoOn(t)
  /\ UNCHANGED <<counter, object, ctx, tick, woke, target, kind, posts>>

\* The head of the loop: Thread.stop's flag, then blocking_checkpoint.
Loop(t) ==
  /\ pc[t] = "loop"
  /\ IF kind[t] = "stop" /\ ~stop[Current(t)] THEN Goto(t, "run")
     ELSE IF counter # 0 THEN Goto(t, "timer")
     ELSE GoOn(t)
  /\ UNCHANGED <<counter, object, ctx, tick, woke, target, kind, posts>>

\* ThreadCtx::sleep returns when it is woken, or at its deadline.
Unpark(t) ==
  /\ pc[t] = "park"
  /\ t \in woke \/ kind[t] = "nap"
  /\ woke' = woke \ {t}
  /\ Goto(t, "loop")
  /\ UNCHANGED <<counter, object, ctx, tick, target, kind, posts>>

-----------------------------------------------------------------------------

\* What a thread does by itself once it is in the middle of something.
Advance(t) ==
  \/ ServiceTimer(t) \/ Untick(t) \/ Deliver(t) \/ Consume(t) \/ Loop(t) \/ Unpark(t)

Program(t) ==
  \/ Rescue(t)
  \/ Exit(t)
  \/ \E o \in Objects : Kill(t, o) \/ Raise(t, o) \/ Wakeup(t, o)
  \/ \E k \in Parks : BeginPark(t, k)

Next ==
  \/ Tick
  \/ \E a \in Actors : Count(a) \/ Wake(a)
  \/ \E t \in Threads : CheckInts(t) \/ Advance(t) \/ Program(t)

Spec == Init /\ [][Next]_vars

\* The OS runs every thread, compiled code keeps reaching checkpoints, a timed
\* sleep ends, and a signal reaches a handler or the end of the body.
Fairness ==
  /\ \A a \in Actors : WF_vars(Count(a) \/ Wake(a))
  /\ \A t \in Threads : WF_vars(CheckInts(t) \/ Advance(t)) /\ WF_vars(Rescue(t))

FairSpec == Spec /\ Fairness

-----------------------------------------------------------------------------
(* Properties. *)

Filled == {o \in Objects : slot[o] # "none"}
Uncounted == {a \in Actors : pc[a] = "count"}
Taken == {t \in Threads : pc[t] \in {"untick", "consume"}}

\* The counter is the number of bits and filled slots, but for the posts not
\* yet counted and the takes not yet uncounted (post and take move the bit and
\* the counter in two steps): it neither drifts nor double-counts, and with
\* nobody in between a zero means that nothing is pending.
CounterAccounts ==
  counter = Cardinality(tick) + Cardinality(Filled) + Cardinality(Taken) - Cardinality(Uncounted)

\* Somebody is still posting to o.
Posting(o) == \E t \in Threads : pc[t] \in {"count", "wake"} /\ target[t] = o

\* Nobody stays parked on an interrupt: a thread parked without a deadline,
\* its wake flag clear, has an empty slot, or the post is still under way
\* ("`Thread.new { sleep }` + an immediate `#raise` must wake now, not park
\* forever").
NoLostInterrupt ==
  \A t \in Objects :
    (pc[t] = "park" /\ kind[t] # "nap" /\ t \notin woke /\ slot[t] # "none") => Posting(t)

\* Thread#wakeup is not lost either: a thread parked in Thread.stop with its
\* flag cleared is being woken.
NoLostWakeup ==
  \A t \in Objects :
    (pc[t] = "park" /\ kind[t] = "stop" /\ t \notin woke /\ ~stop[t]) => Posting(t)

\* A queued kill or raise reaches its target, or the target ends first.
InterruptDelivered ==
  \A o \in Objects : (slot[o] # "none") ~> (slot[o] = "none" \/ pc[o] = "dead")

\* "queue `exc` to be raised inside the target thread at its next checkpoint"
\* (thread_raise's comment): nobody but the target takes it.
TargetDelivers == \A t \in Ractors : pc[t] # "consume"

\* "even a `rescue Exception` can't keep a killed thread alive" (was_killed's
\* comment): a thread that was killed has the kill pending, is unwinding, or
\* is dead.
KilledDies ==
  \A o \in Objects :
    killed[o] => slot[o] = "kill" \/ pc[o] \in {"consume", "unwind", "dead"}

\* "it is exactly the number of set bits across all live contexts: zero means
\* every thread's fast path can skip" (PENDING_GLOBAL's comment): with nothing
\* pending for a live thread and nobody in between, the counter is zero.
ZeroWhenIdle ==
  ( /\ Uncounted = {} /\ Taken = {}
    /\ \A o \in Filled : pc[o] = "dead"
    /\ \A t \in tick : pc[t] = "dead" ) => counter = 0
=============================================================================
