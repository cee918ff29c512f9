----------------------------- MODULE SyncQueue ------------------------------
(***************************************************************************)
(* Queue and SizedQueue (thread.rs): push with back-pressure, the three    *)
(* forms of pop, clear, close and max=.  Every operation works under the   *)
(* queue's own lock, which a waiter gives up for slices of 2ms; a slice    *)
(* ends by a notify or by itself.  The deadlock verdict and the delivery   *)
(* of interrupts (modules Deadlock and Interrupts) are outcomes a slice    *)
(* may have.                                                               *)
(***************************************************************************)
EXTENDS Naturals, Sequences, FiniteSets

CONSTANTS
  Threads,
  Bounds,      \* the values max= may be given
  MaxPushes    \* bound: items ever pushed

VARIABLES
  items,       \* the queued items, numbered as they are pushed
  closed,
  max,
  waiting,     \* what num_waiting answers
  notified,    \* parked threads a condition variable has woken
  pc,
  pushed,      \* items pushed so far
  popped,      \* the items taken, in the order they were taken
  cleared      \* items dropped by clear

queue == <<items, closed, max>>
history == <<pushed, popped, cleared>>
vars == <<queue, waiting, notified, pc, history>>

\* Parked and awake again, in push, in pop and in pop(timeout:).
Pcs == {"idle", "pushing", "popping", "timedpop", "pushpark", "poppark", "timedpark"}
Parked == {"pushpark", "poppark", "timedpark"}
PopParked == {"poppark", "timedpark"}

TypeOK ==
  /\ items \in Seq(1..MaxPushes)
  /\ closed \in BOOLEAN
  /\ max \in Bounds
  /\ waiting \in Nat
  /\ notified \subseteq Threads
  /\ pc \in [Threads -> Pcs]
  /\ pushed \in 0..MaxPushes
  /\ popped \in Seq(1..MaxPushes)
  /\ cleared \subseteq 1..MaxPushes

Init ==
  /\ items = <<>> /\ closed = FALSE
  /\ max \in Bounds
  /\ waiting = 0 /\ notified = {}
  /\ pc = [t \in Threads |-> "idle"]
  /\ pushed = 0 /\ popped = <<>> /\ cleared = {}

Goto(t, where) == pc' = [pc EXCEPT ![t] = where]

\* notify_one and notify_all on a condition variable whose parked threads are
\* at a set of places.
Asleep(places) == {t \in Threads : pc[t] \in places} \ notified

NotifyOne(places) ==
  IF Asleep(places) = {}
    THEN UNCHANGED notified
    ELSE \E t \in Asleep(places) : notified' = notified \cup {t}

NotifyAll(places) == notified' = notified \cup Asleep(places)

-----------------------------------------------------------------------------
(* push *)

\* A round of queue_push_locked that finds room.
Push(t) ==
  /\ pc[t] \in {"idle", "pushing"}
  /\ ~closed /\ Len(items) < max /\ pushed < MaxPushes
  /\ items' = Append(items, pushed + 1)
  /\ pushed' = pushed + 1
  /\ NotifyOne(PopParked)
  /\ Goto(t, "idle")
  /\ UNCHANGED <<closed, max, waiting, popped, cleared>>

\* A round that finds the queue closed raises.
PushClosed(t) ==
  /\ pc[t] = "pushing"
  /\ closed
  /\ Goto(t, "idle")
  /\ UNCHANGED <<queue, waiting, notified, history>>

\* A round that finds it full waits.
PushParks(t) ==
  /\ pc[t] \in {"idle", "pushing"}
  /\ ~closed /\ Len(items) >= max /\ pushed < MaxPushes
  /\ waiting' = waiting + 1
  /\ Goto(t, "pushpark")
  /\ UNCHANGED <<queue, notified, history>>

-----------------------------------------------------------------------------
(* pop *)

\* Mutant: the newest item is taken.
TakeLast(t) ==
  /\ pc[t] \in {"idle", "popping", "timedpop"}
  /\ items # <<>>
  /\ items' = SubSeq(items, 1, Len(items) - 1)
  /\ popped' = Append(popped, items[Len(items)])
  /\ NotifyOne({"pushpark"})
  /\ Goto(t, "idle")
  /\ UNCHANGED <<closed, max, waiting, pushed, cleared>>

\* Any form of pop that finds an item.
Take(t) ==
  /\ pc[t] \in {"idle", "popping", "timedpop"}
  /\ items # <<>>
  /\ items' = Tail(items)
  /\ popped' = Append(popped, Head(items))
  /\ NotifyOne({"pushpark"})
  /\ Goto(t, "idle")
  /\ UNCHANGED <<closed, max, waiting, pushed, cleared>>

\* A drained closed queue answers nil.
PopClosed(t) ==
  /\ pc[t] \in {"popping", "timedpop"}
  /\ items = <<>> /\ closed
  /\ Goto(t, "idle")
  /\ UNCHANGED <<queue, waiting, notified, history>>

\* An empty open one is waited on, with or without a deadline.
PopParks(t) ==
  /\ items = <<>> /\ ~closed
  /\ \/ pc[t] \in {"idle", "popping"} /\ Goto(t, "poppark")
     \/ pc[t] \in {"idle", "timedpop"} /\ Goto(t, "timedpark")
  /\ waiting' = waiting + 1
  /\ UNCHANGED <<queue, notified, history>>

\* The deadline has passed on an empty queue.
PopTimesOut(t) ==
  /\ pc[t] = "timedpop"
  /\ items = <<>>
  /\ Goto(t, "idle")
  /\ UNCHANGED <<queue, waiting, notified, history>>

-----------------------------------------------------------------------------
(* The end of a slice. *)

Awake(t) ==
  CASE pc[t] = "pushpark" -> "pushing"
    [] pc[t] = "poppark" -> "popping"
    [] pc[t] = "timedpark" -> "timedpop"

\* Mutant: the wait has no slices and ends by a notify only.
WakeNotified(t) ==
  /\ pc[t] \in Parked /\ t \in notified
  /\ waiting' = waiting - 1
  /\ notified' = notified \ {t}
  /\ Goto(t, Awake(t))
  /\ UNCHANGED <<queue, history>>

\* The slice ends, notified or not, and the loop goes on; a pop that peeked an
\* interrupt has let the lock go in between.
Wake(t) ==
  /\ pc[t] \in Parked
  /\ waiting' = waiting - 1
  /\ notified' = notified \ {t}
  /\ Goto(t, Awake(t))
  /\ UNCHANGED <<queue, history>>

\* The slice ends in the deadlock verdict or, in a pop, in an interrupt.
GiveUp(t) ==
  /\ pc[t] \in Parked
  /\ waiting' = waiting - 1
  /\ notified' = notified \ {t}
  /\ Goto(t, "idle")
  /\ UNCHANGED <<queue, history>>

-----------------------------------------------------------------------------
(* The rest. *)

Clear(t) ==
  /\ pc[t] = "idle"
  /\ cleared' = cleared \cup {items[i] : i \in DOMAIN items}
  /\ items' = <<>>
  /\ NotifyAll({"pushpark"})
  /\ UNCHANGED <<closed, max, waiting, pc, pushed, popped>>

\* close wakes the parked pops only.
Close(t) ==
  /\ pc[t] = "idle"
  /\ closed' = TRUE
  /\ NotifyAll(PopParked)
  /\ UNCHANGED <<items, max, waiting, pc, history>>

SetMax(t, n) ==
  /\ pc[t] = "idle"
  /\ max' = n
  /\ NotifyAll({"pushpark"})
  /\ UNCHANGED <<items, closed, waiting, pc, history>>

-----------------------------------------------------------------------------

Advance(t) ==
  \/ Wake(t)
  \/ pc[t] # "idle" /\ (Push(t) \/ PushClosed(t) \/ Take(t) \/ PopClosed(t))

Step(t) ==
  \/ Push(t) \/ PushClosed(t) \/ PushParks(t)
  \/ Take(t) \/ PopClosed(t) \/ PopParks(t) \/ PopTimesOut(t)
  \/ Wake(t) \/ GiveUp(t)
  \/ Clear(t) \/ Close(t) \/ \E n \in Bounds : SetMax(t, n)

Next == \E t \in Threads : Step(t)

Spec == Init /\ [][Next]_vars

\* A slice ends, and a thread that is awake finishes its round.
FairSpec == Spec /\ \A t \in Threads : WF_vars(Advance(t))

-----------------------------------------------------------------------------
(* Properties. *)

\* Items come out in the order they went in, once each, and none disappears
\* but by clear: whatever pushes and pops wait, wake, give up and barge.
FirstInFirstOut ==
  LET out == popped \o items
  IN  /\ \A i, j \in DOMAIN out : i < j => out[i] < out[j]
      /\ {out[i] : i \in DOMAIN out} \cup cleared = 1..pushed

\* num_waiting is the number of parked threads, after every way a wait ends.
WaitingExact == waiting = Cardinality({t \in Threads : pc[t] \in Parked})

\* close ends every wait, though it notifies only the pops: "ClosedQueueError
\* for a closed queue" reaches the parked pushes by their slices.
CloseReleases(t) == closed ~> pc[t] = "idle"

\* No wait goes on for ever beside what it waits for: a pop at a queue that
\* stays non-empty gets an item, a push at one that stays open and has room
\* gets in.  A notify_one may be spent on a waiter that gives up, and
\* newcomers barge.
Serves(t) ==
  /\ []<>(pc[t] \in {"popping", "poppark", "timedpop", "timedpark"} => items = <<>>)
  /\ []<>(pc[t] \in {"pushing", "pushpark"} => closed \/ Len(items) >= max \/ pushed = MaxPushes)
=============================================================================
