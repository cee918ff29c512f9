------------------------------ MODULE Deadlock ------------------------------
(***************************************************************************)
(* The deadlock verdict (gvl.rs, module deadlock): waits that only another *)
(* Ruby thread can end register themselves, each poll of a wait compares   *)
(* the registered with the live threads, and a long enough streak of polls *)
(* that find everybody blocked raises fatal.  Queue#pop, Queue#push on a   *)
(* full SizedQueue and Mutex#lock are registered; a Ractor port's receive  *)
(* polls without registering; Thread#join does neither, and takes the      *)
(* handle the live count looks at, which Thread.new stores only after the  *)
(* child was started.                                                      *)
(***************************************************************************)
EXTENDS Naturals, FiniteSets

CONSTANTS
  Ruby,        \* Ruby threads, started from the beginning or by Thread.new
  Main,        \* the main one, always counted live
  Ractors,     \* threads that are not Ruby threads to is_ruby_thread
  Joining,     \* Ractors whose program joins a Thread
  Steadies,    \* the sets of Ruby threads that a program may keep running
  Verdict      \* STREAK_VERDICT, scaled down

Threads == Ruby \cup Ractors

ASSUME RubyFinite == IsFiniteSet(Ruby) /\ IsFiniteSet(Ractors)
ASSUME MainIsRuby == Main \in Ruby
ASSUME RactorsApart == Ruby \cap Ractors = {}
ASSUME SteadiesRuby == \A S \in Steadies : S \subseteq Ruby
ASSUME VerdictIsNat == Verdict \in Nat

VARIABLES
  blocked,     \* BLOCKED
  streak,      \* STREAK, which only matters up to Verdict
  kept,        \* threads whose JoinHandle is in their state
  signaled,    \* waiters whose condition holds and who were notified
  pc,
  on,          \* whom a joiner waits for, or whom Thread.new has started
  seen,        \* the live count a poll has read
  raced,       \* history: polls that a Thread.new overlapped before BLOCKED was read
  steady       \* the Ruby threads this program keeps running

vars == <<blocked, streak, kept, signaled, pc, on, seen, raced, steady>>

\* A registered wait and a receive; load and bump are the rest of a poll of
\* either; leave and reset are the drop of Waiting; store is Thread.new with
\* its child started and the handle still in hand.
Pcs == {"unborn", "run", "store", "wait", "recv", "load", "bump", "rload", "rbump",
        "leave", "reset", "join", "dead"}

Registered == {"wait", "load", "bump", "leave"}

TypeOK ==
  /\ blocked \in Nat
  /\ streak \in 0..Verdict
  /\ kept \subseteq Ruby
  /\ signaled \subseteq Threads
  /\ pc \in [Threads -> Pcs]
  /\ on \in [Threads -> Ruby]
  /\ seen \in [Threads -> Nat]
  /\ raced \subseteq Threads
  /\ steady \in Steadies

Init ==
  /\ blocked = 0 /\ streak = 0
  /\ signaled = {} /\ raced = {}
  /\ on = [t \in Threads |-> Main]
  /\ seen = [t \in Threads |-> 0]
  /\ steady \in Steadies
  /\ \E started \in SUBSET Ruby :
       /\ steady \cup {Main} \subseteq started
       /\ kept = started
       /\ pc = [t \in Threads |-> IF t \in started \cup Ractors THEN "run" ELSE "unborn"]

Goto(t, where) == pc' = [pc EXCEPT ![t] = where]

\* live_thread_count: a thread whose handle is not stored yet, or was taken by
\* a joiner, does not read alive.
Live == Cardinality({t \in Ruby : t = Main \/ (pc[t] # "dead" /\ t \in kept)})

-----------------------------------------------------------------------------
(* What a program does. *)

\* thread_new, up to the spawn: the child is registered with an empty state,
\* and runs.  A thread that keeps running may start others.
Spawn(t, u) ==
  /\ pc[t] = "run" /\ pc[u] = "unborn"
  /\ pc' = [pc EXCEPT ![t] = "store", ![u] = "run"]
  /\ on' = [on EXCEPT ![t] = u]
  /\ raced' = raced \cup {v \in Threads : pc[v] \in {"load", "rload"}}
  /\ UNCHANGED <<blocked, streak, kept, signaled, seen>>

\* Then the handle is stored; the child's start message is on its way.
Store(t) ==
  /\ pc[t] = "store"
  /\ kept' = kept \cup {on[t]}
  /\ on' = [on EXCEPT ![t] = Main]
  /\ Goto(t, "run")
  /\ UNCHANGED <<blocked, streak, signaled, seen, raced>>

\* Waiting::enter.  A wait on a Ractor's thread registers nothing and its
\* polls answer at once, so only Ruby threads are followed into one.
Enter(t) ==
  /\ pc[t] = "run"
  /\ t \in Ruby \ steady
  /\ blocked' = blocked + 1
  /\ Goto(t, "wait")
  /\ UNCHANGED <<streak, kept, signaled, on, seen, raced>>

\* A push, pop or unlock ends u's wait: note_progress and the notify.  A
\* Ractor may do it too, for a thread it started.
Wake(t, u) ==
  /\ pc[t] = "run"
  /\ pc[u] \in {"wait", "load", "bump"} /\ u \notin signaled
  /\ streak' = 0
  /\ signaled' = signaled \cup {u}
  /\ UNCHANGED <<blocked, kept, pc, on, seen, raced>>

\* A running thread takes the item, slot or lock u was woken for.
Steal(t, u) ==
  /\ pc[t] = "run"
  /\ pc[u] \in {"wait", "load", "bump"} /\ u \in signaled
  /\ streak' = 0
  /\ signaled' = signaled \ {u}
  /\ UNCHANGED <<blocked, kept, pc, on, seen, raced>>

Receive(t) ==
  /\ pc[t] = "run"
  /\ t \notin steady
  /\ Goto(t, "recv")
  /\ UNCHANGED <<blocked, streak, kept, signaled, on, seen, raced>>

\* A Ractor port's send, from any thread.
Send(t, u) ==
  /\ pc[t] = "run"
  /\ pc[u] \in {"recv", "rload", "rbump"} /\ u \notin signaled
  /\ streak' = 0
  /\ signaled' = signaled \cup {u}
  /\ UNCHANGED <<blocked, kept, pc, on, seen, raced>>

\* thread_outcome: the first joiner takes the handle; a later one, and one that
\* comes before the handle is stored, polls.
Join(t, u) ==
  /\ pc[t] = "run"
  /\ t \in (Ruby \cup Joining) \ steady /\ t # u /\ u # Main
  /\ pc[u] # "unborn"
  /\ kept' = kept \ {u}
  /\ on' = [on EXCEPT ![t] = u]
  /\ Goto(t, "join")
  /\ UNCHANGED <<blocked, streak, signaled, seen, raced>>

Joined(t) ==
  /\ pc[t] = "join"
  /\ pc[on[t]] = "dead"
  /\ on' = [on EXCEPT ![t] = Main]
  /\ Goto(t, "run")
  /\ UNCHANGED <<blocked, streak, kept, signaled, seen, raced>>

Exit(t) ==
  /\ pc[t] = "run"
  /\ t \notin steady /\ t # Main
  /\ Goto(t, "dead")
  /\ UNCHANGED <<blocked, streak, kept, signaled, on, seen, raced>>

-----------------------------------------------------------------------------
(* A wait. *)

\* SupervisedWait::slice, signaled: progress, and the wait is over.
Woken(t) ==
  /\ pc[t] = "wait" /\ t \in signaled
  /\ streak' = 0
  /\ signaled' = signaled \ {t}
  /\ Goto(t, "leave")
  /\ UNCHANGED <<blocked, kept, on, seen, raced>>

\* A poll that begins while a Thread.new has its child's handle in hand.
Overlapped(t) == raced' = IF \E u \in Threads : pc[u] = "store" THEN raced \cup {t} ELSE raced

\* Mutant: the context count, which leaves out threads that never waited.
PollMembers(t) ==
  /\ pc[t] = "wait"
  /\ seen' = [seen EXCEPT ![t] = Cardinality({u \in Ruby : pc[u] \in Registered})]
  /\ Overlapped(t)
  /\ Goto(t, "load")
  /\ UNCHANGED <<blocked, streak, kept, signaled, on>>

\* no_progress_possible counts the live threads first.  Queue#pop polls even
\* when it was signaled.
Poll(t) ==
  /\ pc[t] = "wait"
  /\ seen' = [seen EXCEPT ![t] = Live]
  /\ Overlapped(t)
  /\ Goto(t, "load")
  /\ UNCHANGED <<blocked, streak, kept, signaled, on>>

\* Back in the loop: a wait whose condition holds is over.
Again(t) == Goto(t, IF t \in signaled THEN "leave" ELSE "wait") /\ signaled' = signaled \ {t}

\* Then BLOCKED is compared with the count.
Load(t) ==
  /\ pc[t] = "load"
  /\ IF blocked < seen[t]
       THEN streak' = 0 /\ raced' = raced \ {t} /\ Again(t)
       ELSE Goto(t, "bump") /\ UNCHANGED <<streak, signaled, raced>>
  /\ seen' = [seen EXCEPT ![t] = 0]
  /\ UNCHANGED <<blocked, kept, on>>

Longer == IF streak < Verdict THEN streak + 1 ELSE streak

\* Mutant: the poll only looks, and no streak builds.
BumpNothing(t) ==
  /\ pc[t] = "bump"
  /\ Again(t)
  /\ raced' = raced \ {t}
  /\ UNCHANGED <<blocked, streak, kept, on, seen>>

\* Then the streak grows, or the verdict is raised and the wait is over.
Bump(t) ==
  /\ pc[t] = "bump"
  /\ streak' = Longer
  /\ IF streak >= Verdict
       THEN Goto(t, "leave") /\ signaled' = signaled \ {t}
       ELSE Again(t)
  /\ raced' = raced \ {t}
  /\ UNCHANGED <<blocked, kept, on, seen>>

\* Waiting's drop: unregister, then reset the streak.
Leave(t) ==
  /\ pc[t] = "leave"
  /\ blocked' = blocked - 1
  /\ Goto(t, "reset")
  /\ UNCHANGED <<streak, kept, signaled, on, seen, raced>>

Reset(t) ==
  /\ pc[t] = "reset"
  /\ streak' = 0
  /\ Goto(t, "run")
  /\ UNCHANGED <<blocked, kept, signaled, on, seen, raced>>

-----------------------------------------------------------------------------
(* A receive. *)

\* A poll of port_receive_locked; a thread that is not a Ruby thread only
\* looks for its message again.
PollReceive(t) ==
  /\ pc[t] = "recv"
  /\ IF t \in Ruby
       THEN /\ seen' = [seen EXCEPT ![t] = Live]
            /\ Overlapped(t)
            /\ Goto(t, "rload")
            /\ UNCHANGED signaled
       ELSE /\ t \in signaled
            /\ signaled' = signaled \ {t}
            /\ Goto(t, "run")
            /\ UNCHANGED <<seen, raced>>
  /\ UNCHANGED <<blocked, streak, kept, on>>

ReceiveAgain(t) == Goto(t, IF t \in signaled THEN "run" ELSE "recv") /\ signaled' = signaled \ {t}

LoadReceive(t) ==
  /\ pc[t] = "rload"
  /\ IF blocked < seen[t]
       THEN streak' = 0 /\ raced' = raced \ {t} /\ ReceiveAgain(t)
       ELSE Goto(t, "rbump") /\ UNCHANGED <<streak, signaled, raced>>
  /\ seen' = [seen EXCEPT ![t] = 0]
  /\ UNCHANGED <<blocked, kept, on>>

BumpReceive(t) ==
  /\ pc[t] = "rbump"
  /\ streak' = Longer
  /\ IF streak >= Verdict
       THEN Goto(t, "run") /\ signaled' = signaled \ {t}
       ELSE ReceiveAgain(t)
  /\ raced' = raced \ {t}
  /\ UNCHANGED <<blocked, kept, on, seen>>

-----------------------------------------------------------------------------

Advance(t) ==
  /\ \/ Store(t) \/ Joined(t) \/ Woken(t) \/ Poll(t) \/ Load(t) \/ Bump(t) \/ Leave(t) \/ Reset(t)
     \/ PollReceive(t) \/ LoadReceive(t) \/ BumpReceive(t)
  /\ UNCHANGED steady

Program(t) ==
  /\ \/ Enter(t) \/ Receive(t) \/ Exit(t)
     \/ \E u \in Ruby : Spawn(t, u) \/ Join(t, u) \/ Wake(t, u) \/ Steal(t, u)
     \/ \E u \in Threads : Send(t, u)
  /\ UNCHANGED steady

Next == \E t \in Threads : Advance(t) \/ Program(t)

Spec == Init /\ [][Next]_vars

\* The OS runs every thread: a slice ends, a woken thread goes on.
FairSpec == Spec /\ \A t \in Threads : WF_vars(Advance(t))

-----------------------------------------------------------------------------
(* Properties. *)

\* BLOCKED is the number of Ruby threads inside a registered wait, also when
\* the wait ended by a wake, by the verdict, or in the middle of a poll.
BlockedExact == blocked = Cardinality({t \in Ruby : pc[t] \in Registered})

\* "every live Ruby thread is blocked on another and none can be the one to
\* wake it" (slice's comment): while some Ruby thread keeps running, no poll
\* counts towards the verdict, however old the counts it compares, unless a
\* Thread.new overlapped that poll: its child may be counted in BLOCKED and
\* not among the live.  A verdict takes Verdict + 1 such polls in a row.
NoFalseVerdict == steady # {} => \A t \in Threads : pc[t] \in {"bump", "rbump"} => t \in raced

\* "Under a real deadlock nobody wakes anybody, the streak builds, and the
\* verdict still lands" (note_progress's comment): the Ruby threads that have
\* started and not ended, the main one among them, do not all stay for ever
\* in registered waits that nobody ends.
Waits(t) == pc[t] \in {"wait", "load", "bump"} /\ t \notin signaled
Stuck == Waits(Main) /\ \A t \in Ruby : Waits(t) \/ pc[t] \in {"unborn", "dead"}
DeadlockReported == []<>~Stuck
=============================================================================
