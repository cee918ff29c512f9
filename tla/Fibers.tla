------------------------------- MODULE Fibers -------------------------------
(***************************************************************************)
(* The fibers of one thread.  Resuming a fiber switches stacks, and what   *)
(* belongs to a stack travels with it: the yielder cell, the ambient       *)
(* execution context, the count of open C frames and the sole-thread claim *)
(* that the outermost of them took.  The resumer's half is kept on the     *)
(* resumer's stack, the fiber's own on the fiber's.                        *)
(*                                                                         *)
(* Another thread only matters for what it can change here: it may call    *)
(* resume on a fiber of ours, which fails.  Uninitialised handles (dup,    *)
(* allocate) are refused before anything happens and are left out.         *)
(***************************************************************************)
EXTENDS Integers, Sequences, Functions

CONSTANTS
  Fibers,      \* the fibers the thread may create
  Root,        \* the thread's native stack
  Scratch,     \* a fresh default context, nobody's own
  MaxFrames    \* bound on the C frames open on one stack

ASSUME StacksDiffer == Root \notin Fibers /\ Scratch \notin Fibers \cup {Root}
ASSUME FramesBound == MaxFrames \in Nat

Stacks == Fibers \cup {Root}

\* The innermost of a nest, and the nest without it.
Last(s) == s[Len(s)]
Front(s) == SubSeq(s, 1, Len(s) - 1)

VARIABLES
  born,        \* fibers created
  started,     \* coroutines entered at least once
  table,       \* FIBERS: the fibers whose coroutine is checked in
  drained,     \* coroutines terminate_thread_fibers has still to dispose of
  ended,       \* the thread's tail was reached
  finished,    \* handles marked finished
  byTransfer,  \* handles with entered_by_transfer set
  chain,       \* CURRENT_FIBER
  current,     \* CURRENT: the coroutine a yield suspends
  ec, saved,   \* whose context is ambient, and each handle's saved_ec
  depth, claim,\* cframes' DEPTH and CLAIM
  sole, multi, \* gvl's SOLE and MULTI_THREADED
  driven,      \* what the call that drives a fiber keeps on its own stack
  kept,        \* what yield_current keeps on the fiber's stack
  running,     \* the stacks switched onto the native one, innermost last
  open         \* C frames open on each stack

handles == <<born, started, finished, byTransfer>>
coros == <<table, drained, ended>>
cells == <<chain, current, ec, saved, depth, claim>>
flags == <<sole, multi>>
stacks == <<driven, kept, running, open>>
vars == <<handles, coros, cells, flags, stacks>>

NoFrames == [depth |-> 0, claim |-> FALSE]
NoDrive == [how |-> "none", cur |-> Root, ec |-> Root, frames |-> NoFrames]

Init ==
  /\ born = {} /\ started = {} /\ finished = {} /\ byTransfer = {}
  /\ table = {} /\ drained = {} /\ ended = FALSE
  /\ chain = <<>> /\ running = <<>>
  /\ current = Root
  /\ ec = Root /\ saved = [f \in Fibers |-> f]
  /\ depth = 0 /\ claim = FALSE
  /\ sole = TRUE /\ multi = FALSE
  /\ driven = [f \in Fibers |-> NoDrive]
  /\ kept = [f \in Fibers |-> NoFrames]
  /\ open = [s \in Stacks |-> 0]

\* The stack that executes.
Here == IF running = <<>> THEN Root ELSE Last(running)

\* A coroutine told to terminate only unwinds: rescue clauses do not match and
\* ensure bodies are skipped.
Terminating == running # <<>> /\ driven[Here].how = "terminate"

\* Ruby code runs, here or in a fiber.
Code == ~Terminating /\ ~ended

-----------------------------------------------------------------------------
(* Switching. *)

\* coroutine::resume up to the switch: RestoreOnExit and SwitchGuard keep the
\* resumer's cells, and the coroutine, in its entry closure or back in
\* yield_current, puts up its own.
SwitchTo(f, how) ==
  /\ driven' = [driven EXCEPT ![f] =
       [how |-> how, cur |-> current, ec |-> ec, frames |-> [depth |-> depth, claim |-> claim]]]
  /\ current' = f
  /\ depth' = kept[f].depth /\ claim' = kept[f].claim
  /\ kept' = [kept EXCEPT ![f] = NoFrames]
  /\ running' = Append(running, f)
  /\ started' = started \cup {f}

\* Mutant: resume has no SwitchGuard.
SwitchBackUnguarded ==
  LET d == driven[Here]
  IN /\ current' = d.cur /\ ec' = d.ec
     /\ UNCHANGED <<depth, claim>>
     /\ running' = Front(running)
     /\ driven' = [driven EXCEPT ![Here] = NoDrive]
     /\ IF d.how = "terminate" THEN UNCHANGED <<chain, saved>>
        ELSE chain' = Front(chain) /\ saved' = [saved EXCEPT ![Last(chain)] = ec]

\* Control returns to the resumer: the guards drop, and fiber_drive pops the
\* chain and swaps the contexts back.
SwitchBack ==
  LET d == driven[Here]
  IN /\ current' = d.cur /\ ec' = d.ec
     /\ depth' = d.frames.depth /\ claim' = d.frames.claim
     /\ running' = Front(running)
     /\ driven' = [driven EXCEPT ![Here] = NoDrive]
     /\ IF d.how = "terminate" THEN UNCHANGED <<chain, saved>>
        ELSE chain' = Front(chain) /\ saved' = [saved EXCEPT ![Last(chain)] = ec]

\* fiber_drive, the fiber checked out of the table while it runs.
Drive(f, how) ==
  /\ f \in table \ finished
  /\ table' = table \ {f}
  /\ ec' = saved[f]
  /\ saved' = [saved EXCEPT ![f] = Scratch]
  /\ chain' = Append(chain, f)
  /\ SwitchTo(f, how)

\* terminate_coro on a started coroutine: a scratch context, and no entry in
\* the chain.
Terminate(f) ==
  /\ ec' = Scratch
  /\ SwitchTo(f, "terminate")
  /\ UNCHANGED <<chain, saved>>

\* A coroutine that returns; the drive marks its handle.
Finish ==
  /\ running # <<>>
  /\ open[Here] = 0
  /\ SwitchBack
  /\ finished' = IF Terminating THEN finished ELSE finished \cup {Here}
  /\ UNCHANGED <<born, started, byTransfer, coros, flags, kept, open>>

-----------------------------------------------------------------------------
(* The methods of Fiber. *)

\* Fiber.new.
New(f) ==
  /\ Code
  /\ f \notin born
  /\ born' = born \cup {f}
  /\ table' = table \cup {f}
  /\ UNCHANGED <<started, finished, byTransfer, drained, ended, cells, flags, stacks>>

\* Fiber#resume.  The flag is cleared before anything is checked.
Resume(f) ==
  /\ Code
  /\ f \in born
  /\ byTransfer' = byTransfer \ {f}
  /\ \/ Drive(f, "resume")
     \/ /\ f \notin table \ finished
        /\ UNCHANGED <<table, started, cells, driven, kept, running>>
  /\ UNCHANGED <<born, finished, drained, ended, flags, open>>

\* Fiber#transfer to another fiber than the root.
Transfer(f) ==
  /\ Code
  /\ f \in born \ finished
  /\ byTransfer' = byTransfer \cup {f}
  /\ \/ Drive(f, "transfer")
     \/ f \notin table /\ UNCHANGED <<table, started, cells, driven, kept, running>>
  /\ UNCHANGED <<born, finished, drained, ended, flags, open>>

\* Fiber#raise, refused before the first resume.
Raise(f) ==
  /\ Code
  /\ f \in started
  /\ Drive(f, "raise")
  /\ UNCHANGED <<born, finished, byTransfer, drained, ended, flags, open>>

\* The innermost coroutine suspends, and its drive checks it in again.  When
\* the drive was fiber_kill's, the kill goes on at once: the handle is
\* finished, the coroutine is taken out again and terminated.
Suspend ==
  /\ current # Root
  /\ IF driven[Here].how = "kill"
       THEN /\ finished' = finished \cup {Here}
            /\ chain' = Front(chain)
            /\ saved' = [saved EXCEPT ![Here] = ec]
            /\ ec' = Scratch
            /\ driven' = [driven EXCEPT ![Here].how = "terminate"]
            /\ UNCHANGED <<table, running, kept, current, depth, claim>>
       ELSE /\ SwitchBack
            /\ kept' = [kept EXCEPT ![current] = [depth |-> depth, claim |-> claim]]
            /\ table' = table \cup {Here}
            /\ UNCHANGED finished
  /\ UNCHANGED <<born, started, byTransfer, drained, ended, flags, open>>

\* Fiber.yield; a fiber entered by transfer has nobody to yield to.
Yield ==
  /\ Code
  /\ chain # <<>> => Last(chain) \notin byTransfer
  /\ Suspend

\* Transfer to the root fiber suspends whoever runs.
TransferRoot == Code /\ Suspend

\* Mutant: a fiber that is killed is dropped instead of driven.
KillDrops(f) ==
  /\ Code
  /\ f \in born \ finished
  /\ table' = table \ {f}
  /\ finished' = finished \cup {f}
  /\ UNCHANGED <<born, started, byTransfer, drained, ended, cells, flags, stacks>>

\* Fiber#kill.  One that is suspended is driven with the kill exception; one
\* that never ran returns at once, and one that runs is only marked.
Kill(f) ==
  /\ Code
  /\ f \in born \ finished
  /\ IF f \in table \cap started
       THEN Drive(f, "kill") /\ UNCHANGED finished
       ELSE /\ table' = table \ {f}
            /\ finished' = finished \cup {f}
            /\ UNCHANGED <<started, cells, driven, kept, running>>
  /\ UNCHANGED <<born, byTransfer, drained, ended, flags, open>>

\* terminate_thread_fibers, at the thread's tail.
End ==
  /\ Code
  /\ running = <<>> /\ open[Root] = 0
  /\ ended' = TRUE
  /\ drained' = table
  /\ table' = {}
  /\ UNCHANGED <<handles, cells, flags, stacks>>

\* The drain's loop: an unstarted coroutine is just reset.
Drain ==
  /\ ended
  /\ running = <<>>
  /\ \E f \in drained :
       /\ drained' = drained \ {f}
       /\ IF f \in started THEN Terminate(f)
          ELSE UNCHANGED <<started, cells, driven, kept, running>>
  /\ UNCHANGED <<born, finished, byTransfer, table, ended, flags, open>>

-----------------------------------------------------------------------------
(* C frames and threads. *)

\* Mutant: every frame of a nest looks for a claim to take.
EnterAlways ==
  /\ Code
  /\ open[Here] < MaxFrames
  /\ open' = [open EXCEPT ![Here] = @ + 1]
  /\ depth' = depth + 1
  /\ claim' = sole /\ sole' = FALSE
  /\ UNCHANGED <<handles, coros, chain, current, ec, saved, multi, driven, kept, running>>

\* cframes::enter: the outermost frame of this stack takes the claim.
Enter ==
  /\ Code
  /\ open[Here] < MaxFrames
  /\ open' = [open EXCEPT ![Here] = @ + 1]
  /\ depth' = depth + 1
  /\ IF depth = 0 THEN claim' = sole /\ sole' = FALSE ELSE UNCHANGED <<claim, sole>>
  /\ UNCHANGED <<handles, coros, chain, current, ec, saved, multi, driven, kept, running>>

\* cframes::leave, also as a raise or a termination unwinds the frame; the
\* claim comes back unless a second thread exists.
Leave ==
  /\ open[Here] > 0
  /\ open' = [open EXCEPT ![Here] = @ - 1]
  /\ depth' = depth - 1
  /\ IF depth = 1 /\ claim
       THEN claim' = FALSE /\ sole' = ~multi
       ELSE UNCHANGED <<claim, sole>>
  /\ UNCHANGED <<handles, coros, chain, current, ec, saved, multi, driven, kept, running>>

\* note_thread_spawn.
Spawn ==
  /\ Code
  /\ sole' = FALSE /\ multi' = TRUE
  /\ UNCHANGED <<handles, coros, cells, stacks>>

\* Another thread calls resume on one of our fibers: it fails, after the flag.
ResumeElsewhere(f) ==
  /\ multi
  /\ f \in born
  /\ byTransfer' = byTransfer \ {f}
  /\ UNCHANGED <<born, started, finished, coros, cells, flags, stacks>>

Next ==
  \/ \E f \in Fibers :
       New(f) \/ Resume(f) \/ Transfer(f) \/ Raise(f) \/ Kill(f) \/ ResumeElsewhere(f)
  \/ Yield \/ TransferRoot \/ Finish \/ End \/ Drain
  \/ Enter \/ Leave \/ Spawn

Spec == Init /\ [][Next]_vars

-----------------------------------------------------------------------------
(* Properties. *)

\* Every cell describes the stack that runs, however resumes, yields, raises
\* and kills nest: a yield suspends the innermost coroutine (invariant 2 of
\* coroutine.rs), Fiber.current names it, the ambient context is its own, and
\* DEPTH counts the frames open on this stack and no other.
SwitchExact ==
  /\ current = Here
  /\ depth = open[Here]
  /\ chain = IF Terminating THEN Front(running) ELSE running
  /\ ec = IF Terminating THEN Scratch ELSE Here

\* A coroutine that is not over is never lost: it runs once, or waits in the
\* table or in the drain's list, so that "double resume" tells the truth and a
\* C frame left open on its stack is closed at the latest at the thread's tail.
CoroKept ==
  /\ IsInjective(running)
  /\ Range(running) \cap (table \cup drained) = {}
  /\ \A f \in born \ (finished \cup table) : f \in Range(chain) \/ ended
  /\ \A f \in Fibers : open[f] > 0 => f \in Range(running) \cup table \cup drained

\* The sole-thread claim is neither lost nor kept too long: it is back as soon
\* as no C frame is open on any stack, whichever stacks the frames were on and
\* in whatever order they closed, unless a second thread came up meanwhile, and
\* then nobody has it.
ClaimReturns ==
  IF multi THEN ~sole
  ELSE (\A s \in Stacks : open[s] = 0) => sole

\* "While any frame is open the thread's sole-thread claim is hidden"
\* (cframes.rs), said only of the stack that runs.
SoleHidden == open[Here] > 0 => ~sole

\* "A fiber entered by `#transfer` (like the root fiber) has no resumer to yield
\* back to" (fiber_yield's comment): while it runs, its flag says so.
TransferRefusesYield ==
  Code /\ chain # <<>> /\ driven[Here].how = "transfer" => Here \in byTransfer
=============================================================================
