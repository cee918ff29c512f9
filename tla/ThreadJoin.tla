----------------------------- MODULE ThreadJoin -----------------------------
(***************************************************************************)
(* One Thread object and everyone who looks at it: Thread.new stores the   *)
(* join handle in ThreadData.state, a joiner takes it out, joins the OS    *)
(* thread and stores the outcome, later joiners find the outcome or poll   *)
(* for it, and #alive? / #status reap a finished thread.                   *)
(***************************************************************************)
EXTENDS Naturals

CONSTANTS
  Callers,     \* the threads that join and inspect it
  Creator,     \* the one that calls Thread.new
  Early        \* whether the body hands out Thread.current before Thread.new returns

ASSUME CreatorCalls == Creator \in Callers
ASSUME EarlyIsBoolean == Early \in BOOLEAN

VARIABLES
  state,       \* ThreadData.state: empty, the handle, or the outcome
  body,        \* the OS thread
  known,       \* who can reach the object
  at,
  answer       \* a caller's last answer

joinVars == <<state, body, known, at, answer>>

JoinPcs == {"new", "store", "recv", "idle", "poll", "joining", "put", "limit", "outcome", "look"}

JoinTypeOK ==
  /\ state \in {"empty", "running", "done"}
  /\ body \in {"unborn", "starting", "run", "finished"}
  /\ known \subseteq Callers
  /\ at \in [Callers -> JoinPcs]
  /\ answer \in [Callers -> {"none", "outcome", "nil", "alive", "dead"}]

JoinInit ==
  /\ state = "empty"
  /\ body = "unborn"
  /\ known = {}
  /\ at = [c \in Callers |-> IF c = Creator THEN "new" ELSE "idle"]
  /\ answer = [c \in Callers |-> "none"]

MoveTo(c, where) == at' = [at EXCEPT ![c] = where]
Answer(c, a) == answer' = [answer EXCEPT ![c] = a]

-----------------------------------------------------------------------------
(* Thread.new and the body. *)

SpawnThread(c) ==
  /\ at[c] = "new"
  /\ body' = "starting"
  /\ MoveTo(c, "store")
  /\ UNCHANGED <<state, known, answer>>

StoreHandle(c) ==
  /\ at[c] = "store"
  /\ state' = "running"
  /\ MoveTo(c, "recv")
  /\ UNCHANGED <<body, known, answer>>

\* The start latch; the object is the program's from here on.
Recv(c) ==
  /\ at[c] = "recv"
  /\ body # "starting"
  /\ known' = Callers
  /\ MoveTo(c, "idle")
  /\ UNCHANGED <<state, body, answer>>

Begin ==
  /\ body = "starting"
  /\ body' = "run"
  /\ UNCHANGED <<state, known, at, answer>>

\* The body passes Thread.current to another thread.
HandOut ==
  /\ Early
  /\ body = "run"
  /\ \E c \in Callers \ {Creator} : known' = known \cup {c}
  /\ UNCHANGED <<state, body, at, answer>>

End ==
  /\ body = "run"
  /\ body' = "finished"
  /\ UNCHANGED <<state, known, at, answer>>

-----------------------------------------------------------------------------
(* thread_outcome, thread_join, thread_alive. *)

\* thread_outcome takes whatever the state holds: a handle is joined, an
\* outcome is put back under a second lock, and who finds nothing polls.
Outcome(c) ==
  /\ state' = "empty"
  /\ MoveTo(c, CASE state = "running" -> "joining"
                 [] state = "done"    -> "put"
                 [] state = "empty"   -> "poll")
  /\ UNCHANGED answer

Join(c) ==
  /\ at[c] = "idle"
  /\ c \in known
  /\ Outcome(c)
  /\ UNCHANGED <<body, known>>

\* handle.join returns when the OS thread has ended.
Joined(c) ==
  /\ at[c] = "joining"
  /\ body = "finished"
  /\ MoveTo(c, "put")
  /\ UNCHANGED <<state, body, known, answer>>

\* The outcome is stored, or stored again, and is the joiner's answer.
Put(c) ==
  /\ at[c] = "put"
  /\ state' = "done"
  /\ MoveTo(c, "idle")
  /\ Answer(c, "outcome")
  /\ UNCHANGED <<body, known>>

\* Mutant: the poll looks for a handle to join, not for the outcome.
PollHandle(c) ==
  /\ at[c] = "poll"
  /\ state = "running"
  /\ state' = "empty"
  /\ MoveTo(c, "joining")
  /\ UNCHANGED <<body, known, answer>>

\* The 2ms poll of whoever found the state empty.
Poll(c) ==
  /\ at[c] = "poll"
  /\ state = "done"
  /\ MoveTo(c, "idle")
  /\ Answer(c, "outcome")
  /\ UNCHANGED <<state, body, known>>

\* thread_finished.
Finished == state = "done" \/ (state = "running" /\ body = "finished")

LimitedJoin(c) ==
  /\ at[c] = "idle"
  /\ c \in known
  /\ MoveTo(c, "limit")
  /\ UNCHANGED <<state, body, known, answer>>

\* One turn of thread_join's loop: go for the outcome, or nil at the deadline.
Limit(c) ==
  /\ at[c] = "limit"
  /\ \/ /\ Finished
        /\ MoveTo(c, "outcome")
        /\ UNCHANGED answer
     \/ /\ ~Finished
        /\ MoveTo(c, "idle")
        /\ Answer(c, "nil")
  /\ UNCHANGED <<state, body, known>>

\* thread_outcome locks the state anew.
LimitOutcome(c) ==
  /\ at[c] = "outcome"
  /\ Outcome(c)
  /\ UNCHANGED <<body, known>>

\* Mutant: reaping leaves the slot empty.
AliveLosesOutcome(c) ==
  /\ at[c] = "idle"
  /\ c \in known
  /\ state' = IF state = "running" /\ body = "finished" THEN "empty" ELSE state
  /\ MoveTo(c, "look")
  /\ UNCHANGED <<body, known, answer>>

\* thread_alive: reap_if_finished stores the outcome of an ended thread ...
Alive(c) ==
  /\ at[c] = "idle"
  /\ c \in known
  /\ state' = IF state = "running" /\ body = "finished" THEN "done" ELSE state
  /\ MoveTo(c, "look")
  /\ UNCHANGED <<body, known, answer>>

\* ... and under a second lock only a handle in the slot is alive.
Look(c) ==
  /\ at[c] = "look"
  /\ MoveTo(c, "idle")
  /\ Answer(c, IF state = "running" THEN "alive" ELSE "dead")
  /\ UNCHANGED <<state, body, known>>

-----------------------------------------------------------------------------

JoinAdvance(c) ==
  \/ SpawnThread(c) \/ StoreHandle(c) \/ Recv(c) \/ Joined(c) \/ Put(c) \/ Poll(c) \/ Limit(c)
  \/ LimitOutcome(c) \/ Look(c)

JoinNext ==
  \/ Begin \/ HandOut \/ End
  \/ \E c \in Callers : JoinAdvance(c) \/ Join(c) \/ LimitedJoin(c) \/ Alive(c)

JoinSpec == JoinInit /\ [][JoinNext]_joinVars

\* The OS runs every thread, and the body ends.  A poll every 2ms does not for
\* ever meet the moment in which another joiner has the outcome out.
JoinFairSpec ==
  /\ JoinSpec
  /\ WF_joinVars(Begin) /\ WF_joinVars(End)
  /\ \A c \in Callers : WF_joinVars(JoinAdvance(c)) /\ SF_joinVars(Poll(c))

-----------------------------------------------------------------------------
(* Properties. *)

Joiners == {c \in Callers : at[c] \in {"joining", "put"}}

\* The handle is consumed once: one joiner has it and the slot is empty, or
\* nobody has and it is in the slot, or the outcome is there for good.
HandleOnce ==
  /\ \A c, d \in Joiners : c = d
  /\ Joiners # {} => state = "empty"
  /\ state = "done" => body = "finished"

\* "poll for the first joiner's stored result" (thread_outcome): when the slot
\* is empty there is such a joiner, unless thread_new has yet to store the
\* handle, whoever joins, reaps and puts back meanwhile.
EmptyHasJoiner ==
  state = "empty" => Joiners # {} \/ at[Creator] \in {"new", "store"}

\* Once somebody joins, every join without a limit returns, polls included.
JoinReturns ==
  \A c \in Callers :
    (at[c] \in {"joining", "poll"} /\ (Joiners # {} \/ state = "done")) ~> (at[c] = "idle")

\* A thread that ended stays so: after somebody got its outcome, alive? does
\* not say it is alive, whoever has the outcome out of the slot.
StaysEnded ==
  [][\A c, d \in Callers : (Look(c) /\ answer[d] = "outcome") => answer'[c] = "dead"]_joinVars

\* "CRuby lets every joiner wait and hand each the same outcome"
\* (thread_outcome's comment): a join without a limit returns.
EveryJoinReturns == \A c \in Callers : (at[c] = "poll") ~> (at[c] = "idle")
=============================================================================
