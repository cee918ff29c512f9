----------------------------- MODULE Rendezvous -----------------------------
(***************************************************************************)
(* The stop-the-world rendezvous of a cycle collection (gvl.rs, module     *)
(* rendezvous): one thread announces a stop, posts INT_GC to every other   *)
(* attached thread and waits for them to park at a checkpoint, or gives up *)
(* at the deadline.  Threads start, attach, block, sleep and end           *)
(* meanwhile.                                                              *)
(***************************************************************************)
EXTENDS Naturals, FiniteSets

CONSTANTS
  Threads,     \* OS threads that run Ruby code
  Main,        \* the thread of exec::run_main, attached before the program runs
  Ractors,     \* Ractor bodies: no ctx until they first sleep
  None,        \* no thread
  MaxStops     \* bound on the number of stops

ASSUME ThreadsFinite == IsFiniteSet(Threads)
ASSUME MainIsThread == Main \in Threads \ Ractors
ASSUME NoneIsNoThread == None \notin Threads
ASSUME MaxStopsIsNat == MaxStops \in Nat

VARIABLES
  stopped, generation, parked,   \* struct World
  collecting,                    \* who holds COLLECTING
  members,                       \* threads whose attached ctx is still owned by somebody
  pinned,                        \* threads whose ctx their Thread object owns too
  gcBit,                         \* threads with INT_GC set
  toAsk, asked,                  \* post_gc_to_others: still to ask, already asked
  mine,                          \* the generation a thread parked in
  pc,                            \* where a thread is
  kid                            \* the thread a creator waits for in Thread.new

world == <<stopped, generation, parked>>
vars == <<world, collecting, members, pinned, gcBit, toAsk, asked, mine, pc, kid>>

\* "parking" is between the take of INT_GC and the World lock; the last seven
\* are the steps of stop_the_world, of the pass and of Stopped's drop.
Pcs == {"unborn", "starting", "run", "recv", "blocked", "parking", "parked", "dead",
        "announce", "ask", "await", "wait", "sweep", "resume", "unlock"}

TypeOK ==
  /\ stopped \in BOOLEAN
  /\ generation \in 0..MaxStops
  /\ parked \in Nat
  /\ collecting \in Threads \cup {None}
  /\ members \subseteq Threads
  /\ pinned \subseteq Threads
  /\ gcBit \subseteq Threads
  /\ toAsk \subseteq Threads
  /\ asked \subseteq Threads
  /\ mine \in [Threads -> 0..MaxStops]
  /\ pc \in [Threads -> Pcs]
  /\ kid \in [Threads -> Threads \cup {None}]

Init ==
  /\ stopped = FALSE /\ generation = 0 /\ parked = 0
  /\ collecting = None
  /\ members = {Main}
  /\ pinned = {} /\ gcBit = {} /\ toAsk = {} /\ asked = {}
  /\ mine = [t \in Threads |-> 0]
  /\ pc = [t \in Threads |-> IF t = Main THEN "run" ELSE "unborn"]
  /\ kid = [t \in Threads |-> None]

Goto(t, where) == pc' = [pc EXCEPT ![t] = where]

-----------------------------------------------------------------------------
(* The life of a thread. *)

\* The members lock is held for the length of post_gc_to_others.
MembersFree == \A t \in Threads : pc[t] # "ask"

\* Thread.new: the creator waits for the start latch.  Ractor.new does not.
Spawn(t) ==
  /\ pc[t] = "run"
  /\ \E u \in Threads :
       /\ pc[u] = "unborn"
       /\ IF u \in Ractors
            THEN pc' = [pc EXCEPT ![u] = "run"] /\ UNCHANGED kid
            ELSE /\ pc' = [pc EXCEPT ![u] = "starting", ![t] = "recv"]
                 /\ kid' = [kid EXCEPT ![t] = u]
  /\ UNCHANGED <<world, collecting, members, pinned, gcBit, toAsk, asked, mine>>

\* The child's install_ctx, and the start latch that releases its creator.
Attach(t) ==
  /\ pc[t] = "starting"
  /\ MembersFree
  /\ members' = members \cup {t}
  /\ Goto(t, "run")
  /\ UNCHANGED <<world, collecting, pinned, gcBit, toAsk, asked, mine, kid>>

Recv(t) ==
  /\ pc[t] = "recv"
  /\ pc[kid[t]] # "starting"
  /\ Goto(t, "run")
  /\ kid' = [kid EXCEPT ![t] = None]
  /\ UNCHANGED <<world, collecting, members, pinned, gcBit, toAsk, asked, mine>>

\* A blocking call under without_gvl: no checkpoint until it returns.
Block(t) ==
  /\ pc[t] = "run"
  /\ Goto(t, "blocked")
  /\ UNCHANGED <<world, collecting, members, pinned, gcBit, toAsk, asked, mine, kid>>

Return(t) ==
  /\ pc[t] = "blocked"
  /\ Goto(t, "run")
  /\ UNCHANGED <<world, collecting, members, pinned, gcBit, toAsk, asked, mine, kid>>

\* sleep installs the ctx (a no-op but on a Ractor) and registers it with the
\* Thread object, which keeps it alive; a Ractor's sleep registers the ctx
\* with the main Thread.  It runs the blocking checkpoint before it parks.
Sleep(t) ==
  /\ pc[t] = "run"
  /\ t \in members \/ MembersFree
  /\ t \notin gcBit
  /\ members' = members \cup {t}
  /\ pinned' = pinned \cup {t}
  /\ Goto(t, "blocked")
  /\ UNCHANGED <<world, collecting, gcBit, toAsk, asked, mine, kid>>

\* The thread ends: its ctx goes, and the bits in it, unless its Thread
\* object still owns it.
Exit(t) ==
  /\ pc[t] = "run"
  /\ t # Main
  /\ Goto(t, "dead")
  /\ IF t \in pinned
       THEN UNCHANGED <<members, gcBit>>
       ELSE members' = members \ {t} /\ gcBit' = gcBit \ {t}
  /\ UNCHANGED <<world, collecting, pinned, toAsk, asked, mine, kid>>

\* The last reference to a dead Thread object goes.
Forget(t) ==
  /\ pc[t] = "dead"
  /\ t \in pinned
  /\ pinned' = pinned \ {t}
  /\ members' = members \ {t}
  /\ gcBit' = gcBit \ {t}
  /\ UNCHANGED <<world, collecting, toAsk, asked, mine, pc, kid>>

-----------------------------------------------------------------------------
(* The collector. *)

\* Until a thread was ever spawned the main thread is alone.
Sole(t) == t = Main /\ \A u \in Threads \ {Main} : pc[u] = "unborn"

\* collect_census: a sole thread stops nobody; otherwise COLLECTING.try_lock
\* decides, and a thread that does not get it does not collect.
Collect(t) ==
  /\ pc[t] = "run"
  /\ ~Sole(t)
  /\ collecting = None
  /\ generation < MaxStops
  /\ collecting' = t
  /\ Goto(t, "announce")
  /\ UNCHANGED <<world, members, pinned, gcBit, toAsk, asked, mine, kid>>

\* Mutant: the count of the last stop is kept.
AnnounceKeepsCount(t) ==
  /\ pc[t] = "announce"
  /\ stopped' = TRUE
  /\ generation' = generation + 1
  /\ toAsk' = members \ {t}
  /\ asked' = {}
  /\ Goto(t, "ask")
  /\ UNCHANGED <<parked, collecting, members, pinned, gcBit, mine, kid>>

\* The first World section.  The members lock of post_gc_to_others is taken
\* next; nothing happens in between that the World section excludes.
Announce(t) ==
  /\ pc[t] = "announce"
  /\ stopped' = TRUE
  /\ generation' = generation + 1
  /\ parked' = 0
  /\ Goto(t, "ask")
  /\ toAsk' = members \ {t}
  /\ asked' = {}
  /\ UNCHANGED <<collecting, members, pinned, gcBit, mine, kid>>

\* Post INT_GC to the next member; one whose ctx is gone is not counted.
Ask(t) ==
  /\ pc[t] = "ask"
  /\ \E u \in toAsk :
       /\ toAsk' = toAsk \ {u}
       /\ IF u \in members
            THEN asked' = asked \cup {u} /\ gcBit' = gcBit \cup {u}
            ELSE UNCHANGED <<asked, gcBit>>
  /\ UNCHANGED <<world, collecting, members, pinned, mine, pc, kid>>

AskedAll(t) ==
  /\ pc[t] = "ask"
  /\ toAsk = {}
  /\ Goto(t, "await")
  /\ UNCHANGED <<world, collecting, members, pinned, gcBit, toAsk, asked, mine, kid>>

\* Mutant: one thread short is near enough.
ArrivedEarly(t) ==
  /\ pc[t] \in {"await", "wait"}
  /\ parked + 1 >= Cardinality(asked)
  /\ Goto(t, "sweep")
  /\ UNCHANGED <<world, collecting, members, pinned, gcBit, toAsk, asked, mine, kid>>

\* Enough threads have parked: the pass runs.
Arrived(t) ==
  /\ pc[t] \in {"await", "wait"}
  /\ parked >= Cardinality(asked)
  /\ Goto(t, "sweep")
  /\ UNCHANGED <<world, collecting, members, pinned, gcBit, toAsk, asked, mine, kid>>

Wait(t) ==
  /\ pc[t] = "await"
  /\ parked < Cardinality(asked)
  /\ Goto(t, "wait")
  /\ UNCHANGED <<world, collecting, members, pinned, gcBit, toAsk, asked, mine, kid>>

\* The wait timed out, be it as the last thread parked: the request is abandoned.
Abandon(t) ==
  /\ pc[t] = "wait"
  /\ Goto(t, "resume")
  /\ UNCHANGED <<world, collecting, members, pinned, gcBit, toAsk, asked, mine, kid>>

Swept(t) ==
  /\ pc[t] = "sweep"
  /\ Goto(t, "resume")
  /\ UNCHANGED <<world, collecting, members, pinned, gcBit, toAsk, asked, mine, kid>>

\* Mutant: an abandoned or finished stop leaves the flag up.
ResumeForgets(t) ==
  /\ pc[t] = "resume"
  /\ Goto(t, "unlock")
  /\ UNCHANGED <<world, collecting, members, pinned, gcBit, toAsk, asked, mine, kid>>

\* Stopped's drop: clear the flag, then COLLECTING is released.
Resume(t) ==
  /\ pc[t] = "resume"
  /\ stopped' = FALSE
  /\ Goto(t, "unlock")
  /\ UNCHANGED <<generation, parked, collecting, members, pinned, gcBit, toAsk, asked, mine, kid>>

Unlock(t) ==
  /\ pc[t] = "unlock"
  /\ collecting' = None
  /\ asked' = {}
  /\ Goto(t, "run")
  /\ UNCHANGED <<world, members, pinned, gcBit, toAsk, mine, kid>>

-----------------------------------------------------------------------------
(* The checkpoint: park_if_asked. *)

TakeBit(t) ==
  /\ pc[t] = "run"
  /\ t \in gcBit
  /\ gcBit' = gcBit \ {t}
  /\ Goto(t, "parking")
  /\ UNCHANGED <<world, collecting, members, pinned, toAsk, asked, mine, kid>>

Park(t) ==
  /\ pc[t] = "parking"
  /\ IF stopped
       THEN /\ mine' = [mine EXCEPT ![t] = generation]
            /\ parked' = parked + 1
            /\ Goto(t, "parked")
       ELSE Goto(t, "run") /\ UNCHANGED <<mine, parked>>
  /\ UNCHANGED <<stopped, generation, collecting, members, pinned, gcBit, toAsk, asked, kid>>

Unpark(t) ==
  /\ pc[t] = "parked"
  /\ ~(stopped /\ generation = mine[t])
  /\ Goto(t, "run")
  /\ mine' = [mine EXCEPT ![t] = 0]
  /\ UNCHANGED <<world, collecting, members, pinned, gcBit, toAsk, asked, kid>>

-----------------------------------------------------------------------------

\* Steps a thread takes by itself once it is in the middle of an operation.
Advance(t) ==
  \/ Attach(t) \/ Recv(t) \/ Announce(t) \/ Ask(t) \/ AskedAll(t)
  \/ Arrived(t) \/ Wait(t) \/ Abandon(t) \/ Swept(t) \/ Resume(t) \/ Unlock(t)
  \/ Park(t) \/ Unpark(t)

\* Steps the program chooses.
Program(t) ==
  \/ Spawn(t) \/ Block(t) \/ Return(t) \/ Sleep(t) \/ Exit(t) \/ Forget(t) \/ Collect(t)

Next == \E t \in Threads : Advance(t) \/ Program(t) \/ TakeBit(t)

Spec == Init /\ [][Next]_vars

\* The OS runs every thread that is in the middle of something; the deadline
\* passes; running code keeps reaching checkpoints.
Fairness == \A t \in Threads : WF_vars(Advance(t)) /\ WF_vars(TakeBit(t))

FairSpec == Spec /\ Fairness

-----------------------------------------------------------------------------
(* Properties. *)

\* The threads parked in the present stop.
Here == {t \in Threads : pc[t] = "parked" /\ mine[t] = generation}

\* The count stop_the_world waits on is the number of threads parked in this
\* stop: a straggler of an abandoned one is not in it (World.generation).
CountExact == stopped => parked = Cardinality(Here)

\* While the pass runs, every thread it asked is parked in this stop, and
\* stays there: nobody the collector asked mutates the heap under it, and no
\* straggler or late arrival is counted in another's place.
AskedAreParked == \A t \in Threads : pc[t] = "sweep" => asked \subseteq Here

\* A thread asked to stop is let go, whether the pass ran or was abandoned.
ParkedResumes == \A t \in Threads : (pc[t] = "parked") ~> (pc[t] # "parked")

\* "So every other Ruby thread parks first" (the module's comment): no other
\* thread runs Ruby code during the pass.
OthersAreStopped ==
  \A t, u \in Threads : (pc[t] = "sweep" /\ u # t) => pc[u] # "run"

\* "The number of live attached threads" (live_members' comment).
MembersAlive == \A t \in members : pc[t] # "dead"
=============================================================================
