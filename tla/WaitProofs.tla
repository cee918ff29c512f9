----------------------------- MODULE WaitProofs -----------------------------
(***************************************************************************)
(* Waits that end: the deadlock verdict, and the end of a Ractor.          *)
(*                                                                         *)
(* Deadlock, for every number of threads, as long as only Ruby threads     *)
(* join: why a running Ruby thread keeps the verdict away from every poll  *)
(* that no Thread.new overlaps.  A joined thread leaves the live count,    *)
(* but its joiner is in no registered wait: the joiner makes up for it,    *)
(* and the running thread tips the balance.                                *)
(*                                                                         *)
(* Ractor, for any number of takers and helpers: nobody takes a value      *)
(* before there is an outcome, no monitor port gets two tokens, no         *)
(* registration outlives its port or misses the end, and one Ractor gets   *)
(* the value.                                                              *)
(***************************************************************************)
EXTENDS Deadlock, Ractor, FiniteSetTheorems, TLAPS

Inside == {t \in Ruby : pc[t] \in Registered}
Counted == {t \in Ruby : t = Main \/ (pc[t] # "dead" /\ t \in kept)}
JoinersIn == {t \in Ruby : pc[t] = "join"}
Outstanding == {t \in Ruby : pc[t] \notin {"unborn", "dead"} /\ t \notin kept}
NoneStoring == \A t \in Threads : pc[t] # "store"

\* Every running thread whose handle is not in its state has its creator or
\* its joiner.
HandleHeld == \A u \in Outstanding : \E t \in Threads : pc[t] \in {"store", "join"} /\ on[t] = u

\* A handle is that of a thread that was started.
HandleStarted ==
  /\ \A u \in kept : pc[u] # "unborn"
  /\ \A t \in Threads : pc[t] = "store" => pc[on[t]] # "unborn"

\* What holds while a thread is steady: the count of a poll that no Thread.new
\* overlapped was no smaller than it is now, and no such poll has found
\* everybody blocked.
Calm ==
  /\ \A t \in steady : pc[t] \in {"run", "store"}
  /\ \A t \in Threads : pc[t] \in {"load", "rload"} /\ t \notin raced => seen[t] >= Live /\ NoneStoring
  /\ \A t \in Threads : pc[t] \in {"bump", "rbump"} => t \in raced

MainCounted == Main \in kept /\ pc[Main] \notin {"unborn", "dead"}

\* A Ractor's thread registers no wait and finishes no poll, and joins only if
\* its program does.
RactorsUnregistered == \A t \in Ractors : pc[t] \in {"run", "store", "recv", "join", "dead"}
RactorsJoin == \A t \in Ractors : pc[t] = "join" => t \in Joining

Ind ==
  /\ TypeOK /\ BlockedExact /\ MainCounted /\ HandleHeld /\ HandleStarted
  /\ RactorsUnregistered /\ RactorsJoin

\* The sets the counts are about are finite.
LEMMA Finite ==
  ASSUME TypeOK
  PROVE  /\ IsFiniteSet(Inside) /\ IsFiniteSet(Counted)
         /\ IsFiniteSet(JoinersIn) /\ IsFiniteSet(Outstanding)
         /\ Cardinality(Inside) \in Nat /\ Cardinality(Counted) \in Nat
         /\ Cardinality(JoinersIn) \in Nat /\ Cardinality(Outstanding) \in Nat
<1>1. Inside \subseteq Ruby /\ Counted \subseteq Ruby /\ JoinersIn \subseteq Ruby /\ Outstanding \subseteq Ruby
  BY DEF Inside, Counted, JoinersIn, Outstanding, TypeOK
<1> QED
  BY <1>1, RubyFinite, FS_Subset, FS_CardinalityType

\* With a thread running, no Thread.new under way and no Ractor that joins,
\* fewer threads are registered than counted live.
LEMMA FewerRegistered ==
  ASSUME Ind, Joining = {}, NoneStoring, NEW s \in Ruby, pc[s] = "run"
  PROVE  blocked < Live
<1> DEFINE Alive == {t \in Ruby : pc[t] \notin {"unborn", "dead"}}
<1>0. TypeOK
  BY DEF Ind
<1>1. IsFiniteSet(Alive) /\ Cardinality(Alive) \in Nat
  BY RubyFinite, FS_Subset, FS_CardinalityType
<1>2. Cardinality(Outstanding) <= Cardinality(JoinersIn)
  <2> DEFINE f == [t \in JoinersIn |-> on[t]]
  <2> DEFINE Targets == {f[t] : t \in JoinersIn}
  <2>1. Outstanding \subseteq Targets
    BY DEF Ind, HandleHeld, NoneStoring, RactorsJoin, Threads, JoinersIn
  <2>2. f \in Surjection(JoinersIn, Targets)
    BY DEF Surjection
  <2>3. IsFiniteSet(Targets) /\ Cardinality(Targets) <= Cardinality(JoinersIn)
    <3> HIDE DEF f, Targets
    <3> QED
      BY <2>2, <1>0, Finite, FS_Surjection
  <2>4. Cardinality(Outstanding) <= Cardinality(Targets) /\ Cardinality(Targets) \in Nat
    <3> HIDE DEF f, Targets
    <3> QED
      BY <2>1, <2>3, FS_Subset, FS_CardinalityType
  <2> HIDE DEF f, Targets
  <2> QED
    BY <2>3, <2>4, <1>0, Finite
<1>3. Cardinality(Alive) = Cardinality(Counted) + Cardinality(Outstanding)
  <2>1. Alive = Counted \cup Outstanding /\ Counted \cap Outstanding = {}
    BY DEF Ind, TypeOK, MainCounted, HandleStarted, Counted, Outstanding
  <2>2. Cardinality(Counted \cup Outstanding)
          = Cardinality(Counted) + Cardinality(Outstanding) - Cardinality(Counted \cap Outstanding)
    BY <1>0, Finite, FS_Union, Zenon
  <2>3. Cardinality(Counted \cap Outstanding) = 0
    BY <2>1, FS_EmptySet
  <2>4. Cardinality(Counted) \in Nat /\ Cardinality(Outstanding) \in Nat
    BY <1>0, Finite
  <2>5. Cardinality(Alive) = Cardinality(Counted \cup Outstanding)
    BY <2>1, Zenon
  <2> QED
    BY <2>2, <2>3, <2>4, <2>5
<1>4. Cardinality(Inside \cup JoinersIn) = Cardinality(Inside) + Cardinality(JoinersIn)
      /\ IsFiniteSet(Inside \cup JoinersIn)
  <2>1. Inside \cap JoinersIn = {}
    BY DEF Inside, JoinersIn, Registered
  <2>2. Cardinality(Inside \cup JoinersIn)
          = Cardinality(Inside) + Cardinality(JoinersIn) - Cardinality(Inside \cap JoinersIn)
        /\ IsFiniteSet(Inside \cup JoinersIn)
    BY <1>0, Finite, FS_Union, Zenon
  <2>3. Cardinality(Inside \cap JoinersIn) = 0
    BY <2>1, FS_EmptySet
  <2>4. Cardinality(Inside) \in Nat /\ Cardinality(JoinersIn) \in Nat
    BY <1>0, Finite
  <2> QED
    BY <2>2, <2>3, <2>4
<1>5. Cardinality(Inside \cup JoinersIn) + 1 <= Cardinality(Alive)
  <2>1. s \notin Inside \cup JoinersIn /\ (Inside \cup JoinersIn) \cup {s} \subseteq Alive
    BY DEF Inside, JoinersIn, Registered
  <2>2. Cardinality((Inside \cup JoinersIn) \cup {s}) = Cardinality(Inside \cup JoinersIn) + 1
    BY <2>1, <1>4, FS_AddElement
  <2> QED
    BY <2>1, <2>2, <1>1, FS_Subset
<1>6. blocked = Cardinality(Inside) /\ Live = Cardinality(Counted)
  BY DEF Ind, BlockedExact, Inside, Live, Counted
<1> QED
  BY <1>1, <1>2, <1>3, <1>4, <1>5, <1>6, <1>0, Finite

-----------------------------------------------------------------------------

\* The initial state: nobody waits, nobody joins, every handle is stored.
LEMMA InitInd == Init => Ind /\ Calm
<1> SUFFICES ASSUME Init PROVE Ind /\ Calm
  OBVIOUS
<1> USE MainIsRuby, SteadiesRuby, VerdictIsNat DEF Init
<1>1. pc \in [Threads -> Pcs] /\ on \in [Threads -> Ruby] /\ seen \in [Threads -> Nat]
  BY DEF Pcs, Threads
<1>2. TypeOK
  BY <1>1 DEF TypeOK
<1>3. {t \in Ruby : pc[t] \in Registered} = {}
  BY DEF Registered, Threads
<1>4. BlockedExact
  <2>1. blocked = 0
    OBVIOUS
  <2> QED
    BY <1>3, <2>1, FS_EmptySet, Zenon DEF BlockedExact
<1>5. MainCounted /\ HandleHeld /\ HandleStarted /\ RactorsUnregistered /\ RactorsJoin
  BY RactorsApart
     DEF MainCounted, HandleHeld, HandleStarted, RactorsUnregistered, RactorsJoin, Outstanding, Threads
<1>6. Calm
  BY DEF Calm, Threads
<1> QED
  BY <1>2, <1>4, <1>5, <1>6 DEF Ind

\* A thread about to unregister is one of those counted.
LEMMA LeaverCounted ==
  ASSUME Ind, NEW t \in Threads, pc[t] = "leave"
  PROVE  t \in Ruby /\ blocked - 1 \in Nat
<1>1. t \in Inside /\ t \in Ruby
  BY DEF Ind, RactorsUnregistered, Threads, Inside, Registered
<1>2. IsFiniteSet(Inside) /\ Cardinality(Inside) \in Nat
  BY Finite DEF Ind
<1>3. Cardinality(Inside) # 0
  BY <1>1, <1>2, FS_EmptySet
<1> QED
  BY <1>1, <1>2, <1>3 DEF Ind, BlockedExact, Inside

\* A step keeps every variable within its type.
LEMMA StepType ==
  ASSUME Ind, NEW t \in Threads, Advance(t) \/ Program(t)
  PROVE  TypeOK'
<1>s. steady' = steady
  BY DEF Advance, Program
<1> USE MainIsRuby, VerdictIsNat, <1>s DEF TypeOK, Goto, Pcs
<1>0. TypeOK /\ Live \in Nat
  BY Finite DEF Ind, Live, Counted
<1>1. CASE Enter(t) \/ Receive(t) \/ Exit(t) \/ Store(t) \/ Joined(t) \/ Woken(t) \/ Poll(t) \/ Reset(t)
  BY <1>0, <1>1 DEF Enter, Receive, Exit, Store, Joined, Woken, Poll, Overlapped, Reset
<1>2. CASE Leave(t)
  BY <1>0, <1>2, LeaverCounted DEF Leave
<1>3. CASE Load(t) \/ LoadReceive(t) \/ PollReceive(t)
  BY <1>0, <1>3 DEF Load, LoadReceive, PollReceive, Overlapped, Again, ReceiveAgain
<1>4. CASE Bump(t) \/ BumpReceive(t)
  <2>1. t \in Ruby
    BY <1>4 DEF Bump, BumpReceive, Ind, RactorsUnregistered, Threads
  <2> QED
    BY <1>0, <1>4, <2>1 DEF Bump, BumpReceive, Again, ReceiveAgain, Longer
<1>5. CASE \E u \in Ruby : Spawn(t, u) \/ Join(t, u) \/ Wake(t, u) \/ Steal(t, u)
  BY <1>0, <1>5 DEF Spawn, Join, Wake, Steal, Threads
<1>6. CASE \E u \in Threads : Send(t, u)
  BY <1>0, <1>6 DEF Send
<1> QED
  BY <1>1, <1>2, <1>3, <1>4, <1>5, <1>6 DEF Advance, Program

\* Only Enter and Leave change who is registered, and each counts it.
LEMMA StepBlocked ==
  ASSUME Ind, NEW t \in Threads, Advance(t) \/ Program(t)
  PROVE  BlockedExact'
<1> USE DEF Goto, Registered
<1>0. TypeOK /\ blocked = Cardinality(Inside) /\ IsFiniteSet(Inside) /\ Cardinality(Inside) \in Nat
  BY Finite DEF Ind, BlockedExact, Inside
<1>1. CASE Enter(t)
  <2>1. Inside' = Inside \cup {t} /\ t \notin Inside
    BY <1>0, <1>1 DEF Enter, Inside, TypeOK, Threads
  <2>2. Cardinality(Inside \cup {t}) = Cardinality(Inside) + 1
    BY <2>1, <1>0, FS_AddElement
  <2> QED
    BY <1>0, <1>1, <2>1, <2>2, Zenon DEF Enter, BlockedExact, Inside
<1>2. CASE Leave(t)
  <2>1. Inside' = Inside \ {t} /\ t \in Inside
    BY <1>0, <1>2, LeaverCounted DEF Leave, Inside, TypeOK, Threads
  <2>2. Cardinality(Inside \ {t}) = Cardinality(Inside) - 1
    BY <2>1, <1>0, FS_RemoveElement
  <2> QED
    BY <1>0, <1>2, <2>1, <2>2 DEF Leave, BlockedExact, Inside
<1>3. ASSUME Receive(t) \/ Exit(t) \/ Store(t) \/ Joined(t) \/ Woken(t) \/ Poll(t) \/ Reset(t)
      PROVE  Inside' = Inside /\ blocked' = blocked
  BY <1>0, <1>3 DEF Receive, Exit, Store, Joined, Woken, Poll, Reset, Inside, TypeOK, Threads
<1>4. ASSUME Load(t) \/ LoadReceive(t) \/ PollReceive(t)
      PROVE  Inside' = Inside /\ blocked' = blocked
  BY <1>0, <1>4 DEF Load, LoadReceive, PollReceive, Again, ReceiveAgain, Inside, TypeOK, Threads
<1>5. ASSUME Bump(t) \/ BumpReceive(t)
      PROVE  Inside' = Inside /\ blocked' = blocked
  BY <1>0, <1>5 DEF Bump, BumpReceive, Again, ReceiveAgain, Inside, TypeOK, Threads
<1>6. ASSUME NEW u \in Threads, Spawn(t, u) \/ Join(t, u) \/ Wake(t, u) \/ Steal(t, u) \/ Send(t, u)
      PROVE  Inside' = Inside /\ blocked' = blocked
  <2>1. CASE Spawn(t, u) \/ Join(t, u)
    BY <1>0, <2>1 DEF Spawn, Join, Inside, TypeOK, Threads
  <2>2. CASE Wake(t, u) \/ Steal(t, u) \/ Send(t, u)
    BY <1>0, <2>2 DEF Wake, Steal, Send, Inside, TypeOK, Threads
  <2> QED
    BY <1>6, <2>1, <2>2, Zenon
<1>7. CASE Inside' = Inside /\ blocked' = blocked
  BY <1>0, <1>7, Zenon DEF BlockedExact, Inside
<1> QED
  BY <1>1, <1>2, <1>3, <1>4, <1>5, <1>6, <1>7 DEF Advance, Program, Threads

\* A creator stays until it has stored the handle and a joiner until the thread
\* it joined is dead; main is never joined.
LEMMA StepJoiners ==
  ASSUME Ind, NEW t \in Threads, Advance(t) \/ Program(t)
  PROVE  MainCounted' /\ HandleHeld' /\ HandleStarted' /\ RactorsUnregistered' /\ RactorsJoin'
<1> USE MainIsRuby, RactorsApart
    DEF Ind, TypeOK, Goto, MainCounted, HandleHeld, HandleStarted, RactorsUnregistered,
        RactorsJoin, Outstanding, Threads
<1>1. CASE Enter(t) \/ Receive(t) \/ Exit(t)
  BY <1>1 DEF Enter, Receive, Exit
<1>2. CASE Store(t) \/ Joined(t)
  BY <1>2 DEF Store, Joined
<1>3. CASE Woken(t) \/ Poll(t) \/ Leave(t) \/ Reset(t)
  BY <1>3 DEF Woken, Poll, Leave, Reset
<1>4. CASE Load(t) \/ LoadReceive(t)
  BY <1>4 DEF Load, LoadReceive, Again, ReceiveAgain
<1>5. CASE PollReceive(t)
  BY <1>5 DEF PollReceive
<1>6. CASE Bump(t) \/ BumpReceive(t)
  BY <1>6 DEF Bump, BumpReceive, Again, ReceiveAgain
<1>7. CASE \E u \in Ruby : Spawn(t, u) \/ Join(t, u)
  BY <1>7 DEF Spawn, Join
<1>8. CASE (\E u \in Ruby : Wake(t, u) \/ Steal(t, u)) \/ (\E u \in Threads : Send(t, u))
  BY <1>8 DEF Wake, Steal, Send
<1> QED
  BY <1>1, <1>2, <1>3, <1>4, <1>5, <1>6, <1>7, <1>8, Zenon DEF Advance, Program

\* The live count grows only when a handle is stored.
LEMMA LiveShrinks ==
  ASSUME Ind, NEW t \in Threads, Advance(t) \/ Program(t), ~ Store(t)
  PROVE  Live' <= Live /\ Live \in Nat /\ Live' \in Nat
<1> USE DEF Goto
<1>0. TypeOK /\ TypeOK'
  BY StepType DEF Ind
<1>1. kept' \subseteq kept /\ \A u \in Ruby : pc[u] = "dead" => pc'[u] = "dead"
  <2> USE <1>0 DEF TypeOK, Threads
  <2>1. CASE Enter(t) \/ Receive(t) \/ Exit(t) \/ Joined(t) \/ Woken(t) \/ Poll(t) \/ Reset(t) \/ Leave(t)
    BY <2>1 DEF Enter, Receive, Exit, Joined, Woken, Poll, Reset, Leave
  <2>2. CASE Load(t) \/ LoadReceive(t) \/ PollReceive(t)
    BY <2>2 DEF Load, LoadReceive, PollReceive, Again, ReceiveAgain
  <2>3. CASE Bump(t) \/ BumpReceive(t)
    BY <2>3 DEF Bump, BumpReceive, Again, ReceiveAgain
  <2>4. CASE \E u \in Threads : Spawn(t, u) \/ Join(t, u) \/ Wake(t, u) \/ Steal(t, u) \/ Send(t, u)
    BY <2>4 DEF Spawn, Join, Wake, Steal, Send
  <2> QED
    BY <2>1, <2>2, <2>3, <2>4 DEF Advance, Program
<1>2. Counted' \subseteq Counted
  BY <1>1 DEF Counted
<1>3. IsFiniteSet(Counted) /\ Cardinality(Counted) \in Nat
  BY <1>0, Finite
<1>4. Cardinality(Counted') <= Cardinality(Counted) /\ Cardinality(Counted') \in Nat
  BY <1>2, <1>3, FS_Subset, FS_CardinalityType
<1> QED
  BY <1>3, <1>4 DEF Live, Counted

\* While a thread is steady and no Ractor joins, no poll finds everybody
\* blocked, unless a Thread.new overlapped it.
LEMMA StepCalm ==
  ASSUME Ind, Calm, Joining = {}, steady # {},
         NEW t \in Threads, Advance(t) \/ Program(t)
  PROVE  Calm'
<1>s. steady' = steady /\ steady \subseteq Ruby /\ TypeOK
  BY SteadiesRuby DEF Advance, Program, Ind, TypeOK
<1> USE <1>s DEF TypeOK, Goto, Threads
<1>1. CASE Store(t)
  BY <1>1 DEF Calm, Store, NoneStoring
<1>2. CASE \E u \in Ruby : Spawn(t, u)
  BY <1>2 DEF Calm, Spawn
<1>3. ASSUME ~ Store(t), \A u \in Ruby : ~ Spawn(t, u)
      PROVE  Calm'
  <2>0. Live' <= Live /\ Live \in Nat /\ Live' \in Nat
    BY <1>3, LiveShrinks
  <2>1. NoneStoring => blocked < Live
    BY FewerRegistered, SteadiesRuby DEF Calm, NoneStoring
  <2> USE <2>0
  <2>3. \A u \in Threads : pc[u] \in {"load", "rload"} /\ u \notin raced =>
          seen[u] >= Live' /\ seen[u] >= Live /\ NoneStoring
    BY DEF Calm
  <2> HIDE DEF Live
  <2>4. CASE Enter(t) \/ Receive(t) \/ Exit(t) \/ Joined(t) \/ Woken(t) \/ Reset(t) \/ Leave(t)
    BY <2>3, <2>4 DEF Calm, NoneStoring, Enter, Receive, Exit, Joined, Woken, Reset, Leave
  <2>5. CASE Poll(t) \/ PollReceive(t)
    BY <2>3, <2>5 DEF Calm, NoneStoring, Poll, PollReceive, Overlapped
  <2>6. CASE Load(t) \/ LoadReceive(t)
    <3>1. t \in raced \/ blocked < seen[t]
      BY <2>1, <2>3, <2>6 DEF Load, LoadReceive
    <3> QED
      BY <2>3, <2>6, <3>1 DEF Calm, NoneStoring, Load, LoadReceive, Again, ReceiveAgain
  <2>7. CASE Bump(t) \/ BumpReceive(t)
    BY <2>3, <2>7 DEF Calm, NoneStoring, Bump, BumpReceive, Again, ReceiveAgain
  <2>8. CASE \E u \in Threads : Join(t, u) \/ Wake(t, u) \/ Steal(t, u) \/ Send(t, u)
    BY <2>3, <2>8 DEF Calm, NoneStoring, Join, Wake, Steal, Send
  <2> QED
    BY <1>3, <2>4, <2>5, <2>6, <2>7, <2>8, Zenon DEF Advance, Program
<1> QED
  BY <1>1, <1>2, <1>3, Zenon

-----------------------------------------------------------------------------

\* Stuttering changes nothing.
LEMMA StutterInd ==
  ASSUME Ind, UNCHANGED vars
  PROVE  Ind' /\ (Calm => Calm')
BY DEF vars, Ind, Calm, TypeOK, BlockedExact, MainCounted, HandleHeld, HandleStarted, NoneStoring,
       Outstanding, RactorsUnregistered, RactorsJoin, Live

\* The inductive invariant holds for ever.
THEOREM DeadlockInvariant == Spec => []Ind
<1>1. Init => Ind
  BY InitInd
<1>2. Ind /\ [Next]_vars => Ind'
  <2> SUFFICES ASSUME Ind, [Next]_vars PROVE Ind'
    OBVIOUS
  <2>1. ASSUME NEW t \in Threads, Advance(t) \/ Program(t) PROVE Ind'
    BY <2>1, StepType, StepBlocked, StepJoiners DEF Ind
  <2>2. CASE UNCHANGED vars
    BY <2>2, StutterInd
  <2> QED
    BY <2>1, <2>2 DEF Next
<1> QED
  BY <1>1, <1>2, PTL DEF Spec

\* BLOCKED is always the number of Ruby threads inside a registered wait.
THEOREM DeadlockBlockedExact == Spec => []BlockedExact
<1>1. Ind => BlockedExact
  BY DEF Ind
<1> QED
  BY <1>1, DeadlockInvariant, PTL

\* Unless a Ractor joins a Thread, no poll counts towards the verdict while
\* some Ruby thread keeps running, whatever the other threads wait for, join
\* or start, but a poll that a Thread.new overlapped.
THEOREM NoFalseVerdictAmongThreads == ASSUME Joining = {} PROVE Spec => []NoFalseVerdict
<1> DEFINE Quiet == steady # {} => Calm
<1>1. Init => Quiet
  BY InitInd
<1>2. Ind /\ Quiet /\ [Next]_vars => Quiet'
  <2> SUFFICES ASSUME Ind, Quiet, [Next]_vars, steady' # {} PROVE Calm'
    OBVIOUS
  <2>1. steady # {} /\ Calm
    BY DEF Next, Advance, Program, vars
  <2>2. ASSUME NEW t \in Threads, Advance(t) \/ Program(t) PROVE Calm'
    BY <2>1, <2>2, StepCalm
  <2>3. CASE UNCHANGED vars
    BY <2>1, <2>3, StutterInd
  <2> QED
    BY <2>2, <2>3 DEF Next
<1>3. Quiet => NoFalseVerdict
  BY DEF Calm, NoFalseVerdict
<1> QED
  BY <1>1, <1>2, <1>3, DeadlockInvariant, PTL DEF Spec

-----------------------------------------------------------------------------
(* The end of a Ractor. *)

Current(t) == <<t, wait[t]>>
Pending == monitors \cup owed

\* Whoever acts on the end of the Ractor acts after the outcome was stored.
AfterOutcome ==
  /\ status = "terminated" => state # "live"
  /\ at[Body] \in {"status", "clear", "tokens", "feed", "gone"} => state # "live"
  /\ \A t \in Takers :
       (tokens[t] # 0 \/ at[t] \in {"token", "received", "drop", "claim", "read", "cross"})
         => state # "live"

\* Finish feeds nobody before it took the registrations.
OwedLate == at[Body] \notin {"feed", "gone"} => owed = {}

\* A port is named by its taker and a number not used before.
PortsFresh ==
  /\ \A p \in Pending : p[2] <= wait[p[1]]
  /\ monitors \cap owed = {}

\* How far a taker is decides whether its port is registered, owed or fed.
PlaceOf(t) ==
  /\ tokens[t] \in {0, 1}
  /\ tokens[t] = 1 => Current(t) \notin Pending /\ t \in exists
  /\ at[t] \in {"monitor", "token", "received", "drop", "claim", "read", "cross"} =>
       tokens[t] = 0 /\ Current(t) \notin Pending
  /\ at[t] = "idle" => t \notin exists
  /\ at[t] \in {"monitor", "token", "receive", "cleanup"} => t \in exists
  /\ Current(t) \in monitors => at[t] \in {"receive", "cleanup"}
  /\ at[t] \in {"claim", "read", "cross"} => (t \in exists <=> op[t] = "select")
  /\ at[t] \in {"received", "drop"} => op[t] # "select"
  /\ at[t] # "idle" => wait[t] # 0

OnePlace == \A t \in Takers : PlaceOf(t)

\* Who waits for a token has it or will be fed, and once finish has taken the
\* registrations there is none, unless the status was stored over.
Awaited ==
  /\ \A t \in Takers : at[t] = "receive" => tokens[t] = 1 \/ Current(t) \in Pending
  /\ status = "terminated" /\ at[Body] \in {"feed", "gone"} => monitors = {}
  /\ at[Body] = "gone" => owed = {}

\* A taker that reads the result, or has got it, claimed it.
Claimed ==
  \A t \in Takers :
    (at[t] \in {"read", "cross"} \/ got[t] # {}) => successor = Home[t]

RactorInd ==
  /\ RactorTypeOK /\ AfterOutcome /\ OwedLate /\ PortsFresh /\ OnePlace /\ MonitorsLive
  /\ Awaited /\ Claimed

\* The initial state.
LEMMA RactorInitInd == RactorInit => RactorInd
<1> SUFFICES ASSUME RactorInit PROVE RactorInd
  OBVIOUS
<1>1. "idle" \in TakerPcs /\ "new" \in OwnPcs /\ "join" \in Ops
  BY DEF OwnPcs, TakerPcs, Ops
<1>2. at \in [Members -> OwnPcs \cup TakerPcs]
  BY <1>1 DEF RactorInit
<1>3. wait \in [Takers -> 0..MaxWaits]
  BY BoundsAreNat DEF RactorInit
<1>4. op \in [Takers -> Ops]
  BY <1>1 DEF RactorInit
<1>5. tokens \in [Takers -> Nat] /\ got \in [Takers -> SUBSET Nat]
  BY DEF RactorInit
<1>6. /\ state = "live" /\ status = "created" /\ crossed = FALSE /\ object = 0 /\ objects = 0
      /\ table = "open" /\ items = 0 /\ sent = 0 /\ successor = Nobody
      /\ monitors = {} /\ owed = {} /\ exists = {}
  BY DEF RactorInit
<1>7. RactorTypeOK
  <2>1. object \in 0..objects /\ objects \in Nat /\ items \in Nat /\ sent \in 0..MaxSends
    BY <1>6, BoundsAreNat
  <2>2. successor \in {Nobody} \cup {Home[t] : t \in Takers}
    BY <1>6, Zenon
  <2>3. monitors \subseteq Ports /\ owed \subseteq Ports /\ exists \subseteq Takers
    BY <1>6, Zenon
  <2> QED
    BY <1>2, <1>3, <1>4, <1>5, <1>6, <2>1, <2>2, <2>3, Zenon DEF RactorTypeOK
<1>8. /\ at[Body] = "new"
      /\ \A t \in Takers : at[t] = "idle" /\ tokens[t] = 0 /\ got[t] = {}
  BY OwnApart, Zenon DEF RactorInit, Members, Own
<1>9. AfterOutcome /\ OwedLate /\ Awaited /\ Claimed
  BY <1>6, <1>8, Zenon DEF AfterOutcome, OwedLate, Awaited, Claimed
<1>10. PortsFresh /\ OnePlace /\ MonitorsLive
  <2>1. Pending = {} /\ 0 # 1
    BY <1>6 DEF Pending
  <2> QED
    BY <1>6, <1>8, <2>1, Zenon DEF PortsFresh, OnePlace, PlaceOf, MonitorsLive
<1> QED
  BY <1>7, <1>9, <1>10, Zenon DEF RactorInd

-----------------------------------------------------------------------------
(* What the steps of the Ractor change. *)

\* The parts of the invariant.
LEMMA RactorParts ==
  ASSUME RactorInd
  PROVE  /\ RactorTypeOK /\ AfterOutcome /\ OwedLate /\ PortsFresh /\ MonitorsLive /\ Awaited /\ Claimed
         /\ \A t \in Takers : PlaceOf(t)
BY Zenon DEF RactorInd, OnePlace

\* Everybody is a thread, and the Ractor's own are no takers.
LEMMA RactorThreads ==
  /\ Body \in Own /\ Own \subseteq Members /\ Takers \subseteq Members
  /\ Helpers \subseteq Own
  /\ \A t \in Takers : t \notin Own /\ t # Body
BY OwnApart, Zenon DEF Own, Members

\* Two pairs are the same if their parts are.
LEMMA PairParts ==
  ASSUME NEW a, NEW b, NEW c, NEW d, <<a, b>> = <<c, d>>
  PROVE  a = c /\ b = d
OBVIOUS

\* A port is a taker and a number.
LEMMA PortPair ==
  ASSUME NEW p \in Ports
  PROVE  p = <<p[1], p[2]>> /\ p[1] \in Takers /\ p[2] \in 1..MaxWaits
BY DEF Ports

\* A thread that moves is alone in it.
LEMMA GotoMoves ==
  ASSUME RactorTypeOK, NEW t \in Members, NEW w, MoveTo(t, w)
  PROVE  at'[t] = w /\ \A u \in Members \ {t} : at'[u] = at[u]
BY Zenon DEF RactorTypeOK, MoveTo

\* A step of the Ractor's own threads moves no taker.
LEMMA OwnFrame ==
  ASSUME RactorTypeOK, OwnStep
  PROVE  /\ \A u \in Takers : at'[u] = at[u]
         /\ UNCHANGED <<wait, exists, op, successor, got>>
<1>1. UNCHANGED <<wait, exists, op, successor, got>>
  BY Zenon DEF OwnStep, Finish, Start, StoreStatus, ClearPorts, TakeMonitors, FeedMonitor,
               Gone, End, StartHelper, Look, ReceiveWoken, Interrupted, Close, monitorVars,
               valueVars
<1>2. at' = at \/ \E s \in Own : \E w : MoveTo(s, w)
  <2>1. Body \in Own /\ Helpers \subseteq Own
    BY RactorThreads, Zenon
  <2>2. CASE Start \/ Finish \/ \E how \in {"exited", "aborted"} : End(how)
    BY <2>1, <2>2, Zenon DEF Start, Finish, StoreStatus, ClearPorts, TakeMonitors,
                             FeedMonitor, Gone, End
  <2>3. CASE \E t \in Helpers : StartHelper(t)
    BY <2>1, <2>3, Zenon DEF StartHelper
  <2>4. CASE \E t \in Own : Look(t) \/ ReceiveWoken(t) \/ Interrupted(t) \/ Close(t)
    BY <2>4, Zenon DEF Look, ReceiveWoken, Interrupted, Close
  <2> QED
    BY <2>2, <2>3, <2>4, Zenon DEF OwnStep
<1>3. \A u \in Takers : at'[u] = at[u]
  <2>1. CASE at' = at
    BY <2>1, Zenon
  <2>2. CASE \E s \in Own : \E w : MoveTo(s, w)
    <3>1. PICK s \in Own : \E w : MoveTo(s, w)
      BY <2>2, Zenon
    <3>2. s \in Members /\ \A u \in Takers : u \in Members \ {s}
      BY RactorThreads, Zenon
    <3> QED
      BY <3>1, <3>2, GotoMoves, Zenon
  <2> QED
    BY <1>2, <2>1, <2>2
<1> QED
  BY <1>1, <1>3

\* Of the own threads' steps only finish's last three touch the monitors.
LEMMA OwnKinds ==
  ASSUME RactorTypeOK, OwnStep
  PROVE  \/ /\ UNCHANGED <<monitors, owed, tokens>>
            /\ state' = state \/ state' # "live"
            /\ status' = "terminated" => status = "terminated" \/ at[Body] = "status"
            /\ \/ at'[Body] = at[Body] /\ (status' = "terminated" => status = "terminated")
               \/ /\ at[Body] \in {"new", "run", "parked", "look"}
                  /\ at'[Body] \in {"run", "parked", "look"}
               \/ at[Body] = "run" /\ at'[Body] = "status" /\ state' # "live"
               \/ at[Body] \in {"status", "clear"} /\ at'[Body] \in {"clear", "tokens"}
         \/ /\ at[Body] = "tokens" /\ at'[Body] = "feed"
            /\ owed' = monitors /\ monitors' = {} /\ UNCHANGED <<state, status, tokens>>
         \/ /\ at[Body] = "feed" /\ UNCHANGED <<at, state, status, monitors>>
            /\ \E p \in owed : Feed(p) /\ owed' = owed \ {p}
         \/ /\ at[Body] = "feed" /\ at'[Body] = "gone" /\ owed = {}
            /\ UNCHANGED <<state, status, monitors, owed, tokens>>
<1>0. Body \in Own /\ Body \in Members /\ Own \subseteq Members /\ Helpers \subseteq Own
      /\ \A t \in Helpers : t # Body
  BY RactorThreads, OwnApart, Zenon
<1>1. \A w : MoveTo(Body, w) => at'[Body] = w
  BY <1>0, GotoMoves, Zenon
<1>2. CASE Start \/ StoreStatus \/ ClearPorts \/ \E how \in {"exited", "aborted"} : End(how)
  BY <1>1, <1>2, Zenon DEF Start, StoreStatus, ClearPorts, End, monitorVars, endVars
<1>3. CASE TakeMonitors
  BY <1>1, <1>3, Zenon DEF TakeMonitors, endVars
<1>4. CASE FeedMonitor
  BY <1>4, Zenon DEF FeedMonitor, endVars
<1>5. CASE Gone
  BY <1>1, <1>5, Zenon DEF Gone, endVars, monitorVars
<1>6. ASSUME NEW t \in Helpers, StartHelper(t) PROVE UNCHANGED <<monitors, owed, tokens, state, status>>
                                                      /\ at'[Body] = at[Body]
  <2>1. at'[Body] = at[Body]
    BY <1>0, <1>6, GotoMoves, Zenon DEF StartHelper
  <2> QED
    BY <1>6, <2>1, Zenon DEF StartHelper, monitorVars, endVars
<1>7. ASSUME NEW t \in Own, Look(t) \/ ReceiveWoken(t) \/ Interrupted(t) \/ Close(t)
      PROVE  /\ UNCHANGED <<monitors, owed, tokens, state>>
             /\ status' = "terminated" => status = "terminated"
             /\ \/ at'[Body] = at[Body]
                \/ /\ at[Body] \in {"new", "run", "parked", "look"}
                   /\ at'[Body] \in {"run", "parked", "look"}
  <2>1. UNCHANGED <<monitors, owed, tokens, state>> /\ (status' = "terminated" => status = "terminated")
    BY <1>7, Zenon DEF Look, ReceiveWoken, Interrupted, Close, monitorVars, endVars
  <2>2. \/ at' = at
        \/ /\ at[t] \in {"run", "parked", "look"}
           /\ MoveTo(t, "run") \/ MoveTo(t, "parked") \/ MoveTo(t, "look")
    BY <1>7, Zenon DEF Look, ReceiveWoken, Interrupted, Close
  <2>3. \/ at'[Body] = at[Body]
        \/ /\ at[Body] \in {"new", "run", "parked", "look"}
           /\ at'[Body] \in {"run", "parked", "look"}
    <3>1. CASE t = Body
      BY <1>1, <2>2, <3>1, Zenon
    <3>2. CASE t # Body
      BY <1>0, <2>2, <3>2, GotoMoves, Zenon
    <3> QED
      BY <3>1, <3>2
  <2> QED
    BY <2>1, <2>3
<1> QED
  BY <1>2, <1>3, <1>4, <1>5, <1>6, <1>7, Zenon DEF OwnStep, Finish

\* A step of a taker moves only that taker and leaves the Ractor alone.
LEMMA TakerFrame ==
  ASSUME RactorTypeOK, NEW t \in Takers, TakerStep(t)
  PROVE  /\ at'[Body] = at[Body] /\ UNCHANGED <<state, status, owed>>
         /\ \A u \in Takers \ {t} :
              /\ at'[u] = at[u] /\ wait'[u] = wait[u] /\ tokens'[u] = tokens[u]
              /\ op'[u] = op[u] /\ got'[u] = got[u]
              /\ u \in exists' <=> u \in exists
              /\ Current(u) \in monitors' <=> Current(u) \in monitors
<1>0. t \in Members /\ Body \in Members \ {t} /\ \A u \in Takers \ {t} : u \in Members \ {t}
  BY RactorThreads, Zenon
<1>1. UNCHANGED <<state, status, owed>>
  BY Zenon DEF TakerStep, TakerAdvance, PortSend, Fail, Begin, Monitor, Token, Received,
               Unmonitor, Drop, Claim, Read, Cross, CrossRefused, endVars, monitorVars
<1>2. at' = at \/ \E w : MoveTo(t, w)
  BY Zenon DEF TakerStep, TakerAdvance, PortSend, Fail, Begin, Monitor, Token, Received,
               Unmonitor, Drop, Claim, Read, Cross, CrossRefused, Return
<1>3. at'[Body] = at[Body] /\ \A u \in Takers \ {t} : at'[u] = at[u]
  BY <1>0, <1>2, GotoMoves, Zenon
<1>4. /\ wait' = wait \/ \E x : wait' = [wait EXCEPT ![t] = x]
      /\ op' = op \/ \E x : op' = [op EXCEPT ![t] = x]
      /\ exists' \in {exists, exists \cup {t}, exists \ {t}}
  BY Zenon DEF TakerStep, TakerAdvance, PortSend, Fail, Begin, Monitor, Token, Received,
               Unmonitor, Drop, Claim, Read, Cross, CrossRefused, monitorVars
<1>5. /\ tokens' = tokens \/ \E x : tokens' = [tokens EXCEPT ![t] = x]
      /\ got' = got \/ \E x : got' = [got EXCEPT ![t] = x]
  <2>1. Token(t) => \E x : tokens' = [tokens EXCEPT ![t] = x]
    <3>1. <<t, wait[t]>>[1] = t
      OBVIOUS
    <3> QED
      BY <3>1, Zenon DEF Token, Feed
  <2>2. tokens' = tokens \/ \E x : tokens' = [tokens EXCEPT ![t] = x]
    BY <2>1, Zenon
       DEF TakerStep, TakerAdvance, PortSend, Fail, Begin, Monitor, Received, Unmonitor, Drop,
           Claim, Read, Cross, CrossRefused, monitorVars
  <2>3. got' = got \/ \E x : got' = [got EXCEPT ![t] = x]
    BY Zenon DEF TakerStep, TakerAdvance, PortSend, Fail, Begin, Monitor, Token, Received,
                 Unmonitor, Drop, Claim, Read, Cross, CrossRefused, valueVars
  <2> QED
    BY <2>2, <2>3
<1>6. monitors' \in {monitors, monitors \cup {Current(t)}, monitors \ {Current(t)}}
  BY Zenon DEF TakerStep, TakerAdvance, PortSend, Fail, Begin, Monitor, Token, Received,
               Unmonitor, Drop, Claim, Read, Cross, CrossRefused, monitorVars, Current
<1>7. DOMAIN wait = Takers /\ DOMAIN tokens = Takers /\ DOMAIN op = Takers /\ DOMAIN got = Takers
  BY Zenon DEF RactorTypeOK
<1>8. ASSUME NEW u \in Takers \ {t}
      PROVE  /\ wait'[u] = wait[u] /\ tokens'[u] = tokens[u] /\ op'[u] = op[u] /\ got'[u] = got[u]
             /\ u \in exists' <=> u \in exists
             /\ Current(u) \in monitors' <=> Current(u) \in monitors
  <2>1. Current(u) # Current(t)
    BY PairParts, Zenon DEF Current
  <2>2. Current(u) \in monitors' <=> Current(u) \in monitors
    BY <1>6, <2>1, Zenon
  <2>3. u \in exists' <=> u \in exists
    BY <1>4, Zenon
  <2>4. wait'[u] = wait[u] /\ op'[u] = op[u]
    BY <1>4, <1>7, Zenon
  <2>5. tokens'[u] = tokens[u] /\ got'[u] = got[u]
    BY <1>5, <1>7, Zenon
  <2> QED
    BY <2>2, <2>3, <2>4, <2>5
<1> QED
  BY <1>1, <1>3, <1>8, Zenon

EndType == state \in {"live", "exited", "aborted"} /\ status \in {"created", "running", "blocking", "terminated"}
PortType == table \in {"open", "closed", "cleared"} /\ items \in Nat /\ sent \in 0..MaxSends
MonitorType ==
  /\ monitors \subseteq Ports /\ owed \subseteq Ports /\ exists \subseteq Takers
  /\ wait \in [Takers -> 0..MaxWaits] /\ tokens \in [Takers -> Nat]
ValueType ==
  /\ crossed \in BOOLEAN /\ object \in 0..objects /\ objects \in Nat
  /\ successor \in {Nobody} \cup {Home[t] : t \in Takers} /\ got \in [Takers -> SUBSET Nat]
PlaceType == at \in [Members -> OwnPcs \cup TakerPcs]
OpType == op \in [Takers -> Ops]

\* The types, by the groups of variables that the actions leave alone.
LEMMA TypeGroups ==
  /\ RactorTypeOK <=> EndType /\ PortType /\ MonitorType /\ ValueType /\ PlaceType /\ OpType
  /\ RactorTypeOK' <=> EndType' /\ PortType' /\ MonitorType' /\ ValueType' /\ PlaceType' /\ OpType'
BY Zenon DEF RactorTypeOK, EndType, PortType, MonitorType, ValueType, PlaceType, OpType

\* A group that is left alone keeps its type.
LEMMA GroupsKept ==
  ASSUME RactorTypeOK
  PROVE  /\ UNCHANGED endVars => EndType'
         /\ UNCHANGED portVars => PortType'
         /\ UNCHANGED monitorVars => MonitorType'
         /\ UNCHANGED valueVars => ValueType'
         /\ UNCHANGED at => PlaceType'
         /\ UNCHANGED op => OpType'
<1>1. EndType /\ PortType /\ MonitorType /\ ValueType /\ PlaceType /\ OpType
  BY TypeGroups, Zenon
<1>2. UNCHANGED endVars => EndType'
  BY <1>1, Zenon DEF EndType, endVars
<1>3. UNCHANGED portVars => PortType'
  BY <1>1, Zenon DEF PortType, portVars
<1>4. UNCHANGED monitorVars => MonitorType'
  BY <1>1, Zenon DEF MonitorType, monitorVars
<1>5. UNCHANGED valueVars => ValueType'
  BY <1>1, Zenon DEF ValueType, valueVars
<1>6. (UNCHANGED at => PlaceType') /\ (UNCHANGED op => OpType')
  BY <1>1, Zenon DEF PlaceType, OpType
<1> QED
  BY <1>2, <1>3, <1>4, <1>5, <1>6, Zenon

\* Who moves goes to a place there is.
LEMMA PlaceMoved ==
  ASSUME RactorTypeOK, NEW t \in Members, NEW w \in OwnPcs \cup TakerPcs, MoveTo(t, w)
  PROVE  PlaceType'
<1>1. at \in [Members -> OwnPcs \cup TakerPcs]
  BY Zenon DEF RactorTypeOK
<1> QED
  BY <1>1, Zenon DEF PlaceType, MoveTo

\* A step of the Ractor's own threads keeps every variable within its type.
LEMMA OwnStepType ==
  ASSUME RactorInd, OwnStep
  PROVE  RactorTypeOK'
<1>0. RactorTypeOK /\ EndType /\ PortType /\ MonitorType /\ Body \in Members /\ Own \subseteq Members
  BY RactorParts, TypeGroups, RactorThreads, Zenon
<1>1. UNCHANGED valueVars /\ UNCHANGED op
  BY Zenon DEF OwnStep, Finish, Start, StoreStatus, ClearPorts, TakeMonitors, FeedMonitor, Gone,
               End, StartHelper, Look, ReceiveWoken, Interrupted, Close
<1>2. PlaceType'
  <2>1. at' = at \/ \E t \in Own : \E w \in OwnPcs : MoveTo(t, w)
    <3>1. Body \in Own /\ Helpers \subseteq Own
      BY RactorThreads, Zenon
    <3>2. {"run", "parked", "look", "status", "clear", "tokens", "feed", "gone"} \subseteq OwnPcs
      BY DEF OwnPcs
    <3>3. CASE Start \/ Finish \/ \E how \in {"exited", "aborted"} : End(how)
      BY <3>1, <3>2, <3>3, Zenon DEF Finish, Start, StoreStatus, ClearPorts, TakeMonitors,
                                     FeedMonitor, Gone, End
    <3>4. CASE \/ \E t \in Helpers : StartHelper(t)
               \/ \E t \in Own : Look(t) \/ ReceiveWoken(t) \/ Interrupted(t) \/ Close(t)
      BY <3>1, <3>2, <3>4, Zenon DEF StartHelper, Look, ReceiveWoken, Interrupted, Close
    <3> QED
      BY <3>3, <3>4, Zenon DEF OwnStep
  <2> QED
    BY <1>0, <2>1, GroupsKept, PlaceMoved, Zenon
<1>3. EndType'
  <2>1. /\ state' \in {state, "exited", "aborted"}
        /\ status' \in {status, "running", "blocking", "terminated"}
    BY Zenon DEF OwnStep, Finish, Start, StoreStatus, ClearPorts, TakeMonitors, FeedMonitor, Gone,
                 End, StartHelper, Look, ReceiveWoken, Interrupted, Close, endVars
  <2> QED
    BY <1>0, <2>1 DEF EndType
<1>4. PortType'
  <2>1. /\ table' \in {table, "closed", "cleared"} /\ sent' = sent
        /\ items' \in {items, 0} \/ (items > 0 /\ items' = items - 1)
    BY Zenon DEF OwnStep, Finish, Start, StoreStatus, ClearPorts, TakeMonitors, FeedMonitor, Gone,
                 End, StartHelper, Look, ReceiveWoken, Interrupted, Close, portVars
  <2> QED
    BY <1>0, <2>1 DEF PortType
<1>5. MonitorType'
  <2>1. CASE UNCHANGED monitorVars
    BY <1>0, <2>1, GroupsKept, Zenon
  <2>2. CASE TakeMonitors
    BY <1>0, <2>2, Zenon DEF TakeMonitors, MonitorType
  <2>3. CASE FeedMonitor
    <3>1. /\ UNCHANGED <<monitors, wait, exists>> /\ owed' \subseteq owed
          /\ \E p \in owed : Feed(p)
      BY <2>3, Zenon DEF FeedMonitor
    <3>2. PICK p \in owed : Feed(p)
      BY <3>1, Zenon
    <3>3. tokens \in [Takers -> Nat] /\ p[1] \in Takers
      BY <1>0 DEF MonitorType, Ports
    <3>4. tokens' \in [Takers -> Nat]
      BY <3>2, <3>3 DEF Feed
    <3> QED
      BY <1>0, <3>1, <3>4, Zenon DEF MonitorType
  <2> QED
    BY <2>1, <2>2, <2>3, Zenon DEF OwnStep, Finish, Start, StoreStatus, ClearPorts, Gone, End,
                                   StartHelper, Look, ReceiveWoken, Interrupted, Close
<1> QED
  BY <1>0, <1>1, <1>2, <1>3, <1>4, <1>5, TypeGroups, GroupsKept, Zenon

\* So does a taker's step.
LEMMA TakerStepType ==
  ASSUME RactorInd, NEW t \in Takers, TakerStep(t)
  PROVE  RactorTypeOK'
<1>0. /\ RactorTypeOK /\ PortType /\ MonitorType /\ ValueType /\ OpType /\ t \in Members
      /\ PlaceOf(t)
  BY RactorParts, TypeGroups, RactorThreads, Zenon
<1>1. UNCHANGED endVars
  BY Zenon DEF TakerStep, TakerAdvance, PortSend, Fail, Begin, Monitor, Token, Received,
               Unmonitor, Drop, Claim, Read, Cross, CrossRefused
<1>2. PlaceType'
  <2>1. at' = at \/ \E w \in TakerPcs : MoveTo(t, w)
    <3>1. {"idle", "monitor", "token", "receive", "cleanup", "received", "drop", "claim", "read",
           "cross", "taken"} \subseteq TakerPcs
      BY DEF TakerPcs
    <3> QED
      BY <3>1, Zenon DEF TakerStep, TakerAdvance, PortSend, Fail, Begin, Monitor, Token, Received,
                         Unmonitor, AfterWait, Drop, Claim, Read, Cross, CrossRefused, Return
  <2> QED
    BY <1>0, <2>1, GroupsKept, PlaceMoved, Zenon
<1>3. PortType'
  <2>1. UNCHANGED portVars \/ (table' = table /\ sent < MaxSends /\ items' = items + 1 /\ sent' = sent + 1)
    BY Zenon DEF TakerStep, TakerAdvance, PortSend, Fail, Begin, Monitor, Token, Received,
                 Unmonitor, Drop, Claim, Read, Cross, CrossRefused
  <2>2. CASE table' = table /\ sent < MaxSends /\ items' = items + 1 /\ sent' = sent + 1
    BY <1>0, <2>2, BoundsAreNat DEF PortType
  <2> QED
    BY <1>0, <2>1, <2>2, GroupsKept, Zenon
<1>4. OpType'
  <2>1. op' = op \/ \E what \in Ops : op' = [op EXCEPT ![t] = what]
    BY Zenon DEF TakerStep, TakerAdvance, PortSend, Fail, Begin, Monitor, Token, Received,
                 Unmonitor, Drop, Claim, Read, Cross, CrossRefused
  <2> QED
    BY <1>0, <2>1, Zenon DEF OpType
<1>5. ValueType'
  <2>1. CASE UNCHANGED valueVars
    BY <1>0, <2>1, GroupsKept, Zenon
  <2>2. CASE Claim(t)
    BY <1>0, <2>2, Zenon DEF Claim, ValueType
  <2>3. CASE Read(t)
    <3>1. UNCHANGED <<crossed, object, objects, successor>>
      BY <2>3, Zenon DEF Read
    <3>2. got' = got \/ got' = [got EXCEPT ![t] = @ \cup {object}]
      BY <2>3, Zenon DEF Read
    <3>3. object \in Nat
      BY <1>0 DEF ValueType
    <3>4. got' \in [Takers -> SUBSET Nat]
      BY <1>0, <3>2, <3>3 DEF ValueType
    <3> QED
      BY <1>0, <3>1, <3>4, Zenon DEF ValueType
  <2>4. CASE Cross(t)
    BY <1>0, <2>4 DEF Cross, ValueType
  <2> QED
    BY <2>1, <2>2, <2>3, <2>4, Zenon DEF TakerStep, TakerAdvance, PortSend, Fail, Begin, Monitor, Token,
                                         Received, Unmonitor, Drop, CrossRefused
<1>6. MonitorType'
  <2>1. CASE UNCHANGED monitorVars
    BY <1>0, <2>1, GroupsKept, Zenon
  <2>2. ASSUME NEW what \in Ops, Begin(t, what)
        PROVE  MonitorType'
    <3>1. /\ UNCHANGED <<monitors, owed, tokens>> /\ exists' = exists \cup {t}
          /\ wait[t] < MaxWaits /\ wait' = [wait EXCEPT ![t] = @ + 1]
      BY <2>2, Zenon DEF Begin
    <3>2. wait' \in [Takers -> 0..MaxWaits]
      BY <1>0, <3>1, BoundsAreNat DEF MonitorType
    <3> QED
      BY <1>0, <3>1, <3>2, Zenon DEF MonitorType
  <2>3. CASE Monitor(t) \/ Unmonitor(t)
    <3>1. /\ UNCHANGED <<owed, wait, exists, tokens>>
          /\ monitors' \subseteq monitors \/ (at[t] = "monitor" /\ monitors' = monitors \cup {<<t, wait[t]>>})
      BY <2>3, Zenon DEF Monitor, Unmonitor
    <3>2. at[t] = "monitor" => <<t, wait[t]>> \in Ports
      <4>1. at[t] = "monitor" => wait[t] # 0
        BY <1>0, Zenon DEF PlaceOf
      <4>2. wait[t] \in 0..MaxWaits
        BY <1>0, Zenon DEF MonitorType
      <4> QED
        BY <4>1, <4>2 DEF Ports
    <3> QED
      BY <1>0, <3>1, <3>2, Zenon DEF MonitorType
  <2>4. CASE Token(t) \/ Received(t) \/ Drop(t)
    <3>1. UNCHANGED <<monitors, owed, wait>> /\ exists' \subseteq exists
      BY <2>4, Zenon DEF Token, Received, Drop
    <3>2. CASE Token(t)
      BY <1>0, <3>2 DEF Token, Feed, MonitorType
    <3>3. CASE Received(t) \/ Drop(t)
      <4>1. tokens' \in [Takers -> Nat]
        BY <1>0, <3>3 DEF Received, Drop, MonitorType
      <4> QED
        BY <1>0, <3>1, <4>1, Zenon DEF MonitorType
    <3> QED
      BY <2>4, <3>2, <3>3, Zenon
  <2> QED
    BY <2>1, <2>2, <2>3, <2>4, Zenon DEF TakerStep, TakerAdvance, PortSend, Fail, Claim, Read, Cross,
                                         CrossRefused
<1> QED
  BY <1>0, <1>1, <1>2, <1>3, <1>4, <1>5, <1>6, TypeGroups, GroupsKept, Zenon

\* A step keeps every variable within its type.
LEMMA RactorStepType ==
  ASSUME RactorInd, OwnStep \/ \E t \in Takers : TakerStep(t)
  PROVE  RactorTypeOK'
BY OwnStepType, TakerStepType, Zenon

\* Whoever acts on the end of the Ractor still does so after it.
LEMMA StepOutcome ==
  ASSUME RactorInd, OwnStep \/ \E t \in Takers : TakerStep(t)
  PROVE  AfterOutcome' /\ OwedLate'
<1>0. RactorTypeOK /\ AfterOutcome /\ OwedLate
  BY RactorParts, Zenon
<1>1. CASE OwnStep
  <2>0. \A u \in Takers : at'[u] = at[u]
    BY <1>0, <1>1, OwnFrame, Zenon
  <2>1. CASE at[Body] \in {"tokens", "feed"}
    <3>1. state # "live"
      BY <1>0, <2>1, Zenon DEF AfterOutcome
    <3>2. state' # "live" /\ (at'[Body] \notin {"feed", "gone"} => owed' = {})
      BY <1>0, <1>1, <2>1, <3>1, OwnKinds, Zenon DEF OwedLate
    <3> QED
      BY <3>2, Zenon DEF AfterOutcome, OwedLate
  <2>2. CASE at[Body] \notin {"tokens", "feed"}
    <3>1. UNCHANGED <<owed, tokens>> /\ (state' = state \/ state' # "live")
      BY <1>0, <1>1, <2>2, OwnKinds, Zenon
    <3>2. status' = "terminated" => status = "terminated" \/ at[Body] = "status"
      BY <1>0, <1>1, <2>2, OwnKinds, Zenon
    <3>3. at'[Body] \in {"status", "clear", "tokens", "feed", "gone"} =>
            at[Body] \in {"status", "clear", "tokens", "feed", "gone"} \/ state' # "live"
      BY <1>0, <1>1, <2>2, OwnKinds, Zenon
    <3>4. at'[Body] \notin {"feed", "gone"} => at[Body] \notin {"feed", "gone"}
      BY <1>0, <1>1, <2>2, OwnKinds, Zenon
    <3>5. AfterOutcome'
      BY <1>0, <2>0, <3>1, <3>2, <3>3, Zenon DEF AfterOutcome
    <3>6. OwedLate'
      BY <1>0, <3>1, <3>4, Zenon DEF OwedLate
    <3> QED
      BY <3>5, <3>6
  <2> QED
    BY <2>1, <2>2
<1>2. ASSUME NEW t \in Takers, TakerStep(t)
      PROVE  AfterOutcome' /\ OwedLate'
  <2>0. /\ at'[Body] = at[Body] /\ UNCHANGED <<state, status, owed>>
        /\ \A u \in Takers \ {t} : at'[u] = at[u] /\ tokens'[u] = tokens[u]
    BY <1>0, <1>2, TakerFrame, Zenon
  <2>1. \A w : MoveTo(t, w) => at'[t] = w
    BY <1>0, RactorThreads, GotoMoves, Zenon
  <2>2. DOMAIN tokens = Takers /\ (tokens[t] > 0 => tokens[t] # 0)
    <3>1. tokens \in [Takers -> Nat]
      BY <1>0, Zenon DEF RactorTypeOK
    <3> QED
      BY <3>1
  <2>3. \/ status = "terminated" \/ tokens[t] # 0
        \/ at[t] \in {"token", "received", "drop", "claim", "read", "cross"}
        \/ /\ tokens'[t] \in {0, tokens[t]}
           /\ \/ at'[t] = at[t]
              \/ at'[t] \notin {"token", "received", "drop", "claim", "read", "cross"}
    <3>1. CASE PortSend(t) \/ Fail(t) \/ \E what \in Ops : Begin(t, what)
      BY <2>1, <3>1, Zenon DEF PortSend, Fail, Begin, monitorVars
    <3>2. CASE Monitor(t)
      BY <2>1, <3>2, Zenon DEF Monitor
    <3>3. CASE Unmonitor(t)
      BY <2>1, <3>3, Zenon DEF Unmonitor, AfterWait
    <3>4. CASE Drop(t)
      BY <2>1, <2>2, <3>4, Zenon DEF Drop
    <3>5. CASE Token(t) \/ Received(t)
      BY <2>2, <3>5, Zenon DEF Token, Received
    <3>6. CASE Claim(t) \/ Read(t) \/ Cross(t) \/ CrossRefused(t)
      BY <3>6, Zenon DEF Claim, Read, Cross, CrossRefused
    <3> QED
      BY <1>2, <3>1, <3>2, <3>3, <3>4, <3>5, <3>6, Zenon DEF TakerStep, TakerAdvance
  <2>4. (tokens'[t] # 0 \/ at'[t] \in {"token", "received", "drop", "claim", "read", "cross"})
          => state # "live"
    BY <1>0, <2>3, Zenon DEF AfterOutcome
  <2>5. AfterOutcome'
    BY <1>0, <2>0, <2>4, Zenon DEF AfterOutcome
  <2>6. OwedLate'
    BY <1>0, <2>0, Zenon DEF OwedLate
  <2> QED
    BY <2>5, <2>6
<1> QED
  BY <1>1, <1>2, Zenon

\* A taker that is left alone stays where it is.
LEMMA PlaceSame ==
  ASSUME NEW u, PlaceOf(u), at'[u] = at[u], tokens'[u] = tokens[u], wait'[u] = wait[u],
         op'[u] = op[u], u \in exists' <=> u \in exists,
         Current(u) \in Pending' => Current(u) \in Pending,
         Current(u) \in monitors' => Current(u) \in monitors
  PROVE  PlaceOf(u)'
<1>1. Current(u)' = Current(u)
  BY Zenon DEF Current
<1> QED
  BY <1>1, Zenon DEF PlaceOf

\* A token fed to the port of a taker is its only one.
LEMMA FeedPlaces ==
  ASSUME RactorInd, NEW p \in owed, Feed(p), owed' = owed \ {p},
         UNCHANGED <<monitors, at, wait, exists, op>>
  PROVE  /\ PortsFresh' /\ OnePlace' /\ MonitorsLive'
         /\ \A u \in Takers : at[u] = "receive" => tokens'[u] = 1 \/ Current(u)' \in Pending'
<1>0. /\ RactorTypeOK /\ PortsFresh /\ MonitorsLive /\ Awaited /\ \A u \in Takers : PlaceOf(u)
  BY RactorParts, Zenon
<1>1. p = <<p[1], p[2]>> /\ p[1] \in Takers
  <2>1. p \in Ports
    BY <1>0, Zenon DEF RactorTypeOK
  <2> QED
    BY <2>1, PortPair, Zenon
<1>2. \A u : Current(u)' = Current(u)
  BY Zenon DEF Current
<1>3. Pending' = Pending \ {p} /\ p \in Pending /\ Pending' \subseteq Pending
  <2>1. p \notin monitors
    BY <1>0, Zenon DEF PortsFresh
  <2> QED
    BY <2>1 DEF Pending
<1>4. PortsFresh' /\ MonitorsLive'
  <2>1. monitors \cap owed' = {}
    BY <1>0, Zenon DEF PortsFresh
  <2> QED
    BY <1>0, <1>3, <2>1, Zenon DEF PortsFresh, MonitorsLive
<1>5. ASSUME NEW u \in Takers, p # Current(u) PROVE tokens'[u] = tokens[u]
  <2>1. u = p[1] => wait[u] # p[2]
    BY <1>1, <1>5, Zenon DEF Current
  <2>2. DOMAIN tokens = Takers
    BY <1>0, Zenon DEF RactorTypeOK
  <2> QED
    BY <1>1, <2>1, <2>2, Zenon DEF Feed
<1>6. ASSUME NEW u \in Takers, p = Current(u), u \in exists PROVE tokens'[u] = 1 /\ tokens[u] = 0
  <2>1. p[1] = u /\ p[2] = wait[u]
    BY <1>1, <1>6, PairParts, Zenon DEF Current
  <2>2. tokens[u] = 0
    BY <1>0, <1>3, <1>6, Zenon DEF PlaceOf
  <2>3. tokens' = [tokens EXCEPT ![u] = tokens[u] + 1]
    BY <1>6, <2>1, Zenon DEF Feed
  <2>4. DOMAIN tokens = Takers
    BY <1>0, Zenon DEF RactorTypeOK
  <2> QED
    BY <2>2, <2>3, <2>4
<1>7. ASSUME NEW u \in Takers PROVE PlaceOf(u)'
  <2>1. CASE p # Current(u)
    BY <1>0, <1>3, <1>5, <2>1, PlaceSame, Zenon
  <2>2. CASE p = Current(u) /\ u \notin exists
    <3>1. p[1] = u
      BY <1>1, <2>2, PairParts, Zenon DEF Current
    <3>2. tokens' = [tokens EXCEPT ![u] = tokens[u]]
      BY <2>2, <3>1, Zenon DEF Feed
    <3>3. tokens'[u] = tokens[u]
      BY <1>0, <3>2, Zenon DEF RactorTypeOK
    <3> QED
      BY <1>0, <1>3, <3>3, PlaceSame, Zenon
  <2>3. CASE p = Current(u) /\ u \in exists
    <3>1. tokens'[u] = 1 /\ Current(u) \notin Pending' /\ Current(u) \in Pending
      BY <1>3, <1>6, <2>3, Zenon
    <3>2. PlaceOf(u)
      BY <1>0, Zenon
    <3> QED
      BY <1>2, <2>3, <3>1, <3>2, Zenon DEF PlaceOf
  <2> QED
    BY <2>1, <2>2, <2>3, Zenon
<1>8. ASSUME NEW u \in Takers, at[u] = "receive" PROVE tokens'[u] = 1 \/ Current(u) \in Pending'
  <2>1. CASE p # Current(u)
    <3>1. tokens[u] = 1 \/ Current(u) \in Pending
      BY <1>0, <1>8, Zenon DEF Awaited
    <3> QED
      BY <1>3, <1>5, <2>1, <3>1, Zenon
  <2>2. CASE p = Current(u)
    <3>1. u \in exists
      BY <1>0, <1>8, Zenon DEF PlaceOf
    <3> QED
      BY <1>6, <2>2, <3>1, Zenon
  <2> QED
    BY <2>1, <2>2
<1> QED
  BY <1>2, <1>4, <1>7, <1>8, Zenon DEF OnePlace

\* The Ractor's own steps leave every port in one place, and every waiter its
\* registration until it is fed; finish leaves none.
LEMMA OwnPorts ==
  ASSUME RactorInd, OwnStep
  PROVE  PortsFresh' /\ OnePlace' /\ MonitorsLive' /\ Awaited'
<1>0. /\ RactorTypeOK /\ PortsFresh /\ MonitorsLive /\ Awaited /\ OwedLate
      /\ \A u \in Takers : PlaceOf(u)
  BY RactorParts, Zenon
<1>1. (\A u \in Takers : at'[u] = at[u]) /\ UNCHANGED <<wait, exists, op>>
  BY <1>0, OwnFrame, Zenon
<1>2. \A u : Current(u)' = Current(u)
  BY <1>1, Zenon DEF Current
<1>3. CASE UNCHANGED <<monitors, owed, tokens>> /\ ~(at[Body] = "tokens" /\ at'[Body] = "feed")
  <2>1. Pending' = Pending
    BY <1>3, Zenon DEF Pending
  <2>2. PortsFresh' /\ MonitorsLive'
    BY <1>0, <1>1, <1>3, <2>1, Zenon DEF PortsFresh, MonitorsLive
  <2>3. OnePlace'
    BY <1>0, <1>1, <1>3, <2>1, PlaceSame, Zenon DEF OnePlace
  <2>4. \A u \in Takers : at'[u] = "receive" => tokens'[u] = 1 \/ Current(u)' \in Pending'
    BY <1>0, <1>1, <1>2, <1>3, <2>1, Zenon DEF Awaited
  <2>5. /\ status' = "terminated" /\ at'[Body] \in {"feed", "gone"} =>
             status = "terminated" /\ at[Body] \in {"feed", "gone"}
        /\ at'[Body] = "gone" => at[Body] = "gone" \/ owed = {}
    BY <1>0, <1>3, OwnKinds, Zenon
  <2>6. Awaited'
    BY <1>0, <1>3, <2>4, <2>5, Zenon DEF Awaited
  <2> QED
    BY <2>2, <2>3, <2>6
<1>4. CASE /\ at[Body] = "tokens" /\ at'[Body] = "feed"
           /\ owed' = monitors /\ monitors' = {} /\ UNCHANGED <<state, status, tokens>>
  <2>1. owed = {}
    BY <1>0, <1>4, Zenon DEF OwedLate
  <2>2. Pending' = Pending
    BY <1>4, <2>1 DEF Pending
  <2>3. PortsFresh' /\ MonitorsLive'
    BY <1>0, <1>1, <1>4, <2>2, Zenon DEF PortsFresh, MonitorsLive
  <2>4. OnePlace'
    BY <1>0, <1>1, <1>4, <2>2, PlaceSame, Zenon DEF OnePlace
  <2>5. \A u \in Takers : at'[u] = "receive" => tokens'[u] = 1 \/ Current(u)' \in Pending'
    BY <1>0, <1>1, <1>2, <1>4, <2>2, Zenon DEF Awaited
  <2>6. Awaited'
    BY <1>4, <2>5, Zenon DEF Awaited
  <2> QED
    BY <2>3, <2>4, <2>6
<1>5. CASE /\ at[Body] = "feed" /\ UNCHANGED <<at, state, status, monitors>>
           /\ \E p \in owed : Feed(p) /\ owed' = owed \ {p}
  <2>1. /\ PortsFresh' /\ OnePlace' /\ MonitorsLive'
        /\ \A u \in Takers : at[u] = "receive" => tokens'[u] = 1 \/ Current(u)' \in Pending'
    BY <1>1, <1>5, FeedPlaces, Zenon
  <2>2. Awaited'
    BY <1>0, <1>5, <2>1, Zenon DEF Awaited
  <2> QED
    BY <2>1, <2>2
<1> QED
  BY <1>0, <1>3, <1>4, <1>5, OwnKinds, Zenon

\* Neither do the takers' steps move a port that is not theirs.
LEMMA OtherPlaces ==
  ASSUME RactorInd, NEW t \in Takers, TakerStep(t), PlaceOf(t)',
         at'[t] = "receive" => tokens'[t] = 1 \/ Current(t)' \in Pending',
         status = "terminated" => monitors' \subseteq monitors
  PROVE  OnePlace' /\ Awaited'
<1>0. RactorTypeOK /\ Awaited /\ \A u \in Takers : PlaceOf(u)
  BY RactorParts, Zenon
<1>1. at'[Body] = at[Body] /\ UNCHANGED <<status, owed>>
  BY <1>0, TakerFrame, Zenon
<1>2. ASSUME NEW u \in Takers \ {t}
      PROVE  /\ PlaceOf(u)'
             /\ at'[u] = "receive" => tokens'[u] = 1 \/ Current(u)' \in Pending'
  <2>1. /\ at'[u] = at[u] /\ wait'[u] = wait[u] /\ tokens'[u] = tokens[u]
        /\ op'[u] = op[u] /\ (u \in exists' <=> u \in exists)
        /\ Current(u) \in monitors' <=> Current(u) \in monitors
    BY <1>0, TakerFrame, Zenon
  <2>2. Current(u) \in Pending' <=> Current(u) \in Pending
    BY <1>1, <2>1, Zenon DEF Pending
  <2>3. PlaceOf(u)'
    BY <1>0, <2>1, <2>2, PlaceSame, Zenon
  <2>4. Current(u)' = Current(u)
    BY <2>1, Zenon DEF Current
  <2>5. at[u] = "receive" => tokens[u] = 1 \/ Current(u) \in Pending
    BY <1>0, Zenon DEF Awaited
  <2> QED
    BY <2>1, <2>2, <2>3, <2>4, <2>5, Zenon
<1>3. status = "terminated" /\ at[Body] \in {"feed", "gone"} => monitors' = {}
  BY <1>0, Zenon DEF Awaited
<1>4. OnePlace'
  BY <1>2, Zenon DEF OnePlace
<1>5. Awaited'
  BY <1>0, <1>1, <1>2, <1>3, Zenon DEF Awaited
<1> QED
  BY <1>4, <1>5

\* A taker's port stays in one place: registered, owed a token, or fed; who
\* waits has one of them.
LEMMA TakerPorts ==
  ASSUME RactorInd, NEW t \in Takers, TakerStep(t)
  PROVE  PortsFresh' /\ OnePlace' /\ MonitorsLive' /\ Awaited'
<1>0. RactorTypeOK /\ PortsFresh /\ MonitorsLive /\ Awaited /\ PlaceOf(t)
  BY RactorParts, Zenon
<1>1. owed' = owed
  BY <1>0, TakerFrame, Zenon
<1>2. \A w : MoveTo(t, w) => at'[t] = w
  BY <1>0, RactorThreads, GotoMoves, Zenon
<1>3. DOMAIN tokens = Takers /\ DOMAIN op = Takers /\ wait \in [Takers -> 0..MaxWaits]
  BY <1>0, Zenon DEF RactorTypeOK
<1>4. ASSUME UNCHANGED <<monitors, wait, exists>>
      PROVE  /\ PortsFresh' /\ MonitorsLive' /\ Pending' = Pending /\ Current(t)' = Current(t)
             /\ status = "terminated" => monitors' \subseteq monitors
  BY <1>0, <1>1, <1>4, Zenon DEF PortsFresh, MonitorsLive, Pending, Current
<1>5. 0 # 1
  OBVIOUS
<1>6. CASE PortSend(t) \/ Fail(t)
  <2>1. UNCHANGED <<monitors, wait, exists, tokens, op>>
    BY <1>6, Zenon DEF PortSend, Fail, monitorVars
  <2>2. \/ at[t] = "idle" /\ at'[t] = "idle"
        \/ at[t] = "receive" /\ at'[t] = "cleanup"
    BY <1>2, <1>6, Zenon DEF PortSend, Fail
  <2>3. PlaceOf(t)'
    BY <1>0, <1>4, <2>1, <2>2, Zenon DEF PlaceOf
  <2> QED
    BY <1>4, <2>1, <2>2, <2>3, OtherPlaces, Zenon
<1>7. CASE \E what \in Ops : Begin(t, what)
  <2>1. /\ at[t] = "idle" /\ at'[t] = "monitor" /\ UNCHANGED <<monitors, tokens>>
        /\ wait' = [wait EXCEPT ![t] = @ + 1] /\ exists' = exists \cup {t}
    BY <1>2, <1>7, Zenon DEF Begin
  <2>2. Pending' = Pending
    BY <1>1, <2>1, Zenon DEF Pending
  <2>3. tokens'[t] = 0 /\ t \notin exists
    BY <1>0, <2>1, Zenon DEF PlaceOf
  <2>4. wait'[t] = wait[t] + 1 /\ wait[t] \in Nat /\ \A u \in Takers \ {t} : wait'[u] = wait[u]
    BY <1>3, <2>1
  <2>5. \A p \in Pending : p[1] \in Takers /\ p[2] \in Nat /\ p[2] <= wait[p[1]]
    <3>1. \A p \in Pending : p \in Ports /\ p[2] <= wait[p[1]]
      BY <1>0, Zenon DEF RactorTypeOK, PortsFresh, Pending
    <3>2. \A p \in Pending : p[1] \in Takers /\ p[2] \in 1..MaxWaits
      BY <3>1, PortPair, Zenon
    <3> QED
      BY <3>1, <3>2, BoundsAreNat
  <2>6. \A p \in Pending : p[2] <= wait'[p[1]]
    BY <2>4, <2>5
  <2>7. Current(t)' \notin Pending
    <3>1. SUFFICES ASSUME <<t, wait'[t]>> \in Pending PROVE FALSE
      BY Zenon DEF Current
    <3>2. <<t, wait'[t]>>[2] <= wait[<<t, wait'[t]>>[1]]
      BY <2>5, <3>1, Zenon
    <3> QED
      BY <2>4, <3>2
  <2>8. PortsFresh'
    BY <1>0, <1>1, <2>1, <2>2, <2>6, Zenon DEF PortsFresh
  <2>9. MonitorsLive'
    <3>1. ASSUME NEW p \in monitors PROVE p[1] # t /\ p[1] \in exists' /\ wait'[p[1]] = p[2]
      <4>1. p[1] \in exists /\ wait[p[1]] = p[2] /\ p[1] \in Takers
        BY <1>0, <2>5, Zenon DEF MonitorsLive, Pending
      <4> QED
        BY <2>1, <2>3, <2>4, <4>1, Zenon
    <3> QED
      BY <2>1, <3>1, Zenon DEF MonitorsLive
  <2>10. wait'[t] # 0
    BY <2>4
  <2>11. Current(t)' \notin Pending' /\ Current(t)' \notin monitors'
    BY <2>1, <2>2, <2>7, Zenon DEF Pending
  <2>12. PlaceOf(t)'
    BY <1>5, <2>1, <2>3, <2>10, <2>11, Zenon DEF PlaceOf
  <2> QED
    BY <2>1, <2>8, <2>9, <2>12, OtherPlaces, Zenon
<1>8. CASE Monitor(t) /\ status = "terminated"
  <2>1. /\ at[t] = "monitor" /\ at'[t] = "token"
        /\ UNCHANGED <<monitors, wait, exists, tokens, op>>
    BY <1>2, <1>8, Zenon DEF Monitor
  <2>2. PlaceOf(t)'
    BY <1>0, <1>4, <2>1, Zenon DEF PlaceOf
  <2> QED
    BY <1>4, <2>1, <2>2, OtherPlaces, Zenon
<1>9. CASE Monitor(t) /\ status # "terminated"
  <2>1. /\ at[t] = "monitor" /\ at'[t] = "receive" /\ monitors' = monitors \cup {Current(t)}
        /\ UNCHANGED <<wait, exists, tokens, op>>
    BY <1>2, <1>9, Zenon DEF Monitor, Current
  <2>2. Current(t)' = Current(t) /\ Current(t) \in Pending'
    BY <2>1, Zenon DEF Current, Pending
  <2>3. Current(t) \notin Pending /\ t \in exists /\ tokens[t] = 0 /\ wait[t] # 0
    BY <1>0, <2>1, Zenon DEF PlaceOf
  <2>4. PlaceOf(t)'
    BY <1>5, <2>1, <2>3, Zenon DEF PlaceOf
  <2>5. Current(t)[1] = t /\ Current(t)[2] = wait[t] /\ wait[t] \in Nat
    BY <1>3 DEF Current
  <2>6. MonitorsLive'
    BY <1>0, <2>1, <2>3, <2>5, Zenon DEF MonitorsLive
  <2>7. Current(t)[2] <= wait[Current(t)[1]]
    BY <2>5
  <2>8. PortsFresh'
    BY <1>0, <1>1, <2>1, <2>3, <2>7, Zenon DEF PortsFresh, Pending
  <2> QED
    BY <1>9, <2>2, <2>4, <2>6, <2>8, OtherPlaces, Zenon
<1>10. CASE Token(t)
  <2>1. /\ at[t] = "token" /\ at'[t] = "receive" /\ UNCHANGED <<monitors, wait, exists, op>>
        /\ Feed(<<t, wait[t]>>)
    BY <1>2, <1>10, Zenon DEF Token
  <2>2. Current(t) \notin Pending /\ t \in exists /\ tokens[t] = 0 /\ wait[t] # 0
    BY <1>0, <2>1, Zenon DEF PlaceOf
  <2>3. tokens'[t] = 1
    <3>1. <<t, wait[t]>>[1] = t /\ <<t, wait[t]>>[2] = wait[t] /\ 0 + 1 = 1
      OBVIOUS
    <3>2. tokens' = [tokens EXCEPT ![t] = tokens[t] + 1]
      BY <2>1, <2>2, <3>1, Zenon DEF Feed
    <3> QED
      BY <1>3, <2>2, <3>1, <3>2, Zenon
  <2>4. PlaceOf(t)'
    BY <1>4, <1>5, <2>1, <2>2, <2>3, Zenon DEF PlaceOf, Pending
  <2> QED
    BY <1>4, <2>1, <2>3, <2>4, OtherPlaces, Zenon
<1>11. CASE Received(t)
  <2>1. /\ at[t] = "receive" /\ tokens[t] > 0 /\ tokens' = [tokens EXCEPT ![t] = @ - 1]
        /\ at'[t] = IF op[t] = "select" THEN "claim" ELSE "received"
        /\ UNCHANGED <<monitors, wait, exists, op>>
    BY <1>2, <1>11, Zenon DEF Received
  <2>2. tokens[t] \in {0, 1} /\ t \in exists /\ wait[t] # 0
    BY <1>0, <2>1, Zenon DEF PlaceOf
  <2>3. tokens[t] = 1 /\ tokens'[t] = 0
    BY <1>3, <2>1, <2>2
  <2>4. Current(t) \notin Pending
    BY <1>0, <2>3, Zenon DEF PlaceOf
  <2>5. PlaceOf(t)'
    BY <1>4, <1>5, <2>1, <2>2, <2>3, <2>4, Zenon DEF PlaceOf, Pending
  <2> QED
    BY <1>4, <2>1, <2>5, OtherPlaces, Zenon
<1>12. CASE Unmonitor(t)
  <2>1. /\ at[t] \in {"received", "cleanup"} /\ monitors' = monitors \ {Current(t)}
        /\ at'[t] = IF at[t] = "received" THEN "drop" ELSE "taken"
        /\ UNCHANGED <<wait, exists, tokens, op>>
    BY <1>2, <1>12, Zenon DEF Unmonitor, AfterWait, Current
  <2>2. Current(t)' = Current(t) /\ Pending' \subseteq Pending
    BY <1>1, <2>1, Zenon DEF Current, Pending
  <2>3. PlaceOf(t)'
    BY <1>0, <2>1, <2>2, Zenon DEF PlaceOf
  <2>4. PortsFresh' /\ MonitorsLive'
    BY <1>0, <1>1, <2>1, <2>2, Zenon DEF PortsFresh, MonitorsLive
  <2>5. monitors' \subseteq monitors /\ at'[t] # "receive"
    BY <2>1, Zenon
  <2> QED
    BY <2>3, <2>4, <2>5, OtherPlaces, Zenon
<1>13. CASE Drop(t)
  <2>1. /\ at[t] \in {"drop", "taken"} /\ exists' = exists \ {t}
        /\ tokens' = [tokens EXCEPT ![t] = 0] /\ UNCHANGED <<monitors, wait, op>>
        /\ at'[t] = "idle" \/ (at[t] = "drop" /\ at'[t] = "claim")
    BY <1>2, <1>13, Zenon DEF Drop
  <2>2. tokens'[t] = 0
    BY <1>3, <2>1, Zenon
  <2>3. Current(t)' = Current(t) /\ Pending' = Pending
    BY <1>1, <2>1, Zenon DEF Current, Pending
  <2>4. Current(t) \notin monitors /\ wait[t] # 0
    BY <1>0, <2>1, Zenon DEF PlaceOf
  <2>5. at[t] = "drop" => Current(t) \notin Pending /\ op[t] # "select"
    BY <1>0, Zenon DEF PlaceOf
  <2>6. PlaceOf(t)'
    BY <1>5, <2>1, <2>2, <2>3, <2>4, <2>5, Zenon DEF PlaceOf
  <2>7. MonitorsLive'
    <3>1. ASSUME NEW p \in monitors PROVE p[1] \in exists' /\ wait'[p[1]] = p[2]
      <4>1. p[1] \in exists /\ wait[p[1]] = p[2] /\ p \in Ports
        BY <1>0, Zenon DEF MonitorsLive, RactorTypeOK
      <4>2. p = <<p[1], p[2]>>
        BY <4>1, PortPair, Zenon
      <4>3. p[1] # t
        BY <2>4, <4>1, <4>2, Zenon DEF Current
      <4> QED
        BY <2>1, <4>1, <4>3, Zenon
    <3> QED
      BY <2>1, <3>1, Zenon DEF MonitorsLive
  <2>8. PortsFresh'
    BY <1>0, <1>1, <2>1, <2>3, Zenon DEF PortsFresh
  <2> QED
    BY <2>1, <2>6, <2>7, <2>8, OtherPlaces, Zenon
<1>14. CASE Claim(t) \/ Read(t) \/ Cross(t) \/ CrossRefused(t)
  <2>1. UNCHANGED <<monitors, wait, exists, tokens, op>>
    BY <1>14, Zenon DEF Claim, Read, Cross, CrossRefused, monitorVars
  <2>2. /\ at[t] \in {"claim", "read", "cross"}
        /\ at'[t] \in {"read", "cross"} \/ at'[t] = IF op[t] = "select" THEN "cleanup" ELSE "idle"
    BY <1>2, <1>14, Zenon DEF Claim, Read, Cross, CrossRefused, Return
  <2>3. PlaceOf(t)'
    BY <1>0, <1>4, <2>1, <2>2, Zenon DEF PlaceOf
  <2>4. at'[t] # "receive"
    BY <2>2, Zenon
  <2> QED
    BY <1>4, <2>1, <2>3, <2>4, OtherPlaces, Zenon
<1> QED
  BY <1>6, <1>7, <1>8, <1>9, <1>10, <1>11, <1>12, <1>13, <1>14, Zenon DEF TakerStep, TakerAdvance

\* Only the compare-and-swap changes the successor, and only once.
LEMMA StepClaimed ==
  ASSUME RactorInd, OwnStep \/ \E t \in Takers : TakerStep(t)
  PROVE  Claimed'
<1>0. RactorTypeOK /\ Claimed
  BY RactorParts, Zenon
<1>1. CASE OwnStep
  BY <1>0, <1>1, OwnFrame, Zenon DEF Claimed
<1>2. ASSUME NEW t \in Takers, TakerStep(t)
      PROVE  Claimed'
  <2>0. \A u \in Takers \ {t} : at'[u] = at[u] /\ got'[u] = got[u]
    BY <1>0, <1>2, TakerFrame, Zenon
  <2>1. \A w : MoveTo(t, w) => at'[t] = w
    BY <1>0, RactorThreads, GotoMoves, Zenon
  <2>2. CASE PortSend(t) \/ Fail(t) \/ (\E what \in Ops : Begin(t, what)) \/ Monitor(t)
             \/ Token(t) \/ Received(t) \/ Unmonitor(t) \/ Drop(t)
    <3>1. UNCHANGED <<successor, got>>
      BY <2>2, Zenon DEF PortSend, Fail, Begin, Monitor, Token, Received, Unmonitor, Drop,
                         valueVars
    <3>2. at'[t] = at[t] \/ at'[t] \notin {"read", "cross"}
      BY <2>1, <2>2, Zenon DEF PortSend, Fail, Begin, Monitor, Token, Received, Unmonitor,
                               AfterWait, Drop
    <3> QED
      BY <1>0, <2>0, <3>1, <3>2, Zenon DEF Claimed
  <2>3. CASE Claim(t)
    <3>1. got' = got
      BY <2>3, Zenon DEF Claim
    <3>2. \/ successor \in {Nobody, Home[t]} /\ successor' = Home[t]
          \/ successor' = successor /\ at'[t] \notin {"read", "cross"}
      BY <2>1, <2>3, Zenon DEF Claim, Return
    <3> QED
      BY <1>0, <2>0, <3>1, <3>2, NobodyApart, Zenon DEF Claimed
  <2>4. CASE Read(t) \/ Cross(t) \/ CrossRefused(t)
    <3>1. successor' = successor /\ at[t] \in {"read", "cross"}
      BY <2>4, Zenon DEF Read, Cross, CrossRefused, valueVars
    <3> QED
      BY <1>0, <2>0, <3>1, Zenon DEF Claimed
  <2> QED
    BY <1>2, <2>2, <2>3, <2>4, Zenon DEF TakerStep, TakerAdvance
<1> QED
  BY <1>1, <1>2, Zenon

-----------------------------------------------------------------------------

\* The inductive invariant holds for ever.
THEOREM RactorInvariant == RactorSpec => []RactorInd
<1>1. RactorInit => RactorInd
  BY RactorInitInd, Zenon
<1>2. RactorInd /\ [RactorNext]_ractorVars => RactorInd'
  <2> SUFFICES ASSUME RactorInd, [RactorNext]_ractorVars PROVE RactorInd'
    OBVIOUS
  <2>1. CASE RactorNext
    <3>1. OwnStep \/ \E t \in Takers : TakerStep(t)
      BY <2>1, Zenon DEF RactorNext
    <3>2. RactorTypeOK' /\ AfterOutcome' /\ OwedLate' /\ Claimed'
      BY <3>1, RactorStepType, StepOutcome, StepClaimed, Zenon
    <3>3. PortsFresh' /\ OnePlace' /\ MonitorsLive' /\ Awaited'
      BY <3>1, OwnPorts, TakerPorts, Zenon
    <3> QED
      BY <3>2, <3>3, Zenon DEF RactorInd
  <2>2. CASE UNCHANGED ractorVars
    <3>1. UNCHANGED <<state, status, table, items, sent, monitors, owed, wait, exists, tokens, crossed,
                      object, objects, successor, got, at, op>>
      BY <2>2, Zenon DEF ractorVars, endVars, portVars, monitorVars, valueVars
    <3>2. RactorTypeOK'
      BY <3>1, RactorParts, Zenon DEF RactorTypeOK
    <3>3. AfterOutcome' /\ OwedLate' /\ Claimed'
      BY <3>1, RactorParts, Zenon DEF AfterOutcome, OwedLate, Claimed
    <3>4. Pending' = Pending /\ \A u : Current(u)' = Current(u)
      BY <3>1, Zenon DEF Pending, Current
    <3>5. PortsFresh' /\ MonitorsLive' /\ Awaited'
      BY <3>1, <3>4, RactorParts, Zenon DEF PortsFresh, MonitorsLive, Awaited
    <3>6. OnePlace'
      BY <3>1, <3>4, RactorParts, PlaceSame, Zenon DEF OnePlace
    <3> QED
      BY <3>2, <3>3, <3>5, <3>6, Zenon DEF RactorInd
  <2> QED
    BY <2>1, <2>2
<1> QED
  BY <1>1, <1>2, PTL DEF RactorSpec

\* A thread past its wait for a Ractor's end finds the outcome: take_value's
\* unreachable! is unreachable.
THEOREM RactorTakeAfterEnd == RactorSpec => []TakeAfterEnd
<1>1. RactorInd => TakeAfterEnd
  BY DEF RactorInd, AfterOutcome, TakeAfterEnd, Taking
<1> QED
  BY <1>1, RactorInvariant, PTL

\* Whoever reads the terminated status finds the outcome, whatever other
\* threads store to the status.
THEOREM RactorTerminatedHasOutcome == RactorSpec => []TerminatedHasOutcome
<1>1. RactorInd => TerminatedHasOutcome
  BY DEF RactorInd, AfterOutcome, TerminatedHasOutcome
<1> QED
  BY <1>1, RactorInvariant, PTL

\* No monitor port gets two termination tokens.
THEOREM RactorTokenOnce == RactorSpec => []TokenOnce
<1>1. RactorInd => TokenOnce
  BY DEF RactorInd, OnePlace, PlaceOf, TokenOnce, Pending, Current
<1> QED
  BY <1>1, RactorInvariant, PTL

\* No registration outlives the port it names.
THEOREM RactorMonitorsLive == RactorSpec => []MonitorsLive
<1>1. RactorInd => MonitorsLive
  BY DEF RactorInd
<1> QED
  BY <1>1, RactorInvariant, PTL

\* Whoever waits for a Ractor that finished has its token, unless a Thread of
\* the Ractor stored over the status.
THEOREM RactorTokenArrives == RactorSpec => []TokenArrives
<1>1. RactorInd => TokenArrives
  BY DEF RactorInd, Awaited, TokenArrives, Pending
<1> QED
  BY <1>1, RactorInvariant, PTL

\* The value of a Ractor goes to threads of one Ractor only.
THEOREM RactorOneSuccessor == RactorSpec => []OneSuccessor
<1>1. RactorInd => OneSuccessor
  BY DEF RactorInd, Claimed, OneSuccessor
<1> QED
  BY <1>1, RactorInvariant, PTL
=============================================================================
