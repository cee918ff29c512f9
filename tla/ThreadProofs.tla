---------------------------- MODULE ThreadProofs ----------------------------
(***************************************************************************)
(* Interrupts, for any number of threads and posts: the process-wide       *)
(* counter is exact; without Ractors no Thread#wakeup is lost; and between *)
(* two Threads, without the timer, no interrupt is slept through.          *)
(*                                                                         *)
(* ThreadJoin, for any number of callers and however early the object      *)
(* becomes known: the join handle is consumed once, and an empty slot has  *)
(* a joiner.                                                               *)
(***************************************************************************)
EXTENDS MCInterrupts, ThreadJoin, FiniteSetTheorems, TLAPS

\* What a poster wakes is a ctx that exists.
CtxInv ==
  /\ \A t \in Threads : target[t] \in Objects
  /\ \A o \in Objects : reg[o] \in ctx \cup {None}
  /\ pc[Timer] \in {"count", "wake"} => target[Timer] \in ctx

IndInv == TypeOK /\ CtxInv /\ CounterAccounts

\* The initial state satisfies the invariant.
LEMMA InitInd == Init => IndInv
<1> SUFFICES ASSUME Init PROVE IndInv
  OBVIOUS
<1> USE MainIsThread, Strangers, MaxPostsIsNat DEF Init
<1>1. TypeOK
  BY DEF TypeOK, Pcs, Parks, Objects, Actors
<1>2. CtxInv
  BY DEF CtxInv, Objects, Actors
<1>3. tick = {} /\ Filled = {} /\ Uncounted = {} /\ Taken = {}
  BY DEF Filled, Uncounted, Taken, Objects, Actors
<1>4. CounterAccounts
  BY <1>3, FS_EmptySet DEF CounterAccounts
<1> QED BY <1>1, <1>2, <1>4 DEF IndInv

\* The four sets the counter is made of are finite.
LEMMA Finite ==
  ASSUME TypeOK
  PROVE  /\ IsFiniteSet(tick) /\ IsFiniteSet(Filled)
         /\ IsFiniteSet(Uncounted) /\ IsFiniteSet(Taken)
<1>1. IsFiniteSet(Actors)
  BY ThreadsFinite, FS_AddElement DEF Actors
<1>2. tick \in SUBSET Threads /\ Filled \in SUBSET Threads /\ Taken \in SUBSET Threads
  BY DEF TypeOK, Filled, Objects, Taken
<1>3. Uncounted \in SUBSET Actors
  BY DEF Uncounted
<1> QED BY <1>1, <1>2, <1>3, ThreadsFinite, FS_Subset

\* Cardinality counts an element that is added.
LEMMA Added ==
  ASSUME NEW S, NEW x, IsFiniteSet(S), x \notin S
  PROVE  Cardinality(S) \in Nat /\ Cardinality(S \cup {x}) = Cardinality(S) + 1
BY FS_AddElement, FS_CardinalityType

\* And one that is removed.
LEMMA Removed ==
  ASSUME NEW S, NEW x, IsFiniteSet(S), x \in S
  PROVE  Cardinality(S) \in Nat /\ Cardinality(S \ {x}) = Cardinality(S) - 1
BY FS_RemoveElement, FS_CardinalityType

\* The cardinalities are numbers.
LEMMA Numbers ==
  ASSUME TypeOK
  PROVE  /\ Cardinality(tick) \in Nat /\ Cardinality(Filled) \in Nat
         /\ Cardinality(Uncounted) \in Nat /\ Cardinality(Taken) \in Nat
BY Finite, FS_CardinalityType

-----------------------------------------------------------------------------

\* Every step keeps the types.
LEMMA TypeStep ==
  ASSUME TypeOK, CtxInv, Next
  PROVE  TypeOK'
<1> USE MainIsThread, Strangers, MaxPostsIsNat DEF TypeOK, Goto, object, Objects, Actors, Pcs
<1>1. CASE Tick
  BY <1>1 DEF Tick
<1>2. ASSUME NEW a \in Actors, Count(a)
      PROVE  TypeOK'
  BY <1>2 DEF Count
<1>3. ASSUME NEW a \in Actors, Wake(a)
      PROVE  TypeOK'
  <2>1. woke' \subseteq ctx
    <3>1. CASE a = Timer
      BY <1>3, <3>1, Zenon DEF Wake, CtxInv
    <3>2. CASE a \in Threads
      <4>1. reg[target[a]] \in ctx \cup {None} /\ a # Timer
        BY <3>2, Zenon DEF CtxInv
      <4>2. woke' = woke \cup ({reg[target[a]]} \ {None})
        BY <1>3, <4>1, Zenon DEF Wake
      <4> QED BY <4>1, <4>2, Zenon
    <3> QED BY <3>1, <3>2, Zenon
  <2> QED BY <1>3, <2>1 DEF Wake
<1>4. ASSUME NEW t \in Threads, CheckInts(t) \/ Advance(t) \/ Program(t)
      PROVE  TypeOK'
  <2>1. Current(t) \in Objects
    BY DEF Current
  <2>2. CASE CheckInts(t)
    BY <1>4, <2>2 DEF CheckInts, Parks
  <2>3. CASE ServiceTimer(t) \/ Untick(t) \/ Consume(t) \/ Unpark(t) \/ Rescue(t) \/ Exit(t)
    BY <2>3 DEF ServiceTimer, Untick, Consume, Unpark, Rescue, Exit
  <2>4. CASE Deliver(t)
    <3>1. Current(t) \in Threads /\ t \in Actors
      BY <2>1, Zenon
    <3>2. \E w \in {"run", "park", "consume"} : Goto(t, w)
      BY <2>4, Zenon DEF Deliver, GoOn
    <3>3. pc' \in [Actors -> Pcs]
      BY <3>1, <3>2
    <3>4. slot' \in [Threads -> {"none", "kill", "raise"}] /\ entered' \in [Threads -> BOOLEAN]
      BY <2>4, <3>1, Zenon DEF Deliver
    <3>5. UNCHANGED <<counter, killed, stop, reg, ctx, tick, woke, target, kind, posts>>
      BY <2>4, Zenon DEF Deliver
    <3> QED BY <3>3, <3>4, <3>5, Zenon
  <2>5. CASE Loop(t)
    BY <2>5 DEF Loop, GoOn
  <2>6. ASSUME NEW o \in Objects, Kill(t, o)
        PROVE  TypeOK'
    BY <2>6 DEF Kill, Fill
  <2>7. ASSUME NEW o \in Objects, Raise(t, o)
        PROVE  TypeOK'
    BY <2>7 DEF Raise, Fill
  <2>8. ASSUME NEW o \in Objects, Wakeup(t, o)
        PROVE  TypeOK'
    BY <2>8 DEF Wakeup
  <2>9. ASSUME NEW k \in Parks, BeginPark(t, k)
        PROVE  TypeOK'
    <3>1. stop' \in [Threads -> BOOLEAN]
      BY <2>9, <2>1 DEF BeginPark
    <3> QED BY <2>9, <2>1, <3>1 DEF BeginPark
  <2> QED
    BY <1>4, <2>2, <2>3, <2>4, <2>5, <2>6, <2>7, <2>8, <2>9, Zenon DEF Advance, Program
<1> QED BY <1>1, <1>2, <1>3, <1>4 DEF Next

\* Every step keeps what posters wake.
LEMMA CtxStep ==
  ASSUME TypeOK, CtxInv, Next
  PROVE  CtxInv'
<1> USE MainIsThread, Strangers DEF TypeOK, CtxInv, Goto, object, Objects, Actors
<1>1. CASE Tick
  BY <1>1 DEF Tick
<1>2. ASSUME NEW a \in Actors, Count(a) \/ Wake(a)
      PROVE  CtxInv'
  BY <1>2 DEF Count, Wake
<1>3. ASSUME NEW t \in Threads, CheckInts(t) \/ Advance(t) \/ Program(t)
      PROVE  CtxInv'
  <2>1. CASE CheckInts(t) \/ ServiceTimer(t) \/ Untick(t) \/ Consume(t) \/ Unpark(t)
             \/ Rescue(t) \/ Exit(t)
    BY <2>1 DEF CheckInts, ServiceTimer, Untick, Consume, Unpark, Rescue, Exit
  <2>2. CASE Deliver(t) \/ Loop(t)
    BY <2>2 DEF Deliver, Loop, GoOn
  <2>3. ASSUME NEW o \in Objects, Kill(t, o) \/ Raise(t, o) \/ Wakeup(t, o)
        PROVE  CtxInv'
    BY <2>3 DEF Kill, Raise, Wakeup, Fill
  <2>4. ASSUME NEW k \in Parks, BeginPark(t, k)
        PROVE  CtxInv'
    BY <2>4 DEF BeginPark, Current
  <2> QED BY <1>3, <2>1, <2>2, <2>3, <2>4 DEF Advance, Program
<1> QED BY <1>1, <1>2, <1>3 DEF Next

\* A step that moves none of the four sets leaves the counter alone.
LEMMA Quiet ==
  ASSUME CounterAccounts, UNCHANGED <<counter, tick>>,
         Filled' = Filled, Uncounted' = Uncounted, Taken' = Taken
  PROVE  CounterAccounts'
BY DEF CounterAccounts

\* A newly filled slot is uncounted, and a refilled one changes nothing.
LEMMA FillStep ==
  ASSUME TypeOK, CounterAccounts, NEW t \in Threads, NEW o \in Objects,
         NEW what \in {"kill", "raise"}, pc[t] = "run", Fill(t, o, what),
         UNCHANGED <<counter, tick>>
  PROVE  CounterAccounts'
<1> USE Strangers DEF TypeOK, Goto, Actors
<1>1. Taken' = Taken
  BY DEF Fill, Taken
<1>2. CASE slot[o] = "none"
  <2>1. Filled' = Filled \cup {o} /\ o \notin Filled
    BY <1>2 DEF Fill, Filled, Objects
  <2>2. Uncounted' = Uncounted \cup {t} /\ t \notin Uncounted
    BY <1>2 DEF Fill, Uncounted
  <2>3. Cardinality(Filled') = Cardinality(Filled) + 1
    BY <2>1, Finite, Added
  <2>4. Cardinality(Uncounted') = Cardinality(Uncounted) + 1
    BY <2>2, Finite, Added
  <2> QED BY <1>1, <2>3, <2>4, Numbers DEF CounterAccounts
<1>3. CASE slot[o] # "none"
  <2>1. Filled' = Filled
    BY <1>3 DEF Fill, Filled
  <2>2. Uncounted' = Uncounted
    BY <1>3 DEF Fill, Uncounted
  <2> QED BY <1>1, <2>1, <2>2, Quiet
<1> QED BY <1>2, <1>3

\* Every step keeps the account.
LEMMA CounterStep ==
  ASSUME TypeOK, CtxInv, CounterAccounts, Next
  PROVE  CounterAccounts'
<1> USE MainIsThread, Strangers DEF TypeOK, Goto, object, Actors
<1>1. CASE Tick
  <2> PICK t \in ctx : /\ tick' = tick \cup {t}
                       /\ pc' = [pc EXCEPT ![Timer] = IF t \in tick THEN "wake" ELSE "count"]
    BY <1>1, Zenon DEF Tick
  <2>1. Filled' = Filled /\ Taken' = Taken /\ counter' = counter /\ pc[Timer] = "run"
    BY <1>1 DEF Tick, Filled, Taken
  <2>2. CASE t \in tick
    <3>1. tick' = tick /\ Uncounted' = Uncounted
      BY <2>1, <2>2 DEF Uncounted
    <3> QED BY <2>1, <3>1, Quiet
  <2>3. CASE t \notin tick
    <3>1. Uncounted' = Uncounted \cup {Timer} /\ Timer \notin Uncounted
      BY <2>1, <2>3 DEF Uncounted
    <3>2. Cardinality(Uncounted') = Cardinality(Uncounted) + 1
      BY <3>1, Finite, Added
    <3>3. Cardinality(tick') = Cardinality(tick) + 1
      BY <2>3, Finite, Added
    <3> QED BY <2>1, <3>2, <3>3, Numbers DEF CounterAccounts
  <2> QED BY <2>2, <2>3
<1>2. ASSUME NEW a \in Actors, Count(a)
      PROVE  CounterAccounts'
  <2>1. Filled' = Filled /\ Taken' = Taken /\ tick' = tick /\ counter' = counter + 1
    BY <1>2 DEF Count, Filled, Taken
  <2>2. Uncounted' = Uncounted \ {a} /\ a \in Uncounted
    BY <1>2 DEF Count, Uncounted
  <2>3. Cardinality(Uncounted') = Cardinality(Uncounted) - 1
    BY <2>2, Finite, Removed
  <2> QED BY <2>1, <2>3, Numbers DEF CounterAccounts
<1>3. ASSUME NEW a \in Actors, Wake(a)
      PROVE  CounterAccounts'
  <2>1. Filled' = Filled /\ Taken' = Taken /\ Uncounted' = Uncounted
    BY <1>3 DEF Wake, Filled, Taken, Uncounted
  <2> QED BY <1>3, <2>1, Quiet DEF Wake
<1>4. ASSUME NEW t \in Threads, ServiceTimer(t)
      PROVE  CounterAccounts'
  <2>1. Filled' = Filled /\ Uncounted' = Uncounted /\ counter' = counter
    BY <1>4 DEF ServiceTimer, Filled, Uncounted
  <2>2. CASE t \in tick
    <3>1. Taken' = Taken \cup {t} /\ t \notin Taken /\ tick' = tick \ {t}
      BY <1>4, <2>2 DEF ServiceTimer, Taken
    <3>2. Cardinality(Taken') = Cardinality(Taken) + 1
      BY <3>1, Finite, Added
    <3>3. Cardinality(tick') = Cardinality(tick) - 1
      BY <2>2, <3>1, Finite, Removed
    <3> QED BY <2>1, <3>2, <3>3, Numbers DEF CounterAccounts
  <2>3. CASE t \notin tick
    <3>1. Taken' = Taken /\ tick' = tick
      BY <1>4, <2>3 DEF ServiceTimer, Taken
    <3> QED BY <2>1, <3>1, Quiet
  <2> QED BY <2>2, <2>3
<1>5. ASSUME NEW t \in Threads, Untick(t) \/ Consume(t)
      PROVE  CounterAccounts'
  <2>1. Filled' = Filled /\ tick' = tick /\ counter' = counter - 1
    BY <1>5 DEF Untick, Consume, Filled
  <2>2. Uncounted' = Uncounted
    BY <1>5 DEF Untick, Consume, Uncounted
  <2>3. Taken' = Taken \ {t} /\ t \in Taken
    BY <1>5 DEF Untick, Consume, Taken
  <2>4. Cardinality(Taken') = Cardinality(Taken) - 1
    BY <2>3, Finite, Removed
  <2> QED BY <2>1, <2>2, <2>4, Numbers DEF CounterAccounts
<1>6. ASSUME NEW t \in Threads, Deliver(t)
      PROVE  CounterAccounts'
  <2>1. Current(t) \in Objects
    BY DEF Current, Objects
  <2>2. tick' = tick /\ counter' = counter /\ Uncounted' = Uncounted
    BY <1>6 DEF Deliver, GoOn, Uncounted
  <2>3. CASE slot' = slot /\ GoOn(t)
    <3>1. Filled' = Filled /\ Taken' = Taken
      BY <1>6, <2>3 DEF Deliver, GoOn, Filled, Taken
    <3> QED BY <2>2, <3>1, Quiet
  <2>4. CASE slot[Current(t)] = "none" /\ slot' = [slot EXCEPT ![Current(t)] = "none"] /\ GoOn(t)
    <3>1. Filled' = Filled
      BY <2>1, <2>4 DEF Filled
    <3>2. Taken' = Taken
      BY <1>6, <2>4 DEF Deliver, GoOn, Taken
    <3> QED BY <2>2, <3>1, <3>2, Quiet
  <2>5. CASE /\ slot[Current(t)] # "none" /\ slot' = [slot EXCEPT ![Current(t)] = "none"]
             /\ Goto(t, "consume")
    <3>1. Filled' = Filled \ {Current(t)} /\ Current(t) \in Filled
      BY <2>1, <2>5 DEF Filled, Objects
    <3>2. Taken' = Taken \cup {t} /\ t \notin Taken
      BY <1>6, <2>5 DEF Deliver, Taken
    <3>3. Cardinality(Filled') = Cardinality(Filled) - 1
      BY <3>1, Finite, Removed
    <3>4. Cardinality(Taken') = Cardinality(Taken) + 1
      BY <3>2, Finite, Added
    <3> QED BY <2>2, <3>3, <3>4, Numbers DEF CounterAccounts
  <2> QED BY <1>6, <2>3, <2>4, <2>5 DEF Deliver
<1>7. ASSUME NEW t \in Threads, NEW o \in Objects, Kill(t, o) \/ Raise(t, o)
      PROVE  CounterAccounts'
  BY <1>7, FillStep DEF Kill, Raise
<1>8. ASSUME NEW t \in Threads,
             \/ CheckInts(t) \/ Loop(t) \/ Unpark(t) \/ Rescue(t) \/ Exit(t)
             \/ \E o \in Objects : Wakeup(t, o)
             \/ \E k \in Parks : BeginPark(t, k)
      PROVE  CounterAccounts'
  <2>1. slot' = slot /\ UNCHANGED <<counter, tick>>
    BY <1>8 DEF CheckInts, Loop, Unpark, Rescue, Exit, Wakeup, BeginPark
  <2>2. Taken' = Taken
    BY <1>8 DEF CheckInts, Loop, GoOn, Unpark, Rescue, Exit, Wakeup, BeginPark, Taken
  <2>3. Uncounted' = Uncounted
    BY <1>8 DEF CheckInts, Loop, GoOn, Unpark, Rescue, Exit, Wakeup, BeginPark, Uncounted
  <2>4. Filled' = Filled
    BY <2>1 DEF Filled
  <2> QED BY <2>1, <2>2, <2>3, <2>4, Quiet, Zenon
<1> QED
  BY <1>1, <1>2, <1>3, <1>4, <1>5, <1>6, <1>7, <1>8 DEF Next, Advance, Program

\* Every step keeps the invariant.
LEMMA NextInd == IndInv /\ [Next]_vars => IndInv'
<1> SUFFICES ASSUME IndInv, [Next]_vars PROVE IndInv'
  OBVIOUS
<1>1. CASE UNCHANGED vars
  BY <1>1 DEF vars, object, IndInv, TypeOK, CtxInv, CounterAccounts, Filled, Taken, Uncounted
<1>2. CASE Next
  BY <1>2, TypeStep, CtxStep, CounterStep DEF IndInv
<1> QED BY <1>1, <1>2

-----------------------------------------------------------------------------

\* The inductive invariant of the interrupts holds in every state.
THEOREM InterruptsInvariant == Spec => []IndInv
BY InitInd, NextInd, PTL DEF Spec

\* Slots, bits and registered contexts keep their types: what is woken is a
\* ctx that install_ctx made.
THEOREM InterruptsTypeOK == Spec => []TypeOK
<1>1. IndInv => TypeOK
  BY DEF IndInv
<1> QED BY <1>1, InterruptsInvariant, PTL

\* For any number of threads and posts, the counter accounts for every bit and
\* slot, up to the posts and takes that are under way.
THEOREM InterruptsCounter == Spec => []CounterAccounts
<1>1. IndInv => CounterAccounts
  BY DEF IndInv
<1> QED BY <1>1, InterruptsInvariant, PTL

-----------------------------------------------------------------------------
(***************************************************************************)
(* Parks, in a program without Ractors: every thread is its own Thread     *)
(* object, registers its own ctx and takes its own interrupts.             *)
(***************************************************************************)

\* How a thread in or before a park can be woken: its ctx is registered, and
\* a Thread.stop on its way to the park has its flag, its wake-up, or somebody
\* who is about to wake it.
ParkOK(t) ==
  /\ kind[t] \in Parks => reg[t] = t
  /\ pc[t] \in {"loop", "park"} => kind[t] \in Parks
  /\ (pc[t] \in {"timer", "untick", "deliver", "park"} /\ kind[t] = "stop") =>
       t \in woke \/ stop[t] \/ Posting(t)

ParkInv == \A t \in Threads : ParkOK(t)

\* Without Ractors the threads are the Thread objects.
LEMMA NoStrangers ==
  ASSUME Ractors = {}
  PROVE  Objects = Threads /\ \A t \in Threads : Current(t) = t
BY DEF Objects, Current

\* A step of a thread that is not posting lets every post go on.
LEMMA PostingKept ==
  ASSUME NEW s, pc[s] \notin {"count", "wake"},
         \A u \in Threads \ {s} : pc'[u] = pc[u] /\ target'[u] = target[u],
         NEW t, Posting(t)
  PROVE  Posting(t)'
<1>1. PICK u \in Threads : pc[u] \in {"count", "wake"} /\ target[u] = t
  BY Zenon DEF Posting
<1>2. u \in Threads \ {s}
  BY <1>1, Zenon
<1> QED BY <1>1, <1>2, Zenon DEF Posting

\* A thread that nothing happens to but a post stays wakeable.
LEMMA ParkKept ==
  ASSUME NEW t \in Threads, ParkOK(t), kind'[t] = kind[t], reg'[t] = reg[t], pc'[t] = pc[t],
         t \in woke => t \in woke', stop[t] => stop'[t] \/ Posting(t)', Posting(t) => Posting(t)'
  PROVE  ParkOK(t)'
BY Zenon DEF ParkOK

\* What moves with a thread that moves.
LEMMA Moves ==
  ASSUME TypeOK, NEW a \in Actors, NEW w, Goto(a, w)
  PROVE  pc'[a] = w /\ \A b \in Actors \ {a} : pc'[b] = pc[b]
BY Zenon DEF TypeOK, Goto

\* Who has posted wakes the thread it posted to.
LEMMA WakePark ==
  ASSUME Ractors = {}, TypeOK, CtxInv, ParkInv, NEW a \in Actors, Count(a) \/ Wake(a)
  PROVE  ParkInv'
<1> SUFFICES ASSUME NEW t \in Threads PROVE ParkOK(t)'
  BY Zenon DEF ParkInv
<1>0. ParkOK(t) /\ Threads \subseteq Actors /\ Timer \notin Threads /\ None \notin Threads
  BY Strangers, Zenon DEF ParkInv, Actors
<1>1. UNCHANGED <<target, kind, reg, stop>>
  BY Zenon DEF Count, Wake, object
<1>2. CASE Count(a)
  <2>1. pc[a] = "count" /\ pc'[a] = "wake" /\ \A b \in Actors \ {a} : pc'[b] = pc[b]
    BY <1>2, Moves, Zenon DEF Count
  <2>2. Posting(t) => Posting(t)'
    <3> SUFFICES ASSUME Posting(t) PROVE Posting(t)'
      OBVIOUS
    <3>1. PICK u \in Threads : pc[u] \in {"count", "wake"} /\ target[u] = t
      BY Zenon DEF Posting
    <3>2. pc'[u] \in {"count", "wake"}
      BY <1>0, <2>1, <3>1, Zenon
    <3> QED BY <1>1, <3>1, <3>2, Zenon DEF Posting
  <2>3. woke' = woke
    BY <1>2, Zenon DEF Count
  <2>4. CASE t = a
    BY <1>0, <1>1, <2>1, <2>2, <2>4, Zenon DEF ParkOK
  <2>5. CASE t # a
    <3>1. pc'[t] = pc[t]
      BY <1>0, <2>1, <2>5, Zenon
    <3> QED BY <1>0, <1>1, <2>2, <2>3, <3>1, ParkKept, Zenon
  <2> QED BY <2>4, <2>5, Zenon
<1>3. CASE Wake(a)
  <2>1. pc[a] = "wake" /\ pc'[a] = "run" /\ \A b \in Actors \ {a} : pc'[b] = pc[b]
    BY <1>3, Moves, Zenon DEF Wake
  <2>2. woke \subseteq woke' /\ (a # Timer => (woke' = woke \cup ({reg[target[a]]} \ {None})))
    BY <1>3, Zenon DEF Wake
  <2>3. CASE t = a
    BY <1>0, <1>1, <2>1, <2>3, Zenon DEF ParkOK
  <2>4. CASE t # a
    <3>1. pc'[t] = pc[t]
      BY <1>0, <2>1, <2>4, Zenon
    <3>2. CASE target[a] = t /\ a # Timer /\ kind[t] = "stop"
      <4>1. reg[t] = t
        BY <1>0, <3>2, Zenon DEF ParkOK, Parks
      <4>2. t \in woke'
        BY <1>0, <2>2, <3>2, <4>1, Zenon
      <4> QED BY <1>0, <1>1, <3>1, <4>2, Zenon DEF ParkOK
    <3>3. CASE target[a] # t \/ a = Timer
      <4>1. Posting(t) => Posting(t)'
        <5> SUFFICES ASSUME Posting(t) PROVE Posting(t)'
          OBVIOUS
        <5>1. PICK u \in Threads : pc[u] \in {"count", "wake"} /\ target[u] = t
          BY Zenon DEF Posting
        <5>2. pc'[u] = pc[u]
          BY <1>0, <2>1, <3>3, <5>1, Zenon
        <5> QED BY <1>1, <5>1, <5>2, Zenon DEF Posting
      <4> QED BY <1>0, <1>1, <2>2, <3>1, <4>1, ParkKept, Zenon
    <3>4. CASE kind[t] # "stop"
      BY <1>0, <1>1, <3>1, <3>4, Zenon DEF ParkOK
    <3> QED BY <3>2, <3>3, <3>4, Zenon
  <2> QED BY <2>3, <2>4, Zenon
<1> QED BY <1>2, <1>3

\* What a thread's own step does to the others.
LEMMA OthersPark ==
  ASSUME Ractors = {}, TypeOK, NEW s \in Threads, CheckInts(s) \/ Advance(s) \/ Program(s),
         NEW u \in Threads \ {s}
  PROVE  /\ pc[s] \notin {"count", "wake"}
         /\ pc'[u] = pc[u] /\ kind'[u] = kind[u] /\ target'[u] = target[u] /\ reg'[u] = reg[u]
         /\ u \in woke => u \in woke'
         /\ stop[u] => stop'[u] \/ Posting(u)'
<1>0. /\ Objects = Threads /\ Current(s) = s
      /\ s \in Actors /\ u \in Actors \ {s}
      /\ DOMAIN kind = Threads /\ DOMAIN target = Actors /\ DOMAIN reg = Threads
      /\ DOMAIN stop = Threads /\ DOMAIN pc = Actors
  BY NoStrangers, Zenon DEF Actors, TypeOK
<1>1. pc[s] \notin {"count", "wake"}
  BY Zenon DEF CheckInts, Advance, ServiceTimer, Untick, Deliver, Consume, Loop, Unpark,
               Program, Rescue, Exit, Kill, Raise, Wakeup, BeginPark
<1>2. \E w : Goto(s, w)
  BY Zenon DEF CheckInts, Advance, ServiceTimer, Untick, Deliver, GoOn, Consume, Loop, Unpark,
               Program, Rescue, Exit, Kill, Raise, Fill, Wakeup, BeginPark
<1>3. pc'[u] = pc[u]
  BY <1>0, <1>2, Moves, Zenon
<1>4. CASE CheckInts(s) \/ Advance(s) \/ Rescue(s) \/ Exit(s)
  <2>1. UNCHANGED <<target, reg, stop>> /\ kind'[u] = kind[u] /\ (u \in woke => u \in woke')
    BY <1>0, <1>4, Zenon DEF CheckInts, Advance, ServiceTimer, Untick, Deliver, Consume, Loop,
                             Unpark, Rescue, Exit, object
  <2> QED BY <1>1, <1>3, <2>1, Zenon
<1>5. ASSUME NEW o \in Objects, Kill(s, o) \/ Raise(s, o)
      PROVE  /\ kind'[u] = kind[u] /\ target'[u] = target[u] /\ reg'[u] = reg[u]
             /\ woke' = woke /\ stop' = stop
  <2>1. UNCHANGED <<kind, reg, woke, stop>> /\ target' = [target EXCEPT ![s] = o]
    BY <1>5, Zenon DEF Kill, Raise, Fill
  <2> QED BY <1>0, <2>1, Zenon
<1>6. ASSUME NEW o \in Objects, Wakeup(s, o)
      PROVE  /\ kind'[u] = kind[u] /\ target'[u] = target[u] /\ reg'[u] = reg[u]
             /\ woke' = woke /\ (stop[u] => stop'[u] \/ Posting(u)')
  <2>1. /\ UNCHANGED <<kind, reg, woke>> /\ target' = [target EXCEPT ![s] = o]
        /\ stop' = [stop EXCEPT ![o] = FALSE] /\ Goto(s, "wake")
    BY <1>6, Zenon DEF Wakeup
  <2>2. pc'[s] = "wake" /\ target'[s] = o /\ target'[u] = target[u]
    BY <1>0, <2>1, Moves, Zenon
  <2>3. Posting(o)'
    BY <2>2, Zenon DEF Posting
  <2>4. u # o => stop'[u] = stop[u]
    BY <1>0, <2>1, Zenon
  <2> QED BY <2>1, <2>2, <2>3, <2>4, Zenon
<1>7. ASSUME NEW k \in Parks, BeginPark(s, k)
      PROVE  /\ kind'[u] = kind[u] /\ target' = target /\ reg'[u] = reg[u]
             /\ woke' = woke /\ stop'[u] = stop[u]
  <2>1. /\ UNCHANGED <<target, woke>> /\ kind' = [kind EXCEPT ![s] = k]
        /\ reg' = [reg EXCEPT ![s] = s] /\ \E b : stop' = [stop EXCEPT ![s] = b]
    BY <1>0, <1>7, Zenon DEF BeginPark
  <2> QED BY <1>0, <2>1, Zenon
<1> QED BY <1>1, <1>3, <1>4, <1>5, <1>6, <1>7, Zenon DEF Program

\* A thread's own step leaves it wakeable where it may park.
LEMMA OwnPark ==
  ASSUME Ractors = {}, TypeOK, ParkInv, NEW s \in Threads, CheckInts(s) \/ Advance(s) \/ Program(s)
  PROVE  ParkOK(s)'
<1>0. /\ Objects = Threads /\ Current(s) = s /\ s \in Actors /\ ParkOK(s)
      /\ DOMAIN kind = Threads /\ DOMAIN reg = Threads /\ DOMAIN stop = Threads
  BY NoStrangers, Zenon DEF Actors, TypeOK, ParkInv
<1>1. \A w : Goto(s, w) => pc'[s] = w
  BY <1>0, Moves, Zenon
<1>2. Posting(s) => Posting(s)'
  <2>1. pc[s] \notin {"count", "wake"}
    BY Zenon DEF CheckInts, Advance, ServiceTimer, Untick, Deliver, Consume, Loop, Unpark,
                 Program, Rescue, Exit, Kill, Raise, Wakeup, BeginPark
  <2>2. \A u \in Threads \ {s} : pc'[u] = pc[u] /\ target'[u] = target[u]
    BY OthersPark, Zenon
  <2> QED BY <2>1, <2>2, PostingKept, Zenon
<1>3. CASE CheckInts(s)
  <2>1. kind'[s] = "emitted" /\ pc'[s] = "timer"
    BY <1>0, <1>1, <1>3, Zenon DEF CheckInts
  <2> QED BY <2>1, Zenon DEF ParkOK, Parks
<1>4. CASE ServiceTimer(s) \/ Untick(s)
  <2>1. /\ UNCHANGED <<kind, reg, stop, woke>>
        /\ pc[s] \in {"timer", "untick"} /\ pc'[s] \in {"untick", "deliver"}
    BY <1>1, <1>4, Zenon DEF ServiceTimer, Untick, object
  <2> QED BY <1>0, <1>2, <2>1, Zenon DEF ParkOK
<1>5. CASE Deliver(s)
  <2>1. /\ UNCHANGED <<kind, reg, stop, woke>> /\ pc[s] = "deliver"
        /\ pc'[s] \in {"run", "consume"} \/ (pc'[s] = "park" /\ kind[s] \in Parks)
    BY <1>1, <1>5, Zenon DEF Deliver, GoOn
  <2> QED BY <1>0, <1>2, <2>1, Zenon DEF ParkOK
<1>6. CASE Loop(s)
  <2>1. /\ UNCHANGED <<kind, reg, stop, woke>> /\ pc[s] = "loop"
        /\ pc'[s] \in {"run", "timer", "park"}
        /\ pc'[s] # "run" => (kind[s] = "stop" => stop[s])
    BY <1>0, <1>1, <1>6, Zenon DEF Loop, GoOn, object
  <2> QED BY <1>0, <2>1, Zenon DEF ParkOK
<1>7. CASE Unpark(s)
  <2>1. UNCHANGED <<kind, reg, stop>> /\ pc[s] = "park" /\ pc'[s] = "loop"
    BY <1>1, <1>7, Zenon DEF Unpark, object
  <2> QED BY <1>0, <2>1, Zenon DEF ParkOK
<1>8. CASE Consume(s) \/ Rescue(s) \/ Exit(s) \/ \E o \in Objects : Kill(s, o) \/ Raise(s, o) \/ Wakeup(s, o)
  <2>1. UNCHANGED <<kind, reg>> /\ pc'[s] \in {"run", "unwind", "dead", "count", "wake"}
    BY <1>1, <1>8, Zenon DEF Consume, Rescue, Exit, Kill, Raise, Fill, Wakeup, object
  <2> QED BY <1>0, <2>1, Zenon DEF ParkOK
<1>9. ASSUME NEW k \in Parks, BeginPark(s, k)
      PROVE  ParkOK(s)'
  <2>1. kind'[s] = k /\ reg'[s] = s /\ pc'[s] = "loop"
    BY <1>0, <1>1, <1>9, Zenon DEF BeginPark
  <2> QED BY <2>1, Zenon DEF ParkOK
<1> QED
  BY <1>3, <1>4, <1>5, <1>6, <1>7, <1>8, <1>9, Zenon DEF Advance, Program

\* Every step keeps whoever parks wakeable.
LEMMA ParkStep ==
  ASSUME Ractors = {}, TypeOK, CtxInv, ParkInv, Next
  PROVE  ParkInv'
<1>1. CASE Tick
  <2>1. UNCHANGED <<kind, reg, stop, woke>>
    BY <1>1, Zenon DEF Tick, object
  <2>2. \A t \in Threads : pc'[t] = pc[t] /\ target'[t] = target[t]
    BY <1>1, Strangers DEF Tick, Goto, TypeOK, Actors
  <2>3. \A t : Posting(t) => Posting(t)'
    BY <2>2, Zenon DEF Posting
  <2> QED BY <2>1, <2>2, <2>3, ParkKept, Zenon DEF ParkInv
<1>2. ASSUME NEW a \in Actors, Count(a) \/ Wake(a)
      PROVE  ParkInv'
  BY <1>2, WakePark, Zenon
<1>3. ASSUME NEW s \in Threads, CheckInts(s) \/ Advance(s) \/ Program(s)
      PROVE  ParkInv'
  <2>1. ParkOK(s)'
    BY <1>3, OwnPark, Zenon
  <2>2. ASSUME NEW t \in Threads \ {s}
        PROVE  ParkOK(t)'
    <3>1. /\ pc[s] \notin {"count", "wake"}
          /\ pc'[t] = pc[t] /\ kind'[t] = kind[t] /\ reg'[t] = reg[t]
          /\ t \in woke => t \in woke'
          /\ stop[t] => stop'[t] \/ Posting(t)'
      BY <1>3, <2>2, OthersPark, Zenon
    <3>2. \A u \in Threads \ {s} : pc'[u] = pc[u] /\ target'[u] = target[u]
      BY <1>3, OthersPark, Zenon
    <3>3. Posting(t) => Posting(t)'
      BY <3>1, <3>2, PostingKept, Zenon
    <3>4. ParkOK(t)
      BY <2>2, Zenon DEF ParkInv
    <3> QED BY <2>2, <3>1, <3>3, <3>4, ParkKept, Zenon
  <2> QED BY <2>1, <2>2, Zenon DEF ParkInv
<1> QED BY <1>1, <1>2, <1>3, Zenon DEF Next

\* For any number of threads, ticked or not, none stays in Thread.stop after a
\* Thread#wakeup: without Ractors, who parks registered its own ctx.
THEOREM ThreadsNoLostWakeup ==
  ASSUME Ractors = {}
  PROVE  Spec => []NoLostWakeup
<1>1. Init => ParkInv
  BY Zenon DEF Init, ParkInv, ParkOK, Parks, Actors
<1>2. IndInv /\ ParkInv /\ [Next]_vars => ParkInv'
  <2>1. ASSUME IndInv, ParkInv, Next
        PROVE  ParkInv'
    BY <2>1, ParkStep, Zenon DEF IndInv
  <2>2. ASSUME ParkInv, UNCHANGED vars
        PROVE  ParkInv'
    <3>1. UNCHANGED <<kind, reg, pc, woke, stop, target>>
      BY <2>2, Zenon DEF vars, object
    <3> QED BY <2>2, <3>1, Zenon DEF ParkInv, ParkOK, Posting
  <2> QED BY <2>1, <2>2, Zenon
<1>3. ParkInv => NoLostWakeup
  BY NoStrangers, Zenon DEF ParkInv, ParkOK, NoLostWakeup
<1> QED BY <1>1, <1>2, <1>3, InterruptsInvariant, PTL DEF Spec

-----------------------------------------------------------------------------
(***************************************************************************)
(* Two Threads and no timer.  Of three, one may be at its count while the  *)
(* second has taken and uncounted that post, and the counter that the      *)
(* third reads is zero with its own slot filled.                           *)
(***************************************************************************)

TwoThreads ==
  /\ Ractors = {} /\ ~Armed
  /\ \A t, u \in Threads : t # Main /\ u # Main => t = u

\* A post to oneself is still there when it is counted.
SelfPost == \A t \in Threads : pc[t] = "count" /\ target[t] = t => slot[t] # "none"

PairInv ==
  /\ tick = {} /\ pc[Timer] = "run"
  /\ SelfPost /\ NoLostInterrupt

\* Who finds the counter zero on the way to a park has nothing in its slot,
\* or the other thread is still posting to it.
LEMMA ZeroIsPosted ==
  ASSUME TwoThreads, TypeOK, CtxInv, CounterAccounts, tick = {}, pc[Timer] = "run", SelfPost,
         NEW t \in Threads, pc[t] = "loop", counter = 0, slot[t] # "none"
  PROVE  Posting(t)
<1>0. Objects = Threads /\ t \in Filled
  BY NoStrangers, Zenon DEF TwoThreads, Filled
<1>1. Cardinality(tick) = 0 /\ Cardinality({}) = 0
  BY FS_EmptySet
<1>2. Cardinality(Filled) # 0
  BY <1>0, Finite, FS_EmptySet
<1>3. Cardinality(Uncounted) = Cardinality(Filled) + Cardinality(Taken)
  <2>1. 0 = Cardinality(tick) + Cardinality(Filled) + Cardinality(Taken) - Cardinality(Uncounted)
    BY Zenon DEF CounterAccounts
  <2>2. /\ Cardinality(tick) \in Nat /\ Cardinality(Filled) \in Nat
        /\ Cardinality(Taken) \in Nat /\ Cardinality(Uncounted) \in Nat
    BY Numbers, Zenon
  <2>3. PICK c \in Nat, f \in Nat, n \in Nat, u \in Nat :
          /\ c = Cardinality(tick) /\ f = Cardinality(Filled)
          /\ n = Cardinality(Taken) /\ u = Cardinality(Uncounted)
    BY <2>2, Zenon
  <2>4. c = 0
    BY <1>1, <2>3, Zenon
  <2>5. 0 = c + f + n - u
    BY <2>1, <2>3, Zenon
  <2>6. u = f + n
    BY <2>4, <2>5
  <2> QED BY <2>3, <2>6, Zenon
<1>4. Uncounted # {}
  BY <1>1, <1>2, <1>3, Numbers
<1>5. PICK v \in Actors : pc[v] = "count"
  BY <1>4, Zenon DEF Uncounted
<1>6. v \in Threads /\ v # t
  BY <1>5, Zenon DEF Actors
<1>7. \A u \in Threads : u = t \/ u = v
  BY <1>6, MainIsThread, Zenon DEF TwoThreads, Objects
<1>8. Uncounted = {v}
  BY <1>5, <1>6, <1>7, Zenon DEF Uncounted, Actors
<1>9. Cardinality(Uncounted) = 1
  BY <1>8, FS_Singleton
<1>10. Cardinality(Filled) = 1
  BY <1>2, <1>3, <1>9, Numbers
<1>11. Filled = {t}
  BY <1>0, <1>10, Finite, FS_Singleton
<1>12. slot[v] = "none"
  BY <1>0, <1>6, <1>11, Zenon DEF Filled
<1>13. target[v] = t
  BY <1>0, <1>5, <1>6, <1>7, <1>12, Zenon DEF SelfPost, CtxInv
<1> QED BY <1>5, <1>6, <1>13, Zenon DEF Posting

\* Counting and waking.
LEMMA WakePair ==
  ASSUME TwoThreads, TypeOK, CtxInv, ParkInv, PairInv, NEW a \in Actors, Count(a) \/ Wake(a)
  PROVE  PairInv'
<1>0. /\ Objects = Threads /\ Threads \subseteq Actors /\ Timer \notin Threads /\ None \notin Threads
      /\ a # Timer /\ Timer \in Actors
  BY NoStrangers, Strangers, Zenon DEF TwoThreads, Actors, PairInv, Count, Wake
<1>1. UNCHANGED <<target, kind, reg, slot, tick>> /\ woke \subseteq woke'
  BY Zenon DEF Count, Wake, object
<1>2. /\ pc'[a] \in {"wake", "run"} /\ \A b \in Actors \ {a} : pc'[b] = pc[b]
      /\ pc'[a] = "run" => Wake(a)
      /\ pc'[a] = "wake" => pc[a] = "count"
  <2>1. CASE Count(a)
    <3>1. pc[a] = "count" /\ Goto(a, "wake")
      BY <2>1, Zenon DEF Count
    <3> QED BY <3>1, Moves, Zenon
  <2>2. CASE Wake(a)
    <3>1. Goto(a, "run")
      BY <2>2, Zenon DEF Wake
    <3>2. pc'[a] = "run" /\ \A b \in Actors \ {a} : pc'[b] = pc[b]
      BY <3>1, Moves, Zenon
    <3> QED BY <2>2, <3>2
  <2> QED BY <2>1, <2>2, Zenon
<1>3. tick' = {} /\ pc'[Timer] = "run"
  BY <1>0, <1>1, <1>2, Zenon DEF PairInv
<1>4. SelfPost'
  BY <1>0, <1>1, <1>2, Zenon DEF PairInv, SelfPost
<1>5. ASSUME NEW t \in Threads, pc'[t] = "park", kind'[t] # "nap", t \notin woke', slot'[t] # "none"
      PROVE  Posting(t)'
  <2>1. t # a /\ pc[t] = "park" /\ t \notin woke
    BY <1>0, <1>1, <1>2, <1>5, Zenon
  <2>2. Posting(t)
    BY <1>0, <1>1, <1>5, <2>1, Zenon DEF PairInv, NoLostInterrupt
  <2>3. PICK u \in Threads : pc[u] \in {"count", "wake"} /\ target[u] = t
    BY <2>2, Zenon DEF Posting
  <2>4. u = a => pc'[a] # "run"
    <3> SUFFICES ASSUME u = a, pc'[a] = "run" PROVE FALSE
      OBVIOUS
    <3>1. woke' = woke \cup ({reg[target[a]]} \ {None})
      BY <1>0, <1>2, Zenon DEF Wake
    <3>2. reg[t] = t
      BY <2>1, Zenon DEF ParkInv, ParkOK
    <3> QED BY <1>0, <1>5, <2>3, <3>1, <3>2, Zenon
  <2>5. pc'[u] \in {"count", "wake"}
    BY <1>0, <1>2, <2>3, <2>4, Zenon
  <2> QED BY <1>1, <2>3, <2>5, Zenon DEF Posting
<1>6. NoLostInterrupt'
  BY <1>0, <1>5, Zenon DEF NoLostInterrupt
<1> QED BY <1>3, <1>4, <1>6, Zenon DEF PairInv

\* What a thread's own step does to the slots: it takes from its own and fills
\* anybody's, and then it is posting.
LEMMA StepSlots ==
  ASSUME Ractors = {}, TypeOK, NEW s \in Threads, CheckInts(s) \/ Advance(s) \/ Program(s)
  PROVE  /\ UNCHANGED tick \/ tick' = tick \ {s}
         /\ \A u \in Threads : \/ slot'[u] = slot[u]
                               \/ slot'[u] # "none" /\ Posting(u)'
                               \/ u = s /\ pc[s] = "deliver" /\ slot'[s] = "none"
<1>0. Objects = Threads /\ Current(s) = s /\ s \in Actors /\ DOMAIN slot = Threads /\ DOMAIN target = Actors
  BY NoStrangers, Zenon DEF Actors, TypeOK
<1>1. UNCHANGED tick \/ tick' = tick \ {s}
  BY Zenon DEF CheckInts, Advance, ServiceTimer, Untick, Deliver, Consume, Loop, Unpark,
               Program, Rescue, Exit, Kill, Raise, Wakeup, BeginPark
<1>2. CASE \/ CheckInts(s) \/ ServiceTimer(s) \/ Untick(s) \/ Consume(s) \/ Loop(s) \/ Unpark(s)
           \/ Rescue(s) \/ Exit(s) \/ (\E o \in Objects : Wakeup(s, o))
           \/ (\E k \in Parks : BeginPark(s, k))
  <2>1. slot' = slot
    BY <1>2, Zenon DEF CheckInts, ServiceTimer, Untick, Consume, Loop, Unpark, Rescue, Exit,
                       Wakeup, BeginPark, object
  <2> QED BY <1>1, <2>1, Zenon
<1>3. CASE Deliver(s)
  <2>1. pc[s] = "deliver" /\ (slot' = slot \/ slot' = [slot EXCEPT ![s] = "none"])
    BY <1>0, <1>3, Zenon DEF Deliver
  <2>2. \A u \in Threads : slot'[u] = slot[u] \/ (u = s /\ slot'[s] = "none")
    BY <1>0, <2>1, Zenon
  <2> QED BY <1>1, <2>1, <2>2, Zenon
<1>4. ASSUME NEW o \in Objects, Kill(s, o) \/ Raise(s, o)
      PROVE  \A u \in Threads : slot'[u] = slot[u] \/ (slot'[u] # "none" /\ Posting(u)')
  <2>1. PICK what \in {"kill", "raise"} : Fill(s, o, what)
    BY <1>4, Zenon DEF Kill, Raise
  <2>2. /\ slot' = [slot EXCEPT ![o] = what] /\ target' = [target EXCEPT ![s] = o]
        /\ Goto(s, "count") \/ Goto(s, "wake")
    BY <2>1, Zenon DEF Fill
  <2>3. pc'[s] \in {"count", "wake"} /\ target'[s] = o
    BY <1>0, <2>2, Moves, Zenon
  <2>4. Posting(o)'
    BY <2>3, Zenon DEF Posting
  <2>5. slot'[o] # "none" /\ \A u \in Threads : u # o => slot'[u] = slot[u]
    BY <1>0, <1>4, <2>2, Zenon
  <2> QED BY <2>4, <2>5, Zenon
<1> QED BY <1>1, <1>2, <1>3, <1>4, Zenon DEF Advance, Program

\* A thread's own step.
LEMMA OwnPair ==
  ASSUME TwoThreads, TypeOK, CtxInv, CounterAccounts, ParkInv, PairInv,
         NEW s \in Threads, CheckInts(s) \/ Advance(s) \/ Program(s)
  PROVE  PairInv'
<1>0. /\ Objects = Threads /\ s \in Actors /\ Timer \in Actors \ {s} /\ Ractors = {}
      /\ Current(s) = s /\ DOMAIN slot = Threads
  BY NoStrangers, Strangers, Zenon DEF TwoThreads, Actors, TypeOK
<1>1. \E w : Goto(s, w)
  BY Zenon DEF CheckInts, Advance, ServiceTimer, Untick, Deliver, GoOn, Consume, Loop, Unpark,
               Program, Rescue, Exit, Kill, Raise, Fill, Wakeup, BeginPark
<1>2. tick' = {} /\ pc'[Timer] = "run"
  <2>1. pc'[Timer] = pc[Timer]
    BY <1>0, <1>1, Moves, Zenon
  <2>2. tick' = tick \/ tick' = tick \ {s}
    BY <1>0, StepSlots, Zenon
  <2> QED BY <2>1, <2>2 DEF PairInv
<1>3. \A u \in Threads : \/ slot'[u] = slot[u]
                         \/ slot'[u] # "none" /\ Posting(u)'
                         \/ u = s /\ pc[s] = "deliver" /\ slot'[s] = "none"
  BY <1>0, StepSlots, Zenon
<1>4. ASSUME NEW u \in Threads \ {s}
      PROVE  /\ pc[s] \notin {"count", "wake"}
             /\ pc'[u] = pc[u] /\ kind'[u] = kind[u] /\ target'[u] = target[u]
             /\ u \in woke => u \in woke'
  BY <1>0, <1>4, OthersPark, Zenon
<1>5. pc[s] \notin {"count", "wake"}
  BY Zenon DEF CheckInts, Advance, ServiceTimer, Untick, Deliver, Consume, Loop, Unpark,
               Program, Rescue, Exit, Kill, Raise, Wakeup, BeginPark
<1>6. \A t : Posting(t) => Posting(t)'
  BY <1>4, <1>5, PostingKept, Zenon
<1>7. \A w : Goto(s, w) => pc'[s] = w
  BY <1>0, Moves, Zenon
<1>8. SelfPost'
  <2>1. pc'[s] = "count" /\ target'[s] = s => slot'[s] # "none"
    <3>1. CASE \E o \in Objects : Kill(s, o) \/ Raise(s, o)
      <4>1. PICK o \in Threads : Kill(s, o) \/ Raise(s, o)
        BY <1>0, <3>1, Zenon
      <4>2. PICK what \in {"kill", "raise"} : Fill(s, o, what)
        BY <4>1, Zenon DEF Kill, Raise
      <4>3. slot' = [slot EXCEPT ![o] = what] /\ target' = [target EXCEPT ![s] = o]
        BY <4>2, Zenon DEF Fill
      <4>4. target'[s] = o
        BY <1>0, <4>3, Zenon DEF TypeOK
      <4> QED BY <1>0, <4>2, <4>3, <4>4, Zenon
    <3>2. CASE ~ \E o \in Objects : Kill(s, o) \/ Raise(s, o)
      <4>1. pc'[s] # "count"
        BY <1>7, <3>2, Zenon DEF CheckInts, Advance, ServiceTimer, Untick, Deliver, GoOn, Consume,
                                 Loop, Unpark, Program, Rescue, Exit, Wakeup, BeginPark
      <4> QED BY <4>1, Zenon
    <3> QED BY <3>1, <3>2, Zenon
  <2>2. ASSUME NEW u \in Threads \ {s}, pc'[u] = "count", target'[u] = u
        PROVE  slot'[u] # "none"
    <3>1. slot[u] # "none"
      BY <1>4, <2>2, Zenon DEF PairInv, SelfPost
    <3> QED BY <1>3, <2>2, <3>1, Zenon
  <2> QED BY <2>1, <2>2, Zenon DEF SelfPost
<1>9. ASSUME pc'[s] = "park", kind'[s] # "nap", s \notin woke', slot'[s] # "none"
      PROVE  Posting(s)'
  <2>1. Loop(s) \/ Deliver(s)
    BY <1>7, <1>9, Zenon DEF CheckInts, Advance, ServiceTimer, Untick, Consume, Unpark,
                             Program, Rescue, Exit, Kill, Raise, Fill, Wakeup, BeginPark
  <2>2. CASE Deliver(s)
    <3>1. kind[s] # "emitted" \/ pc'[s] # "park"
      BY <1>7, <2>2, Zenon DEF Deliver, GoOn, Parks
    <3>2. slot' = [slot EXCEPT ![s] = "none"]
      BY <1>0, <1>9, <2>2, <3>1, Zenon DEF Deliver
    <3> QED BY <1>0, <1>9, <3>2, Zenon
  <2>3. CASE Loop(s)
    <3>1. pc[s] = "loop" /\ slot' = slot
      BY <2>3, Zenon DEF Loop, object
    <3>2. counter = 0
      BY <1>7, <1>9, <2>3, Zenon DEF Loop
    <3>3. Posting(s)
      BY <1>9, <3>1, <3>2, ZeroIsPosted, Zenon DEF PairInv
    <3> QED BY <1>6, <3>3, Zenon
  <2> QED BY <2>1, <2>2, <2>3, Zenon
<1>10. ASSUME NEW t \in Threads \ {s}, pc'[t] = "park", kind'[t] # "nap", t \notin woke',
              slot'[t] # "none"
       PROVE  Posting(t)'
  <2>1. CASE slot'[t] = slot[t]
    <3>1. pc[t] = "park" /\ kind[t] # "nap" /\ t \notin woke /\ slot[t] # "none"
      BY <1>4, <1>10, <2>1, Zenon
    <3>2. Posting(t)
      BY <1>0, <3>1, Zenon DEF PairInv, NoLostInterrupt
    <3> QED BY <1>6, <3>2, Zenon
  <2>2. CASE slot'[t] # slot[t]
    BY <1>3, <1>10, <2>2, Zenon
  <2> QED BY <2>1, <2>2, Zenon
<1>11. NoLostInterrupt'
  BY <1>0, <1>9, <1>10, Zenon DEF NoLostInterrupt
<1> QED BY <1>2, <1>8, <1>11, Zenon DEF PairInv

\* Two Threads without a timer: none is parked with an interrupt in its slot.
LEMMA PairStep ==
  ASSUME TwoThreads, IndInv, ParkInv, PairInv, Next
  PROVE  PairInv'
<1>0. TypeOK /\ CtxInv /\ CounterAccounts
  BY Zenon DEF IndInv
<1>1. ~Tick
  BY Zenon DEF Tick, TwoThreads
<1>2. ASSUME NEW a \in Actors, Count(a) \/ Wake(a)
      PROVE  PairInv'
  BY <1>0, <1>2, WakePair, Zenon
<1>3. ASSUME NEW s \in Threads, CheckInts(s) \/ Advance(s) \/ Program(s)
      PROVE  PairInv'
  BY <1>0, <1>3, OwnPair, Zenon
<1> QED BY <1>1, <1>2, <1>3, Zenon DEF Next

\* Between two Threads, for any number of posts, no interrupt is slept through
\* (ThreadCtx::sleep, blocking_checkpoint): a thread parked with its slot
\* filled has its wake flag set or the other is about to set it; and no wakeup
\* of a Thread.stop.
THEOREM PairParks ==
  ASSUME TwoThreads
  PROVE  MCSpec => []UntickedPark
<1> DEFINE Inv == ~ticking => IndInv /\ ParkInv /\ PairInv
<1>1. MCInit => Inv
  <2> SUFFICES ASSUME MCInit, ~ticking PROVE IndInv /\ ParkInv /\ PairInv
    OBVIOUS
  <2>1. Init
    BY Zenon DEF MCInit
  <2>2. ParkInv
    BY <2>1, Zenon DEF Init, ParkInv, ParkOK, Parks, Actors
  <2>3. PairInv
    BY <2>1, Zenon DEF Init, PairInv, SelfPost, NoLostInterrupt, Actors, Objects
  <2> QED BY <2>1, <2>2, <2>3, InitInd, Zenon
<1>2. Inv /\ [MCNext]_MCvars => Inv'
  <2> SUFFICES ASSUME Inv, [MCNext]_MCvars, ~ticking' PROVE IndInv' /\ ParkInv' /\ PairInv'
    OBVIOUS
  <2>1. CASE MCNext
    <3>1. ~ticking /\ Next
      BY <2>1, Zenon DEF MCNext
    <3>2. IndInv /\ ParkInv /\ PairInv /\ Ractors = {}
      BY <3>1, Zenon DEF TwoThreads
    <3>3. IndInv'
      BY <3>1, <3>2, NextInd, Zenon
    <3>4. ParkInv'
      BY <3>1, <3>2, ParkStep, Zenon DEF IndInv
    <3> QED BY <3>1, <3>2, <3>3, <3>4, PairStep, Zenon
  <2>2. CASE UNCHANGED MCvars
    <3>1. UNCHANGED vars /\ UNCHANGED <<kind, reg, pc, woke, stop, target, slot, tick>> /\ ~ticking
      BY <2>2, Zenon DEF MCvars, vars, object
    <3>2. IndInv'
      BY <3>1, NextInd, Zenon
    <3>3. ParkInv'
      BY <3>1, Zenon DEF ParkInv, ParkOK, Posting
    <3>4. PairInv'
      BY <3>1, Zenon DEF PairInv, SelfPost, NoLostInterrupt, Posting
    <3> QED BY <3>2, <3>3, <3>4, Zenon
  <2> QED BY <2>1, <2>2, Zenon
<1>3. Inv => UntickedPark
  <2>1. ParkInv => NoLostWakeup
    BY NoStrangers, Zenon DEF ParkInv, ParkOK, NoLostWakeup, TwoThreads
  <2> QED BY <2>1, Zenon DEF PairInv, UntickedPark
<1> QED BY <1>1, <1>2, <1>3, PTL DEF MCSpec

-----------------------------------------------------------------------------
(***************************************************************************)
(* One Thread object and its joiners, whatever the rest of the process     *)
(* does.                                                                   *)
(***************************************************************************)

\* Whoever has the handle has emptied the slot; Thread.new fills it once, from
\* a thread nobody can have joined yet.
HandleInv ==
  /\ \A c, d \in Callers : (c \in Joiners /\ d \in Joiners) => c = d
  /\ Joiners # {} => state = "empty"
  /\ \A c \in Callers : at[c] \in {"new", "store"} =>
       c = Creator /\ state = "empty" /\ Joiners = {}
  /\ \A c \in Callers : at[c] = "put" => body = "finished"
  /\ state = "done" => body = "finished"
  /\ at[Creator] = "new" => body = "unborn"
  /\ body = "unborn" => at[Creator] = "new"

JoinInd == JoinTypeOK /\ HandleInv

\* The initial state satisfies the invariant.
LEMMA JoinInitInd == JoinInit => JoinInd
BY CreatorCalls DEF JoinInit, JoinInd, JoinTypeOK, JoinPcs, HandleInv, Joiners

\* Every step keeps the types.
LEMMA JoinTypeStep ==
  ASSUME JoinTypeOK, JoinNext
  PROVE  JoinTypeOK'
<1> USE DEF JoinTypeOK, JoinPcs, MoveTo, Answer
<1>1. CASE Begin \/ HandOut \/ End
  BY <1>1 DEF Begin, HandOut, End
<1>2. ASSUME NEW c \in Callers,
             SpawnThread(c) \/ StoreHandle(c) \/ Recv(c) \/ Joined(c) \/ Put(c) \/ Poll(c)
      PROVE  JoinTypeOK'
  BY <1>2 DEF SpawnThread, StoreHandle, Recv, Joined, Put, Poll
<1>3. ASSUME NEW c \in Callers, Join(c) \/ LimitOutcome(c)
      PROVE  JoinTypeOK'
  BY <1>3 DEF Join, LimitOutcome, Outcome
<1>4. ASSUME NEW c \in Callers, Limit(c) \/ LimitedJoin(c)
      PROVE  JoinTypeOK'
  BY <1>4 DEF Limit, LimitedJoin
<1>5. ASSUME NEW c \in Callers, Alive(c) \/ Look(c)
      PROVE  JoinTypeOK'
  BY <1>5 DEF Alive, Look
<1> QED BY <1>1, <1>2, <1>3, <1>4, <1>5, Zenon DEF JoinNext, JoinAdvance

\* Every step keeps the handle in one place.
LEMMA JoinHandleStep ==
  ASSUME JoinInd, JoinNext
  PROVE  HandleInv'
<1> USE CreatorCalls DEF JoinInd, JoinTypeOK, HandleInv, Joiners, MoveTo, Answer
<1>1. CASE Begin \/ HandOut \/ End
  BY <1>1 DEF Begin, HandOut, End
<1>2. ASSUME NEW c \in Callers, SpawnThread(c)
      PROVE  HandleInv'
  BY <1>2 DEF SpawnThread
<1>3. ASSUME NEW c \in Callers, StoreHandle(c)
      PROVE  HandleInv'
  BY <1>3 DEF StoreHandle
<1>4. ASSUME NEW c \in Callers, Recv(c) \/ Joined(c) \/ Poll(c)
      PROVE  HandleInv'
  BY <1>4 DEF Recv, Joined, Poll
<1>5. ASSUME NEW c \in Callers, Put(c)
      PROVE  HandleInv'
  BY <1>5 DEF Put
<1>6. ASSUME NEW c \in Callers, Join(c) \/ LimitOutcome(c)
      PROVE  HandleInv'
  BY <1>6 DEF Join, LimitOutcome, Outcome
<1>7. ASSUME NEW c \in Callers, Limit(c) \/ LimitedJoin(c)
      PROVE  HandleInv'
  BY <1>7 DEF Limit, LimitedJoin
<1>8. ASSUME NEW c \in Callers, Alive(c) \/ Look(c)
      PROVE  HandleInv'
  BY <1>8 DEF Alive, Look
<1> QED BY <1>1, <1>2, <1>3, <1>4, <1>5, <1>6, <1>7, <1>8, Zenon DEF JoinNext, JoinAdvance

-----------------------------------------------------------------------------

\* The inductive invariant of joining holds in every state.
THEOREM ThreadJoinInvariant == JoinSpec => []JoinInd
<1>1. JoinInd /\ [JoinNext]_joinVars => JoinInd'
  <2> SUFFICES ASSUME JoinInd, [JoinNext]_joinVars PROVE JoinInd'
    OBVIOUS
  <2>1. CASE UNCHANGED joinVars
    BY <2>1 DEF joinVars, JoinInd, JoinTypeOK, HandleInv, Joiners
  <2>2. CASE JoinNext
    BY <2>2, JoinTypeStep, JoinHandleStep DEF JoinInd
  <2> QED BY <2>1, <2>2
<1> QED BY <1>1, JoinInitInd, PTL DEF JoinSpec

\* For any number of callers, the handle thread_outcome takes is joined once
\* and an outcome is only stored for a body that ended.
THEOREM ThreadJoinHandleOnce == JoinSpec => []HandleOnce
<1>1. JoinInd => HandleOnce
  BY DEF JoinInd, HandleInv, HandleOnce, Joiners
<1> QED BY <1>1, ThreadJoinInvariant, PTL

\* For any number of callers, whoever finds the slot empty is never left to
\* poll for a result nobody is bringing (thread_outcome, reap_if_finished),
\* except before thread_new has stored the handle.
THEOREM ThreadJoinEmptyHasJoiner == JoinSpec => []EmptyHasJoiner
<1>1. JoinInit => EmptyHasJoiner
  BY CreatorCalls, Zenon DEF JoinInit, EmptyHasJoiner
<1>2. ASSUME JoinInd, EmptyHasJoiner, [JoinNext]_joinVars
      PROVE  EmptyHasJoiner'
  <2> USE <1>2, CreatorCalls DEF EmptyHasJoiner, JoinInd, JoinTypeOK, HandleInv, Joiners, MoveTo, Answer
  <2>1. CASE Begin \/ HandOut \/ End \/ UNCHANGED joinVars
    BY <2>1 DEF Begin, HandOut, End, joinVars
  <2>2. ASSUME NEW c \in Callers, SpawnThread(c) \/ StoreHandle(c) \/ Recv(c) \/ Poll(c)
        PROVE  EmptyHasJoiner'
    BY <2>2 DEF SpawnThread, StoreHandle, Recv, Poll
  <2>3. ASSUME NEW c \in Callers, Joined(c) \/ Put(c)
        PROVE  EmptyHasJoiner'
    BY <2>3 DEF Joined, Put
  <2>4. ASSUME NEW c \in Callers, Join(c) \/ LimitOutcome(c)
        PROVE  EmptyHasJoiner'
    <3>1. /\ at[c] \in {"idle", "outcome"}
          /\ \A d \in Callers \ {c} : at'[d] = at[d]
          /\ state # "empty" => at'[c] \in {"joining", "put"}
      BY <2>4 DEF Join, LimitOutcome, Outcome
    <3> QED
      BY <3>1
  <2>5. ASSUME NEW c \in Callers, Limit(c) \/ LimitedJoin(c) \/ Alive(c) \/ Look(c)
        PROVE  EmptyHasJoiner'
    BY <2>5 DEF Limit, LimitedJoin, Alive, Look
  <2> QED
    BY <1>2, <2>1, <2>2, <2>3, <2>4, <2>5, Zenon DEF JoinNext, JoinAdvance
<1> QED
  BY <1>1, <1>2, ThreadJoinInvariant, PTL DEF JoinSpec

\* Who has the outcome has it from a slot that no handle comes back to:
\* Thread.new filled it before.
OutcomeFinal ==
  \A d \in Callers : answer[d] = "outcome" =>
    state # "running" /\ at[Creator] \notin {"new", "store"}

\* A step keeps it.
LEMMA OutcomeFinalStep ==
  ASSUME JoinInd, OutcomeFinal, JoinNext
  PROVE  OutcomeFinal'
<1>0. /\ at \in [Callers -> JoinPcs] /\ answer \in [Callers -> {"none", "outcome", "nil", "alive", "dead"}]
      /\ state \in {"empty", "running", "done"}
      /\ \A c \in Callers : at[c] \in {"new", "store"} => c = Creator
      /\ \A c \in Callers : at[c] \in {"joining", "put"} => at[Creator] \notin {"new", "store"}
      /\ state # "empty" => at[Creator] \notin {"new", "store"}
  BY CreatorCalls DEF JoinInd, JoinTypeOK, HandleInv, Joiners
<1>1. CASE Begin \/ HandOut \/ End
  BY <1>1, Zenon DEF Begin, HandOut, End, OutcomeFinal
<1>2. ASSUME NEW c \in Callers, SpawnThread(c) \/ StoreHandle(c)
      PROVE  OutcomeFinal'
  <2>1. c = Creator /\ \A d \in Callers : answer[d] # "outcome"
    BY <1>0, <1>2 DEF OutcomeFinal, SpawnThread, StoreHandle
  <2>2. answer' = answer
    BY <1>2, Zenon DEF SpawnThread, StoreHandle
  <2> QED
    BY <2>1, <2>2, Zenon DEF OutcomeFinal
<1>3. ASSUME NEW c \in Callers, Recv(c) \/ Joined(c) \/ LimitedJoin(c) \/ Alive(c)
      PROVE  OutcomeFinal'
  <2>1. answer' = answer /\ (state' = "running" => state = "running")
        /\ \E w \in {"idle", "put", "limit", "look"} : MoveTo(c, w)
    BY <1>3 DEF Recv, Joined, LimitedJoin, Alive
  <2> QED
    BY <1>0, <2>1, CreatorCalls DEF OutcomeFinal, MoveTo
<1>4. ASSUME NEW c \in Callers, Join(c) \/ LimitOutcome(c)
      PROVE  OutcomeFinal'
  <2>1. answer' = answer /\ state' = "empty"
        /\ \E w \in {"joining", "put", "poll"} : MoveTo(c, w)
    BY <1>0, <1>4 DEF Join, LimitOutcome, Outcome
  <2> QED
    BY <1>0, <2>1, CreatorCalls DEF OutcomeFinal, MoveTo
<1>5. ASSUME NEW c \in Callers, Put(c) \/ Poll(c)
      PROVE  OutcomeFinal'
  <2>1. /\ state' = "done" /\ MoveTo(c, "idle")
        /\ at[Creator] \notin {"new", "store"}
    BY <1>0, <1>5 DEF Put, Poll
  <2> QED
    BY <1>0, <2>1, CreatorCalls DEF OutcomeFinal, MoveTo
<1>6. ASSUME NEW c \in Callers, Limit(c) \/ Look(c)
      PROVE  OutcomeFinal'
  <2>1. /\ state' = state /\ \E w \in {"idle", "outcome"} : MoveTo(c, w)
        /\ answer' = answer \/ \E a \in {"nil", "alive", "dead"} : Answer(c, a)
    BY <1>6 DEF Limit, Look
  <2>2. \A d \in Callers : answer'[d] = "outcome" => answer[d] = "outcome"
    BY <1>0, <2>1 DEF Answer
  <2> QED
    BY <1>0, <2>1, <2>2, CreatorCalls DEF OutcomeFinal, MoveTo
<1> QED
  BY <1>1, <1>2, <1>3, <1>4, <1>5, <1>6, Zenon DEF JoinNext, JoinAdvance

\* For any number of callers, once somebody got the outcome, alive? never
\* answers true again, though it looks under a second lock and a joiner may
\* have the outcome out of the slot between the two (thread_alive).
THEOREM ThreadJoinStaysEnded == JoinSpec => StaysEnded
<1>1. JoinInit => OutcomeFinal
  BY DEF JoinInit, OutcomeFinal
<1>2. JoinInd /\ OutcomeFinal /\ [JoinNext]_joinVars => OutcomeFinal'
  <2> SUFFICES ASSUME JoinInd, OutcomeFinal, [JoinNext]_joinVars PROVE OutcomeFinal'
    OBVIOUS
  <2>1. CASE UNCHANGED joinVars
    BY <2>1, Zenon DEF joinVars, OutcomeFinal
  <2> QED
    BY <2>1, OutcomeFinalStep, Zenon
<1>3. JoinInd /\ OutcomeFinal =>
        \A c, d \in Callers : (Look(c) /\ answer[d] = "outcome") => answer'[c] = "dead"
  <2> SUFFICES ASSUME JoinInd, OutcomeFinal, NEW c \in Callers, NEW d \in Callers,
                      Look(c), answer[d] = "outcome"
               PROVE  answer'[c] = "dead"
    BY Zenon
  <2>1. state # "running" /\ DOMAIN answer = Callers
    BY Zenon DEF OutcomeFinal, JoinInd, JoinTypeOK
  <2> QED
    BY <2>1 DEF Look, Answer
<1> QED
  BY <1>1, <1>2, <1>3, ThreadJoinInvariant, PTL DEF JoinSpec, StaysEnded
=============================================================================
