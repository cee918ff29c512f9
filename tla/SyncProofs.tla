----------------------------- MODULE SyncProofs -----------------------------
(***************************************************************************)
(* Mutual exclusion and the no-lost-wakeup guarantee for any number of     *)
(* threads.  The argument for the second: a thread that saw the flag unset *)
(* owns the mutex until it holds the handoff lock, so the flag is set only *)
(* before it looks or while it holds that lock; and a broadcast, which     *)
(* needs the lock, finds it parked.                                        *)
(*                                                                         *)
(* Then the Monitor built on the two: a Monitor's step is a step of        *)
(* CondVar or leaves it alone, so both carry over, and its count is exact  *)
(* until a wait came back without the Mutex.                               *)
(*                                                                         *)
(* And the queue: what was taken followed by what is queued is one rising  *)
(* sequence, and a take only moves the border between the two.             *)
(***************************************************************************)
EXTENDS MCSync, FiniteSetTheorems, TLAPS

\* Who is between the mutex and the park holds the handoff lock.
HandoffHeld == \A t \in Threads : pc[t] \in {"release", "park"} <=> handoff = t

\* Who is about to wait still owns the mutex, and the flag is as it saw it.
FlagUnset == \A t \in Threads : pc[t] \in {"wait", "release"} => ~flag

Ind == TypeOK /\ Exclusive /\ HandoffHeld /\ FlagUnset /\ NoLostWakeup

\* The initial state.
LEMMA InitInd == Init => Ind
<1> SUFFICES ASSUME Init PROVE Ind
  OBVIOUS
<1>1. pc \in [Threads -> Pcs]
  BY DEF Init, Pcs
<1>2. TypeOK
  BY <1>1, Zenon DEF Init, TypeOK
<1> QED
  BY <1>2, NoneApart DEF Init, Ind, Exclusive, HandoffHeld, FlagUnset, NoLostWakeup, Owning

\* Every action of a thread keeps the invariant.
LEMMA StepInd ==
  ASSUME Ind, NEW t \in Threads, Step(t)
  PROVE  Ind'
<1> USE NoneApart DEF Ind, TypeOK, Exclusive, HandoffHeld, FlagUnset, NoLostWakeup, Owning,
        Pcs, Goto
<1>1. CASE Lock(t) \/ LockFails(t)
  BY <1>1 DEF Lock, LockFails
<1>2. CASE Locked(t) \/ TryLock(t)
  BY <1>2 DEF Locked, TryLock
<1>3. CASE Unlock(t)
  BY <1>3 DEF Unlock
<1>4. CASE Set(t)
  BY <1>4 DEF Set
<1>5. CASE Wait(t)
  BY <1>5 DEF Wait
<1>6. CASE TakeHandoff(t)
  BY <1>6 DEF TakeHandoff
<1>7. CASE Release(t)
  BY <1>7 DEF Release
<1>8. CASE Park(t)
  BY <1>8 DEF Park
<1>9. CASE Woken(t) \/ TimesOut(t)
  BY <1>9 DEF Woken, TimesOut
<1>10. CASE Broadcast(t)
  BY <1>10 DEF Broadcast
<1>11. CASE Signal(t)
  BY <1>11 DEF Signal
<1>12. CASE Die(t) \/ \E u \in Threads : Kill(t, u)
  BY <1>12 DEF Die, Kill
<1> QED
  BY <1>1, <1>2, <1>3, <1>4, <1>5, <1>6, <1>7, <1>8, <1>9, <1>10, <1>11, <1>12 DEF Step

\* The inductive invariant holds for ever.
THEOREM CondVarInvariant == Spec => []Ind
<1>1. Init => Ind
  BY InitInd
<1>2. Ind /\ [Next]_vars => Ind'
  <2> SUFFICES ASSUME Ind, [Next]_vars PROVE Ind'
    OBVIOUS
  <2>1. CASE Next
    BY <2>1, StepInd DEF Next
  <2>2. CASE UNCHANGED vars
    BY <2>2 DEF vars, Ind, TypeOK, Exclusive, HandoffHeld, FlagUnset, NoLostWakeup
  <2> QED
    BY <2>1, <2>2
<1> QED
  BY <1>1, <1>2, PTL DEF Spec

\* Mutual exclusion: who runs as the Mutex's owner is its owner.
THEOREM CondVarExclusive == Spec => []Exclusive
<1>1. Ind => Exclusive
  BY DEF Ind
<1> QED
  BY <1>1, CondVarInvariant, PTL

\* No wakeup is lost between wait's release of the mutex and its park.
THEOREM CondVarNoLostWakeup == Spec => []NoLostWakeup
<1>1. Ind => NoLostWakeup
  BY DEF Ind
<1> QED
  BY <1>1, CondVarInvariant, PTL

-----------------------------------------------------------------------------
(* The Monitor. *)

MonitorTypeOK ==
  /\ count \in Nat
  /\ saved \in [Threads -> Nat]
  /\ depth \in [Threads -> 0..MaxNest]

MonitorInd == Ind /\ MonitorTypeOK /\ NestingExact

\* The count does not wrap below Span.
LEMMA NoWrap ==
  ASSUME NEW n \in Nat, n < Span
  PROVE  n % Span = n
BY CountFits

\* A Monitor's step takes a step of CondVar or leaves its variables alone.
LEMMA MonitorStepInd ==
  ASSUME Ind, NEW t \in Threads, MonitorStep(t)
  PROVE  Ind'
<1>1. Step(t) \/ UNCHANGED vars
  BY DEF MonitorStep, Step, Enter, Entered, EnterAgain, EnterFails, ExitLast, ExitInner,
         ExitRefused, WaitForCond, Reentered, ReenterFails
<1>2. CASE Step(t)
  BY <1>2, StepInd
<1>3. CASE UNCHANGED vars
  BY <1>3 DEF vars, Ind, TypeOK, Exclusive, HandoffHeld, FlagUnset, NoLostWakeup
<1> QED
  BY <1>1, <1>2, <1>3

\* Every step keeps the count in its type.
LEMMA MonitorStepType ==
  ASSUME MonitorTypeOK, NEW t \in Threads, MonitorStep(t)
  PROVE  MonitorTypeOK'
<1> USE CountFits DEF MonitorTypeOK, Deeper, Shallower
<1>0. (count + 1) % Span \in Nat /\ (count + Span - 1) % Span \in Nat
  OBVIOUS
<1>1. CASE Enter(t) \/ EnterFails(t)
  BY <1>1 DEF Enter, EnterFails, monitor
<1>2. CASE Entered(t) \/ EnterAgain(t)
  BY <1>2, <1>0 DEF Entered, EnterAgain
<1>3. CASE ExitLast(t) \/ ExitInner(t) \/ ExitRefused(t)
  BY <1>3, <1>0 DEF ExitLast, ExitInner, ExitRefused
<1>4. CASE WaitForCond(t) \/ Reentered(t) \/ ReenterFails(t)
  BY <1>4 DEF WaitForCond, Reentered, ReenterFails
<1>5. CASE UNCHANGED monitor
  BY <1>5 DEF monitor
<1> QED
  BY <1>1, <1>2, <1>3, <1>4, <1>5 DEF MonitorStep

\* Every step keeps the nesting exact.
LEMMA MonitorStepExact ==
  ASSUME MonitorInd, NEW t \in Threads, MonitorStep(t)
  PROVE  NestingExact'
<1> USE NoneApart, CountFits
    DEF MonitorInd, MonitorTypeOK, Ind, TypeOK, Pcs, NestingExact, Inside, Goto
<1> SUFFICES ASSUME ~lost' PROVE NestingExact'
  OBVIOUS
<1>1. CASE Enter(t) \/ EnterFails(t)
  BY <1>1 DEF Enter, EnterFails, Lock, LockFails, monitor
<1>2. CASE Entered(t)
  BY <1>2, NoWrap DEF Entered, Locked, TryLock, Deeper
<1>3. CASE EnterAgain(t)
  BY <1>3, NoWrap DEF EnterAgain, vars, Deeper
<1>4. CASE ExitLast(t)
  BY <1>4 DEF ExitLast, Unlock, Shallower
<1>5. CASE ExitInner(t)
  BY <1>5, NoWrap DEF ExitInner, vars, Shallower
<1>6. CASE ExitRefused(t)
  BY <1>6 DEF ExitRefused, vars, Shallower
<1>7. CASE WaitForCond(t)
  BY <1>7 DEF WaitForCond, Wait
<1>8. CASE Reentered(t)
  BY <1>8 DEF Reentered, Locked
<1>9. CASE ReenterFails(t)
  BY <1>9 DEF ReenterFails
<1>10. CASE UNCHANGED monitor /\ (Set(t) \/ Broadcast(t) \/ Signal(t))
  BY <1>10 DEF monitor, Set, Broadcast, Signal
<1>11. CASE UNCHANGED monitor /\ (TakeHandoff(t) \/ Release(t) \/ Park(t))
  BY <1>11 DEF monitor, TakeHandoff, Release, Park
<1>12. CASE UNCHANGED monitor /\ (Woken(t) \/ TimesOut(t))
  BY <1>12 DEF monitor, Woken, TimesOut
<1> QED
  BY <1>1, <1>2, <1>3, <1>4, <1>5, <1>6, <1>7, <1>8, <1>9, <1>10, <1>11, <1>12, Zenon
  DEF MonitorStep

\* A Monitor nobody has entered.
LEMMA MonitorInitInd == MonitorInit => MonitorInd
<1> SUFFICES ASSUME MonitorInit PROVE MonitorInd
  OBVIOUS
<1>1. Ind
  BY InitInd DEF MonitorInit
<1>2. MonitorTypeOK
  BY CountFits DEF MonitorInit, MonitorTypeOK
<1>3. NestingExact
  BY NoneApart DEF MonitorInit, Init, NestingExact, Inside
<1> QED
  BY <1>1, <1>2, <1>3 DEF MonitorInd

\* Every step of a Monitor's keeps the invariant.
LEMMA MonitorNextInd ==
  ASSUME MonitorInd, NEW t \in Threads, MonitorStep(t)
  PROVE  MonitorInd'
BY MonitorStepInd, MonitorStepType, MonitorStepExact DEF MonitorInd

\* So does a step that leaves it alone.
LEMMA MonitorStutters ==
  ASSUME MonitorInd, UNCHANGED monitorVars
  PROVE  MonitorInd'
BY DEF monitorVars, monitor, vars, MonitorInd, MonitorTypeOK, NestingExact, Ind, TypeOK,
       Exclusive, HandoffHeld, FlagUnset, NoLostWakeup

\* A Monitor's owner, count and saved counts agree with how deep its threads
\* are, for any number of threads and any depth the count can hold, until a
\* wait_for_cond has come back without the Mutex.
THEOREM MonitorNestingExact == MonitorSpec => []NestingExact
<1>1. MonitorInit => MonitorInd
  BY MonitorInitInd
<1>2. MonitorInd /\ [MonitorNext]_monitorVars => MonitorInd'
  BY MonitorNextInd, MonitorStutters DEF MonitorNext
<1>3. MonitorInd => NestingExact
  BY DEF MonitorInd
<1> QED
  BY <1>1, <1>2, <1>3, PTL DEF MonitorSpec

\* The same in the world of the Monitor's users.
THEOREM MonitorNestingHolds == MCSpec => []MonitorNesting
<1> DEFINE Inv == world = "monitor" => MonitorInd
<1>1. MCInit => Inv
  BY MonitorInitInd DEF MCInit
<1>2. Inv /\ [MCNext]_MCvars => Inv'
  <2> SUFFICES ASSUME Inv, [MCNext]_MCvars, world' = "monitor" PROVE MonitorInd'
    OBVIOUS
  <2>1. CASE InMonitor(\E t \in Users : MonitorStep(t))
    BY <2>1, UsersAreThreads, MonitorNextInd DEF InMonitor
  <2>2. CASE InCondVar(Next) \/ InQueue(Q!Next)
    BY <2>2 DEF InCondVar, InQueue
  <2>3. CASE UNCHANGED MCvars
    BY <2>3, MonitorStutters DEF MCvars
  <2> QED
    BY <2>1, <2>2, <2>3, Zenon DEF MCNext
<1>3. Inv => MonitorNesting
  BY DEF MonitorNesting, MonitorInd
<1> HIDE DEF Inv
<1> QED
  BY <1>1, <1>2, <1>3, PTL DEF MCSpec

-----------------------------------------------------------------------------
(* The queue. *)

QueueTypeOK ==
  /\ items \in Seq(Nat) /\ popped \in Seq(Nat)
  /\ pushed \in Nat /\ max \in Nat

QueueInd == QueueTypeOK /\ Q!FirstInFirstOut

Rising(s) == \A i, j \in DOMAIN s : i < j => s[i] < s[j]
Elements(s) == {s[i] : i \in DOMAIN s}

\* What was taken and what is queued, in one sequence.
Out == popped \o items

\* The order, said of that sequence.
LEMMA OrderOfOut ==
  Q!FirstInFirstOut <=> Rising(Out) /\ Elements(Out) \cup cleared = 1..pushed
BY DEF Q!FirstInFirstOut, Rising, Elements, Out

\* A number above all the others goes to the end.
LEMMA RisingAppend ==
  ASSUME NEW s \in Seq(Nat), NEW n \in Nat, Rising(s), Elements(s) \subseteq 1..n
  PROVE  Rising(Append(s, n + 1)) /\ Elements(Append(s, n + 1)) = Elements(s) \cup {n + 1}
<1> DEFINE r == Append(s, n + 1)
<1>1. /\ DOMAIN r = 1..(Len(s) + 1) /\ DOMAIN s = 1..Len(s) /\ Len(s) \in Nat
      /\ \A i \in 1..Len(s) : r[i] = s[i]
      /\ r[Len(s) + 1] = n + 1
  OBVIOUS
<1>2. \A i \in 1..Len(s) : s[i] \in Nat /\ s[i] <= n
  BY <1>1 DEF Elements
<1> HIDE DEF r
<1>3. Rising(r)
  BY <1>1, <1>2 DEF Rising
<1>4. Elements(r) = Elements(s) \cup {n + 1}
  BY <1>1 DEF Elements
<1> QED
  BY <1>3, <1>4 DEF r

\* The numbers of a concatenation are those of its parts, and its first part
\* rises if it does.
LEMMA ConcatParts ==
  ASSUME NEW s \in Seq(Nat), NEW u \in Seq(Nat)
  PROVE  Elements(s \o u) = Elements(s) \cup Elements(u) /\ (Rising(s \o u) => Rising(s))
<1> DEFINE r == s \o u
<1>1. /\ DOMAIN r = 1..(Len(s) + Len(u)) /\ DOMAIN s = 1..Len(s) /\ DOMAIN u = 1..Len(u)
      /\ Len(s) \in Nat /\ Len(u) \in Nat
      /\ \A i \in 1..Len(s) : r[i] = s[i]
      /\ \A i \in 1..Len(u) : r[Len(s) + i] = u[i]
      /\ \A i \in 1..(Len(s) + Len(u)) : i \notin 1..Len(s) => r[i] = u[i - Len(s)]
  OBVIOUS
<1> HIDE DEF r
<1>2. Elements(r) \subseteq Elements(s) \cup Elements(u)
  <2> SUFFICES ASSUME NEW i \in DOMAIN r PROVE r[i] \in Elements(s) \cup Elements(u)
    BY DEF Elements
  <2>1. CASE i \in 1..Len(s)
    BY <1>1, <2>1 DEF Elements
  <2>2. CASE i \notin 1..Len(s)
    <3>1. i - Len(s) \in 1..Len(u) /\ r[i] = u[i - Len(s)]
      BY <1>1, <2>2
    <3> QED
      BY <1>1, <3>1 DEF Elements
  <2> QED
    BY <2>1, <2>2
<1>3. Elements(s) \subseteq Elements(r)
  BY <1>1 DEF Elements
<1>4. Elements(u) \subseteq Elements(r)
  <2> SUFFICES ASSUME NEW i \in DOMAIN u PROVE u[i] \in Elements(r)
    BY DEF Elements
  <2>1. Len(s) + i \in DOMAIN r /\ r[Len(s) + i] = u[i]
    BY <1>1
  <2> QED
    BY <2>1 DEF Elements
<1>5. Rising(r) => Rising(s)
  BY <1>1 DEF Rising
<1> QED
  BY <1>2, <1>3, <1>4, <1>5 DEF r

\* A push puts the next number at the end.
LEMMA PushInd ==
  ASSUME QueueInd, NEW t \in Threads, Q!Push(t)
  PROVE  QueueInd'
<1>1. items' = Append(items, pushed + 1) /\ pushed' = pushed + 1 /\ UNCHANGED <<popped, cleared, max>>
  BY DEF Q!Push
<1>2. QueueTypeOK'
  BY <1>1 DEF QueueInd, QueueTypeOK
<1>3. Out \in Seq(Nat) /\ Out' = Append(Out, pushed + 1) /\ pushed \in Nat
  BY <1>1 DEF QueueInd, QueueTypeOK, Out
<1>4. Rising(Out) /\ Elements(Out) \cup cleared = 1..pushed
  BY OrderOfOut DEF QueueInd
<1>5. Rising(Out)' /\ Elements(Out)' = Elements(Out) \cup {pushed + 1}
  <2>1. /\ Rising(Append(Out, pushed + 1))
        /\ Elements(Append(Out, pushed + 1)) = Elements(Out) \cup {pushed + 1}
    BY <1>3, <1>4, RisingAppend
  <2> QED
    BY <1>3, <2>1 DEF Rising, Elements
<1>6. Elements(Out)' \cup cleared' = 1..pushed'
  BY <1>1, <1>3, <1>4, <1>5
<1>7. Q!FirstInFirstOut'
  BY <1>5, <1>6 DEF Q!FirstInFirstOut, Rising, Elements, Out
<1> QED
  BY <1>2, <1>7 DEF QueueInd

\* A pop moves the first item, so that the whole stays as it was.
LEMMA TakeInd ==
  ASSUME QueueInd, NEW t \in Threads, Q!Take(t)
  PROVE  QueueInd'
<1>1. /\ items # <<>> /\ items' = Tail(items) /\ popped' = Append(popped, Head(items))
      /\ UNCHANGED <<pushed, cleared, max>>
  BY DEF Q!Take
<1>2. QueueTypeOK'
  BY <1>1 DEF QueueInd, QueueTypeOK
<1>3. popped' \o items' = popped \o items
  BY <1>1 DEF QueueInd, QueueTypeOK
<1> QED
  BY <1>1, <1>2, <1>3, Zenon DEF QueueInd, Q!FirstInFirstOut

\* clear keeps account of what it drops.
LEMMA ClearInd ==
  ASSUME QueueInd, NEW t \in Threads, Q!Clear(t)
  PROVE  QueueInd'
<1>1. /\ items' = <<>> /\ cleared' = cleared \cup Elements(items)
      /\ UNCHANGED <<pushed, popped, max>>
  BY DEF Q!Clear, Elements
<1>2. QueueTypeOK'
  BY <1>1 DEF QueueInd, QueueTypeOK
<1>3. Out' = popped
  BY <1>1 DEF QueueInd, QueueTypeOK, Out
<1>4. Rising(Out) /\ Elements(Out) \cup cleared = 1..pushed
  BY OrderOfOut DEF QueueInd
<1>5. Rising(popped) /\ Elements(Out) = Elements(popped) \cup Elements(items)
  BY <1>4, ConcatParts DEF QueueInd, QueueTypeOK, Out
<1>6. Elements(popped) \cup cleared' = 1..pushed'
  BY <1>1, <1>4, <1>5
<1>7. Q!FirstInFirstOut'
  BY <1>3, <1>5, <1>6 DEF Q!FirstInFirstOut, Rising, Elements, Out
<1> QED
  BY <1>2, <1>7 DEF QueueInd

\* Every other step leaves the items alone.
LEMMA QueueStepInd ==
  ASSUME QueueInd, NEW t \in Threads, Q!Step(t)
  PROVE  QueueInd'
<1>1. CASE Q!Push(t) \/ Q!Take(t) \/ Q!Clear(t)
  BY <1>1, PushInd, TakeInd, ClearInd
<1>2. CASE \/ Q!PushClosed(t) \/ Q!PushParks(t) \/ Q!PopClosed(t) \/ Q!PopParks(t)
           \/ Q!PopTimesOut(t) \/ Q!Wake(t) \/ Q!GiveUp(t) \/ Q!Close(t)
           \/ \E n \in Bounds : Q!SetMax(t, n)
  <2>1. UNCHANGED <<items, pushed, popped, cleared>> /\ max' \in Nat
    BY <1>2, BoundsAreNat
       DEF Q!PushClosed, Q!PushParks, Q!PopClosed, Q!PopParks, Q!PopTimesOut, Q!Wake, Q!GiveUp,
           Q!Close, Q!SetMax, Q!queue, Q!history, QueueInd, QueueTypeOK
  <2> QED
    BY <2>1 DEF QueueInd, QueueTypeOK, Q!FirstInFirstOut
<1> QED
  BY <1>1, <1>2 DEF Q!Step

\* A queue starts empty.
LEMMA QueueInitInd == Q!Init => QueueInd
<1> SUFFICES ASSUME Q!Init PROVE QueueInd
  OBVIOUS
<1>1. QueueTypeOK
  BY BoundsAreNat DEF Q!Init, QueueTypeOK
<1>2. popped \o items = <<>>
  BY DEF Q!Init
<1>3. Q!FirstInFirstOut
  BY <1>2 DEF Q!FirstInFirstOut, Q!Init
<1> QED
  BY <1>1, <1>3 DEF QueueInd

\* A step of the project's runs is a step of the queue or leaves it alone.
LEMMA QueueInWorlds ==
  ASSUME [MCNext]_MCvars
  PROVE  Q!Next \/ UNCHANGED queueVars
BY DEF MCNext, MCvars, InCondVar, InMonitor, InQueue

\* Items leave in the order they came, once each, and none disappears but by
\* clear, for any number of threads, any bounds and any number of pushes.
THEOREM QueueOrderHolds == MCSpec => []QueueInd /\ []QueueOrder
<1>1. MCInit => QueueInd
  BY QueueInitInd DEF MCInit
<1>2. QueueInd /\ [MCNext]_MCvars => QueueInd'
  <2> SUFFICES ASSUME QueueInd, [MCNext]_MCvars PROVE QueueInd'
    OBVIOUS
  <2>1. CASE Q!Next
    BY <2>1, QueueStepInd DEF Q!Next
  <2>2. CASE UNCHANGED queueVars
    BY <2>2 DEF queueVars, QueueInd, QueueTypeOK, Q!FirstInFirstOut
  <2> QED
    BY <2>1, <2>2, QueueInWorlds
<1>3. QueueInd => QueueOrder
  BY DEF QueueInd, QueueOrder
<1> QED
  BY <1>1, <1>2, <1>3, PTL DEF MCSpec

\* The threads that wait.
Waiters == {t \in Threads : qpc[t] \in Q!Parked}

WaitInd == qpc \in [Threads -> Q!Pcs] /\ waiting = Cardinality(Waiters)

\* A park adds its thread, the end of a slice takes it away, and nothing else
\* moves a thread in or out.
LEMMA WaitStep ==
  ASSUME WaitInd, NEW t \in Threads, Q!Step(t)
  PROVE  WaitInd'
<1> USE DEF WaitInd, Q!Pcs, Q!Goto
<1>0. IsFiniteSet(Waiters) /\ Cardinality(Waiters) \in Nat
  <2>1. Waiters \subseteq Threads
    BY DEF Waiters
  <2> QED
    BY <2>1, ThreadsFinite, FS_Subset, FS_CardinalityType
<1>1. CASE Q!PushParks(t) \/ Q!PopParks(t)
  <2>1. /\ qpc[t] \notin Q!Parked /\ waiting' = waiting + 1
        /\ qpc' \in [Threads -> Q!Pcs] /\ qpc'[t] \in Q!Parked
        /\ \A u \in Threads \ {t} : qpc'[u] = qpc[u]
    BY <1>1 DEF Q!PushParks, Q!PopParks, Q!Parked
  <2>2. Waiters' = Waiters \cup {t} /\ t \notin Waiters
    BY <2>1 DEF Waiters, Q!Parked
  <2> QED
    BY <1>0, <2>1, <2>2, FS_AddElement
<1>2. CASE Q!Wake(t) \/ Q!GiveUp(t)
  <2>1. /\ qpc[t] \in Q!Parked /\ waiting' = waiting - 1
        /\ qpc' \in [Threads -> Q!Pcs] /\ qpc'[t] \notin Q!Parked
        /\ \A u \in Threads \ {t} : qpc'[u] = qpc[u]
    BY <1>2 DEF Q!Wake, Q!GiveUp, Q!Parked, Q!Awake
  <2>2. Waiters' = Waiters \ {t} /\ t \in Waiters
    BY <2>1 DEF Waiters, Q!Parked
  <2> QED
    BY <1>0, <2>1, <2>2, FS_RemoveElement, Zenon
<1>3. CASE \/ Q!Push(t) \/ Q!PushClosed(t) \/ Q!Take(t) \/ Q!PopClosed(t) \/ Q!PopTimesOut(t)
           \/ Q!Clear(t) \/ Q!Close(t) \/ \E n \in Bounds : Q!SetMax(t, n)
  <2>1. /\ waiting' = waiting /\ qpc' \in [Threads -> Q!Pcs]
        /\ \A u \in Threads : qpc'[u] \in Q!Parked <=> qpc[u] \in Q!Parked
    BY <1>3 DEF Q!Push, Q!PushClosed, Q!Take, Q!PopClosed, Q!PopTimesOut, Q!Clear, Q!Close,
                Q!SetMax, Q!Parked
  <2>2. Waiters' = Waiters
    BY <2>1 DEF Waiters, Q!Parked
  <2> QED
    BY <2>1, <2>2
<1> QED
  BY <1>1, <1>2, <1>3 DEF Q!Step

\* num_waiting is the number of threads parked in a push or a pop, after every
\* way a wait ends, for any number of threads.
THEOREM QueueWaitingExact == MCSpec => []Q!WaitingExact
<1>1. MCInit => WaitInd
  <2> SUFFICES ASSUME Q!Init PROVE WaitInd
    BY DEF MCInit
  <2>1. Waiters = {}
    BY DEF Q!Init, Waiters, Q!Parked
  <2> QED
    BY <2>1, FS_EmptySet DEF Q!Init, WaitInd, Q!Pcs
<1>2. WaitInd /\ [MCNext]_MCvars => WaitInd'
  <2> SUFFICES ASSUME WaitInd, [MCNext]_MCvars PROVE WaitInd'
    OBVIOUS
  <2>1. CASE Q!Next
    BY <2>1, WaitStep DEF Q!Next
  <2>2. CASE UNCHANGED queueVars
    BY <2>2 DEF queueVars, WaitInd, Waiters
  <2> QED
    BY <2>1, <2>2, QueueInWorlds
<1>3. WaitInd => Q!WaitingExact
  <2>1. Waiters = {t \in Threads : qpc[t] \in Q!Parked}
    BY DEF Waiters
  <2> QED
    BY <2>1 DEF WaitInd, Q!WaitingExact, Cardinality, Q!Cardinality, IsFiniteSet, Q!IsFiniteSet
<1> QED
  BY <1>1, <1>2, <1>3, PTL DEF MCSpec
=============================================================================
