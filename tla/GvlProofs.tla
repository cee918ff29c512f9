----------------------------- MODULE GvlProofs -----------------------------
(***************************************************************************)
(* Proofs about Gvl for every set of threads, every counter width above    *)
(* the number of threads and every nesting bound.                          *)
(***************************************************************************)
EXTENDS Gvl, TLAPS, FiniteSetTheorems

USE DEF NoTicket

Ticket == 0..(Width - 1)

\* The queue as a relation between the counters, the holder and the tickets:
\* the tickets out are exactly those between now_serving (the holder's own
\* place excluded) and next_ticket, one waiter each.
Queue(nt, ns, h, tk) ==
  LET first == IF h = None THEN 0 ELSE 1
      Out == {t \in Threads : tk[t] # NoTicket}
  IN /\ h # None => Dist(nt, ns) >= 1 /\ h \notin Out
     /\ \A t \in Out : first <= Dist(tk[t], ns) /\ Dist(tk[t], ns) < Dist(nt, ns)
     /\ \A t, u \in Out : tk[t] = tk[u] => t = u
     /\ \A d \in first..(Dist(nt, ns) - 1) : \E t \in Out : Dist(tk[t], ns) = d

\* A counter difference is a natural number below the width.
LEMMA DistType ==
  ASSUME NEW n \in Ticket, NEW s \in Ticket
  PROVE  /\ Dist(n, s) \in 0..(Width - 1)
         /\ Dist(n, s) = 0 <=> n = s
BY WidthFits DEF Dist, Ticket

\* Two counters at the same distance from a third are equal.
LEMMA DistInjective ==
  ASSUME NEW n \in Ticket, NEW m \in Ticket, NEW s \in Ticket, Dist(n, s) = Dist(m, s)
  PROVE  n = m
BY WidthFits DEF Dist, Ticket

\* Advancing a counter moves it one further away, short of a full turn.
LEMMA DistInc ==
  ASSUME NEW n \in Ticket, NEW s \in Ticket, Dist(n, s) + 1 < Width
  PROVE  Inc(n) \in Ticket /\ Dist(Inc(n), s) = Dist(n, s) + 1
BY WidthFits DEF Dist, Inc, Ticket

\* Advancing the served counter brings every later ticket one closer.
LEMMA DistServe ==
  ASSUME NEW n \in Ticket, NEW s \in Ticket, Dist(n, s) >= 1
  PROVE  Inc(s) \in Ticket /\ Dist(n, Inc(s)) = Dist(n, s) - 1
BY WidthFits DEF Dist, Inc, Ticket

\* The number of threads is a natural number.
LEMMA CardThreads == Cardinality(Threads) \in Nat
BY ThreadsFinite, FS_CardinalityType

\* A thread outside the queue leaves room for one more ticket: the places in
\* the queue belong to distinct other threads, and there are fewer threads
\* than ticket values.
LEMMA Room ==
  ASSUME NEW nt \in Ticket, NEW ns \in Ticket, NEW h \in Threads \cup {None},
         NEW tk \in [Threads -> 0..Width], Queue(nt, ns, h, tk),
         NEW t \in Threads, tk[t] = NoTicket, h # t
  PROVE  Dist(nt, ns) + 1 < Width
<1> DEFINE K == Dist(nt, ns)
           Places == 0..(K - 1)
           Others == Threads \ {t}
           Out == {u \in Threads : tk[u] # NoTicket}
           At(d) == CHOOSE u \in Out : Dist(tk[u], ns) = d
           f == [d \in Places |-> IF d = 0 /\ h # None THEN h ELSE At(d)]
<1>1. K \in Nat /\ K < Width
  BY DistType, WidthFits DEF Ticket
<1>2. \A d \in Places : ~(d = 0 /\ h # None) => At(d) \in Out /\ Dist(tk[At(d)], ns) = d
  BY <1>1 DEF Queue
<1>3. f \in [Places -> Others]
  BY <1>2
<1>4. \A d, e \in Places : f[d] = f[e] => d = e
  BY <1>1, <1>2 DEF Queue
<1>5. /\ IsFiniteSet(Others)
      /\ Cardinality(Others) = Cardinality(Threads) - 1
  BY ZenonT(30), ThreadsFinite, FS_RemoveElement
<1>6. /\ IsFiniteSet(Places)
      /\ Cardinality(Places) = K
  <2> HIDE DEF K
  <2>1. 0 \in Int /\ K - 1 \in Int
    BY <1>1
  <2>2. /\ IsFiniteSet(0..(K - 1))
        /\ Cardinality(0..(K - 1)) = IF 0 > K - 1 THEN 0 ELSE (K - 1) - 0 + 1
    BY ZenonT(30), <2>1, FS_Interval
  <2> QED
    BY <1>1, <2>2
<1> HIDE DEF Places, Others, f, K
<1>7. ~(Cardinality(Others) < Cardinality(Places))
  <2> SUFFICES ASSUME Cardinality(Others) < Cardinality(Places)
               PROVE  FALSE
    OBVIOUS
  <2>1. \E d, e \in Places : d # e /\ f[d] = f[e]
    BY <1>3, <1>5, <1>6, FS_PigeonHole
  <2> QED
    BY <1>4, <2>1
<1>8. K <= Cardinality(Threads) - 1
  BY <1>1, <1>5, <1>6, <1>7, CardThreads
<1>9. K + 1 < Width
  BY <1>1, <1>8, CardThreads, WidthFits
<1> QED
  BY <1>9 DEF K

-----------------------------------------------------------------------------
(* What acquire, release and arm do to the queue. *)

\* acquire on a free lock with nobody waiting.
LEMMA QueueTakeFree ==
  ASSUME NEW nt \in Ticket, NEW h \in Threads \cup {None},
         NEW tk \in [Threads -> 0..Width], Queue(nt, nt, h, tk),
         NEW t \in Threads, tk[t] = NoTicket
  PROVE  h = None /\ Inc(nt) \in Ticket /\ Queue(Inc(nt), nt, t, tk)
<1>1. Dist(nt, nt) = 0
  BY DistType
<1>2. h = None
  BY <1>1 DEF Queue
<1>3. \A u \in Threads : tk[u] = NoTicket
  <2> SUFFICES ASSUME NEW u \in Threads, tk[u] # NoTicket
               PROVE  FALSE
    OBVIOUS
  <2>1. tk[u] \in Ticket
    BY WidthFits DEF Ticket
  <2>2. 0 <= Dist(tk[u], nt) /\ Dist(tk[u], nt) < 0
    BY <1>1, <1>2 DEF Queue
  <2> QED
    BY <2>1, <2>2, DistType, WidthFits DEF Ticket
<1>4. Dist(nt, nt) + 1 < Width
  BY <1>1, <1>2, Room, NoneIsNoThread
<1>5. Inc(nt) \in Ticket /\ Dist(Inc(nt), nt) = 1
  BY <1>1, <1>4, DistInc
<1> QED
  BY <1>2, <1>3, <1>5, NoneIsNoThread DEF Queue

\* acquire behind others.
LEMMA QueueTakeWait ==
  ASSUME NEW nt \in Ticket, NEW ns \in Ticket, NEW h \in Threads \cup {None},
         NEW tk \in [Threads -> 0..Width], Queue(nt, ns, h, tk), nt # ns,
         NEW t \in Threads, tk[t] = NoTicket, h # t
  PROVE  Inc(nt) \in Ticket /\ Queue(Inc(nt), ns, h, [tk EXCEPT ![t] = nt])
<1> DEFINE tk2 == [tk EXCEPT ![t] = nt]
           Out == {u \in Threads : tk[u] # NoTicket}
           Out2 == {u \in Threads : tk2[u] # NoTicket}
           first == IF h = None THEN 0 ELSE 1
<1>1. Dist(nt, ns) + 1 < Width
  BY Room
<1>2. Inc(nt) \in Ticket /\ Dist(Inc(nt), ns) = Dist(nt, ns) + 1
  BY <1>1, DistInc
<1>3. Dist(nt, ns) \in Nat /\ Dist(nt, ns) >= 1
  BY DistType, WidthFits DEF Ticket
<1>4. Out2 = Out \cup {t} /\ t \notin Out /\ tk2[t] = nt /\ \A u \in Out : tk2[u] = tk[u]
  BY WidthFits DEF Ticket
<1>5. \A u \in Out : /\ first <= Dist(tk[u], ns)
                     /\ Dist(tk[u], ns) < Dist(nt, ns)
                     /\ Dist(tk[u], ns) \in Nat
  <2> TAKE u \in Out
  <2>1. tk[u] \in Ticket
    BY WidthFits DEF Ticket
  <2> QED
    BY <2>1, DistType, WidthFits DEF Queue, Ticket
<1>6. \A u \in Out2 : first <= Dist(tk2[u], ns) /\ Dist(tk2[u], ns) < Dist(Inc(nt), ns)
  BY <1>2, <1>3, <1>4, <1>5
<1>7. \A u, v \in Out2 : tk2[u] = tk2[v] => u = v
  BY <1>3, <1>4, <1>5 DEF Queue
<1>8. \A d \in first..(Dist(Inc(nt), ns) - 1) : \E u \in Out2 : Dist(tk2[u], ns) = d
  <2> TAKE d \in first..(Dist(Inc(nt), ns) - 1)
  <2>1. CASE d = Dist(nt, ns)
    BY <1>4, <2>1
  <2>2. CASE d # Dist(nt, ns)
    <3>1. d \in first..(Dist(nt, ns) - 1)
      BY <1>2, <1>3, <2>2
    <3>2. PICK u \in Out : Dist(tk[u], ns) = d
      BY <3>1 DEF Queue
    <3> QED
      BY <1>4, <3>2
  <2> QED
    BY <2>1, <2>2
<1>9. h # None => Dist(Inc(nt), ns) >= 1 /\ h \notin Out2
  BY <1>2, <1>3, <1>4 DEF Queue
<1> QED
  BY <1>2, <1>6, <1>7, <1>8, <1>9 DEF Queue

\* A waiter whose ticket is being served becomes the holder.
LEMMA QueueServe ==
  ASSUME NEW nt \in Ticket, NEW ns \in Ticket, NEW h \in Threads \cup {None},
         NEW tk \in [Threads -> 0..Width], Queue(nt, ns, h, tk),
         NEW t \in Threads, tk[t] = ns
  PROVE  h = None /\ Queue(nt, ns, t, [tk EXCEPT ![t] = NoTicket])
<1> DEFINE tk2 == [tk EXCEPT ![t] = NoTicket]
           Out == {u \in Threads : tk[u] # NoTicket}
           Out2 == {u \in Threads : tk2[u] # NoTicket}
<1>1. Dist(ns, ns) = 0 /\ Dist(nt, ns) \in Nat
  BY DistType, WidthFits DEF Ticket
<1>2. t \in Out /\ Out2 = Out \ {t} /\ \A u \in Out2 : tk2[u] = tk[u] /\ tk[u] \in Ticket
  BY WidthFits DEF Ticket
<1>3. h = None
  BY <1>1, <1>2 DEF Queue
<1>4. Dist(nt, ns) >= 1
  BY <1>1, <1>2 DEF Queue
<1>5. \A u \in Out2 : 1 <= Dist(tk2[u], ns) /\ Dist(tk2[u], ns) < Dist(nt, ns)
  <2> TAKE u \in Out2
  <2>1. tk[u] # ns
    BY <1>2 DEF Queue
  <2>2. Dist(tk[u], ns) \in Nat /\ Dist(tk[u], ns) # 0
    BY <1>2, <2>1, DistType, WidthFits DEF Ticket
  <2> QED
    BY <1>2, <2>2 DEF Queue
<1>6. \A d \in 1..(Dist(nt, ns) - 1) : \E u \in Out2 : Dist(tk2[u], ns) = d
  BY <1>1, <1>2, <1>3 DEF Queue
<1> QED
  BY <1>2, <1>3, <1>4, <1>5, <1>6, NoneIsNoThread DEF Queue

\* The holder leaves and the next ticket is served.
LEMMA QueueRelease ==
  ASSUME NEW nt \in Ticket, NEW ns \in Ticket, NEW h \in Threads,
         NEW tk \in [Threads -> 0..Width], Queue(nt, ns, h, tk)
  PROVE  Inc(ns) \in Ticket /\ Queue(nt, Inc(ns), None, tk)
<1> DEFINE Out == {u \in Threads : tk[u] # NoTicket}
<1>1. Dist(nt, ns) >= 1 /\ Dist(nt, ns) \in Nat
  BY NoneIsNoThread, DistType, WidthFits DEF Queue, Ticket
<1>2. Inc(ns) \in Ticket /\ Dist(nt, Inc(ns)) = Dist(nt, ns) - 1
  BY <1>1, DistServe
<1>3. \A u \in Out : /\ Dist(tk[u], ns) \in Nat
                     /\ 1 <= Dist(tk[u], ns)
                     /\ Dist(tk[u], ns) < Dist(nt, ns)
                     /\ Dist(tk[u], Inc(ns)) = Dist(tk[u], ns) - 1
  <2> TAKE u \in Out
  <2>1. tk[u] \in Ticket
    BY WidthFits DEF Ticket
  <2>2. 1 <= Dist(tk[u], ns) /\ Dist(tk[u], ns) < Dist(nt, ns)
    BY NoneIsNoThread DEF Queue
  <2> QED
    BY <2>1, <2>2, DistServe, DistType, WidthFits DEF Ticket
<1>4. \A d \in 0..(Dist(nt, Inc(ns)) - 1) : \E u \in Out : Dist(tk[u], Inc(ns)) = d
  <2> TAKE d \in 0..(Dist(nt, Inc(ns)) - 1)
  <2>1. d + 1 \in 1..(Dist(nt, ns) - 1)
    BY <1>1, <1>2
  <2>2. PICK u \in Out : Dist(tk[u], ns) = d + 1
    BY <2>1, NoneIsNoThread DEF Queue
  <2> QED
    BY <1>3, <2>2
<1> QED
  BY <1>1, <1>2, <1>3, <1>4 DEF Queue
-----------------------------------------------------------------------------
(* The guards on a thread's stack. *)

TopOf(s) == IF s = <<>> THEN "none" ELSE s[Len(s)]

\* An unarmed guard is only ever the outermost, and no guard is directly
\* inside another of its kind.
Shape(s) ==
  \A i \in 1..Len(s) : /\ s[i] = "hold0" => i = 1
                       /\ i < Len(s) => s[i + 1] # s[i]

\* What a new guard does to the stack.
LEMMA ShapePush ==
  ASSUME NEW s \in Seq(FrameKinds), Shape(s), NEW k \in {"hold", "off"}, TopOf(s) # k
  PROVE  /\ Append(s, k) \in Seq(FrameKinds)
         /\ Shape(Append(s, k))
         /\ TopOf(Append(s, k)) = k
         /\ Append(s, k) # <<>>
<1> DEFINE r == Append(s, k)
<1>1. /\ r \in Seq(FrameKinds) /\ Len(s) \in Nat /\ Len(r) = Len(s) + 1
      /\ r[Len(s) + 1] = k /\ \A i \in 1..Len(s) : r[i] = s[i]
  BY DEF FrameKinds
<1>2. r # <<>> /\ TopOf(r) = k
  BY <1>1 DEF TopOf
<1>3. Len(s) > 0 => TopOf(s) = s[Len(s)]
  BY DEF TopOf
<1> HIDE DEF r
<1>4. Shape(r)
  BY <1>1, <1>3 DEF Shape
<1> QED
  BY <1>1, <1>2, <1>4 DEF r

\* What a dropped guard leaves on the stack.
LEMMA ShapePop ==
  ASSUME NEW s \in Seq(FrameKinds), Shape(s), s # <<>>
  PROVE  LET r == SubSeq(s, 1, Len(s) - 1)
         IN /\ r \in Seq(FrameKinds)
            /\ Shape(r)
            /\ TopOf(r) # TopOf(s)
            /\ TopOf(s) = "hold0" => TopOf(r) = "none"
<1> DEFINE r == SubSeq(s, 1, Len(s) - 1)
<1>1. Len(s) \in Nat /\ Len(s) >= 1
  OBVIOUS
<1>2. /\ r \in Seq(FrameKinds) /\ Len(r) = Len(s) - 1
      /\ \A i \in 1..(Len(s) - 1) : r[i] = s[i]
  <2> DEFINE n == Len(s) - 1
  <2>1. n \in Int /\ n >= 0 /\ \A i \in 1..n : s[i] \in FrameKinds
    BY <1>1
  <2> HIDE DEF n
  <2>2. /\ SubSeq(s, 1, n) \in Seq(FrameKinds)
        /\ Len(SubSeq(s, 1, n)) = IF 1 <= n THEN n - 1 + 1 ELSE 0
        /\ \A i \in 1..(n - 1 + 1) : SubSeq(s, 1, n)[i] = s[1 + i - 1]
    BY <2>1
  <2>3. /\ SubSeq(s, 1, n) \in Seq(FrameKinds)
        /\ Len(SubSeq(s, 1, n)) = n
        /\ \A i \in 1..n : SubSeq(s, 1, n)[i] = s[i]
    BY <2>1, <2>2
  <2> QED
    BY <2>3 DEF n
<1> HIDE DEF r
<1>3. Shape(r)
  BY <1>1, <1>2 DEF Shape
<1>4. TopOf(s) = s[Len(s)] /\ TopOf(s) \in FrameKinds
  BY <1>1 DEF TopOf
<1>5. CASE Len(s) = 1
  <2>1. r = <<>>
    BY <1>2, <1>5
  <2>2. TopOf(r) = "none"
    BY <2>1 DEF TopOf
  <2> QED
    BY <1>2, <1>3, <1>4, <2>2 DEF r, FrameKinds
<1>6. CASE Len(s) > 1
  <2>1. r # <<>>
    BY <1>1, <1>2, <1>6
  <2>2. TopOf(r) = s[Len(s) - 1]
    BY <1>1, <1>2, <1>6, <2>1 DEF TopOf
  <2>3. s[Len(s)] # "hold0" /\ s[Len(s) - 1 + 1] # s[Len(s) - 1]
    BY <1>1, <1>6 DEF Shape
  <2>4. Len(s) - 1 + 1 = Len(s)
    BY <1>1
  <2> QED
    BY <1>2, <1>3, <1>4, <2>2, <2>3, <2>4 DEF r
<1>7. Len(s) = 1 \/ Len(s) > 1
  <2>1. \A n \in Nat : n >= 1 => n = 1 \/ n > 1
    OBVIOUS
  <2> QED
    BY <1>1, <2>1, Zenon
<1> QED
  BY <1>5, <1>6, <1>7

-----------------------------------------------------------------------------
(* The inductive invariant. *)

\* Where the holder may be: in code, or gone with the lock (a Ractor).
InProgram == {"run", "load", "swap", "arm", "spawn", "recv"}

QueueInv == Queue(nextTicket, nowServing, holder, ticket)

\* A ticket is out exactly while its thread waits, and only waiters sleep.
TicketInv ==
  \A t \in Threads : /\ ticket[t] # NoTicket <=> pc[t] = "wait"
                     /\ t \in asleep => pc[t] = "wait"

\* Before the Gvl is armed nobody has met it.
UnarmedInv ==
  ~armed => /\ holder = None
            /\ \A t \in Threads : /\ pc[t] \notin {"acquire", "wait", "notify"}
                                  /\ frames[t] = <<>> \/ frames[t] = <<"hold0">>

HolderInv ==
  holder # None => /\ pc[holder] \in InProgram \cup {"done"}
                   /\ Top(holder) # "off"

StackInv ==
  \A t \in Threads :
    /\ Shape(frames[t])
    /\ pc[t] \in {"unborn", "starting", "attached", "hold"} => frames[t] = <<>>
    /\ pc[t] \in {"acquire", "wait"} => Top(t) # "off"

\* Where a thread goes after a sub-operation.
ContInv ==
  \A t \in Threads :
    /\ pc[t] = "notify" => /\ cont[t] \in {"run", "acquire", "done"}
                           /\ cont[t] = "run" => Top(t) # "hold"
                           /\ cont[t] = "acquire" => Top(t) # "off"
    /\ pc[t] \in {"load", "swap", "arm"} => cont[t] \in {"run", "spawn"}

IndInv ==
  /\ TypeOK /\ QueueInv /\ TicketInv /\ UnarmedInv /\ HolderInv
  /\ OneRunner /\ StackInv /\ ContInv

\* Top reads the innermost guard of a thread's own stack.
LEMMA TopIsTopOf == \A t \in Threads : Top(t) = TopOf(frames[t])
BY DEF Top, TopOf

\* The states with_armed and from_env build satisfy the inductive invariant.
LEMMA InitInd == Init => IndInv
<1> SUFFICES ASSUME Init PROVE IndInv
  OBVIOUS
<1>1. Width \in Nat /\ Width >= 1
  BY WidthFits, CardThreads
<1>2. TypeOK
  <2>1. armed \in BOOLEAN /\ multi \in BOOLEAN /\ cextLoaded \in BOOLEAN
        /\ cextArmed \in BOOLEAN /\ timer \in BOOLEAN
    BY EnvArmedIsBool, Zenon DEF Init
  <2>2. nextTicket \in 0..(Width - 1) /\ nowServing \in 0..(Width - 1)
        /\ ticket \in [Threads -> 0..Width]
    BY <1>1 DEF Init
  <2>3. pc \in [Threads -> Pcs] /\ cont \in [Threads -> Pcs]
    BY DEF Init, Pcs
  <2>4. frames \in [Threads -> Seq(FrameKinds)]
    BY DEF Init
  <2>5. tick \in [Threads -> BOOLEAN] /\ started \in [Threads -> BOOLEAN]
    BY DEF Init
  <2> QED
    BY <2>1, <2>2, <2>3, <2>4, <2>5 DEF Init, TypeOK
<1>3. QueueInv
  BY <1>1, DistType DEF Init, QueueInv, Queue, Dist
<1>4. \A t \in Threads : Top(t) = "none" /\ Shape(frames[t])
  BY DEF Init, Top, Shape
<1> QED
  BY <1>2, <1>3, <1>4 DEF Init, IndInv, TicketInv, UnarmedInv, HolderInv, OneRunner, Inside,
     StackInv, ContInv

\* A step inside the program, or out of it at its end, that leaves the lock
\* and the stacks alone.
LEMMA QuietStep ==
  ASSUME IndInv, TypeOK', NEW t \in Threads, UNCHANGED <<lockVars, frames>>,
         \A u \in Threads \ {t} : pc'[u] = pc[u] /\ cont'[u] = cont[u],
         pc[t] \in InProgram, pc'[t] \in InProgram \cup {"done"},
         pc'[t] \in {"load", "swap", "arm"} => cont'[t] \in {"run", "spawn"}
  PROVE  IndInv'
<1>1. QueueInv'
  BY DEF IndInv, QueueInv, lockVars
<1>2. \A u \in Threads : Top(u)' = Top(u)
  BY DEF Top
<1>3. TicketInv' /\ UnarmedInv'
  BY DEF IndInv, TypeOK, TicketInv, UnarmedInv, lockVars, InProgram
<1>4. HolderInv' /\ OneRunner'
  BY <1>2 DEF IndInv, TypeOK, HolderInv, OneRunner, Inside, lockVars, InProgram
<1>5. StackInv' /\ ContInv'
  BY ZenonT(30), <1>2 DEF IndInv, TypeOK, StackInv, ContInv, InProgram
<1> QED
  BY <1>1, <1>3, <1>4, <1>5 DEF IndInv

\* acquire by a thread that is outside the queue and without the lock.
LEMMA AcquireStep ==
  ASSUME IndInv, TypeOK', NEW t \in Threads, TakeTicket(t), UNCHANGED cont,
         armed, pc[t] # "wait", holder # t,
         \A u \in Threads \ {t} : frames'[u] = frames[u],
         Shape(frames'[t]), TopOf(frames'[t]) # "off"
  PROVE  IndInv'
<1>1. \A u \in Threads : Top(u)' = TopOf(frames'[u]) /\ Top(u) = TopOf(frames[u])
  BY DEF Top, TopOf
<1>2. ticket[t] = NoTicket /\ nextTicket \in Ticket /\ nowServing \in Ticket
  BY DEF IndInv, TicketInv, TypeOK, Ticket
<1>3. CASE nextTicket = nowServing
  <2>1. holder' = t /\ pc' = [pc EXCEPT ![t] = "run"] /\ nextTicket' = Inc(nextTicket)
        /\ UNCHANGED <<asleep, ticket, armed, nowServing>>
    BY <1>3 DEF TakeTicket, Goto
  <2>2. holder = None /\ QueueInv'
    BY ZenonT(30), <1>2, <1>3, <2>1, QueueTakeFree DEF IndInv, QueueInv, TypeOK
  <2>3. TicketInv' /\ UnarmedInv'
    BY <2>1 DEF IndInv, TypeOK, TicketInv, UnarmedInv
  <2>4. HolderInv' /\ OneRunner'
    BY <1>1, <2>1, <2>2, NoneIsNoThread
       DEF IndInv, TypeOK, HolderInv, OneRunner, Inside, InProgram
  <2>5. StackInv' /\ ContInv'
    BY <1>1, <2>1 DEF IndInv, TypeOK, StackInv, ContInv
  <2> QED
    BY <2>2, <2>3, <2>4, <2>5 DEF IndInv
<1>4. CASE nextTicket # nowServing
  <2>1. /\ holder' = holder /\ pc' = [pc EXCEPT ![t] = "wait"] /\ nextTicket' = Inc(nextTicket)
        /\ asleep' = asleep \cup {t} /\ ticket' = [ticket EXCEPT ![t] = nextTicket]
        /\ UNCHANGED <<armed, nowServing>>
    BY <1>4 DEF TakeTicket, Goto
  <2>2. QueueInv'
    BY ZenonT(30), <1>2, <1>4, <2>1, QueueTakeWait DEF IndInv, QueueInv, TypeOK
  <2>3. TicketInv' /\ UnarmedInv'
    BY <1>2, <2>1, WidthFits DEF IndInv, TypeOK, TicketInv, UnarmedInv, Ticket
  <2>4. HolderInv' /\ OneRunner'
    BY <1>1, <2>1 DEF IndInv, TypeOK, HolderInv, OneRunner, Inside, InProgram
  <2>5. StackInv' /\ ContInv'
    BY <1>1, <2>1 DEF IndInv, TypeOK, StackInv, ContInv
  <2> QED
    BY <2>2, <2>3, <2>4, <2>5 DEF IndInv
<1> QED
  BY <1>3, <1>4

\* release by the holder.
LEMMA ReleaseStep ==
  ASSUME IndInv, TypeOK', NEW t \in Threads, NEW next \in {"run", "acquire", "done"},
         holder = t, Release(t, next),
         \A u \in Threads \ {t} : frames'[u] = frames[u],
         Shape(frames'[t]),
         next = "run" => TopOf(frames'[t]) # "hold",
         next = "acquire" => TopOf(frames'[t]) # "off"
  PROVE  IndInv'
<1>1. \A u \in Threads : Top(u)' = TopOf(frames'[u]) /\ Top(u) = TopOf(frames[u])
  BY DEF Top, TopOf
<1>2. /\ holder' = None /\ nowServing' = Inc(nowServing)
      /\ pc' = [pc EXCEPT ![t] = "notify"] /\ cont' = [cont EXCEPT ![t] = next]
      /\ UNCHANGED <<armed, nextTicket, asleep, ticket>>
  BY DEF Release, Goto
<1>3. QueueInv'
  BY <1>2, QueueRelease DEF IndInv, QueueInv, TypeOK, Ticket
<1>4. armed /\ pc[t] \in InProgram \cup {"done"}
  BY NoneIsNoThread DEF IndInv, UnarmedInv, HolderInv
<1>5. TicketInv' /\ UnarmedInv'
  BY <1>2, <1>4 DEF IndInv, TypeOK, TicketInv, UnarmedInv, InProgram
<1>6. HolderInv' /\ OneRunner'
  BY <1>1, <1>2, NoneIsNoThread DEF IndInv, TypeOK, HolderInv, OneRunner, Inside
<1>7. StackInv' /\ ContInv'
  BY <1>1, <1>2 DEF IndInv, TypeOK, StackInv, ContInv
<1> QED
  BY <1>3, <1>5, <1>6, <1>7 DEF IndInv

-----------------------------------------------------------------------------
(* Types. *)

\* wrapping_add keeps a ticket in range.
LEMMA IncType == \A n \in Ticket : Inc(n) \in Ticket
BY WidthFits DEF Inc, Ticket

\* The ticket range has room for the first two tickets.
LEMMA TwoTickets == 0 \in Ticket /\ 1 \in Ticket
<1>1. Cardinality(Threads) # 0
  BY ThreadsFinite, MainIsThread, FS_EmptySet
<1> QED
  BY <1>1, CardThreads, WidthFits DEF Ticket

\* arm gives its caller the ticket being served.
LEMMA QueueArm ==
  ASSUME NEW t \in Threads, NEW tk, \A u \in Threads : tk[u] = NoTicket
  PROVE  Queue(1, 0, t, tk)
<1>1. Dist(1, 0) = 1
  BY TwoTickets, WidthFits DEF Dist, Ticket
<1>2. {u \in Threads : tk[u] # NoTicket} = {}
  OBVIOUS
<1>3. 1..(Dist(1, 0) - 1) = {}
  BY <1>1
<1> QED
  BY <1>1, <1>2, <1>3, NoneIsNoThread DEF Queue

\* acquire's ticket step keeps the types of all it assigns.
LEMMA TakeTicketType ==
  ASSUME TypeOK, NEW t \in Threads, TakeTicket(t)
  PROVE  /\ armed' = armed
         /\ nextTicket' \in Ticket /\ nowServing' \in Ticket
         /\ holder' \in Threads \cup {None}
         /\ asleep' \subseteq Threads
         /\ ticket' \in [Threads -> 0..Width]
         /\ pc' \in [Threads -> Pcs]
<1>1. nextTicket \in Ticket /\ nowServing \in Ticket /\ nextTicket \in 0..Width
  BY WidthFits DEF TypeOK, Ticket
<1>2. armed' = armed /\ nextTicket' = Inc(nextTicket) /\ nowServing' = nowServing
  BY DEF TakeTicket
<1>3. CASE nextTicket = nowServing
  BY ZenonT(30), <1>1, <1>2, <1>3, IncType DEF TypeOK, TakeTicket, Goto, Pcs
<1>4. CASE nextTicket # nowServing
  <2>1. /\ asleep' = asleep \cup {t}
        /\ ticket' = [ticket EXCEPT ![t] = nextTicket]
        /\ pc' = [pc EXCEPT ![t] = "wait"]
        /\ holder' = holder
    BY <1>4 DEF TakeTicket, Goto
  <2>2. ticket' \in [Threads -> 0..Width]
    BY <1>1, <2>1 DEF TypeOK
  <2>3. pc' \in [Threads -> Pcs]
    BY <2>1 DEF TypeOK, Pcs
  <2> QED
    BY <1>1, <1>2, <2>1, <2>2, <2>3, IncType DEF TypeOK
<1> QED
  BY <1>3, <1>4

\* release keeps the types of all it assigns.
LEMMA ReleaseType ==
  ASSUME TypeOK, NEW t \in Threads, NEW next \in Pcs, Release(t, next)
  PROVE  /\ armed' = armed
         /\ nextTicket' \in Ticket /\ nowServing' \in Ticket
         /\ holder' \in Threads \cup {None}
         /\ asleep' \subseteq Threads
         /\ ticket' \in [Threads -> 0..Width]
         /\ pc' \in [Threads -> Pcs] /\ cont' \in [Threads -> Pcs]
BY SMTT(30), IncType DEF TypeOK, Release, Goto, Pcs, Ticket

\* Opening a guard keeps the guard stacks typed.
LEMMA PushType ==
  ASSUME TypeOK, NEW t \in Threads, NEW k \in FrameKinds, Push(t, k)
  PROVE  frames' \in [Threads -> Seq(FrameKinds)]
BY DEF TypeOK, Push

\* Dropping a guard keeps the guard stacks typed.
LEMMA PopType ==
  ASSUME TypeOK, NEW t \in Threads, frames[t] # <<>>, Pop(t)
  PROVE  frames' \in [Threads -> Seq(FrameKinds)]
<1>1. frames[t] \in Seq(FrameKinds)
  BY DEF TypeOK
<1>2. SubSeq(frames[t], 1, Len(frames[t]) - 1) \in Seq(FrameKinds)
  <2> DEFINE n == Len(frames[t]) - 1
  <2>1. n \in Int /\ \A i \in 1..n : frames[t][i] \in FrameKinds
    BY <1>1
  <2> HIDE DEF n
  <2>2. SubSeq(frames[t], 1, n) \in Seq(FrameKinds)
    BY <2>1
  <2> QED
    BY <2>2 DEF n
<1> QED
  BY <1>2 DEF TypeOK, Pop

\* Every step of a thread keeps every variable in its type.
LEMMA TypeStep ==
  ASSUME TypeOK, NEW t \in Threads, Advance(t) \/ Program(t) \/ ServiceTimer(t)
  PROVE  TypeOK'
<1> USE DEF lockVars, latchVars, timerVars, spawnVars, Goto, Pcs
<1>1. CASE Recheck(t)
  <2>1. CASE ticket[t] = nowServing
    <3>1. ticket' = [ticket EXCEPT ![t] = Width] /\ Width \in 0..Width
      BY <1>1, <2>1, WidthFits DEF Recheck
    <3>2. ticket' \in [Threads -> 0..Width]
      BY <3>1 DEF TypeOK
    <3> QED
      BY ZenonT(30), <1>1, <2>1, <3>2 DEF TypeOK, Recheck
  <2>2. CASE ticket[t] # nowServing
    BY <1>1, <2>2 DEF TypeOK, Recheck
  <2> QED
    BY <2>1, <2>2
<1>2. CASE NotifyAll(t)
  BY ZenonT(30), <1>2 DEF TypeOK, NotifyAll, Return
<1>3. CASE Hold(t)
  <2>1. started' \in [Threads -> BOOLEAN]
    BY ZenonT(30), <1>3 DEF TypeOK, Hold
  <2>2. CASE armed
    <3>1. frames' \in [Threads -> Seq(FrameKinds)]
      BY <1>3, <2>2, PushType DEF Hold, FrameKinds
    <3> QED
      BY ZenonT(30), <1>3, <2>1, <2>2, <3>1, TakeTicketType DEF TypeOK, Hold, Ticket
  <2>3. CASE ~armed
    <3>1. frames' \in [Threads -> Seq(FrameKinds)]
      BY <1>3, <2>3, PushType DEF Hold, FrameKinds
    <3> QED
      BY ZenonT(30), <1>3, <2>1, <2>3, <3>1 DEF TypeOK, Hold
  <2> QED
    BY <2>2, <2>3
<1>4. CASE Acquire(t)
  BY <1>4, TakeTicketType DEF TypeOK, Acquire, Ticket
<1>5. CASE LatchLoad(t)
  BY ZenonT(30), <1>5 DEF TypeOK, LatchLoad, Return
<1>6. CASE LatchSwap(t)
  BY ZenonT(30), <1>6 DEF TypeOK, LatchSwap, Return
<1>7. CASE Arm(t)
  <2>1. CASE armed
    BY ZenonT(30), <1>7, <2>1 DEF TypeOK, Arm, Return
  <2>2. CASE ~armed
    <3>1. 0 \in Ticket /\ 1 \in Ticket
      BY TwoTickets
    <3>2. frames' \in [Threads -> Seq(FrameKinds)]
      <4>1. frames[t] \in Seq(FrameKinds)
        BY DEF TypeOK
      <4>2. [i \in DOMAIN frames[t] |-> "hold"] \in Seq(FrameKinds)
        BY <4>1 DEF FrameKinds
      <4> QED
        BY ZenonT(30), <1>7, <2>2, <4>2 DEF TypeOK, Arm
    <3>3. UNCHANGED <<asleep, ticket, latchVars, timer, spawnVars>>
      BY <1>7, <2>2 DEF Arm
    <3>4. nextTicket' = 1 /\ nowServing' = 0 /\ holder' = t /\ armed' = TRUE
      BY <1>7, <2>2 DEF Arm
    <3>5. Return(t, cont[t])
      BY <1>7 DEF Arm
    <3>6. /\ members' \subseteq Threads /\ tick' \in [Threads -> BOOLEAN]
          /\ pc' \in [Threads -> Pcs] /\ cont' \in [Threads -> Pcs]
      BY ZenonT(30), <3>5 DEF TypeOK, Return
    <3> QED
      BY <3>1, <3>2, <3>3, <3>4, <3>6 DEF TypeOK, Ticket
  <2> QED
    BY <2>1, <2>2
<1>8. CASE Spawn(t)
  <2>1. PICK u \in Threads :
          IF u \in Ractors
            THEN /\ pc' = [pc EXCEPT ![u] = "run", ![t] = "run"]
                 /\ UNCHANGED kid
            ELSE /\ pc' = [pc EXCEPT ![u] = "starting", ![t] = "recv"]
                 /\ kid' = [kid EXCEPT ![t] = u]
    BY <1>8 DEF Spawn
  <2>2. pc' \in [Threads -> Pcs] /\ kid' \in [Threads -> Threads \cup {None}]
    BY ZenonT(30), <2>1 DEF TypeOK
  <2> QED
    BY <1>8, <2>2 DEF TypeOK, Spawn
<1>9. CASE SpawnBound(t)
  BY <1>9 DEF TypeOK, SpawnBound
<1>10. CASE Recv(t)
  BY <1>10 DEF TypeOK, Recv
<1>11. CASE InstallCtx(t)
  BY <1>11 DEF TypeOK, InstallCtx, Attach
<1>12. CASE ReadArmed(t)
  BY <1>12 DEF TypeOK, ReadArmed
<1>13. CASE HoldReentrant(t)
  <2>1. frames' \in [Threads -> Seq(FrameKinds)]
    BY <1>13, PushType DEF HoldReentrant, FrameKinds
  <2> QED
    BY ZenonT(30), <1>13, <2>1, TakeTicketType DEF TypeOK, HoldReentrant, Ticket
<1>14. CASE DropHold(t)
  <2>1. frames' \in [Threads -> Seq(FrameKinds)]
    BY <1>14, PopType, Zenon DEF DropHold
  <2>2. CASE holder = t
    BY <1>14, <2>1, <2>2, ReleaseType, Zenon DEF TypeOK, DropHold, Ticket
  <2>3. CASE holder # t
    BY ZenonT(30), <1>14, <2>1, <2>3 DEF TypeOK, DropHold, Return
  <2> QED
    BY <2>2, <2>3
<1>15. CASE RactorExit(t)
  BY ZenonT(30), <1>15 DEF TypeOK, RactorExit, Return
<1>16. CASE Without(t)
  <2>1. frames' \in [Threads -> Seq(FrameKinds)]
    BY <1>16, PushType DEF Without, FrameKinds
  <2> QED
    BY <1>16, <2>1, ReleaseType, Zenon DEF TypeOK, Without, Ticket
<1>17. CASE EndWithout(t)
  <2>1. frames' \in [Threads -> Seq(FrameKinds)]
    BY <1>17, PopType, Zenon DEF EndWithout, Top
  <2> QED
    BY ZenonT(30), <1>17, <2>1 DEF TypeOK, EndWithout
<1>18. CASE YieldNow(t)
  BY <1>18, ReleaseType, Zenon DEF TypeOK, YieldNow, Ticket
<1>19. CASE NoteThreadSpawn(t)
  BY <1>19 DEF TypeOK, NoteThreadSpawn
<1>20. CASE NoteCextLoaded(t)
  BY <1>20 DEF TypeOK, NoteCextLoaded
<1>21. CASE LazyCtx(t)
  BY <1>21, Zenon DEF TypeOK, LazyCtx, Attach
<1>22. CASE ServiceTimer(t)
  <2>1. CASE holder = t
    BY <1>22, <2>1, ReleaseType, Zenon DEF TypeOK, ServiceTimer, Ticket
  <2>2. CASE holder # t
    BY <1>22, <2>2 DEF TypeOK, ServiceTimer
  <2> QED
    BY <2>1, <2>2
<1> QED
  BY <1>1, <1>2, <1>3, <1>4, <1>5, <1>6, <1>7, <1>8, <1>9, <1>10, <1>11, <1>12, <1>13,
     <1>14, <1>15, <1>16, <1>17, <1>18, <1>19, <1>20, <1>21, <1>22, Zenon DEF Advance, Program

-----------------------------------------------------------------------------
(* Every step keeps the inductive invariant. *)

\* A step of one thread.
LEMMA ThreadStep ==
  ASSUME IndInv, NEW t \in Threads, Advance(t) \/ Program(t) \/ ServiceTimer(t)
  PROVE  IndInv'
<1>1. TypeOK /\ TypeOK'
  BY TypeStep DEF IndInv
<1>types. /\ pc \in [Threads -> Pcs] /\ cont \in [Threads -> Pcs]
          /\ frames \in [Threads -> Seq(FrameKinds)] /\ ticket \in [Threads -> 0..Width]
          /\ nextTicket \in Ticket /\ nowServing \in Ticket
          /\ holder \in Threads \cup {None} /\ asleep \subseteq Threads
  BY ZenonT(30), <1>1 DEF TypeOK, Ticket
<1>shape. /\ Shape(frames[t]) /\ frames[t] \in Seq(FrameKinds)
      /\ Top(t) = TopOf(frames[t])
  BY <1>types, TopIsTopOf DEF IndInv, StackInv
<1>3. pc[t] \in {"load", "swap", "arm"} => cont[t] \in {"run", "spawn"}
  BY Zenon DEF IndInv, ContInv
<1>4. CASE Recheck(t)
  <2>1. CASE ticket[t] = nowServing
    <3>1. /\ holder' = t /\ ticket' = [ticket EXCEPT ![t] = NoTicket]
          /\ pc' = [pc EXCEPT ![t] = "run"]
          /\ UNCHANGED <<asleep, armed, nextTicket, nowServing, cont, frames>>
          /\ pc[t] = "wait" /\ t \notin asleep
      BY <1>4, <2>1 DEF Recheck, Goto
    <3>2. holder = None /\ QueueInv'
      <4>1. /\ nextTicket \in Ticket /\ nowServing \in Ticket
            /\ holder \in Threads \cup {None} /\ ticket \in [Threads -> 0..Width]
            /\ Queue(nextTicket, nowServing, holder, ticket)
        BY <1>types DEF IndInv, QueueInv, Ticket
      <4>2. /\ holder = None
            /\ Queue(nextTicket, nowServing, t, [ticket EXCEPT ![t] = NoTicket])
        BY ZenonT(30), <2>1, <4>1, QueueServe
      <4> QED
        BY <3>1, <4>2 DEF QueueInv
    <3>3. armed /\ Top(t) # "off"
      BY <3>1, Zenon DEF IndInv, UnarmedInv, StackInv
    <3>4. \A u \in Threads : Top(u)' = Top(u)
      BY <3>1 DEF Top
    <3>5. TicketInv' /\ UnarmedInv'
      BY <1>types, <3>1, <3>3 DEF IndInv, TicketInv, UnarmedInv
    <3>6. HolderInv' /\ OneRunner'
      BY <1>types, <3>1, <3>2, <3>3, <3>4, NoneIsNoThread, Zenon
         DEF IndInv, HolderInv, OneRunner, Inside, InProgram
    <3>7. StackInv' /\ ContInv'
      BY <1>types, <3>1, <3>4 DEF IndInv, StackInv, ContInv
    <3> QED
      BY <1>1, <3>2, <3>5, <3>6, <3>7 DEF IndInv
  <2>2. CASE ticket[t] # nowServing
    <3>1. /\ asleep' = asleep \cup {t} /\ pc[t] = "wait"
          /\ UNCHANGED <<holder, ticket, pc, armed, nextTicket, nowServing, cont, frames>>
      BY <1>4, <2>2 DEF Recheck
    <3>2. \A u \in Threads : Top(u)' = Top(u)
      BY <3>1 DEF Top
    <3>3. Top(holder)' = Top(holder)
      BY <3>1 DEF Top
    <3> QED
      BY <1>1, <3>1, <3>2, <3>3, Zenon DEF IndInv, QueueInv, TicketInv, UnarmedInv, HolderInv,
         OneRunner, Inside, StackInv, ContInv
  <2> QED
    BY <2>1, <2>2
<1>5. CASE NotifyAll(t)
  <2>1. /\ pc[t] = "notify" /\ cont[t] \in {"run", "acquire", "done"}
        /\ cont[t] = "run" => Top(t) # "hold"
        /\ cont[t] = "acquire" => Top(t) # "off"
    BY <1>5 DEF NotifyAll, IndInv, ContInv
  <2>2. /\ asleep' = {} /\ pc' = [pc EXCEPT ![t] = cont[t]]
        /\ cont' = [cont EXCEPT ![t] = "run"]
        /\ UNCHANGED <<armed, nextTicket, nowServing, holder, ticket, frames>>
    BY <1>5, Zenon DEF NotifyAll, Return, Goto
  <2>3. armed /\ holder # t
    BY <2>1, NoneIsNoThread, Zenon DEF IndInv, UnarmedInv, HolderInv, InProgram
  <2>4. \A u \in Threads : Top(u)' = Top(u)
    BY <2>2 DEF Top
  <2>5. QueueInv' /\ TicketInv' /\ UnarmedInv'
    BY <1>types, <2>1, <2>2, <2>3, Zenon DEF IndInv, QueueInv, TicketInv, UnarmedInv
  <2>6. HolderInv' /\ OneRunner'
    BY <1>types, <2>1, <2>2, <2>3, <2>4, Zenon DEF IndInv, HolderInv, OneRunner, Inside
  <2>7. StackInv' /\ ContInv'
    BY <1>types, <2>1, <2>2, <2>4 DEF IndInv, StackInv, ContInv
  <2> QED
    BY <1>1, <2>5, <2>6, <2>7, Zenon DEF IndInv
<1>6. CASE Hold(t)
  <2>1. pc[t] = "hold" /\ frames[t] = <<>> /\ holder # t
    BY <1>6, NoneIsNoThread, Zenon DEF Hold, IndInv, StackInv, HolderInv, InProgram
  <2>2. TopOf(frames[t]) = "none"
    BY <2>1 DEF TopOf
  <2>3. CASE armed
    <3>1. /\ frames'[t] = Append(frames[t], "hold")
          /\ \A u \in Threads \ {t} : frames'[u] = frames[u]
      BY <1>types, <1>6, <2>3 DEF Hold, Push
    <3>2. /\ Shape(Append(frames[t], "hold"))
          /\ TopOf(Append(frames[t], "hold")) = "hold"
      BY <1>shape, <2>2, ShapePush, Zenon
    <3> QED
      BY <1>1, <1>6, <2>1, <2>3, <3>1, <3>2, AcquireStep, Zenon DEF Hold
  <2>4. CASE ~armed
    <3>1. /\ pc' = [pc EXCEPT ![t] = "run"] /\ frames' = [frames EXCEPT ![t] = <<"hold0">>]
          /\ UNCHANGED <<armed, nextTicket, nowServing, holder, asleep, ticket, cont>>
      BY <1>6, <2>1, <2>4 DEF Hold, Push, Goto, lockVars
    <3>2. Shape(<<"hold0">>) /\ TopOf(<<"hold0">>) = "hold0"
      BY DEF Shape, TopOf
    <3>3. /\ \A u \in Threads \ {t} : Top(u)' = Top(u) /\ frames'[u] = frames[u]
          /\ Top(t)' = "hold0" /\ Shape(frames'[t])
      BY <1>types, <3>1, <3>2 DEF Top, TopOf
    <3>4. QueueInv' /\ TicketInv' /\ UnarmedInv'
      BY <1>types, <2>1, <2>4, <3>1 DEF IndInv, QueueInv, TicketInv, UnarmedInv
    <3>5. HolderInv' /\ OneRunner'
      BY <1>types, <2>1, <3>1, <3>3, Zenon DEF IndInv, HolderInv, OneRunner, Inside
    <3>6. StackInv' /\ ContInv'
      BY <1>types, <2>1, <3>1, <3>3, Zenon DEF IndInv, StackInv, ContInv
    <3> QED
      BY <1>1, <3>4, <3>5, <3>6 DEF IndInv
  <2> QED
    BY <2>3, <2>4
<1>7. CASE Acquire(t)
  <2>1. armed /\ holder # t /\ pc[t] = "acquire" /\ Top(t) # "off"
    BY <1>7, NoneIsNoThread DEF Acquire, IndInv, UnarmedInv, HolderInv, StackInv, InProgram
  <2> QED
    BY <1>1, <1>shape, <1>7, <2>1, AcquireStep, Zenon DEF Acquire
<1>8. CASE LatchLoad(t)
  <2>1. pc'[t] \in {"run", "spawn", "swap"} /\ cont'[t] \in {"run", "spawn"}
    BY <1>types, <1>3, <1>8 DEF LatchLoad, Return, Goto
  <2> QED
    BY <1>1, <1>types, <1>8, <2>1, QuietStep, Zenon DEF LatchLoad, Return, Goto, InProgram
<1>9. CASE LatchSwap(t)
  <2>1. pc'[t] \in {"run", "spawn", "arm"} /\ cont'[t] \in {"run", "spawn"}
    BY <1>types, <1>3, <1>9, Zenon DEF LatchSwap, Return, Goto
  <2> QED
    BY <1>1, <1>types, <1>9, <2>1, QuietStep, Zenon DEF LatchSwap, Return, Goto, InProgram
<1>10. CASE Arm(t)
  <2>1. /\ pc[t] = "arm" /\ pc' = [pc EXCEPT ![t] = cont[t]]
        /\ cont' = [cont EXCEPT ![t] = "run"] /\ cont[t] \in {"run", "spawn"}
    BY <1>3, <1>10 DEF Arm, Return, Goto
  <2>2. CASE armed
    BY <1>1, <1>types, <1>10, <2>1, <2>2, QuietStep, Zenon DEF Arm, InProgram
  <2>3. CASE ~armed
    <3>1. /\ nextTicket' = 1 /\ nowServing' = 0 /\ holder' = t /\ armed' = TRUE
          /\ frames' = [frames EXCEPT ![t] = [i \in DOMAIN @ |-> "hold"]]
          /\ UNCHANGED <<asleep, ticket>>
      BY <1>10, <2>3, Zenon DEF Arm
    <3>2. holder = None /\ \A u \in Threads :
            /\ ticket[u] = NoTicket /\ pc[u] # "wait"
            /\ frames[u] = <<>> \/ frames[u] = <<"hold0">>
      BY <2>3 DEF IndInv, UnarmedInv, TicketInv
    <3>3. QueueInv'
      BY <1>types, <3>1, <3>2, QueueArm DEF QueueInv
    <3>4. frames'[t] = <<>> \/ frames'[t] = <<"hold">>
      BY <1>types, <3>1, <3>2
    <3>5. Shape(<<>>) /\ Shape(<<"hold">>)
      BY DEF Shape
    <3>6. Shape(frames'[t]) /\ Top(t)' # "off"
      BY <3>4, <3>5 DEF Top
    <3>7. \A u \in Threads \ {t} : frames'[u] = frames[u] /\ Top(u)' = Top(u) /\ Top(u) # "hold"
      BY <1>types, <3>1, <3>2 DEF Top
    <3>8. TicketInv' /\ UnarmedInv'
      BY <1>types, <2>1, <3>1, <3>2, Zenon DEF IndInv, TicketInv, UnarmedInv
    <3>9. HolderInv' /\ OneRunner'
      BY <1>types, <2>1, <3>1, <3>6, <3>7, Zenon DEF IndInv, HolderInv, OneRunner, Inside, InProgram
    <3>10. StackInv' /\ ContInv'
      BY <1>types, <2>1, <3>1, <3>6, <3>7 DEF IndInv, StackInv, ContInv
    <3> QED
      BY <1>1, <3>3, <3>8, <3>9, <3>10, Zenon DEF IndInv
  <2> QED
    BY <2>2, <2>3
<1>11. CASE Spawn(t)
  <2>1. PICK u \in Threads :
          /\ pc[u] = "unborn"
          /\ \/ pc' = [pc EXCEPT ![u] = "run", ![t] = "run"]
             \/ pc' = [pc EXCEPT ![u] = "starting", ![t] = "recv"]
    BY <1>11 DEF Spawn
  <2>2. pc[t] = "spawn" /\ UNCHANGED <<lockVars, cont, frames>>
    BY <1>11 DEF Spawn
  <2>3. \A v \in Threads : Top(v)' = Top(v)
    BY <2>2 DEF Top
  <2>4. frames[u] = <<>> /\ Top(u) = "none"
    BY <2>1 DEF IndInv, StackInv, Top
  <2>5. /\ pc'[u] \in {"run", "starting"} /\ pc'[t] \in {"run", "recv"} /\ u # t
        /\ \A v \in Threads \ {u, t} : pc'[v] = pc[v]
    BY <1>types, <2>1, <2>2
  <2>6. QueueInv' /\ TicketInv' /\ UnarmedInv'
    BY ZenonT(30), <1>types, <2>1, <2>2, <2>5 DEF IndInv, QueueInv, TicketInv, UnarmedInv, lockVars
  <2>7. HolderInv' /\ OneRunner'
    BY ZenonT(30), <1>types, <2>1, <2>2, <2>3, <2>4, <2>5
       DEF IndInv, HolderInv, OneRunner, Inside, InProgram, lockVars
  <2>8. StackInv' /\ ContInv'
    BY ZenonT(30), <1>types, <2>1, <2>2, <2>3, <2>4, <2>5 DEF IndInv, StackInv, ContInv
  <2> QED
    BY <1>1, <2>6, <2>7, <2>8 DEF IndInv
<1>12. CASE SpawnBound(t)
  BY <1>1, <1>types, <1>12, QuietStep DEF SpawnBound, Goto, InProgram
<1>13. CASE Recv(t)
  BY <1>1, <1>types, <1>13, QuietStep, Zenon DEF Recv, Goto, InProgram
<1>14. CASE InstallCtx(t) \/ ReadArmed(t)
  <2>1. /\ pc[t] \in {"starting", "attached"} /\ UNCHANGED <<lockVars, cont, frames>>
        /\ pc' = [pc EXCEPT ![t] = "attached"] \/ pc' = [pc EXCEPT ![t] = "hold"]
    BY <1>14, Zenon DEF InstallCtx, ReadArmed, Goto
  <2>2. \A u \in Threads : Top(u)' = Top(u)
    BY <2>1 DEF Top
  <2>3. pc'[t] \in {"attached", "hold"} /\ \A u \in Threads \ {t} : pc'[u] = pc[u]
    BY <1>types, <2>1
  <2>4. QueueInv' /\ TicketInv' /\ UnarmedInv'
    BY <1>types, <2>1, <2>3 DEF IndInv, QueueInv, TicketInv, UnarmedInv, lockVars
  <2>5. HolderInv' /\ OneRunner'
    BY <1>types, <2>1, <2>2, <2>3, Zenon
       DEF IndInv, HolderInv, OneRunner, Inside, InProgram, lockVars
  <2>6. StackInv' /\ ContInv'
    BY <1>types, <2>1, <2>2, <2>3 DEF IndInv, StackInv, ContInv
  <2> QED
    BY <1>1, <2>4, <2>5, <2>6 DEF IndInv
<1>15. CASE HoldReentrant(t)
  <2>1. Top(t) # "hold" /\ pc[t] = "run" /\ holder # t
    BY <1>15, Zenon DEF HoldReentrant, IndInv, OneRunner, Inside
  <2>2. /\ Shape(Append(frames[t], "hold"))
        /\ TopOf(Append(frames[t], "hold")) = "hold"
    BY <1>shape, <2>1, ShapePush
  <2>3. /\ frames'[t] = Append(frames[t], "hold")
        /\ \A u \in Threads \ {t} : frames'[u] = frames[u]
    BY <1>types, <1>15 DEF HoldReentrant, Push
  <2> QED
    BY ZenonT(30), <1>1, <1>15, <2>1, <2>2, <2>3, AcquireStep DEF HoldReentrant
<1>16. CASE DropHold(t)
  <2> DEFINE r == SubSeq(frames[t], 1, Len(frames[t]) - 1)
             next == IF Len(frames[t]) = 1 /\ t \notin Ractors THEN "done" ELSE "run"
  <2>1. /\ frames[t] # <<>> /\ pc[t] = "run" /\ Top(t) # "off"
        /\ next \in {"run", "acquire", "done"}
    BY <1>16 DEF DropHold, InCode
  <2>2. /\ frames'[t] = r
        /\ \A u \in Threads \ {t} : frames'[u] = frames[u]
    BY <1>types, <1>16, Zenon DEF DropHold, Pop
  <2>3. /\ r \in Seq(FrameKinds) /\ Shape(r)
        /\ TopOf(r) # TopOf(frames[t])
        /\ TopOf(frames[t]) = "hold0" => TopOf(r) = "none"
    BY <1>shape, <2>1, ShapePop
  <2>4. TopOf(frames[t]) \in {"hold", "hold0"}
    BY <1>shape, <2>1 DEF TopOf, FrameKinds
  <2> HIDE DEF r
  <2>5. TopOf(r) # "hold"
    BY <2>3, <2>4, Zenon
  <2>6. CASE holder = t
    BY <1>1, <1>16, <2>1, <2>2, <2>3, <2>5, <2>6, ReleaseStep, Zenon DEF DropHold
  <2>7. CASE holder # t
    <3> HIDE DEF next
    <3>1. /\ UNCHANGED lockVars /\ pc' = [pc EXCEPT ![t] = next]
          /\ cont' = [cont EXCEPT ![t] = "run"]
      BY <1>16, <2>7 DEF DropHold, Return, Goto, next
    <3>2. pc'[t] \in {"run", "done"} /\ \A u \in Threads \ {t} : pc'[u] = pc[u]
      BY <1>types, <3>1, Zenon DEF next
    <3>3. /\ \A u \in Threads \ {t} : Top(u)' = Top(u)
          /\ Top(t)' = TopOf(r)
      BY <2>2 DEF Top, TopOf
    <3>4. QueueInv' /\ TicketInv'
      BY <1>types, <2>1, <3>1, <3>2, Zenon DEF IndInv, QueueInv, TicketInv, lockVars
    <3>5. UnarmedInv'
      <4>1. frames[t] = <<"hold0">> => r = <<>>
        BY DEF r
      <4> QED
        BY <1>types, <2>1, <2>2, <3>1, <3>2, <4>1, Zenon DEF IndInv, UnarmedInv, lockVars
    <3>6. HolderInv' /\ OneRunner'
      <4>1. holder' = holder /\ (holder # None => holder \in Threads \ {t})
        BY <2>7, <3>1, Zenon DEF IndInv, TypeOK, lockVars
      <4>2. HolderInv'
        BY <3>2, <3>3, <4>1 DEF IndInv, HolderInv, InProgram
      <4>3. ~Inside(t)'
        BY <2>5, <3>3 DEF Inside
      <4>4. \A u \in Threads \ {t} : Inside(u)' => Inside(u)
        BY <3>2, <3>3, Zenon DEF Inside
      <4> QED
        BY <4>1, <4>2, <4>3, <4>4 DEF IndInv, OneRunner
    <3>7. StackInv'
      BY <1>1, <2>1, <2>2, <2>3, <3>2, <3>3, Zenon DEF IndInv, StackInv
    <3>8. ContInv'
      BY <1>types, <3>1, <3>2, <3>3, Zenon DEF IndInv, ContInv
    <3> QED
      BY <1>1, <3>4, <3>5, <3>6, <3>7, <3>8, Zenon DEF IndInv
  <2> QED
    BY <2>6, <2>7, Zenon
<1>17. CASE RactorExit(t)
  BY <1>1, <1>types, <1>17, QuietStep DEF RactorExit, Return, Goto, InProgram
<1>18. CASE Without(t)
  <2>1. /\ Shape(Append(frames[t], "off"))
        /\ TopOf(Append(frames[t], "off")) = "off"
    BY <1>shape, <1>18, ShapePush DEF Without, InCode
  <2>2. /\ frames'[t] = Append(frames[t], "off")
        /\ \A u \in Threads \ {t} : frames'[u] = frames[u]
    BY <1>types, <1>18, Zenon DEF Without, Push
  <2> QED
    BY ZenonT(30), <1>1, <1>18, <2>1, <2>2, ReleaseStep DEF Without
<1>19. CASE EndWithout(t)
  <2> DEFINE r == SubSeq(frames[t], 1, Len(frames[t]) - 1)
  <2>1. /\ pc[t] = "run" /\ Top(t) = "off" /\ frames[t] # <<>>
        /\ pc' = [pc EXCEPT ![t] = "acquire"] /\ UNCHANGED <<lockVars, cont>>
    BY <1>19 DEF EndWithout, Goto, Top
  <2>2. /\ frames'[t] = r
        /\ \A u \in Threads \ {t} : frames'[u] = frames[u]
    BY <1>types, <1>19 DEF EndWithout, Pop
  <2>3. Shape(r) /\ TopOf(r) # TopOf(frames[t])
    BY ZenonT(30), <1>shape, <2>1, ShapePop
  <2> HIDE DEF r
  <2>4. armed
    <3>1. frames[t] = <<"hold0">> => Top(t) = "hold0"
      BY DEF Top
    <3> QED
      BY <2>1, <3>1 DEF IndInv, UnarmedInv
  <2>5. holder # t
    BY <2>1, NoneIsNoThread, Zenon DEF IndInv, HolderInv
  <2>6. /\ \A u \in Threads \ {t} : Top(u)' = Top(u)
        /\ Top(t)' = TopOf(r)
    BY <2>2 DEF Top, TopOf
  <2>7. QueueInv' /\ TicketInv' /\ UnarmedInv'
    BY <1>types, <2>1, <2>4 DEF IndInv, QueueInv, TicketInv, UnarmedInv, lockVars
  <2>8. HolderInv' /\ OneRunner'
    BY <1>types, <2>1, <2>5, <2>6, Zenon
       DEF IndInv, HolderInv, OneRunner, Inside, InProgram, lockVars
  <2>9. StackInv' /\ ContInv'
    BY <1>types, <1>shape, <2>1, <2>2, <2>3, <2>6, Zenon DEF IndInv, StackInv, ContInv
  <2> QED
    BY <1>1, <2>7, <2>8, <2>9 DEF IndInv
<1>20. CASE YieldNow(t)
  BY <1>1, <1>shape, <1>20, ReleaseStep, Zenon DEF YieldNow, InCode
<1>21. CASE NoteThreadSpawn(t)
  BY <1>1, <1>types, <1>21, QuietStep, Zenon DEF NoteThreadSpawn, InCode, Goto, InProgram
<1>22. CASE NoteCextLoaded(t)
  BY <1>1, <1>types, <1>22, QuietStep, Zenon DEF NoteCextLoaded, InCode, Goto, InProgram
<1>23. CASE LazyCtx(t) \/ (ServiceTimer(t) /\ holder # t)
  <2>1. pc[t] = "run" /\ UNCHANGED <<lockVars, frames, pc, cont>>
    BY <1>23, Zenon DEF LazyCtx, ServiceTimer, InCode
  <2> QED
    BY <1>1, <2>1, QuietStep DEF InProgram
<1>24. CASE ServiceTimer(t) /\ holder = t
  BY <1>1, <1>shape, <1>24, ReleaseStep, Zenon DEF ServiceTimer, InCode
<1> QED
  BY <1>4, <1>5, <1>6, <1>7, <1>8, <1>9, <1>10, <1>11, <1>12, <1>13, <1>14, <1>15, <1>16,
     <1>17, <1>18, <1>19, <1>20, <1>21, <1>22, <1>23, <1>24, Zenon DEF Advance, Program

\* Every step of the lock, its guards, the latch and the timer keeps the invariant.
LEMMA NextInd == IndInv /\ [Next]_vars => IndInv'
<1> SUFFICES ASSUME IndInv, [Next]_vars PROVE IndInv'
  OBVIOUS
<1>1. CASE \E t \in Threads : Advance(t) \/ Program(t) \/ ServiceTimer(t)
  BY <1>1, ThreadStep, Zenon
<1>2. CASE TimerTick
  <2>1. TypeOK'
    BY <1>2 DEF IndInv, TypeOK, TimerTick, lockVars, latchVars, spawnVars
  <2>2. pc[Main]' = pc[Main] /\ UNCHANGED <<lockVars, pc, cont, frames>>
    BY <1>2, Zenon DEF TimerTick
  <2> QED
    BY <2>1, <2>2, Zenon DEF IndInv, QueueInv, TicketInv, UnarmedInv, HolderInv, OneRunner, Inside,
       StackInv, ContInv, Top, lockVars
<1>3. CASE UNCHANGED vars
  BY <1>3 DEF IndInv, TypeOK, QueueInv, TicketInv, UnarmedInv, HolderInv, OneRunner, Inside,
     StackInv, ContInv, Top, vars, lockVars, latchVars, timerVars, spawnVars
<1> QED
  BY <1>1, <1>2, <1>3 DEF Next, Finished

\* The inductive invariant of the Gvl.
THEOREM GvlInvariant == Spec => []IndInv
BY InitInd, NextInd, PTL DEF Spec

\* Every variable keeps its type.
THEOREM GvlTypeOK == Spec => []TypeOK
<1>1. IndInv => TypeOK
  BY DEF IndInv
<1> QED
  BY GvlInvariant, <1>1, PTL

\* Code under a guard that took the lock runs only on the holder, for every
\* number of threads, every nesting and every moment of arming.
THEOREM GvlOneRunner == Spec => []OneRunner
<1>1. IndInv => OneRunner
  BY Zenon DEF IndInv
<1> QED
  BY GvlInvariant, <1>1, PTL

\* The tickets out belong to the waiters, one each and with no gap.
THEOREM GvlQueueIntact == Spec => []QueueIntact
<1>1. IndInv => QueueIntact
  <2> SUFFICES ASSUME IndInv PROVE QueueIntact
    OBVIOUS
  <2> DEFINE first == IF holder = None THEN 0 ELSE 1
             last == Dist(nextTicket, nowServing) - 1
  <2>1. Waiters = {t \in Threads : ticket[t] # NoTicket}
    BY DEF IndInv, TicketInv, Waiters
  <2>2. last \in Int
    BY DistType, WidthFits DEF IndInv, TypeOK, Ticket
  <2>3. \A t \in Waiters : Dist(ticket[t], nowServing) \in first..last
    <3> TAKE t \in Waiters
    <3>1. ticket[t] \in Ticket /\ nowServing \in Ticket /\ nextTicket \in Ticket
      BY <2>1, WidthFits DEF IndInv, TypeOK, Ticket
    <3>2. /\ Dist(ticket[t], nowServing) \in Int
          /\ Dist(nextTicket, nowServing) \in Int
      BY <3>1, DistType, WidthFits
    <3>3. /\ first <= Dist(ticket[t], nowServing)
          /\ Dist(ticket[t], nowServing) < Dist(nextTicket, nowServing)
      BY <2>1 DEF IndInv, QueueInv, Queue
    <3> QED
      BY <3>2, <3>3
  <2>4. \A d \in first..last : \E t \in Waiters : Dist(ticket[t], nowServing) = d
    BY <2>1 DEF IndInv, QueueInv, Queue
  <2>5. \A t, u \in Waiters : ticket[t] = ticket[u] => t = u
    BY <2>1, Zenon DEF IndInv, QueueInv, Queue
  <2>6. {Dist(ticket[t], nowServing) : t \in Waiters} = first..last
    BY <2>3, <2>4, Zenon
  <2> QED
    BY <2>5, <2>6 DEF QueueIntact, Behind
<1> QED
  BY GvlInvariant, <1>1, PTL
-----------------------------------------------------------------------------
(* What a step does to the queue, in one of five ways. *)

Resting == Pcs \ {"wait", "notify"}

\* Nothing of the lock changes, and nobody starts or stops waiting or notifying.
Quiet ==
  /\ UNCHANGED lockVars
  /\ \A u \in Threads : pc'[u] = pc[u] \/ (pc[u] \in Resting /\ pc'[u] \in Resting)

Takes(t) == armed /\ holder # t /\ pc[t] \in Resting /\ TakeTicket(t)

Releases(t) == armed /\ holder = t /\ pc[t] \in Resting /\ \E next \in Pcs : Release(t, next)

Switches(t) == pc[t] = "arm" /\ ~armed /\ Arm(t)

\* Every step of a thread is one of these, a recheck or a notify_all.
LEMMA StepKind ==
  ASSUME IndInv, NEW t \in Threads, Advance(t) \/ Program(t) \/ ServiceTimer(t)
  PROVE  Quiet \/ Takes(t) \/ Recheck(t) \/ Releases(t) \/ NotifyAll(t) \/ Switches(t)
<1>types. pc \in [Threads -> Pcs] /\ cont \in [Threads -> Pcs]
  BY Zenon DEF IndInv, TypeOK
<1>0. /\ holder # None => pc[holder] \in Resting
      /\ holder = t => armed /\ pc[t] \in Resting
      /\ pc[t] \in {"load", "swap", "arm"} => cont[t] \in Resting
      /\ pc[t] = "acquire" => armed /\ holder # t
  BY NoneIsNoThread, Zenon DEF IndInv, HolderInv, UnarmedInv, ContInv, InProgram, Resting, Pcs
<1>1. CASE Hold(t)
  <2>1. pc[t] = "hold" /\ holder # t
    BY <1>1, NoneIsNoThread DEF Hold, IndInv, HolderInv, InProgram
  <2> QED
    BY <1>types, <1>1, <2>1 DEF Hold, Takes, Quiet, Goto, Resting, Pcs
<1>2. CASE Acquire(t)
  BY <1>0, <1>2, Zenon DEF Acquire, Takes, Resting, Pcs
<1>3. CASE HoldReentrant(t)
  BY <1>3, Zenon DEF HoldReentrant, Takes, Resting, Pcs
<1>4. CASE LatchLoad(t) \/ LatchSwap(t) \/ (Arm(t) /\ armed)
  BY <1>types, <1>0, <1>4, Zenon DEF LatchLoad, LatchSwap, Arm, Return, Goto, Quiet, Resting, Pcs, lockVars
<1>5. CASE Arm(t) /\ ~armed
  BY <1>5 DEF Arm, Switches
<1>6. CASE Spawn(t)
  <2>1. PICK u \in Threads :
          /\ pc[u] = "unborn"
          /\ \/ pc' = [pc EXCEPT ![u] = "run", ![t] = "run"]
             \/ pc' = [pc EXCEPT ![u] = "starting", ![t] = "recv"]
    BY <1>6 DEF Spawn
  <2>2. /\ pc[t] = "spawn" /\ UNCHANGED lockVars
        /\ pc'[u] \in {"run", "starting"} /\ pc'[t] \in {"run", "recv"}
        /\ \A v \in Threads \ {u, t} : pc'[v] = pc[v]
    BY <1>types, <1>6, <2>1 DEF Spawn
  <2> QED
    BY <2>1, <2>2 DEF Quiet, Resting, Pcs
<1>7. CASE SpawnBound(t) \/ Recv(t) \/ InstallCtx(t) \/ ReadArmed(t) \/ RactorExit(t)
  BY <1>types, <1>7, Zenon DEF SpawnBound, Recv, InstallCtx, ReadArmed, RactorExit, Return, Goto,
     Quiet, Resting, Pcs
<1>8. CASE DropHold(t) /\ holder = t
  BY <1>0, <1>8, Zenon DEF DropHold, Releases, Pcs
<1>9. CASE DropHold(t) /\ holder # t
  BY <1>types, <1>9, Zenon DEF DropHold, InCode, Return, Goto, Quiet, Resting, Pcs
<1>10. CASE Without(t) \/ YieldNow(t) \/ (ServiceTimer(t) /\ holder = t)
  BY <1>0, <1>10, Zenon DEF Without, YieldNow, ServiceTimer, Releases, Pcs
<1>11. CASE EndWithout(t) \/ NoteThreadSpawn(t) \/ NoteCextLoaded(t)
  BY <1>types, <1>11, Zenon DEF EndWithout, NoteThreadSpawn, NoteCextLoaded, InCode, Goto,
     Quiet, Resting, Pcs
<1>12. CASE LazyCtx(t) \/ (ServiceTimer(t) /\ holder # t)
  BY <1>12 DEF LazyCtx, ServiceTimer, Quiet
<1> QED
  BY <1>1, <1>2, <1>3, <1>4, <1>5, <1>6, <1>7, <1>8, <1>9, <1>10, <1>11, <1>12, Zenon
     DEF Advance, Program

-----------------------------------------------------------------------------
(* The ticket queue implements the first-come lock. *)

\* A step that leaves the queue alone leaves the abstract lock alone.
LEMMA SameLock ==
  ASSUME UNCHANGED <<armed, holder, ticket, nowServing>>, Waiters' = Waiters
  PROVE  UNCHANGED Lock!vars
<1>1. Ahead' = Ahead
  BY DEF Ahead, Behind, Dist
<1> QED
  BY <1>1 DEF Lock!vars

\* The facts about the queue that the refinement uses.
LEMMA QueueFacts ==
  ASSUME IndInv
  PROVE  /\ pc \in [Threads -> Pcs] /\ ticket \in [Threads -> 0..Width]
         /\ nextTicket \in Ticket /\ nowServing \in Ticket
         /\ \A u \in Waiters : /\ u \in Threads /\ ticket[u] \in Ticket
                               /\ Dist(ticket[u], nowServing) \in Nat
                               /\ Dist(ticket[u], nowServing) < Dist(nextTicket, nowServing)
                               /\ holder # None => Dist(ticket[u], nowServing) >= 1
         /\ Dist(nextTicket, nowServing) \in Nat
         /\ holder # None => Dist(nextTicket, nowServing) >= 1
<1>1. /\ pc \in [Threads -> Pcs] /\ ticket \in [Threads -> 0..Width]
      /\ nextTicket \in Ticket /\ nowServing \in Ticket
  BY DEF IndInv, TypeOK, Ticket
<1>2. Dist(nextTicket, nowServing) \in Nat
  BY <1>1, DistType, WidthFits
<1>3. ASSUME NEW u \in Waiters
      PROVE  /\ u \in Threads /\ ticket[u] \in Ticket
             /\ Dist(ticket[u], nowServing) \in Nat
             /\ Dist(ticket[u], nowServing) < Dist(nextTicket, nowServing)
             /\ holder # None => Dist(ticket[u], nowServing) >= 1
  <2>1. u \in Threads /\ ticket[u] # NoTicket
    BY DEF Waiters, IndInv, TicketInv
  <2>2. ticket[u] \in Ticket
    BY <1>1, <2>1, WidthFits DEF Ticket
  <2>3. Dist(ticket[u], nowServing) \in Nat
    BY <1>1, <2>2, DistType, WidthFits
  <2> QED
    BY <2>1, <2>2, <2>3, Zenon DEF IndInv, QueueInv, Queue
<1>4. holder # None => Dist(nextTicket, nowServing) >= 1
  BY DEF IndInv, QueueInv, Queue
<1> QED
  BY <1>1, <1>2, <1>3, <1>4, Zenon

\* acquire's first critical section takes the free lock or joins the queue.
LEMMA TakeRefines ==
  ASSUME IndInv, NEW t \in Threads, Takes(t)
  PROVE  Lock!Next
<1>q. pc \in [Threads -> Pcs] /\ nextTicket \in Ticket /\ nowServing \in Ticket
  BY QueueFacts
<1>1. armed /\ holder # t /\ pc[t] # "wait" /\ t \notin Waiters
  BY DEF Takes, Resting, Waiters
<1>2. CASE nextTicket = nowServing
  <2>1. /\ holder' = t /\ pc' = [pc EXCEPT ![t] = "run"]
        /\ UNCHANGED <<asleep, ticket, armed, nowServing>>
    BY <1>2 DEF Takes, TakeTicket, Goto
  <2>2. Dist(nextTicket, nowServing) = 0
    BY <1>q, <1>2, DistType
  <2>3. holder = None /\ Waiters = {}
    BY <2>2, QueueFacts
  <2>4. Waiters' = Waiters
    BY <1>q, <1>1, <2>1 DEF Waiters
  <2>5. Ahead' = Ahead
    BY <2>1, <2>4 DEF Ahead, Behind, Dist
  <2>6. Lock!Take(t)
    BY <1>1, <2>1, <2>3, <2>4, <2>5 DEF Lock!Take
  <2> QED
    BY <2>6 DEF Lock!Next
<1>3. CASE nextTicket # nowServing
  <2>1. /\ holder' = holder /\ pc' = [pc EXCEPT ![t] = "wait"]
        /\ ticket' = [ticket EXCEPT ![t] = nextTicket]
        /\ UNCHANGED <<armed, nowServing>>
    BY <1>3 DEF Takes, TakeTicket, Goto
  <2>2. Waiters' = Waiters \cup {t}
    BY <1>q, <2>1, Zenon DEF Waiters
  <2>3. /\ ticket'[t] = nextTicket
        /\ \A u \in Threads \ {t} : ticket'[u] = ticket[u]
    BY <2>1, QueueFacts
  <2>4. \A n : Behind(n)' = Behind(n)
    BY <2>1 DEF Behind, Dist
  <2>5. /\ Behind(nextTicket) \in Nat
        /\ \A u \in Waiters : /\ u \in Threads \ {t}
                              /\ Behind(ticket[u]) \in Nat
                              /\ Behind(ticket[u]) < Behind(nextTicket)
    BY <1>1, QueueFacts DEF Behind
  <2>6. Ahead' = [u \in Threads |->
                    IF u \in Waiters \cup {t}
                      THEN {v \in Waiters \cup {t} : Behind(ticket'[v]) < Behind(ticket'[u])}
                      ELSE {}]
    <3> DEFINE B(n) == Dist(n, nowServing)
    <3>1. \A n : Dist(n, nowServing') = B(n)
      BY <2>1
    <3> QED
      BY <2>2, <3>1 DEF Ahead, Behind
  <2>7. {v \in Waiters \cup {t} : Behind(ticket'[v]) < Behind(ticket'[t])} = Waiters
    BY <2>3, <2>5
  <2>8. \A u \in Waiters : {v \in Waiters \cup {t} : Behind(ticket'[v]) < Behind(ticket'[u])}
                             = {v \in Waiters : Behind(ticket[v]) < Behind(ticket[u])}
    BY <2>3, <2>5
  <2>9. Ahead' = [Ahead EXCEPT ![t] = Waiters]
    <3> DEFINE New(u) == IF u \in Waiters \cup {t}
                           THEN {v \in Waiters \cup {t} : Behind(ticket'[v]) < Behind(ticket'[u])}
                           ELSE {}
               Old(u) == IF u \in Waiters
                           THEN {v \in Waiters : Behind(ticket[v]) < Behind(ticket[u])}
                           ELSE {}
    <3>1. Ahead' = [u \in Threads |-> New(u)] /\ Ahead = [u \in Threads |-> Old(u)]
      BY <2>6, Zenon DEF Ahead
    <3>2. New(t) = Waiters /\ \A u \in Threads \ {t} : New(u) = Old(u)
      BY <1>1, <2>7, <2>8
    <3> HIDE DEF New, Old
    <3> QED
      BY <3>1, <3>2, Zenon
  <2>10. Lock!Enqueue(t)
    BY <1>1, <2>1, <2>2, <2>9 DEF Lock!Enqueue
  <2> QED
    BY <2>10 DEF Lock!Next
<1> QED
  BY <1>2, <1>3

\* A woken waiter whose ticket is served becomes the owner; any other sleeps on.
LEMMA RecheckRefines ==
  ASSUME IndInv, NEW t \in Threads, Recheck(t)
  PROVE  Lock!Next \/ UNCHANGED Lock!vars
<1>1. CASE ticket[t] # nowServing
  <2>1. UNCHANGED <<armed, holder, ticket, nowServing, pc>>
    BY <1>1 DEF Recheck
  <2>2. Waiters' = Waiters
    BY <2>1 DEF Waiters
  <2> QED
    BY <2>1, <2>2, SameLock, Zenon
<1>2. CASE ticket[t] = nowServing
  <2>1. /\ holder' = t /\ pc' = [pc EXCEPT ![t] = "run"] /\ pc[t] = "wait"
        /\ ticket' = [ticket EXCEPT ![t] = NoTicket]
        /\ UNCHANGED <<armed, nowServing>>
    BY <1>2 DEF Recheck, Goto
  <2>2. t \in Waiters /\ Waiters' = Waiters \ {t}
    BY <2>1, QueueFacts DEF Waiters
  <2>3. Behind(ticket[t]) = 0
    BY <1>2, <2>2, QueueFacts, DistType DEF Behind
  <2>4. holder = None
    BY <2>2, <2>3, QueueFacts, SMTT(20) DEF Behind
  <2>5. \A u \in Waiters : u \in Threads /\ Behind(ticket[u]) \in Nat
    BY QueueFacts DEF Behind
  <2>6. Ahead[t] = {}
    BY <2>3, <2>5 DEF Ahead
  <2>7. \A u \in Threads \ {t} : ticket'[u] = ticket[u]
    BY <2>1, QueueFacts
  <2>8. Ahead' = [u \in Threads |->
                    IF u \in Waiters \ {t}
                      THEN {v \in Waiters \ {t} : Behind(ticket'[v]) < Behind(ticket'[u])}
                      ELSE {}]
    BY <2>1, <2>2 DEF Ahead, Behind
  <2>9. \A u \in Waiters \ {t} : {v \in Waiters \ {t} : Behind(ticket'[v]) < Behind(ticket'[u])}
                                   = {v \in Waiters : Behind(ticket[v]) < Behind(ticket[u])} \ {t}
    BY <2>5, <2>7
  <2>10. Ahead' = [u \in Threads |-> Ahead[u] \ {t}]
    <3> DEFINE New(u) == IF u \in Waiters \ {t}
                           THEN {v \in Waiters \ {t} : Behind(ticket'[v]) < Behind(ticket'[u])}
                           ELSE {}
               Old(u) == IF u \in Waiters
                           THEN {v \in Waiters : Behind(ticket[v]) < Behind(ticket[u])}
                           ELSE {}
    <3>1. Ahead' = [u \in Threads |-> New(u)] /\ Ahead = [u \in Threads |-> Old(u)]
      BY <2>8 DEF Ahead
    <3>2. Old(t) = {} /\ New(t) = {}
      BY <2>6, <3>1, Zenon
    <3>3. \A u \in Threads \ {t} : New(u) = Old(u) \ {t}
      BY <2>9, Zenon
    <3> HIDE DEF New, Old
    <3> QED
      BY <3>1, <3>2, <3>3, Zenon
  <2>11. Lock!Grant(t)
    BY <2>1, <2>2, <2>4, <2>6, <2>10 DEF Lock!Grant
  <2> QED
    BY <2>11 DEF Lock!Next
<1> QED
  BY <1>1, <1>2

\* release brings every ticket one closer and so keeps the order of the queue.
LEMMA ReleaseRefines ==
  ASSUME IndInv, NEW t \in Threads, Releases(t)
  PROVE  Lock!Next
<1>1. /\ armed /\ holder = t /\ holder' = None /\ nowServing' = Inc(nowServing)
      /\ pc[t] # "wait" /\ pc' = [pc EXCEPT ![t] = "notify"]
      /\ UNCHANGED <<armed, ticket>>
  BY DEF Releases, Release, Goto, Resting
<1>2. Waiters' = Waiters
  BY <1>1, QueueFacts, Zenon DEF Waiters
<1>3. \A u \in Waiters : /\ Dist(ticket[u], nowServing) \in Nat
                         /\ Dist(ticket[u], Inc(nowServing)) = Dist(ticket[u], nowServing) - 1
  BY <1>1, NoneIsNoThread, QueueFacts, DistServe, Zenon
<1>4. Ahead' = [u \in Threads |->
                  IF u \in Waiters
                    THEN {v \in Waiters : Dist(ticket[v], Inc(nowServing))
                                            < Dist(ticket[u], Inc(nowServing))}
                    ELSE {}]
  BY <1>1, <1>2 DEF Ahead, Behind
<1>5. \A u, v \in Waiters : (Dist(ticket[v], Inc(nowServing)) < Dist(ticket[u], Inc(nowServing)))
                              <=> (Dist(ticket[v], nowServing) < Dist(ticket[u], nowServing))
  BY <1>3
<1>6. Ahead' = Ahead
  <2> DEFINE New(u) == {v \in Waiters : Dist(ticket[v], Inc(nowServing))
                                           < Dist(ticket[u], Inc(nowServing))}
             Old(u) == {v \in Waiters : Dist(ticket[v], nowServing) < Dist(ticket[u], nowServing)}
  <2>1. /\ Ahead' = [u \in Threads |-> IF u \in Waiters THEN New(u) ELSE {}]
        /\ Ahead = [u \in Threads |-> IF u \in Waiters THEN Old(u) ELSE {}]
    BY <1>4, Zenon DEF Ahead, Behind
  <2>2. \A u \in Waiters : New(u) = Old(u)
    BY <1>5
  <2> HIDE DEF New, Old
  <2> QED
    BY <2>1, <2>2
<1>7. Lock!Release(t)
  BY <1>1, <1>2, <1>6 DEF Lock!Release
<1> QED
  BY <1>7 DEF Lock!Next

\* arm switches the lock on, with its caller as the first owner.
LEMMA ArmRefines ==
  ASSUME IndInv, NEW t \in Threads, Switches(t)
  PROVE  Lock!Next
<1>1. /\ ~armed /\ armed' = TRUE /\ holder' = t /\ pc[t] = "arm"
      /\ pc' = [pc EXCEPT ![t] = cont[t]] /\ cont[t] \in {"run", "spawn"}
  BY DEF Switches, Arm, Return, Goto, IndInv, ContInv
<1>2. Waiters = {}
  BY <1>1 DEF IndInv, UnarmedInv, Waiters
<1>3. Waiters' = {}
  BY <1>1, <1>2, QueueFacts, Zenon DEF Waiters
<1>4. Ahead = [u \in Threads |-> {}] /\ Ahead' = [u \in Threads |-> {}]
  BY <1>2, <1>3 DEF Ahead
<1>5. Lock!SwitchOn(t)
  BY <1>1, <1>2, <1>3, <1>4 DEF Lock!SwitchOn
<1> QED
  BY <1>5 DEF Lock!Next

\* Every step of the Gvl is a step of the first-come lock or leaves it alone.
LEMMA NextRefines == IndInv /\ [Next]_vars => [Lock!Next]_(Lock!vars)
<1> SUFFICES ASSUME IndInv, [Next]_vars PROVE Lock!Next \/ UNCHANGED Lock!vars
  OBVIOUS
<1>1. ASSUME NEW t \in Threads, Advance(t) \/ Program(t) \/ ServiceTimer(t)
      PROVE  Lock!Next \/ UNCHANGED Lock!vars
  <2>1. CASE Quiet
    <3>1. Waiters' = Waiters
      BY <2>1 DEF Quiet, Resting, Waiters
    <3> QED
      BY <2>1, <3>1, SameLock DEF Quiet, lockVars
  <2>2. CASE NotifyAll(t)
    <3>1. /\ pc[t] = "notify" /\ pc' = [pc EXCEPT ![t] = cont[t]] /\ cont[t] # "wait"
          /\ UNCHANGED <<armed, holder, ticket, nowServing>>
      BY <2>2 DEF NotifyAll, Return, Goto, IndInv, ContInv
    <3>2. Waiters' = Waiters
      BY <3>1, QueueFacts DEF Waiters
    <3> QED
      BY <3>1, <3>2, SameLock, Zenon
  <2> QED
    BY <1>1, <2>1, <2>2, StepKind, TakeRefines, RecheckRefines, ReleaseRefines, ArmRefines, Zenon
<1>2. CASE TimerTick \/ UNCHANGED vars
  <2>1. UNCHANGED <<armed, holder, ticket, nowServing, pc>>
    BY <1>2 DEF TimerTick, vars, lockVars
  <2>2. Waiters' = Waiters
    BY <2>1 DEF Waiters
  <2> QED
    BY <2>1, <2>2, SameLock
<1> QED
  BY <1>1, <1>2 DEF Next, Finished

\* The initial states are those of a first-come lock with nobody queued.
LEMMA InitRefines == Init => Lock!Init
<1> SUFFICES ASSUME Init PROVE Lock!Init
  OBVIOUS
<1>1. Waiters = {}
  BY DEF Init, Waiters
<1>2. Ahead = [t \in Threads |-> {}]
  BY <1>1 DEF Ahead
<1> QED
  BY <1>1, <1>2, EnvArmedIsBool DEF Init, Lock!Init

\* For every set of threads and every width above their number, tickets,
\* wake-ups and guards together implement a lock served in arrival order and
\* switched on at most once (acquire, release, arm).
THEOREM GvlImplementsFairLock == Spec => ImplementsFairLock
<1>1. IndInv /\ [Next]_vars => [Lock!Next]_(Lock!vars)
  BY NextRefines
<1> QED
  BY InitRefines, GvlInvariant, <1>1, PTL DEF Spec, ImplementsFairLock, Lock!Spec

-----------------------------------------------------------------------------
(* Wake-ups and the latch. *)

\* No step parks the next in line, or serves a sleeper, without a notify_all
\* to come.
LEMMA WakeupStep ==
  ASSUME IndInv, NoLostWakeup, [Next]_vars
  PROVE  NoLostWakeup'
<1>1. ASSUME NEW t \in Threads, Advance(t) \/ Program(t) \/ ServiceTimer(t)
      PROVE  NoLostWakeup'
  <2>1. CASE Quiet
    BY <2>1 DEF Quiet, Resting, lockVars, NoLostWakeup
  <2>2. CASE Takes(t)
    <3>1. /\ asleep' \subseteq asleep \cup {t}
          /\ t \in asleep' => ticket'[t] # nowServing'
          /\ nowServing' = nowServing
          /\ \A u \in Threads \ {t} : ticket'[u] = ticket[u] /\ pc'[u] = pc[u]
          /\ pc[t] # "notify"
      <4>1. t \notin asleep
        BY <2>2 DEF Takes, Resting, IndInv, TicketInv
      <4> QED
        BY <2>2, <4>1, QueueFacts, Zenon DEF Takes, Resting, TakeTicket, Goto
    <3>2. asleep \subseteq Threads
      BY Zenon DEF IndInv, TypeOK
    <3> QED
      BY <3>1, <3>2, Zenon DEF NoLostWakeup
  <2>3. CASE Recheck(t)
    <3>1. /\ asleep' \subseteq asleep \cup {t}
          /\ t \in asleep' => ticket'[t] # nowServing'
          /\ nowServing' = nowServing
          /\ \A u \in Threads \ {t} : ticket'[u] = ticket[u] /\ pc'[u] = pc[u]
          /\ pc[t] # "notify"
      BY <2>3, QueueFacts DEF Recheck, Goto
    <3>2. asleep \subseteq Threads
      BY Zenon DEF IndInv, TypeOK
    <3> QED
      BY <3>1, <3>2 DEF NoLostWakeup
  <2>4. CASE Releases(t)
    <3>1. pc'[t] = "notify"
      BY <2>4, QueueFacts DEF Releases, Release, Goto
    <3> QED
      BY <3>1 DEF NoLostWakeup
  <2>5. CASE NotifyAll(t)
    BY <2>5, Zenon DEF NotifyAll, NoLostWakeup
  <2>6. CASE Switches(t)
    <3>1. asleep' = asleep
      BY <2>6 DEF Switches, Arm
    <3>2. asleep = {}
      BY <2>6 DEF Switches, IndInv, UnarmedInv, TicketInv, TypeOK
    <3> QED
      BY <3>1, <3>2, Zenon DEF NoLostWakeup
  <2> QED
    BY <1>1, <2>1, <2>2, <2>3, <2>4, <2>5, <2>6, StepKind, Zenon
<1>2. CASE TimerTick \/ UNCHANGED vars
  BY <1>2, Zenon DEF TimerTick, vars, lockVars, NoLostWakeup
<1> QED
  BY <1>1, <1>2 DEF Next, Finished

\* A waiter that is next in line never sleeps with nobody about to notify it
\* (release's notify_all after the unlock), for any number of threads.
THEOREM GvlNoLostWakeup == Spec => []NoLostWakeup
<1>1. Init => NoLostWakeup
  BY DEF Init, NoLostWakeup
<1>2. IndInv /\ NoLostWakeup /\ [Next]_vars => NoLostWakeup'
  BY WakeupStep
<1> QED
  BY GvlInvariant, <1>1, <1>2, PTL DEF Spec

AtLatch == {"load", "swap", "arm"}

\* While the Gvl is unarmed, a swap that has fired leaves its thread on the
\* way to arm, and both flags up leave some thread at the latch.
LatchInv ==
  ~armed => /\ cextArmed => \E t \in Threads : pc[t] = "arm"
            /\ multi /\ cextLoaded => \E t \in Threads : pc[t] \in AtLatch

\* No step of the latch, and none of any other operation, loses the arming.
LEMMA LatchStep ==
  ASSUME IndInv, LatchInv, [Next]_vars
  PROVE  LatchInv'
<1>types. pc \in [Threads -> Pcs]
  BY DEF IndInv, TypeOK
<1>1. ASSUME NEW t \in Threads, Advance(t) \/ Program(t) \/ ServiceTimer(t)
      PROVE  LatchInv'
  <2>1. CASE NoteThreadSpawn(t) \/ NoteCextLoaded(t)
    <3>1. /\ pc[t] = "run" /\ pc'[t] = "load" /\ UNCHANGED <<armed, cextArmed>>
          /\ \A u \in Threads \ {t} : pc'[u] = pc[u]
      BY <1>types, <2>1, Zenon DEF NoteThreadSpawn, NoteCextLoaded, InCode, Goto, lockVars
    <3> QED
      BY <3>1, Zenon DEF LatchInv, AtLatch
  <2>2. CASE LatchLoad(t)
    <3>1. /\ pc[t] = "load" /\ UNCHANGED <<armed, cextArmed, multi, cextLoaded>>
          /\ multi /\ cextLoaded => pc'[t] = "swap"
          /\ \A u \in Threads \ {t} : pc'[u] = pc[u]
      BY <1>types, <2>2, Zenon DEF LatchLoad, Return, Goto, lockVars, latchVars
    <3> QED
      BY <3>1 DEF LatchInv, AtLatch
  <2>3. CASE LatchSwap(t)
    <3>1. /\ pc[t] = "swap" /\ UNCHANGED <<armed, multi, cextLoaded>>
          /\ ~cextArmed => pc'[t] = "arm"
          /\ \A u \in Threads \ {t} : pc'[u] = pc[u]
      BY <1>types, <2>3 DEF LatchSwap, Return, Goto, lockVars
    <3> QED
      BY <3>1 DEF LatchInv, AtLatch
  <2>4. CASE Arm(t)
    <3>1. armed'
      BY <2>4, Zenon DEF Arm, lockVars
    <3> QED
      BY <3>1 DEF LatchInv
  <2>5. CASE \/ /\ UNCHANGED <<armed, multi, cextLoaded, cextArmed>>
                /\ pc[t] \notin AtLatch /\ \A u \in Threads \ {t} : pc'[u] = pc[u]
             \/ Spawn(t)
    <3>1. /\ UNCHANGED <<armed, multi, cextLoaded, cextArmed>>
          /\ \A u \in Threads : pc[u] \in AtLatch => pc'[u] = pc[u]
      BY <1>types, <2>5, Zenon DEF Spawn, AtLatch, lockVars, latchVars
    <3> QED
      BY <3>1 DEF LatchInv, AtLatch
  <2>6. CASE Recheck(t) \/ NotifyAll(t) \/ SpawnBound(t) \/ Recv(t)
    <3>1. /\ UNCHANGED <<armed, multi, cextLoaded, cextArmed>>
          /\ pc[t] \notin AtLatch /\ \A u \in Threads \ {t} : pc'[u] = pc[u]
      BY <1>types, <2>6, Zenon DEF Recheck, NotifyAll, SpawnBound, Recv, Return, Goto, AtLatch, lockVars, latchVars
    <3> QED
      BY <2>5, <3>1, Zenon
  <2>7. CASE Hold(t) \/ Acquire(t) \/ HoldReentrant(t)
    <3>1. /\ UNCHANGED <<armed, multi, cextLoaded, cextArmed>>
          /\ pc[t] \notin AtLatch /\ \A u \in Threads \ {t} : pc'[u] = pc[u]
      BY <1>types, <2>7 DEF Hold, Acquire, HoldReentrant, TakeTicket, Goto, AtLatch, lockVars, latchVars
    <3> QED
      BY <2>5, <3>1, Zenon
  <2>8. CASE InstallCtx(t) \/ ReadArmed(t) \/ RactorExit(t) \/ LazyCtx(t) \/ EndWithout(t)
    <3>1. /\ UNCHANGED <<armed, multi, cextLoaded, cextArmed>>
          /\ pc[t] \notin AtLatch /\ \A u \in Threads \ {t} : pc'[u] = pc[u]
      BY <1>types, <2>8, Zenon DEF InstallCtx, ReadArmed,
         RactorExit, LazyCtx, EndWithout, InCode, Return, Goto, AtLatch, lockVars, latchVars
    <3> QED
      BY <2>5, <3>1
  <2>9. CASE DropHold(t) \/ Without(t) \/ YieldNow(t) \/ ServiceTimer(t)
    <3>1. /\ UNCHANGED <<armed, multi, cextLoaded, cextArmed>>
          /\ pc[t] \notin AtLatch /\ \A u \in Threads \ {t} : pc'[u] = pc[u]
      BY <1>types, <2>9, Zenon DEF DropHold, Without, YieldNow, ServiceTimer,
         InCode, Release, Return, Goto, AtLatch, lockVars, latchVars
    <3> QED
      BY <2>5, <3>1
  <2> QED
    BY <1>1, <2>1, <2>2, <2>3, <2>4, <2>5, <2>6, <2>7, <2>8, <2>9, Zenon DEF Advance, Program
<1>2. CASE TimerTick \/ UNCHANGED vars
  BY <1>2, Zenon DEF TimerTick, vars, lockVars, latchVars, LatchInv
<1> QED
  BY <1>1, <1>2 DEF Next, Finished

\* A load and a spawn on two threads never both miss each other: each stores
\* its flag before it reads the other's (note_thread_spawn, note_cext_loaded).
THEOREM GvlLatchFires == Spec => []LatchFires
<1>1. Init => LatchInv
  BY DEF Init, LatchInv
<1>2. IndInv /\ LatchInv /\ [Next]_vars => LatchInv'
  BY LatchStep
<1>3. LatchInv /\ IndInv => LatchFires
  BY DEF LatchInv, LatchFires, AtLatch, IndInv, TypeOK
<1> QED
  BY GvlInvariant, <1>1, <1>2, <1>3, PTL DEF Spec

\* A thread that acts is not over, takes the lock for nobody else, and ends
\* only as a Ractor or without the lock.
LEMMA Ends ==
  ASSUME IndInv, NEW t \in Threads, Advance(t) \/ Program(t) \/ ServiceTimer(t)
  PROVE  /\ pc[t] # "done"
         /\ holder' \in {holder, None, t}
         /\ \A u \in Threads : pc'[u] = "done" =>
              pc[u] = "done" \/ (u = t /\ (t \in Ractors \/ holder' # t))
<1> DEFINE Goal == /\ pc[t] # "done"
                   /\ holder' \in {holder, None, t}
                   /\ \A u \in Threads : pc'[u] = "done" =>
                        pc[u] = "done" \/ (u = t /\ (t \in Ractors \/ holder' # t))
<1>types. pc \in [Threads -> Pcs]
  BY DEF IndInv, TypeOK
<1>0. /\ pc[t] = "notify" => holder # t
      /\ pc[t] \in AtLatch => cont[t] \notin {"done"}
      /\ t # None
  BY NoneIsNoThread DEF IndInv, HolderInv, ContInv, InProgram, AtLatch
<1>1. ASSUME NEW w \in Pcs \ {"done"}, Goto(t, w), pc[t] # "done", holder' \in {holder, None, t}
      PROVE  Goal
  BY <1>types, <1>1 DEF Goto
<1>2. ASSUME UNCHANGED pc, pc[t] # "done", holder' \in {holder, None, t}
      PROVE  Goal
  BY <1>2, Zenon
<1>3. ASSUME NEW w \in Pcs, Goto(t, w), pc[t] # "done", t \in Ractors \/ holder' # t,
             holder' \in {holder, None, t}
      PROVE  Goal
  BY <1>types, <1>3, Zenon DEF Goto
<1>pcs. {"wait", "run", "notify", "load", "swap", "arm", "acquire", "recv", "attached", "hold", "spawn"}
          \subseteq Pcs \ {"done"}
  BY DEF Pcs
<1>4. CASE Recheck(t)
  <2>1. pc[t] = "wait" /\ holder' \in {holder, t} /\ (UNCHANGED pc \/ Goto(t, "run"))
    BY <1>4, Zenon DEF Recheck
  <2> QED
    BY <1>1, <1>2, <1>pcs, <2>1
<1>5. CASE NotifyAll(t)
  <2>1. pc[t] = "notify" /\ holder' = holder /\ Goto(t, cont[t]) /\ cont[t] \in Pcs
    BY <1>5, Zenon DEF NotifyAll, Return, IndInv, TypeOK
  <2> QED
    BY <1>0, <1>3, <2>1
<1>6. CASE Hold(t) \/ Acquire(t) \/ HoldReentrant(t)
  <2>1. pc[t] \in {"hold", "acquire", "run"} /\ holder' \in {holder, t}
        /\ (Goto(t, "run") \/ Goto(t, "wait"))
    BY <1>6, Zenon DEF Hold, Acquire, HoldReentrant, TakeTicket, lockVars
  <2> QED
    BY <1>1, <1>pcs, <2>1
<1>7. CASE LatchLoad(t) \/ LatchSwap(t) \/ Arm(t)
  <2>1. pc[t] \in AtLatch /\ holder' \in {holder, t}
        /\ (Goto(t, "swap") \/ Goto(t, "arm") \/ Goto(t, cont[t]))
    BY <1>7, Zenon DEF LatchLoad, LatchSwap, Arm, Return, AtLatch, lockVars
  <2>2. cont[t] \in Pcs
    BY Zenon DEF IndInv, TypeOK
  <2> QED
    BY <1>0, <1>1, <1>pcs, <2>1, <2>2 DEF AtLatch
<1>8. CASE Spawn(t)
  <2>1. pc[t] = "spawn" /\ holder' = holder
    BY <1>8, Zenon DEF Spawn, lockVars
  <2>2. PICK u \in Threads :
          \/ pc' = [pc EXCEPT ![u] = "run", ![t] = "run"]
          \/ pc' = [pc EXCEPT ![u] = "starting", ![t] = "recv"]
    BY <1>8, Zenon DEF Spawn
  <2>3. \A v \in Threads : pc'[v] = "done" => pc[v] = "done"
    BY <1>types, <2>2
  <2> QED
    BY <2>1, <2>3
<1>9. CASE SpawnBound(t) \/ Recv(t) \/ InstallCtx(t) \/ ReadArmed(t)
  <2>1. pc[t] \in {"spawn", "recv", "starting", "attached"} /\ holder' = holder
        /\ \E w \in {"run", "attached", "hold"} : Goto(t, w)
    BY <1>9, Zenon DEF SpawnBound, Recv, InstallCtx, ReadArmed, lockVars
  <2> QED
    BY <1>1, <1>pcs, <2>1
<1>10. CASE DropHold(t)
  <2>1. CASE holder = t
    <3>1. pc[t] = "run" /\ holder' = None /\ Goto(t, "notify")
      BY <1>10, <2>1, Zenon DEF DropHold, InCode, Release
    <3> QED
      BY <1>1, <1>pcs, <3>1
  <2>2. CASE holder # t
    <3>1. pc[t] = "run" /\ holder' = holder /\ (Goto(t, "done") \/ Goto(t, "run"))
      BY <1>10, <2>2, Zenon DEF DropHold, InCode, Return, lockVars
    <3> QED
      BY <1>3, <2>2, <3>1 DEF Pcs
  <2> QED
    BY <2>1, <2>2, Zenon
<1>11. CASE RactorExit(t)
  <2>1. pc[t] = "run" /\ t \in Ractors /\ holder' = holder /\ Goto(t, "done")
    BY <1>11, Zenon DEF RactorExit, Return, lockVars
  <2> QED
    BY <1>3, <2>1 DEF Pcs
<1>12. CASE Without(t) \/ YieldNow(t) \/ EndWithout(t) \/ NoteThreadSpawn(t) \/ NoteCextLoaded(t)
  <2>1. pc[t] = "run" /\ holder' \in {holder, None}
        /\ \E w \in {"notify", "acquire", "load"} : Goto(t, w)
    BY <1>12, Zenon DEF Without, YieldNow, EndWithout, NoteThreadSpawn, NoteCextLoaded, InCode,
                        Release, lockVars
  <2> QED
    BY <1>1, <1>pcs, <2>1
<1>13. CASE LazyCtx(t) \/ ServiceTimer(t)
  <2>1. pc[t] = "run" /\ holder' \in {holder, None} /\ (UNCHANGED pc \/ Goto(t, "notify"))
    BY <1>13, Zenon DEF LazyCtx, ServiceTimer, InCode, Release, lockVars
  <2> QED
    BY <1>1, <1>2, <1>pcs, <2>1
<1> QED
  BY <1>4, <1>5, <1>6, <1>7, <1>8, <1>9, <1>10, <1>11, <1>12, <1>13, Zenon DEF Advance, Program

\* No thread but a Ractor ever ends as the holder, whatever guards, unwinding
\* `without`s and late arming were on its stack (HoldGuard's drop), for any
\* number of threads and any nesting.
THEOREM GvlNoStrandedHolder == Spec => []NoStrandedHolder
<1>1. Init => NoStrandedHolder
  BY NoneIsNoThread, Zenon DEF Init, NoStrandedHolder
<1>2. IndInv /\ NoStrandedHolder /\ [Next]_vars => NoStrandedHolder'
  <2> SUFFICES ASSUME IndInv, NoStrandedHolder, [Next]_vars PROVE NoStrandedHolder'
    OBVIOUS
  <2>1. ASSUME NEW t \in Threads, Advance(t) \/ Program(t) \/ ServiceTimer(t)
        PROVE  NoStrandedHolder'
    <3>1. /\ pc[t] # "done"
          /\ holder' \in {holder, None, t}
          /\ \A u \in Threads : pc'[u] = "done" =>
               pc[u] = "done" \/ (u = t /\ (t \in Ractors \/ holder' # t))
      BY <2>1, Ends, Zenon
    <3> QED
      BY <3>1, NoneIsNoThread DEF NoStrandedHolder
  <2>2. CASE TimerTick \/ UNCHANGED vars
    BY <2>2, Zenon DEF TimerTick, vars, lockVars, NoStrandedHolder
  <2> QED
    BY <2>1, <2>2, Zenon DEF Next, Finished
<1> QED
  BY GvlInvariant, <1>1, <1>2, PTL DEF Spec
=============================================================================
