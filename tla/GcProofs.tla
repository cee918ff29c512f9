------------------------------ MODULE GcProofs ------------------------------
(***************************************************************************)
(* Stopping the world, and what the collector does while it is stopped.    *)
(*                                                                         *)
(* Rendezvous, for every set of threads and every number of stops: the     *)
(* count is exact, and the threads the collector asked are the ones parked *)
(* while the pass runs.                                                    *)
(*                                                                         *)
(* Collector, for every heap and every finite set of slots, as long as no  *)
(* thread is missed.  While a pass is under way the heap does not change,  *)
(* so the counts and the edges it has collected are those of the heap it   *)
(* will sweep: after the walk, a count is the number of owners outside the *)
(* snapshot, and the marking is a set closed under the edges that starts   *)
(* there.  What a sweep leaves behind is owned by immutable nodes it       *)
(* leaves behind, and immutable nodes make no ring: each is older than     *)
(* what owns it.                                                           *)
(***************************************************************************)
EXTENDS Rendezvous, Collector, FiniteSetTheorems, TLAPS

-----------------------------------------------------------------------------
(* Rendezvous. *)

\* Where a thread is while it holds COLLECTING, and while the flag is up.
InStop == {"ask", "await", "wait", "sweep", "resume"}
InPass == InStop \cup {"announce", "unlock"}

\* COLLECTING admits one collector, and the flag is up during its stop.
CollectorInv ==
  /\ \A t \in Threads : pc[t] \in InPass <=> collecting = t
  /\ stopped <=> \E t \in Threads : pc[t] \in InStop
  /\ \A t \in Threads : pc[t] = "announce" => generation < MaxStops

\* Only an attached thread has a bit to take, and nobody parked in a stop yet
\* to come.
MemberInv ==
  /\ gcBit \subseteq members
  /\ \A t \in Threads : pc[t] \in {"parking", "parked"} => t \in members
  /\ \A t \in Threads : mine[t] <= generation

\* Threads that have parked in this stop or are on the way.
Coming == gcBit \cup {t \in Threads : pc[t] = "parking"} \cup Here

\* Whoever parks in a stop is asked in it, a straggler of the last one too.
AskedInv ==
  /\ stopped => Coming \subseteq asked \cup toAsk \cup {collecting}
  /\ \A t \in Threads : pc[t] \in {"await", "wait", "sweep"} => toAsk = {}

IndInv == TypeOK /\ CollectorInv /\ MemberInv /\ AskedInv /\ CountExact /\ AskedAreParked

-----------------------------------------------------------------------------

\* The initial state satisfies the invariant.
LEMMA InitInd == Init => IndInv
<1> SUFFICES ASSUME Init PROVE IndInv
  OBVIOUS
<1> USE MainIsThread, NoneIsNoThread, MaxStopsIsNat
<1>a. pc \in [Threads -> Pcs] /\ mine \in [Threads -> 0..MaxStops]
  BY DEF Init, Pcs
<1>b. kid \in [Threads -> Threads \cup {None}]
  BY DEF Init
<1>1. TypeOK
  BY <1>a, <1>b, Zenon DEF Init, TypeOK
<1>2. CollectorInv /\ MemberInv /\ AskedInv /\ CountExact /\ AskedAreParked
  BY DEF Init, CollectorInv, MemberInv, AskedInv, CountExact, AskedAreParked, InStop, InPass
<1> QED BY <1>1, <1>2 DEF IndInv

\* Subsets of Threads are finite.
LEMMA Finite == \A S \in SUBSET Threads : IsFiniteSet(S) /\ Cardinality(S) \in Nat
BY ThreadsFinite, FS_Subset, FS_CardinalityType

-----------------------------------------------------------------------------
\* One lemma per conjunct that several actions disturb.

\* Every step keeps the types.
LEMMA TypeStep ==
  ASSUME IndInv, NEW t \in Threads, Advance(t) \/ Program(t) \/ TakeBit(t)
  PROVE  TypeOK'
<1> USE NoneIsNoThread, MaxStopsIsNat DEF IndInv, TypeOK, Goto, world
<1>1. CASE Spawn(t)
  BY <1>1 DEF Spawn, Pcs
<1>2. CASE Attach(t) \/ Recv(t) \/ Block(t) \/ Return(t) \/ Sleep(t)
  BY <1>2 DEF Attach, Recv, Block, Return, Sleep, Pcs
<1>3. CASE Exit(t) \/ Forget(t)
  BY <1>3 DEF Exit, Forget, Pcs
<1>4. CASE Collect(t) \/ AskedAll(t) \/ Arrived(t) \/ Wait(t) \/ Abandon(t) \/ Swept(t)
  BY <1>4 DEF Collect, AskedAll, Arrived, Wait, Abandon, Swept, Pcs
<1>5. CASE Announce(t)
  BY <1>5 DEF Announce, CollectorInv, Pcs
<1>6. CASE Ask(t)
  BY <1>6 DEF Ask, Pcs
<1>7. CASE Resume(t) \/ Unlock(t)
  BY <1>7, Zenon DEF Resume, Unlock, Pcs
<1>8. CASE TakeBit(t) \/ Park(t) \/ Unpark(t)
  BY <1>8 DEF TakeBit, Park, Unpark, Pcs
<1> QED BY <1>1, <1>2, <1>3, <1>4, <1>5, <1>6, <1>7, <1>8 DEF Advance, Program

\* Every step keeps one collector and its flag.
LEMMA CollectorStep ==
  ASSUME IndInv, NEW t \in Threads, Advance(t) \/ Program(t) \/ TakeBit(t)
  PROVE  CollectorInv'
<1> USE NoneIsNoThread, MaxStopsIsNat DEF IndInv, TypeOK, Goto, world, CollectorInv, InStop, InPass
<1>1. CASE Spawn(t)
  BY <1>1 DEF Spawn
<1>2. CASE Attach(t) \/ Recv(t) \/ Block(t) \/ Return(t) \/ Sleep(t)
  BY <1>2 DEF Attach, Recv, Block, Return, Sleep
<1>3. CASE Exit(t) \/ Forget(t)
  BY <1>3 DEF Exit, Forget
<1>4. CASE Collect(t)
  BY <1>4 DEF Collect
<1>5. CASE Announce(t)
  BY <1>5 DEF Announce
<1>6. CASE Ask(t)
  BY <1>6 DEF Ask
<1>7. CASE AskedAll(t) \/ Arrived(t) \/ Wait(t) \/ Abandon(t) \/ Swept(t)
  BY <1>7 DEF AskedAll, Arrived, Wait, Abandon, Swept
<1>8. CASE Resume(t)
  BY <1>8 DEF Resume
<1>9. CASE Unlock(t)
  BY <1>9 DEF Unlock
<1>10. CASE TakeBit(t) \/ Park(t) \/ Unpark(t)
  BY <1>10 DEF TakeBit, Park, Unpark
<1> QED
  BY <1>1, <1>2, <1>3, <1>4, <1>5, <1>6, <1>7, <1>8, <1>9, <1>10 DEF Advance, Program

\* Every step keeps the bits and the parked with the members.
LEMMA MemberStep ==
  ASSUME IndInv, NEW t \in Threads, Advance(t) \/ Program(t) \/ TakeBit(t)
  PROVE  MemberInv'
<1> USE MaxStopsIsNat DEF IndInv, TypeOK, Goto, world, MemberInv
<1>1. CASE Spawn(t)
  BY <1>1 DEF Spawn
<1>2. CASE Attach(t) \/ Recv(t) \/ Block(t) \/ Return(t) \/ Sleep(t)
  BY <1>2 DEF Attach, Recv, Block, Return, Sleep
<1>3. CASE Exit(t) \/ Forget(t)
  BY <1>3 DEF Exit, Forget
<1>4. CASE Collect(t) \/ AskedAll(t) \/ Arrived(t) \/ Wait(t) \/ Abandon(t) \/ Swept(t)
  BY <1>4 DEF Collect, AskedAll, Arrived, Wait, Abandon, Swept
<1>5. CASE Announce(t)
  BY <1>5 DEF Announce
<1>6. CASE Ask(t)
  BY <1>6 DEF Ask
<1>7. CASE Resume(t) \/ Unlock(t)
  BY <1>7 DEF Resume, Unlock
<1>8. CASE TakeBit(t) \/ Park(t) \/ Unpark(t)
  BY <1>8 DEF TakeBit, Park, Unpark
<1> QED BY <1>1, <1>2, <1>3, <1>4, <1>5, <1>6, <1>7, <1>8 DEF Advance, Program

\* Every step keeps whoever parks among the asked: the announcement puts every
\* member on the list, stragglers included, and a bit set later is an ask.
LEMMA AskedStep ==
  ASSUME IndInv, NEW t \in Threads, Advance(t) \/ Program(t) \/ TakeBit(t)
  PROVE  AskedInv'
<1> USE NoneIsNoThread, MaxStopsIsNat
    DEF IndInv, TypeOK, Goto, world, AskedInv, Coming, Here, InStop, InPass
<1>1. CASE Spawn(t)
  BY <1>1 DEF Spawn
<1>2. CASE Attach(t) \/ Recv(t) \/ Block(t) \/ Return(t) \/ Sleep(t)
  BY <1>2 DEF Attach, Recv, Block, Return, Sleep
<1>3. CASE Exit(t) \/ Forget(t)
  BY <1>3 DEF Exit, Forget
<1>4. CASE Collect(t)
  BY <1>4 DEF Collect, CollectorInv
<1>5. CASE Announce(t)
  BY <1>5 DEF Announce, CollectorInv, MemberInv
<1>6. CASE Ask(t)
  BY <1>6 DEF Ask, CollectorInv, MemberInv
<1>7. CASE AskedAll(t) \/ Arrived(t) \/ Wait(t) \/ Abandon(t) \/ Swept(t)
  BY <1>7 DEF AskedAll, Arrived, Wait, Abandon, Swept
<1>8. CASE Resume(t) \/ Unlock(t)
  BY <1>8 DEF Resume, Unlock, CollectorInv
<1>9. CASE TakeBit(t) \/ Park(t) \/ Unpark(t)
  BY <1>9 DEF TakeBit, Park, Unpark
<1> QED BY <1>1, <1>2, <1>3, <1>4, <1>5, <1>6, <1>7, <1>8, <1>9, Zenon DEF Advance, Program

\* Every step keeps the count exact.
LEMMA CountStep ==
  ASSUME IndInv, NEW t \in Threads, Advance(t) \/ Program(t) \/ TakeBit(t)
  PROVE  CountExact'
<1> USE DEF IndInv, TypeOK, Goto, world
<1>1. CASE Announce(t)
  <2>1. Here' = {}
    BY <1>1, MaxStopsIsNat DEF Announce, MemberInv, Here
  <2> QED BY <1>1, <2>1, FS_EmptySet DEF Announce, CountExact
<1>2. CASE Park(t)
  <2>1. CASE stopped
    <3>1. Here' = Here \cup {t} /\ t \notin Here /\ parked' = parked + 1
      BY <1>2, <2>1 DEF Park, Here
    <3>2. Cardinality(Here \cup {t}) = Cardinality(Here) + 1
      BY <3>1, Finite, FS_AddElement, Zenon DEF Here
    <3> QED BY <2>1, <3>1, <3>2 DEF CountExact
  <2>2. CASE ~stopped
    BY <1>2, <2>2 DEF Park, CountExact
  <2> QED BY <2>1, <2>2
<1>3. CASE Unpark(t)
  <2>1. stopped => Here' = Here
    BY <1>3 DEF Unpark, Here
  <2> QED BY <1>3, <2>1 DEF Unpark, CountExact
<1>4. CASE Resume(t)
  BY <1>4 DEF Resume, CountExact
<1>5. CASE \/ Attach(t) \/ Recv(t) \/ Ask(t) \/ AskedAll(t) \/ Arrived(t) \/ Wait(t)
           \/ Abandon(t) \/ Swept(t) \/ Unlock(t) \/ Program(t) \/ TakeBit(t)
  <2>1. UNCHANGED world
    BY <1>5, Zenon DEF Attach, Recv, Ask, AskedAll, Arrived, Wait, Abandon, Swept, Unlock,
      Program, Spawn, Block, Return, Sleep, Exit, Forget, Collect, TakeBit
  <2>2. \A u \in Threads : pc'[u] = "parked" <=> pc[u] = "parked"
    BY <1>5, Zenon DEF Attach, Recv, Ask, AskedAll, Arrived, Wait, Abandon, Swept, Unlock,
      Program, Spawn, Block, Return, Sleep, Exit, Forget, Collect, TakeBit
  <2>3. mine' = mine
    BY <1>5, Zenon DEF Attach, Recv, Ask, AskedAll, Arrived, Wait, Abandon, Swept, Unlock,
      Program, Spawn, Block, Return, Sleep, Exit, Forget, Collect, TakeBit
  <2>4. Here' = Here
    BY <2>1, <2>2, <2>3 DEF Here
  <2> QED BY <2>1, <2>4 DEF CountExact
<1> QED BY <1>1, <1>2, <1>3, <1>4, <1>5 DEF Advance

\* Every step keeps the asked parked: as many parked as were asked, and only
\* asked threads among them, so exactly the asked.
LEMMA ParkedStep ==
  ASSUME IndInv, NEW t \in Threads, Advance(t) \/ Program(t) \/ TakeBit(t)
  PROVE  AskedAreParked'
<1> USE NoneIsNoThread, MaxStopsIsNat DEF IndInv, TypeOK, Goto, world
<1>1. CASE Arrived(t)
  <2>1. stopped /\ collecting = t /\ toAsk = {} /\ t \notin Here
    BY <1>1 DEF Arrived, CollectorInv, AskedInv, InStop, InPass, Here
  <2>2. Here \subseteq asked
    BY <2>1 DEF AskedInv, Coming
  <2>3. Cardinality(Here) >= Cardinality(asked)
    BY <1>1, <2>1 DEF Arrived, CountExact
  <2>4. IsFiniteSet(asked) /\ Cardinality(Here) \in Nat /\ Cardinality(asked) \in Nat
    BY Finite DEF Here
  <2>5. Here = asked
    BY <2>2, <2>3, <2>4, FS_Subset
  <2>6. Here' = Here /\ asked' = asked
    BY <1>1 DEF Arrived, Here
  <2> QED BY <2>5, <2>6 DEF AskedAreParked
<1>2. CASE Park(t) \/ Unpark(t) \/ TakeBit(t)
  BY <1>2 DEF Park, Unpark, TakeBit, AskedAreParked, Here, CollectorInv, InStop
<1>3. CASE Announce(t) \/ Ask(t) \/ AskedAll(t) \/ Wait(t) \/ Abandon(t) \/ Swept(t)
           \/ Resume(t) \/ Unlock(t) \/ Collect(t)
  <2>1. \A u \in Threads : pc'[u] # "sweep"
    BY <1>3 DEF Announce, Ask, AskedAll, Wait, Abandon, Swept, Resume, Unlock, Collect,
      CollectorInv, InStop, InPass
  <2> QED BY <2>1 DEF AskedAreParked
<1>4. CASE Attach(t) \/ Recv(t) \/ Spawn(t) \/ Block(t) \/ Return(t) \/ Sleep(t)
           \/ Exit(t) \/ Forget(t)
  BY <1>4 DEF Attach, Recv, Spawn, Block, Return, Sleep, Exit, Forget, AskedAreParked, Here
<1> QED BY <1>1, <1>2, <1>3, <1>4 DEF Advance, Program

\* Every step keeps the invariant.
LEMMA NextInd == IndInv /\ [Next]_vars => IndInv'
<1> SUFFICES ASSUME IndInv, [Next]_vars PROVE IndInv'
  OBVIOUS
<1>1. CASE UNCHANGED vars
  BY <1>1 DEF vars, world, IndInv, TypeOK, CollectorInv, MemberInv, AskedInv, Coming, Here,
    CountExact, AskedAreParked
<1>2. CASE Next
  <2> PICK t \in Threads : Advance(t) \/ Program(t) \/ TakeBit(t)
    BY <1>2 DEF Next
  <2> QED
    BY TypeStep, CollectorStep, MemberStep, AskedStep, CountStep, ParkedStep DEF IndInv
<1> QED BY <1>1, <1>2

-----------------------------------------------------------------------------

\* The inductive invariant of the rendezvous holds in every state.
THEOREM RendezvousInvariant == Spec => []IndInv
BY InitInd, NextInd, PTL DEF Spec

\* World, the members and the collector's lists keep their types: the count of
\* parked threads never goes below zero.
THEOREM RendezvousTypeOK == Spec => []TypeOK
<1>1. IndInv => TypeOK
  BY DEF IndInv
<1> QED BY <1>1, RendezvousInvariant, PTL

\* For any number of threads and stops, the count stop_the_world waits on is
\* the number of threads parked in this stop.
THEOREM RendezvousCountExact == Spec => []CountExact
<1>1. IndInv => CountExact
  BY DEF IndInv
<1> QED BY <1>1, RendezvousInvariant, PTL

\* For any number of threads and stops, every thread the collector asked is
\* parked for the length of the pass.
THEOREM RendezvousAskedAreParked == Spec => []AskedAreParked
<1>1. IndInv => AskedAreParked
  BY DEF IndInv
<1> QED BY <1>1, RendezvousInvariant, PTL

-----------------------------------------------------------------------------
(* Collector. *)

\* Every reference is to a node that has not been dropped.
NoDangling == \A s \in Slots : val[s] # Nil => val[s] \in alive

\* Of any immutable nodes, one is owned by none of them.
NoFixedRing ==
  \A C \in SUBSET Fixed : C # {} =>
    \E c \in C : \A s \in Slots : val[s] = c => OwnerOf[s] \notin C

\* A reclaimed node that is still there has only reclaimed, immutable owners.
CorpsesKept ==
  \A s \in Slots : val[s] \in corpses \cap alive
                     => OwnerOf[s] \in corpses \cap alive \cap Fixed

\* The owners of n that are not in a node already walked.
Unwalked(n) == {s \in Slots : val[s] = n /\ OwnerOf[s] \notin nodes \ todo}

\* m owns n.
Owns(m, n) == \E s \in Slots : OwnerOf[s] = m /\ val[s] = n

\* The walk so far: counts and edges are those of the nodes it has been to.
WalkExact ==
  stage = "visit" =>
    /\ \A n \in nodes : unexplained[n] = Cardinality(Unwalked(n))
    /\ \A m, n \in nodes :
         <<m, n>> \in edges
           <=> m \notin todo /\ Owns(m, n)

\* The marking so far: it has, or is about to have, what an unregistered owner
\* or a marked node owns, and nothing that is not pinned.
MarkExact ==
  stage = "mark" =>
    /\ todo = {}
    /\ \A m, n \in nodes :
         <<m, n>> \in edges <=> Owns(m, n)
    /\ \A s \in Slots :
         OwnerOf[s] \notin nodes \ live /\ val[s] \in nodes => val[s] \in live \cup stack
    /\ live \cup stack \subseteq Pinned

\* Nothing is dropped while a pass is under way, and the pass leaves nothing.
PassQuiet ==
  /\ stage # "idle" => Dying = {}
  /\ stage \in {"idle", "count"} => todo = {} /\ live = {} /\ stack = {} /\ edges = {}
  /\ stage = "idle" => nodes = {}
  /\ stage = "visit" => live = {} /\ stack = {}

Inv ==
  /\ HeapTypeOK /\ NoDangling /\ NoFixedRing /\ CorpsesKept
  /\ WalkExact /\ MarkExact /\ PassQuiet

-----------------------------------------------------------------------------

\* Any set of slots is finite, and its cardinality a number.
LEMMA SlotSets ==
  ASSUME NEW A \in SUBSET Slots
  PROVE  IsFiniteSet(A) /\ Cardinality(A) \in Nat /\ (Cardinality(A) = 0 <=> A = {})
<1>1. IsFiniteSet(A)
  BY SlotsFinite, FS_Subset
<1> QED
  BY <1>1, FS_CardinalityType, FS_EmptySet

\* Once nothing is dying, what a sweep reclaimed is gone: the immutable nodes
\* left of it would be a ring.
LEMMA CorpsesGone ==
  ASSUME Inv, Dying = {}, nodes = {} \/ corpses \cap alive = {}
  PROVE  corpses \cap alive = {}
<1>1. SUFFICES ASSUME nodes = {}, corpses \cap alive # {} PROVE FALSE
  OBVIOUS
<1> DEFINE C == corpses \cap alive \cap Fixed
<1>2. \A n \in corpses \cap alive : \E s \in Slots : val[s] = n /\ OwnerOf[s] \in C
  BY <1>1 DEF Inv, CorpsesKept, Dying, Owners
<1>3. C # {}
  BY <1>1, <1>2
<1>4. C \in SUBSET Fixed
  OBVIOUS
<1>5. PICK c \in C : \A s \in Slots : val[s] = c => OwnerOf[s] \notin C
  BY <1>3, <1>4, Zenon DEF Inv, NoFixedRing
<1> QED
  BY <1>2, <1>5

\* The initial states satisfy the invariant: there is no node.
LEMMA InitInv == HeapInit => Inv
<1> SUFFICES ASSUME HeapInit PROVE Inv
  OBVIOUS
<1> USE NotNodes, OwnersType, FixedAreNodes DEF HeapInit
<1>1. HeapTypeOK
  BY DEF HeapTypeOK
<1>2. NoDangling /\ CorpsesKept
  BY DEF NoDangling, CorpsesKept
<1>3. NoFixedRing
  BY DEF NoFixedRing
<1>4. WalkExact /\ MarkExact /\ PassQuiet
  BY DEF WalkExact, MarkExact, PassQuiet
<1> QED
  BY <1>1, <1>2, <1>3, <1>4 DEF Inv

\* The program's steps: between two passes, and with nothing dying, so that
\* nothing is left of the last one.
LEMMA ProgramInv ==
  ASSUME Inv, ~Missed,
         \/ \E n \in Nodes : New(n) \/ Publish(n)
         \/ \E s \in Fields(Outside), n \in Nodes : EachObject(s, n)
         \/ Store
  PROVE  Inv'
<1>1. /\ stage = "idle" /\ Dying = {} /\ nodes = {} /\ todo = {}
      /\ live = {} /\ stack = {} /\ edges = {}
  BY DEF Inv, PassQuiet, New, Publish, EachObject, Store, Running
<1>2. corpses \cap alive = {}
  BY <1>1, CorpsesGone
<1>3. UNCHANGED <<stage, nodes, unexplained, todo, edges, live, stack>>
  BY DEF New, Publish, EachObject, Store, pass
<1>types. /\ HeapTypeOK /\ NoDangling /\ NoFixedRing
          /\ val \in [Slots -> Nodes \cup {Nil}]
  BY DEF Inv, HeapTypeOK
<1>4. CASE \E n \in Nodes : New(n)
  <2>1. PICK n \in Nodes : New(n)
    BY <1>4
  <2>2. n \notin alive /\ alive' = alive \cup {n} /\ corpses' = corpses \ {n}
        /\ published' \in {published, published \cup {n}}
    BY <2>1, SMTT(20) DEF New
  <2>3. PICK s \in Fields(Outside), given \in [Fields(n) -> Reachable \cup {Nil}] :
          val' = [t \in Slots |-> IF t = s THEN n
                                  ELSE IF OwnerOf[t] = n THEN given[t] ELSE val[t]]
    <3>1. PICK s \in Fields(Outside),
              given \in [Fields(n) -> IF n \in Fixed THEN Reachable \cup {Nil} ELSE {Nil}] :
            val' = [t \in Slots |-> IF t = s THEN n
                                    ELSE IF t \in Fields(n) THEN given[t] ELSE val[t]]
      BY <2>1, Zenon DEF New
    <3>2. given \in [Fields(n) -> Reachable \cup {Nil}]
      <4>1. (IF n \in Fixed THEN Reachable \cup {Nil} ELSE {Nil}) \subseteq Reachable \cup {Nil}
        BY Zenon
      <4> QED
        BY <3>1, <4>1, Zenon
    <3>3. val' = [t \in Slots |-> IF t = s THEN n
                                  ELSE IF OwnerOf[t] = n THEN given[t] ELSE val[t]]
      BY <3>1, Zenon DEF Fields
    <3> QED
      BY <3>2, <3>3, Zenon
  <2>4. \A t \in Slots : OwnerOf[t] = n => given[t] \in alive \cup {Nil}
    <3>1. Closed(alive)
      BY <1>types DEF NoDangling, Closed
    <3>2. \A t \in Slots : OwnerOf[t] = n => given[t] \in Reachable \cup {Nil}
      BY <2>3 DEF Fields
    <3> QED
      BY <3>1, <3>2, <1>types DEF Reachable, HeapTypeOK
  <2>5. HeapTypeOK'
    BY <1>types, <1>3, <2>2, <2>3, <2>4 DEF HeapTypeOK
  <2>6. NoDangling'
    BY <1>types, <2>2, <2>3, <2>4 DEF NoDangling
  <2>7. CorpsesKept'
    BY <1>2, <2>2 DEF CorpsesKept
  <2>8. NoFixedRing'
    <3> SUFFICES ASSUME NEW C \in SUBSET Fixed, C # {}
                 PROVE  \E c \in C : \A t \in Slots : val'[t] = c => OwnerOf[t] \notin C
      BY Zenon DEF NoFixedRing
    <3>s. OwnerOf[s] = Outside /\ Outside \notin C
      BY <2>3, NotNodes, FixedAreNodes DEF Fields
    <3>n. n # Nil
      BY NotNodes
    <3>1. CASE n \in C
      <4>1. \A t \in Slots : val'[t] = n => t = s
        BY <2>2, <2>3, <2>4, <1>types, <3>n DEF NoDangling
      <4> QED
        BY <3>1, <3>s, <4>1
    <3>2. CASE n \notin C
      <4>1. PICK c \in C : \A t \in Slots : val[t] = c => OwnerOf[t] \notin C
        BY <1>types, Zenon DEF NoFixedRing
      <4>2. \A t \in Slots : OwnerOf[t] \in C => val'[t] = val[t]
        BY <2>3, <3>2, <3>s
      <4> QED
        BY <4>1, <4>2
    <3> QED
      BY <3>1, <3>2
  <2> QED
    BY <1>1, <1>3, <2>5, <2>6, <2>7, <2>8
       DEF Inv, WalkExact, MarkExact, PassQuiet
<1>5. CASE \E n \in Nodes : Publish(n)
  <2>1. UNCHANGED <<val, alive, corpses>> /\ published' \subseteq alive /\ published \subseteq published'
    BY <1>5, <1>types DEF Publish, pass, HeapTypeOK
  <2>2. HeapTypeOK'
    BY <1>types, <1>3, <2>1 DEF HeapTypeOK
  <2>3. NoDangling' /\ NoFixedRing' /\ CorpsesKept'
    BY <2>1 DEF Inv, NoDangling, NoFixedRing, CorpsesKept
  <2> QED
    BY <1>1, <1>3, <2>2, <2>3 DEF Inv, WalkExact, MarkExact, PassQuiet
<1>6. CASE Store \/ \E s \in Fields(Outside), n \in Nodes : EachObject(s, n)
  <2>1. PICK s \in Slots, v \in alive \cup {Nil} :
          OwnerOf[s] \notin Fixed /\ val' = [val EXCEPT ![s] = v]
    <3>1. CASE Store
      <4>1. PICK s \in Slots, v \in Reachable \cup {Nil} :
              OwnerOf[s] \in (Reachable \ Fixed) \cup {Outside} /\ val' = [val EXCEPT ![s] = v]
        BY <3>1, Zenon DEF Store
      <4>2. Closed(alive)
        BY <1>types DEF NoDangling, Closed
      <4>3. v \in alive \cup {Nil}
        BY <4>1, <4>2, <1>types DEF Reachable, HeapTypeOK
      <4> QED
        BY <4>1, <4>3, NotNodes, FixedAreNodes, Zenon
    <3>2. CASE \E s \in Fields(Outside), n \in Nodes : EachObject(s, n)
      <4>1. PICK s \in Fields(Outside), n \in Nodes : EachObject(s, n)
        BY <3>2
      <4>2. n \in alive
        BY <4>1, <1>types DEF EachObject, FlushLocal, HeapTypeOK
      <4> QED
        BY <4>1, <4>2, NotNodes, FixedAreNodes, Zenon DEF EachObject, Fields
    <3> QED
      BY <1>6, <3>1, <3>2
  <2>2. alive' = alive /\ corpses' = corpses /\ published' \subseteq alive
        /\ published \subseteq published'
    BY <1>6, <1>types DEF Store, EachObject, FlushLocal, pass, HeapTypeOK
  <2>3. HeapTypeOK'
    BY <1>types, <1>3, <2>1, <2>2 DEF HeapTypeOK
  <2>4. NoDangling'
    BY <1>types, <2>1, <2>2 DEF NoDangling
  <2>5. CorpsesKept'
    BY <1>2, <2>2, Zenon DEF CorpsesKept
  <2>6. NoFixedRing'
    <3> SUFFICES ASSUME NEW C \in SUBSET Fixed, C # {}
                 PROVE  \E c \in C : \A t \in Slots : val'[t] = c => OwnerOf[t] \notin C
      BY DEF NoFixedRing
    <3>1. PICK c \in C : \A t \in Slots : val[t] = c => OwnerOf[t] \notin C
      BY <1>types DEF NoFixedRing
    <3>2. \A t \in Slots : OwnerOf[t] \in C => val'[t] = val[t]
      BY <2>1, <1>types
    <3> QED
      BY <3>1, <3>2
  <2> QED
    BY <1>1, <1>3, <2>3, <2>4, <2>5, <2>6 DEF Inv, WalkExact, MarkExact, PassQuiet
<1> QED
  BY <1>4, <1>5, <1>6

\* A drop: nothing pointed at the node, and its own references go with it.
LEMMA DropInv ==
  ASSUME Inv, NEW n \in Nodes, Drop(n)
  PROVE  Inv'
<1>1. /\ stage = "idle" /\ nodes = {} /\ todo = {} /\ live = {} /\ stack = {} /\ edges = {}
  BY Zenon DEF Inv, PassQuiet, Drop
<1>2. UNCHANGED pass /\ alive' = alive \ {n} /\ published' = published \ {n}
      /\ val' = [s \in Slots |-> IF OwnerOf[s] = n THEN Nil ELSE val[s]]
  BY DEF Drop
<1>3. \A s \in Slots : val[s] # n
  BY DEF Drop, Dying, Owners
<1>types. /\ HeapTypeOK /\ NoDangling /\ NoFixedRing /\ CorpsesKept
          /\ val \in [Slots -> Nodes \cup {Nil}]
  BY DEF Inv, HeapTypeOK
<1>4. HeapTypeOK'
  BY <1>1, <1>2, <1>types DEF HeapTypeOK, pass
<1>5. NoDangling'
  BY <1>2, <1>3, <1>types DEF NoDangling
<1>6. NoFixedRing'
  <2>1. \A s \in Slots : val'[s] \in {val[s], Nil}
    BY <1>2
  <2>2. \A C \in SUBSET Fixed : \A c \in C, s \in Slots : val'[s] = c => val[s] = c
    BY <2>1, NotNodes, FixedAreNodes
  <2> QED
    BY <2>2, <1>types, Zenon DEF NoFixedRing
<1>7. CorpsesKept'
  BY <1>2, <1>types, NotNodes DEF CorpsesKept, pass, HeapTypeOK
<1> QED
  BY <1>1, <1>2, <1>4, <1>5, <1>6, <1>7, Zenon DEF Inv, WalkExact, MarkExact, PassQuiet, pass

\* A step of the pass that leaves the heap alone keeps what is about the heap.
LEMMA HeapKept ==
  ASSUME Inv, UNCHANGED <<val, alive, corpses>>
  PROVE  NoDangling' /\ NoFixedRing' /\ CorpsesKept'
BY DEF Inv, NoDangling, NoFixedRing, CorpsesKept

\* The snapshot: every node the registry has, and nothing is dying.
LEMMA SnapshotInv ==
  ASSUME Inv, Snapshot
  PROVE  Inv'
<1>1. /\ stage = "idle" /\ Dying = {} /\ todo = {} /\ live = {} /\ stack = {} /\ edges = {}
  BY DEF Inv, PassQuiet, Snapshot
<1>2. /\ UNCHANGED <<val, alive, unexplained, todo, edges, live, stack, corpses>>
      /\ published' \subseteq alive /\ nodes' = published'
      /\ stage' = IF nodes' = {} THEN "idle" ELSE "count"
  BY DEF Snapshot, FlushLocal, Inv, HeapTypeOK
<1>3. HeapTypeOK'
  BY <1>1, <1>2 DEF Inv, HeapTypeOK
<1>4. nodes = {}
  BY <1>1 DEF Inv, PassQuiet
<1>5. PassQuiet'
  BY <1>1, <1>2, <1>4 DEF PassQuiet, Dying, Owners
<1> QED
  BY <1>2, <1>3, <1>5, HeapKept DEF Inv, WalkExact, MarkExact

\* Before the walk every owner is one the walk has not explained.
LEMMA CountInv ==
  ASSUME Inv, Count
  PROVE  Inv'
<1>1. /\ stage = "count" /\ live = {} /\ stack = {} /\ Dying = {}
  BY DEF Inv, PassQuiet, Count
<1>2. /\ UNCHANGED <<val, alive, published, nodes, live, stack, corpses>>
      /\ todo' = nodes /\ edges' = {} /\ stage' = "visit"
      /\ unexplained' = [n \in Nodes |-> IF n \in nodes THEN Cardinality(Owners(n)) ELSE 0]
  BY DEF Count, heap
<1>3. \A n \in nodes : Cardinality(Owners(n)) \in Nat
  BY SlotSets DEF Owners
<1>types. HeapTypeOK /\ nodes \subseteq Nodes
  BY DEF Inv, HeapTypeOK
<1>4. HeapTypeOK'
  BY <1>1, <1>2, <1>3, <1>types DEF HeapTypeOK
<1>5. \A n \in nodes : Unwalked(n)' = Owners(n)
  BY <1>2, Zenon DEF Unwalked, Owners
<1>6. WalkExact'
  BY <1>2, <1>5, <1>types DEF WalkExact
<1>7. PassQuiet'
  BY <1>1, <1>2 DEF PassQuiet, Dying, Owners
<1> QED
  BY <1>2, <1>4, <1>6, <1>7, HeapKept DEF Inv, MarkExact

\* Walking m explains exactly the owners that are fields of m.
LEMMA VisitInv ==
  ASSUME Inv, NEW m \in Nodes, Visit(m)
  PROVE  Inv'
<1>1. /\ stage = "visit" /\ live = {} /\ stack = {} /\ Dying = {} /\ m \in todo /\ m \in nodes
  BY DEF Inv, PassQuiet, Visit, HeapTypeOK
<1>2. /\ UNCHANGED <<val, alive, published, stage, nodes, live, stack, corpses>>
      /\ todo' = todo \ {m}
      /\ edges' = edges \cup ({m} \X ({val[s] : s \in Fields(m)} \cap nodes))
      /\ unexplained' = [n \in Nodes |->
           unexplained[n] - IF n \in nodes THEN Cardinality(Owners(n) \cap Fields(m)) ELSE 0]
  BY Zenon DEF Visit, heap
<1>types. HeapTypeOK /\ nodes \subseteq Nodes
  BY DEF Inv, HeapTypeOK
<1>3. \A n \in nodes : Cardinality(Owners(n) \cap Fields(m)) \in Nat
  BY SlotSets DEF Owners
<1>4. HeapTypeOK'
  <2>1. unexplained' \in [Nodes -> Int]
    BY <1>2, <1>3, <1>types DEF HeapTypeOK
  <2>2. edges' \subseteq nodes \X nodes
    BY <1>1, <1>2, <1>types DEF HeapTypeOK
  <2> QED
    BY <1>2, <1>types, <2>1, <2>2 DEF HeapTypeOK
<1>5. ASSUME NEW n \in nodes PROVE unexplained'[n] = Cardinality(Unwalked(n)')
  <2>1. Unwalked(n)' = Unwalked(n) \ (Owners(n) \cap Fields(m))
    BY <1>1, <1>2 DEF Unwalked, Owners, Fields
  <2>2. Unwalked(n) \cap (Owners(n) \cap Fields(m)) = Owners(n) \cap Fields(m)
    BY <1>1 DEF Unwalked, Owners, Fields
  <2>3. IsFiniteSet(Unwalked(n))
    BY SlotSets DEF Unwalked
  <2>4. Cardinality(Unwalked(n)')
          = Cardinality(Unwalked(n)) - Cardinality(Owners(n) \cap Fields(m))
    <3>1. ASSUME NEW A, NEW B, IsFiniteSet(A), A \cap B = B
          PROVE  Cardinality(A \ B) = Cardinality(A) - Cardinality(B)
      BY <3>1, FS_Difference, Zenon
    <3> QED
      BY <2>1, <2>2, <2>3, <3>1
  <2>5. unexplained[n] = Cardinality(Unwalked(n))
    BY <1>1 DEF Inv, WalkExact
  <2> QED
    BY <1>2, <1>types, <2>4, <2>5
<1>6. ASSUME NEW k \in nodes, NEW n \in nodes
      PROVE  <<k, n>> \in edges'
               <=> k \notin todo' /\ Owns(k, n)
  <2>1. <<k, n>> \in edges
          <=> k \notin todo /\ Owns(k, n)
    BY <1>1 DEF Inv, WalkExact
  <2>2. <<k, n>> \in {m} \X ({val[s] : s \in Fields(m)} \cap nodes)
          <=> k = m /\ Owns(k, n)
    BY DEF Fields, Owns
  <2> QED
    BY <1>1, <1>2, <2>1, <2>2
<1>7. WalkExact'
  <2>1. (\A n \in nodes : unexplained[n] = Cardinality(Unwalked(n)))'
    BY <1>2, <1>5
  <2>2. (\A k, n \in nodes :
           <<k, n>> \in edges
             <=> k \notin todo /\ Owns(k, n))'
    <3>1. nodes' = nodes /\ \A k, n : Owns(k, n)' <=> Owns(k, n)
      BY <1>2 DEF Owns
    <3> QED
      BY <3>1, <1>6, Zenon
  <2> QED
    BY <2>1, <2>2 DEF WalkExact
<1>8. PassQuiet'
  BY <1>1, <1>2 DEF PassQuiet, Dying, Owners
<1> QED
  BY <1>1, <1>2, <1>4, <1>7, <1>8, HeapKept DEF Inv, MarkExact

\* The walk over, a count is the number of owners outside the snapshot.
LEMMA RootsInv ==
  ASSUME Inv, Roots
  PROVE  Inv'
<1>1. /\ stage = "visit" /\ todo = {} /\ Dying = {}
  BY DEF Inv, PassQuiet, Roots
<1>2. /\ UNCHANGED <<val, alive, published, nodes, unexplained, todo, edges, corpses>>
      /\ stack' = {n \in nodes : unexplained[n] > 0} /\ live' = {} /\ stage' = "mark"
  BY DEF Roots, heap
<1>3. HeapTypeOK'
  BY <1>2 DEF Inv, HeapTypeOK
<1>4. \A n \in nodes : n \in stack' <=> \E s \in Slots : val[s] = n /\ OwnerOf[s] \notin nodes
  <2> SUFFICES ASSUME NEW n \in nodes
               PROVE  n \in stack' <=> \E s \in Slots : val[s] = n /\ OwnerOf[s] \notin nodes
    OBVIOUS
  <2>1. unexplained[n] = Cardinality(Unwalked(n))
    BY <1>1 DEF Inv, WalkExact
  <2>2. Cardinality(Unwalked(n)) \in Nat /\ (Cardinality(Unwalked(n)) = 0 <=> Unwalked(n) = {})
    BY SlotSets DEF Unwalked
  <2>3. n \in stack' <=> Unwalked(n) # {}
    BY <1>2, <2>1, <2>2
  <2> QED
    BY <1>1, <2>3 DEF Unwalked
<1>5. stack' \subseteq Pinned'
  BY <1>2, <1>4 DEF Pinned, Held
<1>6. MarkExact'
  <2>1. \A k, n \in nodes :
          <<k, n>> \in edges <=> Owns(k, n)
    BY <1>1, Zenon DEF Inv, WalkExact
  <2> QED
    BY <1>1, <1>2, <1>4, <1>5, <2>1 DEF MarkExact, Owns
<1>7. PassQuiet'
  BY <1>1, <1>2 DEF PassQuiet, Dying, Owners
<1> QED
  BY <1>2, <1>3, <1>6, <1>7, HeapKept DEF Inv, WalkExact

\* Marking n: what it owns is pinned with it.
LEMMA MarkInv ==
  ASSUME Inv, NEW n \in Nodes, Mark(n)
  PROVE  Inv'
<1>1. /\ stage = "mark" /\ todo = {} /\ Dying = {} /\ n \in stack /\ n \in nodes
  BY DEF Inv, PassQuiet, MarkExact, Mark, HeapTypeOK
<1>2. /\ UNCHANGED <<val, alive, published, stage, nodes, unexplained, todo, edges, corpses>>
      /\ live' = live \cup {n}
      /\ stack' = (stack \ {n}) \cup {t \in nodes : <<n, t>> \in edges /\ n \notin live}
  BY DEF Mark, heap
<1>3. HeapTypeOK'
  BY <1>1, <1>2 DEF Inv, HeapTypeOK
<1>4. /\ \A k, t \in nodes :
           <<k, t>> \in edges <=> Owns(k, t)
      /\ \A s \in Slots :
           OwnerOf[s] \notin nodes \ live /\ val[s] \in nodes => val[s] \in live \cup stack
      /\ live \cup stack \subseteq Pinned
  BY <1>1 DEF Inv, MarkExact
<1>5. \A s \in Slots :
        OwnerOf[s] \notin nodes \ live' /\ val[s] \in nodes => val[s] \in live' \cup stack'
  BY <1>1, <1>2, <1>4, Zenon DEF Owns
<1>6. live' \cup stack' \subseteq Pinned
  <2>1. ASSUME NEW t \in nodes, <<n, t>> \in edges PROVE t \in Pinned
    <3>1. PICK s \in Slots : OwnerOf[s] = n /\ val[s] = t
      BY <1>1, <1>4, <2>1 DEF Owns
    <3>2. n \in Pinned
      BY <1>1, <1>4
    <3> QED
      BY <3>1, <3>2 DEF Pinned, Held
  <2> QED
    BY <1>1, <1>2, <1>4, <2>1, Zenon
<1>7. MarkExact'
  BY <1>1, <1>2, <1>4, <1>5, <1>6 DEF MarkExact, Pinned, Held, Owns
<1>8. PassQuiet'
  BY <1>1, <1>2 DEF PassQuiet, Dying, Owners
<1> QED
  BY <1>1, <1>2, <1>3, <1>7, <1>8, HeapKept DEF Inv, WalkExact

\* The sweep: an owner of a node it reclaims is one it reclaims too, and is
\* emptied unless it is immutable.
LEMMA SweepInv ==
  ASSUME Inv, Sweep
  PROVE  Inv'
<1>1. /\ stage = "mark" /\ todo = {} /\ stack = {}
  BY Zenon DEF Inv, MarkExact, Sweep
<1>2. /\ UNCHANGED <<alive, published, todo, stack>>
      /\ val' = [s \in Slots |-> IF OwnerOf[s] \in (nodes \ live) \ Fixed THEN Nil ELSE val[s]]
      /\ corpses' = nodes \ live /\ nodes' = {} /\ edges' = {} /\ live' = {}
      /\ unexplained' = [n \in Nodes |-> 0] /\ stage' = "idle"
  BY Zenon DEF Sweep
<1>types. /\ HeapTypeOK /\ NoDangling /\ NoFixedRing
          /\ nodes \subseteq alive /\ nodes \subseteq Nodes
          /\ val \in [Slots -> Nodes \cup {Nil}]
  BY DEF Inv, HeapTypeOK
<1>3. HeapTypeOK'
  BY <1>1, <1>2, <1>types DEF HeapTypeOK
<1>4. NoDangling'
  BY <1>2, <1>types DEF NoDangling
<1>5. NoFixedRing'
  BY <1>2, <1>types, NotNodes, FixedAreNodes DEF NoFixedRing
<1>6. CorpsesKept'
  <2>1. \A s \in Slots :
          OwnerOf[s] \notin nodes \ live /\ val[s] \in nodes => val[s] \in live
    BY <1>1 DEF Inv, MarkExact
  <2> QED
    BY <1>2, <2>1, <1>types, NotNodes DEF CorpsesKept
<1> QED
  BY <1>1, <1>2, <1>3, <1>4, <1>5, <1>6, Zenon DEF Inv, WalkExact, MarkExact, PassQuiet

\* A step that changes nothing.
LEMMA StutterInv ==
  ASSUME Inv, UNCHANGED heapVars
  PROVE  Inv'
BY DEF Inv, HeapTypeOK, NoDangling, NoFixedRing, CorpsesKept, WalkExact, MarkExact,
       PassQuiet, Unwalked, Owns, Pinned, Held, Dying, Owners, heapVars, heap, pass

\* Inv is inductive when every other thread is stopped.
LEMMA NextInv ==
  ASSUME Inv, ~Missed, [HeapNext]_heapVars
  PROVE  Inv'
BY ProgramInv, DropInv, SnapshotInv, CountInv, VisitInv, RootsInv, MarkInv, SweepInv,
   StutterInv DEF HeapNext

-----------------------------------------------------------------------------

\* Every reachable state satisfies the invariant.
THEOREM InvHolds ==
  ASSUME ~Missed
  PROVE  HeapSpec => []Inv
BY InitInv, NextInv, PTL DEF HeapSpec

\* The cycle collector is sound: collect_census empties no node that the
\* program can get at, whatever the heap, and whatever of it is registered.
THEOREM CollectorSound ==
  ASSUME ~Missed
  PROVE  HeapSpec => []NeverClearsLive
<1>1. ASSUME Inv PROVE NeverClearsLive
  <2> SUFFICES ASSUME Decided PROVE Reachable \cap nodes \subseteq live
    BY DEF NeverClearsLive
  <2> DEFINE S == (Nodes \ nodes) \cup live
  <2>1. \A s \in Slots :
          OwnerOf[s] \notin nodes \ live /\ val[s] \in nodes => val[s] \in live
    BY <1>1, Zenon DEF Inv, MarkExact, Decided
  <2>2. Closed(S)
    BY <1>1, <2>1, NotNodes DEF Closed, Inv, HeapTypeOK
  <2>3. S \in SUBSET Nodes
    BY <1>1 DEF Inv, HeapTypeOK
  <2> QED
    BY <2>2, <2>3 DEF Reachable
<1> QED
  BY <1>1, InvHolds, PTL

\* It is complete: a registered node survives a pass only if an owner that is
\* not registered keeps it, directly or through others.
THEOREM CollectorComplete ==
  ASSUME ~Missed
  PROVE  HeapSpec => []ClearsGarbage
<1>1. Inv => ClearsGarbage
  BY DEF Inv, MarkExact, ClearsGarbage, Decided
<1> QED
  BY <1>1, InvHolds, PTL

\* Its self-check cannot fail: every node a pass reclaims is freed when the
\* pass lets go of it, though the sweep empties no Proc and no Range.
THEOREM CollectorFrees ==
  ASSUME ~Missed
  PROVE  HeapSpec => []Freed
<1>1. ASSUME Inv PROVE Freed
  BY <1>1, CorpsesGone DEF Freed, Inv, PassQuiet
<1> QED
  BY <1>1, InvHolds, PTL
=============================================================================
