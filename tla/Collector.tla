----------------------------- MODULE Collector -----------------------------
(***************************************************************************)
(* The cycle collector's pass over the allocation registry.  A node is     *)
(* freed when nothing owns it any more; a cycle is not, so a pass looks    *)
(* for registered nodes all of whose owners are registered nodes that      *)
(* nothing else keeps alive, and empties them.  It knows no roots: an      *)
(* owner it cannot see only makes a node live.                             *)
(*                                                                         *)
(* A slot is one place that owns a reference: a field of a node, or        *)
(* anything the walk cannot see (a stack slot, a constant cache, a global, *)
(* a release pool).  The other threads are stopped for the whole pass,     *)
(* which is Rendezvous; Missed says whether one of them was overlooked.    *)
(***************************************************************************)
EXTENDS Integers, FiniteSets

CONSTANTS
  Nodes,       \* heap nodes
  Fixed,       \* those that are immutable: Proc and Range
  Slots,       \* places that own a reference
  OwnerOf,     \* the node a slot is in, or Outside
  Outside,     \* not a node
  Nil,         \* no reference
  Missed       \* whether a thread goes on during the pass

ASSUME SlotsFinite == IsFiniteSet(Slots)
ASSUME OwnersType == OwnerOf \in [Slots -> Nodes \cup {Outside}]
ASSUME NotNodes == Outside \notin Nodes /\ Nil \notin Nodes
ASSUME FixedAreNodes == Fixed \subseteq Nodes
ASSUME MissedIsBool == Missed \in BOOLEAN

VARIABLES
  val,         \* what each slot holds
  alive,       \* nodes allocated and not dropped
  published,   \* nodes in CHUNKS
  stage,       \* where the pass is
  nodes,       \* the snapshot: nodes the pass holds a handle of
  unexplained, \* owners not yet found in the registry
  todo,        \* nodes whose edges have not been walked
  edges,       \* edge_starts and edge_targets
  live, stack, \* the marking
  corpses      \* what the last pass reclaimed

heap == <<val, alive, published>>
pass == <<stage, nodes, unexplained, todo, edges, live, stack, corpses>>
heapVars == <<heap, pass>>

HeapTypeOK ==
  /\ val \in [Slots -> Nodes \cup {Nil}]
  /\ alive \subseteq Nodes /\ published \subseteq alive
  /\ stage \in {"idle", "count", "visit", "mark"}
  /\ nodes \subseteq published
  /\ unexplained \in [Nodes -> Int]
  /\ edges \subseteq nodes \X nodes
  /\ todo \subseteq nodes /\ live \subseteq nodes /\ stack \subseteq nodes
  /\ corpses \subseteq Nodes

HeapInit ==
  /\ val = [s \in Slots |-> Nil]
  /\ alive = {} /\ published = {}
  /\ stage = "idle"
  /\ nodes = {} /\ unexplained = [n \in Nodes |-> 0] /\ todo = {} /\ edges = {}
  /\ live = {} /\ stack = {} /\ corpses = {}

\* Arc's strong count: the slots that hold n.
Owners(n) == {s \in Slots : val[s] = n}
Fields(n) == {s \in Slots : OwnerOf[s] = n}

\* What code can get at, starting from what is outside the heap.
Closed(S) ==
  \A s \in Slots : OwnerOf[s] \in S \cup {Outside} /\ val[s] # Nil => val[s] \in S
Reachable == {n \in Nodes : \A S \in SUBSET Nodes : Closed(S) => n \in S}

\* Nodes whose last owner is gone; the pass keeps those it has a handle of.
Dying == {n \in alive : Owners(n) = {}} \ nodes

\* Ruby code runs; a drop and its cascade are over before anything else.
Running == (stage = "idle" \/ Missed) /\ Dying = {}

-----------------------------------------------------------------------------
(* The program. *)

\* An allocation, stored in an outside slot; an immutable node gets its fields
\* now.  It is recorded, unless its kind never is or recording is still off;
\* the record may stay in another thread's buffer.
New(n) ==
  /\ Running
  /\ n \notin alive
  /\ alive' = alive \cup {n}
  /\ published' \in {published, published \cup {n}}
  /\ \E s \in Fields(Outside),
        given \in [Fields(n) -> IF n \in Fixed THEN Reachable \cup {Nil} ELSE {Nil}] :
       /\ val[s] = Nil
       /\ val' = [t \in Slots |-> IF t = s THEN n
                                  ELSE IF t \in Fields(n) THEN given[t]
                                  ELSE val[t]]
  /\ corpses' = corpses \ {n}
  /\ UNCHANGED <<stage, nodes, unexplained, todo, edges, live, stack>>

\* A buffer that is full, or whose thread ends, is published.
Publish(n) ==
  /\ Running
  /\ n \in alive \ published
  /\ published' = published \cup {n}
  /\ UNCHANGED <<val, alive, pass>>

\* An assignment through any reference the program has.
Store ==
  /\ Running
  /\ LET reach == Reachable
     IN \E s \in Slots, v \in reach \cup {Nil} :
          /\ OwnerOf[s] \in (reach \ Fixed) \cup {Outside}
          /\ val' = [val EXCEPT ![s] = v]
  /\ UNCHANGED <<alive, published, pass>>

\* flush_local: the buffer of the thread that looks is published first.
FlushLocal == published' \in {published \cup own : own \in SUBSET (alive \ published)}

\* ObjectSpace.each_object hands out whatever is registered, garbage included.
EachObject(s, n) ==
  /\ Running
  /\ FlushLocal
  /\ n \in published'
  /\ val' = [val EXCEPT ![s] = n]
  /\ UNCHANGED <<alive, pass>>

\* Arc::drop of a node nobody owns, its fields with it.
Drop(n) ==
  /\ n \in Dying
  /\ alive' = alive \ {n}
  /\ published' = published \ {n}
  /\ val' = [s \in Slots |-> IF OwnerOf[s] = n THEN Nil ELSE val[s]]
  /\ UNCHANGED pass

-----------------------------------------------------------------------------
(* The pass. *)

\* registry::snapshot; without a node there is nothing to do.
Snapshot ==
  /\ stage = "idle"
  /\ Dying = {}
  /\ FlushLocal
  /\ nodes' = published'
  /\ stage' = IF nodes' = {} THEN "idle" ELSE "count"
  /\ UNCHANGED <<val, alive, unexplained, todo, edges, live, stack, corpses>>

\* Every owner count is read before any edge is cloned.
Count ==
  /\ stage = "count"
  /\ unexplained' = [n \in Nodes |-> IF n \in nodes THEN Cardinality(Owners(n)) ELSE 0]
  /\ todo' = nodes
  /\ edges' = {}
  /\ stage' = "visit"
  /\ UNCHANGED <<heap, nodes, live, stack, corpses>>

\* Mutant: an edge is reported once for each field, whatever it holds twice.
VisitOnce(m) ==
  /\ stage = "visit"
  /\ m \in todo
  /\ LET targets == {val[s] : s \in Fields(m)} \cap nodes
     IN /\ unexplained' = [n \in Nodes |->
             unexplained[n] - IF n \in targets THEN 1 ELSE 0]
        /\ edges' = edges \cup ({m} \X targets)
  /\ todo' = todo \ {m}
  /\ UNCHANGED <<heap, stage, nodes, live, stack, corpses>>

\* gc_visit without taking: each reference found explains one owner.
Visit(m) ==
  /\ stage = "visit"
  /\ m \in todo
  /\ unexplained' = [n \in Nodes |->
       unexplained[n] - IF n \in nodes THEN Cardinality(Owners(n) \cap Fields(m)) ELSE 0]
  /\ edges' = edges \cup ({m} \X ({val[s] : s \in Fields(m)} \cap nodes))
  /\ todo' = todo \ {m}
  /\ UNCHANGED <<heap, stage, nodes, live, stack, corpses>>

\* The marking starts at the nodes with an owner the registry cannot account for.
Roots ==
  /\ stage = "visit"
  /\ todo = {}
  /\ stack' = {n \in nodes : unexplained[n] > 0}
  /\ live' = {}
  /\ stage' = "mark"
  /\ UNCHANGED <<heap, nodes, unexplained, todo, edges, corpses>>

\* Mutant: what a live node reaches is not looked at.
MarkRootsOnly(n) ==
  /\ stage = "mark"
  /\ n \in stack
  /\ live' = live \cup {n}
  /\ stack' = stack \ {n}
  /\ UNCHANGED <<heap, stage, nodes, unexplained, todo, edges, corpses>>

Mark(n) ==
  /\ stage = "mark"
  /\ n \in stack
  /\ live' = live \cup {n}
  /\ stack' = (stack \ {n}) \cup {t \in nodes : <<n, t>> \in edges /\ n \notin live}
  /\ UNCHANGED <<heap, stage, nodes, unexplained, todo, edges, corpses>>

\* Mutant: only the nodes without an immutable owner are emptied.
SweepUnfixed ==
  /\ stage = "mark"
  /\ stack = {}
  /\ LET kept == live \cup Fixed \cup {val[s] : s \in {t \in Slots : OwnerOf[t] \in Fixed}}
     IN val' = [s \in Slots |-> IF OwnerOf[s] \in nodes \ kept THEN Nil ELSE val[s]]
  /\ corpses' = nodes \ live
  /\ nodes' = {} /\ edges' = {} /\ live' = {}
  /\ unexplained' = [n \in Nodes |-> 0]
  /\ stage' = "idle"
  /\ UNCHANGED <<alive, published, todo, stack>>

\* gc_visit taking: a node that is not live is emptied if it is mutable; then
\* what was drained, and the pass's own handles, are dropped.
Sweep ==
  /\ stage = "mark"
  /\ stack = {}
  /\ val' = [s \in Slots |-> IF OwnerOf[s] \in (nodes \ live) \ Fixed THEN Nil ELSE val[s]]
  /\ corpses' = nodes \ live
  /\ nodes' = {} /\ edges' = {} /\ live' = {}
  /\ unexplained' = [n \in Nodes |-> 0]
  /\ stage' = "idle"
  /\ UNCHANGED <<alive, published, todo, stack>>

HeapNext ==
  \/ \E n \in Nodes : New(n) \/ Publish(n) \/ Drop(n) \/ Visit(n) \/ Mark(n)
  \/ \E s \in Fields(Outside), n \in Nodes : EachObject(s, n)
  \/ Store \/ Snapshot \/ Count \/ Roots \/ Sweep

HeapSpec == HeapInit /\ [][HeapNext]_heapVars

-----------------------------------------------------------------------------
(* Properties. *)

\* The marking is over and the sweep comes next.
Decided == stage = "mark" /\ stack = {}

\* Nothing the program can still get at is emptied (the collector's question:
\* a node whose owners are not all explained is live, and so is what it
\* reaches), though the pass knows neither the stacks, nor the nodes that were
\* never recorded or are still in another thread's buffer.
NeverClearsLive == Decided => Reachable \cap nodes \subseteq live

\* The registered nodes that an unregistered owner keeps, directly or not.
Held(S) ==
  \A s \in Slots :
    (OwnerOf[s] \notin nodes \/ OwnerOf[s] \in S) /\ val[s] \in nodes => val[s] \in S
Pinned == {n \in nodes : \A S \in SUBSET nodes : Held(S) => n \in S}

\* Whatever is left over is reclaimed: a registered node survives the pass only
\* if something that is not registered keeps it.
ClearsGarbage == Decided => live \subseteq Pinned

\* "a node the pass reclaimed must actually be FREED once the pass lets go of
\* it" (the self-check): also those whose owners are procs and ranges, which
\* the sweep cannot empty.
Freed == stage = "idle" /\ Dying = {} => corpses \cap alive = {}
=============================================================================
