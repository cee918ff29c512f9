------------------------------- MODULE MCSites ------------------------------
(***************************************************************************)
(* The caches at emitted call and constant sites for TLC, in three worlds: *)
(* definitions and a site that sends, definitions and a site that vets, or *)
(* writes of constants and a site that reads one.  A send reads nothing of *)
(* what a vet reads, so the two kinds of site are kept apart.              *)
(***************************************************************************)
EXTENDS Dispatch, TLC

CONSTANTS
  Parent, Child, Mixin,   \* the classes; Child inherits from Parent and includes Mixin
  Fillers, Values, MaxWrites

VARIABLES world, table, epoch, cached, stamp, cpc, value, read, writes, over, raced

K == INSTANCE ConstSites WITH Threads <- Fillers, pc <- cpc

MCClasses == {Parent, Child, Mixin}
MCModules == {Mixin}
MCAbove == [c \in MCClasses |-> IF c = Child THEN MCClasses ELSE {c}]

Symmetric == Permutations(Threads)

constVars == <<table, epoch, cached, stamp, cpc, value, read, writes, over, raced>>
MCvars == <<world, vars, constVars>>

MCInit ==
  /\ world \in {"sends", "vets", "constants"}
  /\ Init /\ (world # "vets" => row = "absent")
  /\ K!Init /\ (world # "constants" => table = None)

Sends == world = "sends" /\ Next /\ row' = row /\ \A t \in Threads : pc'[t] # "word"
Vets == world = "vets" /\ Next /\ \A t \in Threads : pc'[t] # "bit"

MCNext ==
  /\ UNCHANGED world
  /\ \/ (Sends \/ Vets) /\ UNCHANGED constVars
     \/ world = "constants" /\ K!Next /\ UNCHANGED vars

MCSpec == MCInit /\ [][MCNext]_MCvars

\* A constant site that answers from its cache answers what its lookup would,
\* unless it was filled while a write was between its two halves, or a mix-in
\* came after it was (ConstSite::get).
ConstFresh == K!ConstFresh
=============================================================================
