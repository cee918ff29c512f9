----------------------------- MODULE SitesProofs ----------------------------
(***************************************************************************)
(* The caches at emitted sites answer what the tables say, for any number  *)
(* of threads, classes, definitions and writes.                            *)
(*                                                                         *)
(* A constant site and a vet word are the same argument: what a reader     *)
(* found is what the table says for as long as the stamp it read first is  *)
(* the current one, but for the writes that change the table and the stamp *)
(* in two steps.  A send rests on the marks: a class whose chain has       *)
(* changed is in the set, the descendants of a closed class are, and a     *)
(* class in the set is either published or in some thread's hands.         *)
(***************************************************************************)
EXTENDS MCSites, Integers, TLAPS

-----------------------------------------------------------------------------
(* The constant site. *)

ConstPcs == {"run", "insert", "name", "bump", "check", "epoch", "resolve", "fill", "fillraced",
             "stamp"}
Bound == Values \cup {None}

ConstTypeOK ==
  /\ table \in Bound
  /\ epoch \in Nat /\ stamp \in Int /\ stamp <= epoch
  /\ cpc \in [Fillers -> ConstPcs]
  /\ value \in [Fillers -> Bound]
  /\ read \in [Fillers -> Nat]
  /\ over \in [Fillers -> SUBSET Fillers]
  /\ \A t \in Fillers : read[t] <= epoch

\* Nobody is between the epoch and the table, and what was looked up is what
\* the table says, unless a reveal has still to move the epoch.
Settled(v) ==
  /\ \A u \in Fillers : cpc[u] # "insert"
  /\ (\A u \in Fillers : cpc[u] # "bump") => v = table

\* While the epoch a fill read stands: whoever is about to insert was noted,
\* and a value that was looked up past none of them is settled.
FillInd ==
  \A t \in Fillers :
    /\ cpc[t] \in {"fill", "fillraced"} => value[t] # None
    /\ cpc[t] = "stamp" => cached # None
    /\ read[t] = epoch =>
         /\ cpc[t] = "resolve" => {u \in Fillers : cpc[u] = "insert"} \subseteq over[t]
         /\ cpc[t] = "fill" => Settled(value[t])
         /\ cpc[t] = "stamp" /\ ~raced => Settled(cached)

\* So is a stamped one.
SiteInd ==
  /\ cached = None => stamp = K!Unfilled
  /\ K!Trusted /\ ~raced => Settled(cached)

ConstInd == ConstTypeOK /\ FillInd /\ SiteInd

\* Every action of a thread keeps the invariant.
LEMMA ConstStepInd ==
  ASSUME ConstInd, NEW t \in Fillers, K!Step(t)
  PROVE  ConstInd'
<1> USE DEF ConstInd, ConstTypeOK, FillInd, SiteInd, Settled, Bound, ConstPcs, K!Goto, K!Trusted,
        K!Unfilled, K!site, K!locals
<1>1. ASSUME NEW v \in Bound, K!Move(t, v) PROVE ConstInd'
  BY <1>1 DEF K!Move
<1>2. ASSUME NEW v \in Bound, K!Reveal(t, v) PROVE ConstInd'
  BY <1>2 DEF K!Reveal
<1>3. CASE K!Name(t)
  BY <1>3 DEF K!Name
<1>4. CASE K!Insert(t)
  BY <1>4 DEF K!Insert
<1>5. CASE K!Bump(t) \/ K!Elsewhere(t)
  BY <1>5 DEF K!Bump, K!Elsewhere
<1>6. CASE K!Get(t) \/ K!Check(t)
  BY <1>6 DEF K!Get, K!Check
<1>7. CASE K!ReadEpoch(t)
  BY <1>7 DEF K!ReadEpoch
<1>8. CASE K!Resolve(t)
  BY <1>8 DEF K!Resolve
<1>9. CASE K!Fill(t)
  <2>1. CASE cached # None
    BY <1>9, <2>1 DEF K!Fill
  <2>2. CASE cached = None /\ cpc[t] = "fill"
    BY <1>9, <2>2 DEF K!Fill
  <2>3. CASE cached = None /\ cpc[t] = "fillraced"
    <3>1. raced'
      BY <1>9, <2>3, Zenon DEF K!Fill
    <3> QED
      BY <1>9, <2>3, <3>1 DEF K!Fill
  <2> QED
    BY <1>9, <2>1, <2>2, <2>3 DEF K!Fill
<1>10. CASE K!Stamp(t)
  BY <1>10 DEF K!Stamp
<1>11. ASSUME NEW v \in Values, K!Include(t, v) PROVE ConstInd'
  <2>1. raced' \/ cached = None
    BY <1>11, Zenon DEF K!Include
  <2>2. cpc' \in [Fillers -> ConstPcs] /\ \A u \in Fillers :
          cpc'[u] # "fill" /\ (cpc'[u] = cpc[u] \/ (cpc[u] = "fill" /\ cpc'[u] = "fillraced"))
    BY <1>11 DEF K!Include
  <2> QED
    BY <1>11, <2>1, <2>2 DEF K!Include
<1> QED
  BY <1>1, <1>2, <1>3, <1>4, <1>5, <1>6, <1>7, <1>8, <1>9, <1>10, <1>11, Zenon DEF K!Step

\* A constant site that answers from its cache answers what its lookup would,
\* for any number of threads, values and writes, unless a reveal is between
\* its two halves, the site was filled while a write was, or a mix-in came
\* after the lookup the site holds (ConstSite::get).
THEOREM ConstSiteFresh == K!Spec => []ConstFresh
<1>1. K!Init => ConstInd
  <2> SUFFICES ASSUME K!Init PROVE ConstInd
    OBVIOUS
  <2>1. ConstTypeOK
    BY DEF K!Init, ConstTypeOK, Bound, ConstPcs, K!Unfilled
  <2>2. FillInd /\ SiteInd
    BY DEF K!Init, FillInd, SiteInd, K!Trusted, K!Unfilled
  <2> QED
    BY <2>1, <2>2 DEF ConstInd
<1>2. ConstInd /\ [K!Next]_(K!vars) => ConstInd'
  <2> SUFFICES ASSUME ConstInd, [K!Next]_(K!vars) PROVE ConstInd'
    OBVIOUS
  <2>1. CASE K!Next
    BY <2>1, ConstStepInd DEF K!Next
  <2>2. CASE UNCHANGED K!vars
    BY <2>2 DEF K!vars, K!site, K!locals, ConstInd, ConstTypeOK, FillInd, SiteInd, Settled,
                K!Trusted
  <2> QED
    BY <2>1, <2>2
<1>3. ConstInd => ConstFresh
  BY DEF ConstInd, SiteInd, Settled, ConstFresh, K!ConstFresh
<1> QED
  BY <1>1, <1>2, <1>3, PTL DEF K!Spec

-----------------------------------------------------------------------------
(* The vet word. *)

DispatchPcs == {"run", "patch", "known", "insert", "mirror", "splice", "install", "bit", "cache",
                "fill", "miss", "frozen", "word", "private", "owner", "store"}
VetValues == {"Private", "Provided", "NotProvided", None}
Calls == [of : Classes \cup {None}, gate : BOOLEAN, late : BOOLEAN, stamp : Nat, vet : VetValues]

CallTypeOK ==
  /\ pc \in [Threads -> DispatchPcs]
  /\ call \in [Threads -> Calls]
  /\ gate \in BOOLEAN /\ gen \in Nat

VetTypeOK ==
  /\ row \in Rows
  /\ word \in [stamp : Nat, vet : VetValues] /\ word.stamp <= gen
  /\ \A t \in Threads : call[t].stamp <= gen

\* While the generation a vet read stands and no row was written since, what
\* its walks found so far is what they would find.
WalkInd ==
  \A t \in Threads :
    call[t].stamp = gen /\ ~unmarked =>
      /\ pc[t] = "owner" => row # "private"
      /\ pc[t] = "store" => call[t].vet = Verdict[row]

VetInd == CallTypeOK /\ VetTypeOK /\ WalkInd /\ VetFresh

\* What class_vet answers for each row.
LEMMA Verdicts ==
  /\ Verdict["private"] = "Private"
  /\ Verdict["public"] = "Provided"
  /\ Verdict["absent"] = "NotProvided"
BY DEF Verdict, Rows

\* A thread that makes no call holds a call of the type.
LEMMA NoCallTyped == NoCall \in Calls
BY DEF NoCall, Calls, VetValues

\* Every step keeps the sends and vets in their type.
LEMMA CallStep ==
  ASSUME CallTypeOK, NEW t \in Threads, Step(t)
  PROVE  CallTypeOK'
<1> USE DEF CallTypeOK, DispatchPcs, Goto
<1>1. ASSUME NEW c \in Classes, Define(t, c) \/ DefineFails(t, c) \/ DefineOwn(t, c)
      PROVE  CallTypeOK'
  BY <1>1 DEF Define, DefineFails, DefineOwn, marks
<1>2. ASSUME NEW c \in Classes, NEW m \in Modules, MixIn(t, c, m) PROVE CallTypeOK'
  BY <1>2 DEF MixIn, marks
<1>3. ASSUME NEW c \in Classes, Send(t, c) PROVE CallTypeOK'
  <2> DEFINE late == c \in told /\ ~Publishing(c)
             made == [NoCall EXCEPT !.of = c, !.gate = gate, !.late = late]
  <2>1. late \in BOOLEAN
    OBVIOUS
  <2>2. call' = [call EXCEPT ![t] = made]
    BY <1>3 DEF Send
  <2> HIDE DEF late
  <2>3. made \in Calls
    BY <2>1, NoCallTyped, Zenon DEF Calls
  <2> HIDE DEF made
  <2> QED
    BY <1>3, <2>2, <2>3 DEF Send, marks
<1>4. CASE SpliceRead(t) \/ SpliceWrite(t)
  BY <1>4 DEF SpliceRead, SpliceWrite, marks
<1>5. CASE Patch(t) \/ Known(t) \/ Insert(t) \/ Mirror(t) \/ Gate(t) \/ MarkLive(t)
  <2>1. CASE Patch(t) \/ Known(t)
    BY <2>1 DEF Patch, Known, marks
  <2>2. CASE Insert(t) \/ Mirror(t)
    BY <2>2 DEF Insert, Mirror
  <2>3. CASE Gate(t) \/ MarkLive(t)
    BY <2>3, Zenon DEF Gate, MarkLive
  <2> QED
    BY <1>5, <2>1, <2>2, <2>3
<1>6. CASE Bit(t) \/ Cache(t) \/ Fill(t) \/ Miss(t) \/ Frozen(t)
  BY <1>6, NoCallTyped DEF Bit, Cache, Fill, Miss, Frozen, marks
<1>7. CASE Vet(t) \/ IsPrivate(t) \/ Owner(t)
  BY <1>7 DEF Vet, IsPrivate, Owner, marks, Calls, VetValues
<1>8. CASE Word(t) \/ Store(t)
  BY <1>8, NoCallTyped DEF Word, Store, marks
<1> QED
  BY <1>1, <1>2, <1>3, <1>4, <1>5, <1>6, <1>7, <1>8 DEF Step

\* What a definition does between its write and its mark is nothing to a vet.
LEMMA VetAside ==
  ASSUME VetInd, CallTypeOK', UNCHANGED <<row, unmarked, gen, word, call>>,
         \A u \in Threads : pc'[u] \in {"owner", "store"} => pc'[u] = pc[u]
  PROVE  VetInd'
BY DEF VetInd, VetTypeOK, WalkInd, VetFresh

\* Every step keeps the rest of the vet's invariant.
LEMMA VetStepInd ==
  ASSUME VetInd, NEW t \in Threads, Step(t)
  PROVE  VetInd'
<1>0. CallTypeOK'
  BY CallStep DEF VetInd
<1> USE Verdicts DEF VetInd, CallTypeOK, VetTypeOK, Calls, DispatchPcs, WalkInd, VetFresh, Goto,
        VetValues, Rows, Empty
<1>1. ASSUME NEW c \in Classes, Define(t, c) \/ DefineFails(t, c) PROVE VetInd'
  BY <1>0, <1>1 DEF Define, DefineFails, Write, sites, marks, defining
<1>2. ASSUME NEW c \in Classes, DefineOwn(t, c) PROVE VetInd'
  BY <1>0, <1>2 DEF DefineOwn, sites, overlay
<1>3. ASSUME NEW c \in Classes, NEW m \in Modules, MixIn(t, c, m) PROVE VetInd'
  BY <1>0, <1>3 DEF MixIn, sites, overlay
<1>4. ASSUME NEW c \in Classes, Send(t, c) PROVE VetInd'
  BY <1>0, <1>4 DEF Send, NoCall, sites, overlay
<1>5. CASE SpliceRead(t) \/ SpliceWrite(t)
  <2>1. \A u \in Threads : pc'[u] \in {"owner", "store"} => pc'[u] = pc[u]
    BY <1>5 DEF SpliceRead, SpliceWrite, Goto, CallTypeOK
  <2>2. UNCHANGED <<row, unmarked, gen, word, call>>
    BY <1>5 DEF SpliceRead, SpliceWrite, sites, overlay
  <2> QED
    BY <1>0, <2>1, <2>2, VetAside
<1>6. CASE Patch(t)
  BY <1>0, <1>6 DEF Patch, sites
<1>7. CASE Known(t) \/ Insert(t) \/ Mirror(t) \/ Gate(t) \/ MarkLive(t)
  <2>1. \A u \in Threads : pc'[u] \in {"owner", "store"} => pc'[u] = pc[u]
    BY <1>7, Zenon DEF Known, Insert, Mirror, Gate, MarkLive, Goto, CallTypeOK
  <2>2. UNCHANGED <<row, unmarked, gen, word, call>>
    BY <1>7, Zenon DEF Known, Insert, Mirror, Gate, MarkLive, sites, overlay
  <2> QED
    BY <1>0, <2>1, <2>2, VetAside
<1>8. CASE Bit(t) \/ Cache(t) \/ Fill(t) \/ Miss(t) \/ Frozen(t)
  <2>1. CASE Bit(t)
    BY <1>0, <2>1, SMTT(20) DEF Bit, NoCall, sites, overlay
  <2>2. CASE Cache(t)
    BY <1>0, <2>2, SMTT(20) DEF Cache, NoCall, sites, overlay
  <2>3. CASE Fill(t)
    BY <1>0, <2>3 DEF Fill, NoCall, sites, overlay
  <2>4. CASE Miss(t)
    BY <1>0, <2>4, SMTT(20) DEF Miss, NoCall, sites, overlay
  <2>5. CASE Frozen(t)
    BY <1>0, <2>5 DEF Frozen, NoCall, sites, overlay
  <2> QED
    BY <1>8, <2>1, <2>2, <2>3, <2>4, <2>5, Zenon
<1>9. CASE Vet(t) \/ Word(t)
  <2>1. CASE Vet(t)
    BY <1>0, <2>1 DEF Vet, NoCall, sites, overlay
  <2>2. CASE Word(t)
    BY <1>0, <2>2 DEF Word, NoCall, sites, overlay
  <2> QED
    BY <1>9, <2>1, <2>2, Zenon
<1>10. CASE IsPrivate(t) \/ Owner(t)
  <2>1. CASE IsPrivate(t)
    BY <1>0, <2>1 DEF IsPrivate, sites, overlay
  <2>2. CASE Owner(t)
    BY <1>0, <2>2 DEF Owner, sites, overlay
  <2> QED
    BY <1>10, <2>1, <2>2, Zenon
<1>11. CASE Store(t)
  BY <1>0, <1>11, SMTT(20) DEF Store, NoCall, overlay
<1> QED
  BY <1>1, <1>2, <1>3, <1>4, <1>5, <1>6, <1>7, <1>8, <1>9, <1>10, <1>11, Zenon DEF Step

\* A remembered verdict of the current generation is the one class_vet would
\* compute, for any classes, threads and definitions, unless the generation
\* has not moved since a row was written (class_vet_at).
THEOREM VetWordFresh == Spec => []VetFresh
<1>1. Init => VetInd
  <2> SUFFICES ASSUME Init PROVE VetInd
    OBVIOUS
  <2>1. CallTypeOK
    BY Zenon DEF Init, CallTypeOK, Calls, DispatchPcs, NoCall, VetValues
  <2>2. VetTypeOK
    BY DEF Init, VetTypeOK, Rows, Empty, NoCall, VetValues
  <2>3. WalkInd /\ VetFresh
    BY DEF Init, WalkInd, VetFresh
  <2> QED
    BY <2>1, <2>2, <2>3 DEF VetInd
<1>2. VetInd /\ [Next]_vars => VetInd'
  <2> SUFFICES ASSUME VetInd, [Next]_vars PROVE VetInd'
    OBVIOUS
  <2>1. CASE Next
    BY <2>1, VetStepInd DEF Next
  <2>2. CASE UNCHANGED vars
    BY <2>2 DEF vars, overlay, marks, sites, VetInd, CallTypeOK, VetTypeOK, WalkInd, VetFresh
  <2> QED
    BY <2>1, <2>2
<1>3. VetInd => VetFresh
  BY DEF VetInd
<1> QED
  BY <1>1, <1>2, <1>3, PTL DEF Spec

-----------------------------------------------------------------------------
(* The marks. *)

Kinds == {"none", "define", "own", "mixin", "primitive", "spliced"}
Mixing == {"mixin", "primitive"}
Definitions == [kind : Kinds, on : Classes \cup {None}]

DefTypeOK ==
  /\ pc \in [Threads -> DispatchPcs]
  /\ def \in [Threads -> Definitions]
  /\ DOMAIN todo = Threads /\ DOMAIN adding = Threads /\ DOMAIN plan = Threads

\* What a thread's patch of its target covers, and the set it must be in.
Scope(t) == IF def[t].kind = "own" THEN {Target(t)} ELSE Below(Target(t))
Done(t) == IF def[t].kind = "own" THEN ids ELSE closed

\* A class whose chain has changed is in the set, and so are the frozen
\* descendants of a closed one.
ChainsMarked ==
  /\ \A x \in Classes : chain[x] # Above[x] => x \in ids
  /\ \A c \in closed : Below(c) \subseteq ids

\* A definition has its own class still to patch, or has patched it.
Owed ==
  \A t \in Threads :
    /\ pc[t] \in {"known", "insert", "mirror"} => todo[t] # {}
    /\ pc[t] \in {"patch", "known", "insert", "mirror"} => def[t].on \in todo[t] \cup Done(t)
    /\ pc[t] \in {"splice", "install"} => def[t].kind \in Mixing /\ def[t].on \in closed
    /\ pc[t] = "install" => DOMAIN plan[t] \subseteq ids
    /\ pc[t] = "mirror" => Target(t) \in Done(t) /\ adding[t] \subseteq Scope(t)

\* A class in the set whose bit is not there is in the hands of a thread that
\* will set it, and until the gate is up one that will raise it covers it.
Published ==
  \A c \in ids :
    /\ c \notin bits => \E u \in Threads : pc[u] = "mirror" /\ c \in adding[u]
    /\ ~gate => \E u \in Threads : pc[u] = "mirror" /\ c \in Scope(u)

\* What a returned definition changed is in the set, and the overlay is live.
ToldMarked == told \subseteq ids /\ (told # {} => live)

MarkInd == DefTypeOK /\ ChainsMarked /\ Owed /\ Published /\ ToldMarked

\* A target is one of the classes still to patch.
LEMMA TargetTodo ==
  ASSUME NEW t \in Threads, todo[t] # {}
  PROVE  Target(t) \in todo[t]
<1>1. CASE todo[t] = {def[t].on}
  BY <1>1 DEF Target
<1>2. CASE todo[t] # {def[t].on}
  <2>1. \E c \in todo[t] : c # def[t].on
    BY <1>2
  <2> QED
    BY <1>2, <2>1 DEF Target
<1> QED
  BY <1>1, <1>2

\* A thread whose definition did not move has the target it had.
LEMMA SameTarget ==
  ASSUME NEW u \in Threads, todo'[u] = todo[u], def'[u] = def[u]
  PROVE  Target(u)' = Target(u) /\ Scope(u)' = Scope(u)
<1>1. Target(u)' = Target(u)
  BY DEF Target
<1> QED
  BY <1>1 DEF Scope, Below

\* Everything that sees a closed class is in the set.
LEMMA SeenMarked ==
  ASSUME ChainsMarked, NEW c \in closed
  PROVE  Seen(c) \subseteq ids
BY DEF ChainsMarked, Seen, Below

\* A class of the set that nobody is publishing reads as patched.
LEMMA Visible ==
  ASSUME MarkInd, NEW c \in ids, ~Publishing(c)
  PROVE  c \in bits /\ gate
BY DEF MarkInd, Published, Owed, Publishing, Scope

DefPcs == {"patch", "known", "insert", "mirror", "splice", "install"}

\* A send or a vet leaves the marks and the definitions alone.
LEMMA CallKeepsMarks ==
  ASSUME MarkInd, DefTypeOK', UNCHANGED <<chain, marks, defining>>,
         \A u \in Threads : pc'[u] = pc[u] \/ (pc[u] \notin DefPcs /\ pc'[u] \notin DefPcs)
  PROVE  MarkInd'
<1>0. DefTypeOK /\ ChainsMarked /\ Owed /\ Published /\ ToldMarked
  BY Zenon DEF MarkInd
<1>1. UNCHANGED <<ids, closed, bits, gate, live, def, todo, adding, plan, told>>
  BY Zenon DEF marks, defining
<1>2. \A u \in Threads : Target(u)' = Target(u) /\ Scope(u)' = Scope(u) /\ Done(u)' = Done(u)
  BY <1>1, SameTarget, Zenon DEF Done
<1>3. ChainsMarked'
  BY <1>0, <1>1, Zenon DEF ChainsMarked, Below
<1>4. Owed'
  BY <1>0, <1>1, <1>2, Zenon DEF Owed, DefPcs
<1>5. Published'
  BY <1>0, <1>1, <1>2, Zenon DEF Published, DefPcs
<1>6. ToldMarked'
  BY <1>0, <1>1, Zenon DEF ToldMarked
<1> QED
  BY <1>3, <1>4, <1>5, <1>6, Zenon DEF MarkInd

\* What one definition owes.
OwedBy(t) ==
  /\ pc[t] \in {"known", "insert", "mirror"} => todo[t] # {}
  /\ pc[t] \in {"patch", "known", "insert", "mirror"} => def[t].on \in todo[t] \cup Done(t)
  /\ pc[t] \in {"splice", "install"} => def[t].kind \in Mixing /\ def[t].on \in closed
  /\ pc[t] = "install" => DOMAIN plan[t] \subseteq ids
  /\ pc[t] = "mirror" => Target(t) \in Done(t) /\ adding[t] \subseteq Scope(t)

\* While the sets grow, a step of one thread leaves the others owing what they did.
LEMMA OwedOthers ==
  ASSUME Owed, NEW t \in Threads, ids \subseteq ids', closed \subseteq closed', OwedBy(t)',
         \A u \in Threads \ {t} :
           /\ pc'[u] = pc[u] /\ todo'[u] = todo[u] /\ def'[u] = def[u]
           /\ plan'[u] = plan[u] /\ adding'[u] = adding[u]
  PROVE  Owed'
<1>1. ASSUME NEW u \in Threads \ {t} PROVE OwedBy(u)'
  <2>1. /\ pc'[u] = pc[u] /\ todo'[u] = todo[u] /\ def'[u] = def[u]
        /\ plan'[u] = plan[u] /\ adding'[u] = adding[u]
    BY Zenon
  <2>2. Target(u)' = Target(u) /\ Scope(u)' = Scope(u)
    BY <2>1, SameTarget, Zenon
  <2>3. Done(u) \subseteq Done(u)'
    BY <2>1, Zenon DEF Done
  <2>4. OwedBy(u)
    BY Zenon DEF Owed, OwedBy
  <2> QED
    BY <2>1, <2>2, <2>3, <2>4, Zenon DEF OwedBy
<1> QED
  BY <1>1, Zenon DEF Owed, OwedBy

\* Every step keeps the definitions in their type.
LEMMA DefStep ==
  ASSUME DefTypeOK, NEW t \in Threads, Step(t)
  PROVE  DefTypeOK'
<1> USE DEF DefTypeOK, DispatchPcs, Goto, defining
<1>1. ASSUME NEW c \in Classes, Define(t, c) PROVE DefTypeOK'
  BY <1>1 DEF Define, Begin, Below, Definitions, Kinds
<1>2. ASSUME NEW c \in Classes, DefineFails(t, c) \/ DefineOwn(t, c) PROVE DefTypeOK'
  BY <1>2 DEF DefineFails, DefineOwn, Begin, Definitions, Kinds
<1>3. ASSUME NEW c \in Classes, NEW m \in Modules, MixIn(t, c, m) PROVE DefTypeOK'
  BY <1>3 DEF MixIn, Begin, Definitions, Kinds
<1>4. CASE SpliceRead(t)
  BY <1>4 DEF SpliceRead
<1>5. CASE SpliceWrite(t)
  BY <1>5 DEF SpliceWrite, Definitions, Kinds
<1>6. CASE Patch(t) \/ Known(t) \/ Gate(t)
  BY <1>6, Zenon DEF Patch, Known, Gate
<1>7. CASE Insert(t)
  BY <1>7 DEF Insert
<1>8. CASE Mirror(t)
  BY <1>8 DEF Mirror
<1>9. CASE MarkLive(t)
  <2>1. NoDef \in Definitions
    BY DEF NoDef, Definitions, Kinds
  <2> QED
    BY <1>9, <2>1, Zenon DEF MarkLive
<1>10. ASSUME NEW c \in Classes, Send(t, c) PROVE DefTypeOK'
  BY <1>10 DEF Send
<1>11. CASE Bit(t) \/ Cache(t) \/ Fill(t) \/ Miss(t) \/ Frozen(t)
  BY <1>11, Zenon DEF Bit, Cache, Fill, Miss, Frozen
<1>12. CASE Vet(t) \/ Word(t) \/ IsPrivate(t) \/ Owner(t) \/ Store(t)
  BY <1>12, Zenon DEF Vet, Word, IsPrivate, Owner, Store
<1> QED
  BY <1>1, <1>2, <1>3, <1>4, <1>5, <1>6, <1>7, <1>8, <1>9, <1>10, <1>11, <1>12, Zenon DEF Step

\* A definition begins with its own class still to patch.
LEMMA BeginMarks ==
  ASSUME MarkInd, NEW t \in Threads, NEW c \in Classes, NEW m,
         Define(t, c) \/ DefineOwn(t, c) \/ MixIn(t, c, m), DefTypeOK'
  PROVE  MarkInd'
<1>0. DefTypeOK /\ ChainsMarked /\ Owed /\ Published /\ ToldMarked
  BY Zenon DEF MarkInd
<1>1. /\ pc[t] = "run" /\ pc' = [pc EXCEPT ![t] = "patch"]
      /\ UNCHANGED <<chain, ids, closed, bits, gate, live, adding, told>>
  BY Zenon DEF Define, DefineOwn, MixIn, Begin, Goto, marks, overlay
<1>2. \A u \in Threads \ {t} : todo'[u] = todo[u] /\ def'[u] = def[u] /\ plan'[u] = plan[u]
  BY <1>0, Zenon DEF Define, DefineOwn, MixIn, Begin, DefTypeOK
<1>3. c \in todo'[t] /\ def'[t].on = c
  <2>1. PICK patch, kind : Begin(t, kind, c, patch) /\ c \in patch
    <3>1. c \in Below(c)
      BY AncestryReflexive, Zenon DEF Below
    <3>2. CASE Define(t, c)
      BY <3>1, <3>2, Zenon DEF Define
    <3>3. CASE DefineOwn(t, c) \/ MixIn(t, c, m)
      BY <3>3, Zenon DEF DefineOwn, MixIn
    <3> QED
      BY <3>2, <3>3, Zenon
  <2>2. todo'[t] = patch /\ def'[t] = [kind |-> kind, on |-> c]
    BY <1>0, <2>1, Zenon DEF Begin, DefTypeOK
  <2> QED
    BY <2>1, <2>2
<1>4. pc'[t] = "patch" /\ \A u \in Threads \ {t} : pc'[u] = pc[u]
  BY <1>0, <1>1, Zenon DEF DefTypeOK
<1>5. ChainsMarked'
  BY <1>0, <1>1, Zenon DEF ChainsMarked, Below
<1>6. Owed'
  <2>1. OwedBy(t)'
    BY <1>3, <1>4, Zenon DEF OwedBy
  <2> QED
    BY <1>0, <1>1, <1>2, <1>4, <2>1, OwedOthers, Zenon
<1>7. Published'
  <2>1. \A u \in Threads \ {t} : Scope(u)' = Scope(u)
    BY <1>2, SameTarget, Zenon
  <2> QED
    BY <1>0, <1>1, <1>4, <2>1, Zenon DEF Published
<1>8. ToldMarked'
  BY <1>0, <1>1, Zenon DEF ToldMarked
<1> QED
  BY <1>5, <1>6, <1>7, <1>8, Zenon DEF MarkInd

\* A splice changes the chains of marked classes only, and is patched again.
LEMMA SpliceMarks ==
  ASSUME MarkInd, NEW t \in Threads, SpliceRead(t) \/ SpliceWrite(t), DefTypeOK'
  PROVE  MarkInd'
<1>0. DefTypeOK /\ ChainsMarked /\ Owed /\ Published /\ ToldMarked
  BY Zenon DEF MarkInd
<1>1. UNCHANGED <<ids, closed, bits, gate, live, adding, told>>
  BY Zenon DEF SpliceRead, SpliceWrite, marks
<1>2. /\ \A u \in Threads \ {t} : /\ todo'[u] = todo[u] /\ def'[u] = def[u]
                                  /\ plan'[u] = plan[u] /\ pc'[u] = pc[u]
      /\ pc[t] # "mirror" /\ pc'[t] \in {"install", "patch"}
  BY <1>0, Zenon DEF SpliceRead, SpliceWrite, Goto, DefTypeOK
<1>3. Published'
  <2>1. \A u \in Threads \ {t} : Scope(u)' = Scope(u)
    BY <1>2, SameTarget, Zenon
  <2> QED
    BY <1>0, <1>1, <1>2, <2>1, Zenon DEF Published
<1>4. ToldMarked'
  BY <1>0, <1>1, Zenon DEF ToldMarked
<1>5. CASE SpliceRead(t)
  <2>1. ChainsMarked'
    BY <1>0, <1>1, <1>5, Zenon DEF SpliceRead, ChainsMarked, Below, overlay
  <2>2. def[t].kind \in Mixing /\ def[t].on \in closed /\ def' = def
    BY <1>0, <1>5, Zenon DEF SpliceRead, Owed
  <2>3. DOMAIN plan'[t] \subseteq ids
    <3>1. DOMAIN plan'[t] = Seen(def[t].on)
      BY <1>0, <1>5, Zenon DEF SpliceRead, DefTypeOK
    <3> QED
      BY <1>0, <2>2, <3>1, SeenMarked, Zenon
  <2>4. pc'[t] = "install"
    BY <1>0, <1>5, Zenon DEF SpliceRead, Goto, DefTypeOK
  <2>5. OwedBy(t)'
    BY <1>1, <2>2, <2>3, <2>4, Zenon DEF OwedBy
  <2>6. Owed'
    BY <1>0, <1>1, <1>2, <2>5, OwedOthers, Zenon
  <2> QED
    BY <1>3, <1>4, <2>1, <2>6, Zenon DEF MarkInd
<1>6. CASE SpliceWrite(t)
  <2>1. DOMAIN plan[t] \subseteq ids
    BY <1>0, <1>6, Zenon DEF SpliceWrite, Owed
  <2>2. ChainsMarked'
    <3>1. \A x \in Classes : chain'[x] = IF x \in DOMAIN plan[t] THEN plan[t][x] ELSE chain[x]
      BY <1>6, Zenon DEF SpliceWrite
    <3> QED
      BY <1>0, <1>1, <2>1, <3>1, Zenon DEF ChainsMarked, Below
  <2>3. def'[t].on \in todo'[t] /\ pc'[t] = "patch"
    <3>1. /\ todo'[t] = {def[t].on} /\ pc'[t] = "patch"
          /\ def'[t] = [def[t] EXCEPT !.kind = "spliced"]
      BY <1>0, <1>6, Zenon DEF SpliceWrite, DefTypeOK, Goto
    <3>2. def[t] \in Definitions
      BY <1>0, Zenon DEF DefTypeOK
    <3> QED
      BY <3>1, <3>2 DEF Definitions
  <2>4. OwedBy(t)'
    BY <2>3, Zenon DEF OwedBy
  <2>5. Owed'
    BY <1>0, <1>1, <1>2, <2>4, OwedOthers, Zenon
  <2> QED
    BY <1>3, <1>4, <2>2, <2>5, Zenon DEF MarkInd
<1> QED
  BY <1>5, <1>6

\* A class is dropped from the work only if the sets have it already.
LEMMA PatchMarks ==
  ASSUME MarkInd, NEW t \in Threads, Patch(t) \/ Known(t), DefTypeOK'
  PROVE  MarkInd'
<1>0. DefTypeOK /\ ChainsMarked /\ Owed /\ Published /\ ToldMarked /\ OwedBy(t)
  BY Zenon DEF MarkInd, Owed, OwedBy
<1>1. UNCHANGED <<chain, ids, closed, bits, gate, live, def, plan, adding, told>>
  BY Zenon DEF Patch, Known, marks, overlay, defining
<1>2. /\ \A u \in Threads \ {t} : todo'[u] = todo[u] /\ pc'[u] = pc[u]
      /\ pc[t] \in {"patch", "known"} /\ todo[t] # {}
  BY <1>0, Zenon DEF Patch, Known, Goto, DefTypeOK, defining, OwedBy
<1>3. Done(t)' = Done(t) /\ def[t].on \in todo[t] \cup Done(t)
  BY <1>0, <1>1, <1>2, Zenon DEF Done, OwedBy
<1>4. OwedBy(t)'
  <2>1. CASE Patch(t)
    <3>1. pc'[t] = "known" /\ todo'[t] = todo[t]
      BY <1>0, <2>1, Zenon DEF Patch, Goto, DefTypeOK, defining
    <3> QED
      BY <1>1, <1>2, <1>3, <3>1, Zenon DEF OwedBy
  <2>2. CASE Known(t) /\ Target(t) \in Done(t)
    <3>1. pc'[t] = "patch" /\ todo'[t] = todo[t] \ {Target(t)}
      BY <1>0, <2>2, Zenon DEF Known, Done, Goto, DefTypeOK
    <3> QED
      BY <1>1, <1>3, <2>2, <3>1, Zenon DEF OwedBy
  <2>3. CASE Known(t) /\ Target(t) \notin Done(t)
    <3>1. pc'[t] = "insert" /\ todo'[t] = todo[t]
      BY <1>0, <2>3, Zenon DEF Known, Done, Goto, DefTypeOK
    <3> QED
      BY <1>1, <1>2, <1>3, <3>1, Zenon DEF OwedBy
  <2> QED
    BY <2>1, <2>2, <2>3, Zenon
<1>5. ChainsMarked'
  BY <1>0, <1>1, Zenon DEF ChainsMarked, Below
<1>6. Owed'
  BY <1>0, <1>1, <1>2, <1>4, OwedOthers, Zenon
<1>7. Published'
  <2>1. \A u \in Threads \ {t} : Scope(u)' = Scope(u)
    BY <1>1, <1>2, SameTarget, Zenon
  <2> QED
    BY <1>0, <1>1, <1>2, <2>1, Zenon DEF Published
<1>8. ToldMarked'
  BY <1>0, <1>1, Zenon DEF ToldMarked
<1> QED
  BY <1>5, <1>6, <1>7, <1>8, Zenon DEF MarkInd

\* What is new to the set is in the hands of the thread that put it there.
LEMMA InsertMarks ==
  ASSUME MarkInd, NEW t \in Threads, Insert(t), DefTypeOK'
  PROVE  MarkInd'
<1>0. DefTypeOK /\ ChainsMarked /\ Owed /\ Published /\ ToldMarked /\ OwedBy(t)
  BY Zenon DEF MarkInd, Owed, OwedBy
<1>1. UNCHANGED <<chain, bits, gate, live, def, todo, plan, told>>
  BY Zenon DEF Insert, overlay
<1>2. /\ pc[t] = "insert" /\ pc'[t] = "mirror"
      /\ \A u \in Threads \ {t} : adding'[u] = adding[u] /\ pc'[u] = pc[u]
  BY <1>0, Zenon DEF Insert, Goto, DefTypeOK
<1>3. /\ ids' = ids \cup Scope(t) /\ adding'[t] \in {Scope(t), Scope(t) \ ids}
      /\ closed' = IF def[t].kind = "own" THEN closed ELSE closed \cup {Target(t)}
  BY <1>0, Zenon DEF Insert, Scope, DefTypeOK
<1>4. \A u \in Threads : Target(u)' = Target(u) /\ Scope(u)' = Scope(u)
  BY <1>1, SameTarget, Zenon
<1>5. ids \subseteq ids' /\ closed \subseteq closed' /\ Done(t) \subseteq Done(t)'
  BY <1>1, <1>3, Zenon DEF Done
<1>6. Target(t) \in Done(t)'
  BY <1>1, <1>3, Zenon DEF Done, Scope
<1>7. ChainsMarked'
  <2>1. ASSUME NEW c \in closed' PROVE Below(c) \subseteq ids'
    <3>1. CASE c \in closed
      BY <1>0, <1>5, <3>1, Zenon DEF ChainsMarked
    <3>2. CASE c \notin closed
      BY <1>3, <3>2, Zenon DEF Scope
    <3> QED
      BY <3>1, <3>2
  <2> QED
    BY <1>0, <1>1, <1>5, <2>1, Zenon DEF ChainsMarked, Below
<1>8. Owed'
  <2>1. def[t].on \in todo[t] \cup Done(t) /\ todo[t] # {}
    BY <1>0, <1>2, Zenon DEF OwedBy
  <2>2. adding'[t] \subseteq Scope(t)
    BY <1>3, Zenon
  <2>3. OwedBy(t)'
    BY <1>1, <1>2, <1>4, <1>5, <1>6, <2>1, <2>2, Zenon DEF OwedBy
  <2> QED
    BY <1>0, <1>1, <1>2, <1>5, <2>3, OwedOthers, Zenon
<1>9. Published'
  BY <1>0, <1>1, <1>2, <1>3, <1>4, Zenon DEF Published
<1>10. ToldMarked'
  BY <1>0, <1>1, <1>5, Zenon DEF ToldMarked
<1> QED
  BY <1>7, <1>8, <1>9, <1>10, Zenon DEF MarkInd

\* A bit moves from a thread's hands to the readers.
LEMMA MirrorMarks ==
  ASSUME MarkInd, NEW t \in Threads, Mirror(t), DefTypeOK'
  PROVE  MarkInd'
<1>0. DefTypeOK /\ ChainsMarked /\ Owed /\ Published /\ ToldMarked /\ OwedBy(t)
  BY Zenon DEF MarkInd, Owed, OwedBy
<1>1. PICK c \in adding[t] : bits' = bits \cup {c} /\ adding' = [adding EXCEPT ![t] = @ \ {c}]
  BY Zenon DEF Mirror
<1>2. UNCHANGED <<chain, ids, closed, gate, live, pc, def, todo, plan, told>> /\ pc[t] = "mirror"
  BY Zenon DEF Mirror, overlay
<1>3. /\ adding'[t] = adding[t] \ {c}
      /\ \A u \in Threads \ {t} : adding'[u] = adding[u]
  BY <1>0, <1>1, Zenon DEF DefTypeOK
<1>4. \A u \in Threads : Target(u)' = Target(u) /\ Scope(u)' = Scope(u)
  BY <1>2, SameTarget, Zenon
<1>5. ChainsMarked'
  BY <1>0, <1>2, Zenon DEF ChainsMarked, Below
<1>6. Owed'
  <2>1. Done(t)' = Done(t)
    BY <1>2, Zenon DEF Done
  <2>2. OwedBy(t)'
    BY <1>0, <1>2, <1>3, <1>4, <2>1, Zenon DEF OwedBy
  <2> QED
    BY <1>0, <1>2, <1>3, <2>2, OwedOthers, Zenon
<1>7. Published'
  <2> SUFFICES ASSUME NEW d \in ids
               PROVE  /\ d \notin bits' => \E u \in Threads : pc[u] = "mirror" /\ d \in adding'[u]
                      /\ ~gate => \E u \in Threads : pc[u] = "mirror" /\ d \in Scope(u)
    BY <1>2, <1>4, Zenon DEF Published
  <2>1. ASSUME d \notin bits' PROVE \E u \in Threads : pc[u] = "mirror" /\ d \in adding'[u]
    <3>1. d \notin bits /\ d # c
      BY <1>1, <2>1, Zenon
    <3>2. PICK u \in Threads : pc[u] = "mirror" /\ d \in adding[u]
      BY <1>0, <3>1, Zenon DEF Published
    <3> QED
      BY <1>3, <3>1, <3>2, Zenon
  <2> QED
    BY <1>0, <2>1, Zenon DEF Published
<1>8. ToldMarked'
  BY <1>0, <1>2, Zenon DEF ToldMarked
<1> QED
  BY <1>5, <1>6, <1>7, <1>8, Zenon DEF MarkInd

\* The gate goes up when the thread has no bit left to set.
LEMMA GateMarks ==
  ASSUME MarkInd, NEW t \in Threads, Gate(t), DefTypeOK'
  PROVE  MarkInd'
<1>0. DefTypeOK /\ ChainsMarked /\ Owed /\ Published /\ ToldMarked /\ OwedBy(t)
  BY Zenon DEF MarkInd, Owed, OwedBy
<1>1. UNCHANGED <<chain, ids, closed, bits, live, def, plan, adding, told>> /\ gate' /\ adding[t] = {}
  BY Zenon DEF Gate, overlay
<1>2. /\ \A u \in Threads \ {t} : todo'[u] = todo[u] /\ pc'[u] = pc[u]
      /\ pc[t] = "mirror" /\ pc'[t] = "patch" /\ todo'[t] = todo[t] \ {Target(t)}
  BY <1>0, Zenon DEF Gate, Goto, DefTypeOK
<1>3. ChainsMarked'
  BY <1>0, <1>1, Zenon DEF ChainsMarked, Below
<1>4. Owed'
  <2>1. Done(t)' = Done(t)
    BY <1>1, Zenon DEF Done
  <2>2. def[t].on \in todo[t] \cup Done(t) /\ Target(t) \in Done(t)
    BY <1>0, <1>2, Zenon DEF OwedBy
  <2>3. OwedBy(t)'
    BY <1>1, <1>2, <2>1, <2>2, Zenon DEF OwedBy
  <2> QED
    BY <1>0, <1>1, <1>2, <2>3, OwedOthers, Zenon
<1>5. Published'
  BY <1>0, <1>1, <1>2, Zenon DEF Published
<1>6. ToldMarked'
  BY <1>0, <1>1, Zenon DEF ToldMarked
<1> QED
  BY <1>3, <1>4, <1>5, <1>6, Zenon DEF MarkInd

\* A definition returns with everything that sees its class in the set.
LEMMA LiveMarks ==
  ASSUME MarkInd, NEW t \in Threads, MarkLive(t), DefTypeOK'
  PROVE  MarkInd'
<1>0. DefTypeOK /\ ChainsMarked /\ Owed /\ Published /\ ToldMarked /\ OwedBy(t)
  BY Zenon DEF MarkInd, Owed, OwedBy
<1>1. UNCHANGED <<chain, ids, closed, bits, gate, todo, plan, adding>> /\ (live => live')
  BY Zenon DEF MarkLive, overlay
<1>2. /\ \A u \in Threads \ {t} : def'[u] = def[u] /\ pc'[u] = pc[u]
      /\ pc[t] = "patch" /\ todo[t] = {}
  BY <1>0, Zenon DEF MarkLive, Goto, DefTypeOK
<1>3. ChainsMarked'
  BY <1>0, <1>1, Zenon DEF ChainsMarked, Below
<1>4. def[t].on \in Done(t)
  BY <1>0, <1>2, Zenon DEF OwedBy
<1>5. Published'
  <2>1. \A u \in Threads \ {t} : Scope(u)' = Scope(u)
    BY <1>1, <1>2, SameTarget, Zenon
  <2> QED
    BY <1>0, <1>1, <1>2, <2>1, Zenon DEF Published
<1>6. CASE def[t].kind \in Mixing
  <2>1. pc'[t] = "splice" /\ UNCHANGED <<def, told>>
    BY <1>0, <1>6, Zenon DEF MarkLive, Goto, DefTypeOK, Mixing
  <2>2. def[t].on \in closed
    <3>1. def[t].kind # "own"
      BY <1>6 DEF Mixing
    <3> QED
      BY <1>4, <3>1, Zenon DEF Done
  <2>3. OwedBy(t)'
    BY <1>1, <1>6, <2>1, <2>2, Zenon DEF OwedBy
  <2>4. Owed'
    BY <1>0, <1>1, <1>2, <2>3, OwedOthers, Zenon
  <2>5. ToldMarked'
    BY <1>0, <1>1, <2>1, Zenon DEF ToldMarked
  <2> QED
    BY <1>3, <1>5, <2>4, <2>5, Zenon DEF MarkInd
<1>7. CASE def[t].kind \notin Mixing
  <2>1. pc'[t] = "run" /\ live'
    BY <1>0, <1>7, Zenon DEF MarkLive, Goto, DefTypeOK, Mixing
  <2>2. OwedBy(t)'
    BY <2>1, Zenon DEF OwedBy
  <2>3. Owed'
    BY <1>0, <1>1, <1>2, <2>2, OwedOthers, Zenon
  <2>4. told' \subseteq ids
    <3>1. CASE def[t].kind = "own"
      BY <1>0, <1>4, <1>7, <3>1, Zenon DEF MarkLive, Done, ToldMarked
    <3>2. CASE def[t].kind # "own"
      <4>1. Seen(def[t].on) \subseteq ids
        BY <1>0, <1>4, <3>2, SeenMarked, Zenon DEF Done
      <4> QED
        BY <1>0, <1>7, <3>2, <4>1, Zenon DEF MarkLive, ToldMarked
    <3> QED
      BY <3>1, <3>2
  <2>5. ToldMarked'
    BY <1>1, <2>1, <2>4, Zenon DEF ToldMarked
  <2> QED
    BY <1>3, <1>5, <2>3, <2>5, Zenon DEF MarkInd
<1> QED
  BY <1>6, <1>7

\* A send that began late reads the gate and the bit, and misses.
LateMisses ==
  \A t \in Threads :
    pc[t] \in {"bit", "cache", "fill", "miss", "frozen"} /\ call[t].late =>
      pc[t] \in {"bit", "miss"} /\ call[t].gate /\ call[t].of \in bits /\ live

SendInd == CallTypeOK /\ MarkInd /\ LateMisses

\* Every step of a definition keeps the marks, and a send or a vet leaves them.
LEMMA MarkStepInd ==
  ASSUME MarkInd, NEW t \in Threads, Step(t)
  PROVE  MarkInd'
<1>0. DefTypeOK'
  BY DefStep DEF MarkInd
<1> USE <1>0
<1>1. ASSUME NEW c \in Classes, Define(t, c) \/ DefineOwn(t, c) PROVE MarkInd'
  BY <1>1, BeginMarks
<1>2. ASSUME NEW c \in Classes, NEW m \in Modules, MixIn(t, c, m) PROVE MarkInd'
  BY <1>2, BeginMarks
<1>3. CASE SpliceRead(t) \/ SpliceWrite(t)
  BY <1>3, SpliceMarks
<1>4. CASE Patch(t) \/ Known(t)
  BY <1>4, PatchMarks
<1>5. CASE Insert(t) \/ Mirror(t) \/ Gate(t) \/ MarkLive(t)
  BY <1>5, InsertMarks, MirrorMarks, GateMarks, LiveMarks
<1>6. CASE \/ \E c \in Classes : DefineFails(t, c) \/ Send(t, c)
           \/ Bit(t) \/ Cache(t) \/ Fill(t) \/ Miss(t) \/ Frozen(t)
           \/ Vet(t) \/ Word(t) \/ IsPrivate(t) \/ Owner(t) \/ Store(t)
  <2>1. UNCHANGED <<chain, marks, defining>>
    BY <1>6, Zenon DEF DefineFails, Send, Bit, Cache, Fill, Miss, Frozen, Vet, Word, IsPrivate, Owner, Store,
                overlay
  <2>2. \A u \in Threads : pc'[u] = pc[u] \/ (pc[u] \notin DefPcs /\ pc'[u] \notin DefPcs)
    BY <1>6, Zenon DEF DefineFails, Send, Bit, Cache, Fill, Miss, Frozen, Vet, Word, IsPrivate, Owner, Store,
                Goto, DefPcs, MarkInd, DefTypeOK
  <2> QED
    BY <2>1, <2>2, CallKeepsMarks
<1> QED
  BY <1>1, <1>2, <1>3, <1>4, <1>5, <1>6 DEF Step

\* Every step keeps a late send on its way to the full lookup.
LEMMA LateStep ==
  ASSUME SendInd, NEW t \in Threads, Step(t)
  PROVE  LateMisses'
<1> USE DEF SendInd
<1>1. ASSUME NEW c \in Classes, Send(t, c) PROVE LateMisses'
  <2>1. \A u \in Threads \ {t} : pc'[u] = pc[u] /\ call'[u] = call[u]
    BY <1>1 DEF Send, Goto, CallTypeOK
  <2>2. pc'[t] = "bit" /\ UNCHANGED <<bits, live>>
    BY <1>1 DEF Send, Goto, CallTypeOK, marks
  <2>3. CASE c \in told /\ ~Publishing(c)
    <3>1. c \in bits /\ gate /\ live
      BY <2>3, Visible DEF MarkInd, ToldMarked
    <3>2. call'[t].of = c /\ call'[t].gate
      BY <1>1, <3>1 DEF Send, NoCall, CallTypeOK
    <3> QED
      BY <2>1, <2>2, <3>1, <3>2, Zenon DEF LateMisses
  <2>4. CASE ~(c \in told /\ ~Publishing(c))
    <3>1. ~call'[t].late
      BY <1>1, <2>4, Zenon DEF Send, NoCall, CallTypeOK
    <3> QED
      BY <2>1, <2>2, <3>1 DEF LateMisses
  <2> QED
    BY <2>3, <2>4
<1>2. CASE Bit(t) \/ Cache(t) \/ Fill(t)
  BY <1>2 DEF Bit, Cache, Fill, LateMisses, CallTypeOK, Goto, marks
<1>3. CASE Miss(t) \/ Frozen(t)
  BY <1>3 DEF Miss, Frozen, LateMisses, CallTypeOK, Goto, marks
<1>4. CASE Vet(t) \/ Word(t) \/ IsPrivate(t) \/ Owner(t) \/ Store(t)
  BY <1>4 DEF Vet, Word, IsPrivate, Owner, Store, LateMisses, CallTypeOK, Goto, marks
<1>5. CASE \/ \E c \in Classes : Define(t, c) \/ DefineFails(t, c) \/ DefineOwn(t, c)
           \/ \E c \in Classes, m \in Modules : MixIn(t, c, m)
           \/ SpliceRead(t) \/ SpliceWrite(t) \/ Patch(t) \/ Known(t) \/ Insert(t) \/ Mirror(t)
           \/ Gate(t) \/ MarkLive(t)
  <2>1. call' = call
    BY <1>5, Zenon DEF Define, DefineFails, DefineOwn, MixIn, SpliceRead, SpliceWrite, Patch, Known,
                Insert, Mirror, Gate, MarkLive
  <2>2. bits \subseteq bits' /\ (live => live')
    BY <1>5, Zenon DEF Define, DefineFails, DefineOwn, MixIn, SpliceRead, SpliceWrite, Patch, Known,
                Insert, Mirror, Gate, MarkLive, marks
  <2>3. \A u \in Threads : pc'[u] \in {"bit", "cache", "fill", "miss", "frozen"} => pc'[u] = pc[u]
    BY <1>5, Zenon DEF Define, DefineFails, DefineOwn, MixIn, SpliceRead, SpliceWrite, Patch, Known,
                Insert, Mirror, Gate, MarkLive, Begin, Goto, CallTypeOK
  <2> QED
    BY <2>1, <2>2, <2>3 DEF LateMisses
<1> QED
  BY <1>1, <1>2, <1>3, <1>4, <1>5 DEF Step

\* A send begun after a definition returned is not answered from the frozen
\* tables when the definition reaches its receiver's class, for any frozen
\* ancestry, mix-ins, threads and definitions (INV-1, cached_send_core_inner).
THEOREM SendSiteFresh == Spec => []SendFresh
<1>1. Init => SendInd
  <2> SUFFICES ASSUME Init PROVE SendInd
    OBVIOUS
  <2>1. CallTypeOK
    BY NoCallTyped, Zenon DEF Init, CallTypeOK, DispatchPcs
  <2>2. DefTypeOK
    BY DEF Init, DefTypeOK, DispatchPcs, Definitions, Kinds, NoDef
  <2>3. ChainsMarked /\ Published /\ ToldMarked
    BY DEF Init, ChainsMarked, Published, ToldMarked
  <2>4. Owed /\ LateMisses
    BY DEF Init, Owed, LateMisses
  <2> QED
    BY <2>1, <2>2, <2>3, <2>4 DEF SendInd, MarkInd
<1>2. SendInd /\ [Next]_vars => SendInd'
  <2> SUFFICES ASSUME SendInd, [Next]_vars PROVE SendInd'
    OBVIOUS
  <2>1. CASE Next
    BY <2>1, CallStep, MarkStepInd, LateStep DEF Next, SendInd
  <2>2. CASE UNCHANGED vars
    <3>1. CallTypeOK' /\ DefTypeOK' /\ LateMisses'
      BY <2>2 DEF vars, marks, defining, SendInd, MarkInd, CallTypeOK, DefTypeOK, LateMisses
    <3>2. MarkInd'
      BY <2>2, <3>1, CallKeepsMarks, Zenon DEF vars, overlay, SendInd
    <3> QED
      BY <2>2, <3>1, <3>2 DEF vars, SendInd
  <2> QED
    BY <2>1, <2>2
<1>3. SendInd => SendFresh
  BY DEF SendInd, LateMisses, SendFresh
<1> QED
  BY <1>1, <1>2, <1>3, PTL DEF Spec
=============================================================================
