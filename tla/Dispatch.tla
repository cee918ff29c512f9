------------------------------ MODULE Dispatch ------------------------------
(***************************************************************************)
(* Definitions made while the program runs, and the call sites that must   *)
(* notice (runtime_meta/mod.rs, api.rs, watermark.rs, dispatch/caches.rs). *)
(* A definition writes the overlay, then patches the classes whose methods *)
(* may now resolve otherwise: the set of ids under its lock, the mirrored  *)
(* bits one by one, and the gate bit readers test first.  A call site      *)
(* answers from the frozen tables while its receiver's class reads as      *)
(* untouched; a class-method site also remembers a visibility verdict for  *)
(* as long as the patch generation stands still.                           *)
(***************************************************************************)
EXTENDS Naturals

CONSTANTS
  Threads,
  Classes,     \* frozen classes and modules
  Modules,     \* the ones that can be mixed in
  Above,       \* the frozen ancestry of each, itself included
  Site,        \* the class whose class method the vetted site calls
  None,
  MaxDefs      \* bound on definitions

ASSUME AncestryReflexive == \A c \in Classes : c \in Above[c]

Rows == {"absent", "public", "private"}

VARIABLES
  chain,       \* ancestors(C) as the overlay has it
  row,         \* the site's name among Site's class methods
  ids, closed, \* PatchedSets
  bits,        \* PATCHED_BITS
  gate,        \* GATE_PATCHED_ANY
  live,        \* GATE_OVERLAY
  gen,         \* PATCH_GEN
  hit,         \* the class the CallSite filled for
  word,        \* the ClassMethodSite's vet word
  pc,
  def,         \* per thread: the definition it is making
  todo,        \* per thread: classes it has still to patch
  adding,      \* per thread: ids whose bits it has still to set
  plan,        \* per thread: the chains a splice will install
  call,        \* per thread: the send or vet it is making
  defs,        \* definitions so far
  told,        \* classes that returned definitions changed
  unmarked     \* a row was written and the generation has not moved since

overlay == <<chain, row, unmarked>>
marks == <<ids, closed, bits, gate, live>>
sites == <<hit, word>>
defining == <<def, todo, adding, plan, told>>
vars == <<overlay, marks, gen, sites, pc, defining, call, defs>>

NoDef == [kind |-> "none", on |-> None]
NoCall == [of |-> None, gate |-> FALSE, late |-> FALSE, stamp |-> 0, vet |-> None]
Empty == [stamp |-> 0, vet |-> None]

Init ==
  /\ chain = Above /\ row \in {"absent", "public"}
  /\ ids = {} /\ closed = {} /\ bits = {}
  /\ gate = FALSE /\ live = FALSE /\ gen = 0
  /\ hit = None /\ word = Empty
  /\ pc = [t \in Threads |-> "run"]
  /\ def = [t \in Threads |-> NoDef]
  /\ todo = [t \in Threads |-> {}]
  /\ adding = [t \in Threads |-> {}]
  /\ plan = [t \in Threads |-> <<>>]
  /\ call = [t \in Threads |-> NoCall]
  /\ defs = 0 /\ told = {} /\ unmarked = FALSE

Goto(t, where) == pc' = [pc EXCEPT ![t] = where]

\* classes_with_ancestor reads the frozen ancestry.
Below(c) == {x \in Classes : c \in Above[x]}

\* What a change to c can be seen through now.
Seen(c) == {x \in Classes : c \in chain[x]}

-----------------------------------------------------------------------------
(* Definitions *)

Begin(t, kind, c, patch) ==
  /\ pc[t] = "run" /\ defs < MaxDefs
  /\ defs' = defs + 1
  /\ def' = [def EXCEPT ![t] = [kind |-> kind, on |-> c]]
  /\ todo' = [todo EXCEPT ![t] = patch]

\* A row of c, or of its singleton, takes another value; the site's name is
\* looked up there when Site has c among its ancestors.
Write(c) ==
  IF c \in chain[Site] THEN row' \in Rows /\ unmarked' = TRUE
                       ELSE UNCHANGED <<row, unmarked>>

\* A method, an alias, a removal, an undef or a visibility on c, or on its
\* singleton: the overlay row is written first.  A module's definition may also
\* retire the copies its frozen hosts carry, and patches those before itself.
Define(t, c) ==
  /\ \E patch \in IF c \in Modules THEN {{c}, Below(c)} ELSE {{c}} :
       Begin(t, "define", c, patch)
  /\ Write(c)
  /\ Goto(t, "patch")
  /\ UNCHANGED <<chain, marks, gen, sites, adding, plan, told, call>>

\* private_class_method, runtime_attr and runtime_undef_method raise at an
\* argument that is no name, or no method, after they wrote the row of the one
\* before: nothing is patched.  A row no lookup of the site reads leaves
\* nothing behind.
DefineFails(t, c) ==
  /\ pc[t] = "run" /\ defs < MaxDefs
  /\ c \in chain[Site]
  /\ defs' = defs + 1
  /\ Write(c)
  /\ UNCHANGED <<chain, marks, gen, sites, pc, defining, call>>

\* A singleton method of one object: only receivers of its class can see it.
DefineOwn(t, c) ==
  /\ Begin(t, "own", c, {c})
  /\ Goto(t, "patch")
  /\ UNCHANGED <<overlay, marks, gen, sites, adding, plan, told, call>>

\* mix_in, which refuses a cycle, and splice_mixin, the primitive it may reach
\* through append_features, patch the host before its chain changes,
MixIn(t, c, m) ==
  /\ \/ c \notin chain[m] /\ Begin(t, "mixin", c, {c})
     \/ Begin(t, "primitive", c, {c})
  /\ plan' = [plan EXCEPT ![t] = m]
  /\ Goto(t, "patch")
  /\ UNCHANGED <<overlay, marks, gen, sites, adding, told, call>>

\* compute every chain that has the host in it,
SpliceRead(t) ==
  LET m == plan[t] IN
  /\ pc[t] = "splice"
  /\ plan' = [plan EXCEPT ![t] = [x \in Seen(def[t].on) |-> chain[x] \cup chain[m]]]
  /\ Goto(t, "install")
  /\ UNCHANGED <<overlay, marks, gen, sites, def, todo, adding, told, call, defs>>

\* install them under one lock, and patch again.
SpliceWrite(t) ==
  /\ pc[t] = "install"
  /\ chain' = [x \in Classes |-> IF x \in DOMAIN plan[t] THEN plan[t][x] ELSE chain[x]]
  /\ plan' = [plan EXCEPT ![t] = <<>>]
  /\ def' = [def EXCEPT ![t].kind = "spliced"]
  /\ todo' = [todo EXCEPT ![t] = {def[t].on}]
  /\ Goto(t, "patch")
  /\ UNCHANGED <<row, unmarked, marks, gen, sites, adding, told, call, defs>>

-----------------------------------------------------------------------------
(* patch_class and patch_class_own *)

\* The class being patched: hosts first, then the definition's own.
Target(t) ==
  IF todo[t] = {def[t].on} THEN def[t].on
  ELSE CHOOSE c \in todo[t] : c # def[t].on

\* The generation moves whatever follows;
Patch(t) ==
  /\ pc[t] = "patch" /\ todo[t] # {}
  /\ gen' = gen + 1
  /\ unmarked' = FALSE
  /\ Goto(t, "known")
  /\ UNCHANGED <<chain, row, marks, sites, defining, call, defs>>

\* Mutant: a class already in the set is taken to have brought its descendants.
KnownByMembership(t) ==
  /\ pc[t] = "known"
  /\ IF Target(t) \in ids
       THEN /\ todo' = [todo EXCEPT ![t] = @ \ {Target(t)}]
            /\ Goto(t, "patch")
       ELSE /\ Goto(t, "insert")
            /\ UNCHANGED todo
  /\ UNCHANGED <<overlay, marks, gen, sites, def, adding, plan, told, call, defs>>

\* a mark that would add nothing returns at once;
Known(t) ==
  /\ pc[t] = "known"
  /\ IF Target(t) \in (IF def[t].kind = "own" THEN ids ELSE closed)
       THEN /\ todo' = [todo EXCEPT ![t] = @ \ {Target(t)}]
            /\ Goto(t, "patch")
       ELSE /\ Goto(t, "insert")
            /\ UNCHANGED todo
  /\ UNCHANGED <<overlay, marks, gen, sites, def, adding, plan, told, call, defs>>

\* the set takes the class, and its descendants unless only it is meant;
Insert(t) ==
  LET own == def[t].kind = "own"
      new == IF own THEN {Target(t)} ELSE Below(Target(t))
  IN
  /\ pc[t] = "insert"
  /\ ids' = ids \cup new
  /\ closed' = IF own THEN closed ELSE closed \cup {Target(t)}
  /\ adding' = [adding EXCEPT ![t] = IF own THEN new ELSE new \ ids]
  /\ Goto(t, "mirror")
  /\ UNCHANGED <<overlay, bits, gate, live, gen, sites, def, todo, plan, told, call, defs>>

\* its bits follow one at a time,
Mirror(t) ==
  /\ pc[t] = "mirror"
  /\ \E c \in adding[t] :
       /\ bits' = bits \cup {c}
       /\ adding' = [adding EXCEPT ![t] = @ \ {c}]
  /\ UNCHANGED <<overlay, ids, closed, gate, live, gen, sites, pc, def, todo, plan, told,
                 call, defs>>

\* and the gate last.
Gate(t) ==
  /\ pc[t] = "mirror" /\ adding[t] = {}
  /\ gate' = TRUE
  /\ todo' = [todo EXCEPT ![t] = @ \ {Target(t)}]
  /\ Goto(t, "patch")
  /\ UNCHANGED <<overlay, ids, closed, bits, live, gen, sites, def, adding, plan, told,
                 call, defs>>

\* mark_live: a mix-in goes on to its splice, of the two only mix_in with the
\* mark made, and anything else returns.
MarkLive(t) ==
  /\ pc[t] = "patch" /\ todo[t] = {}
  /\ IF def[t].kind \in {"mixin", "primitive"}
       THEN /\ live' = IF def[t].kind = "mixin" THEN TRUE ELSE live
            /\ Goto(t, "splice")
            /\ UNCHANGED <<def, told>>
       ELSE /\ live' = TRUE
            /\ Goto(t, "run")
            /\ def' = [def EXCEPT ![t] = NoDef]
            /\ told' = told \cup (IF def[t].kind = "own" THEN {def[t].on}
                                                        ELSE Seen(def[t].on))
  /\ UNCHANGED <<overlay, ids, closed, bits, gate, gen, sites, todo, adding, plan, call,
                 defs>>

-----------------------------------------------------------------------------
(* cached_send_core_inner, send_class_cached *)

\* Some definition has put c in the set and not yet shown it to readers.
Publishing(c) ==
  \E t \in Threads :
    pc[t] = "mirror" /\ c \in (IF def[t].kind = "own" THEN {Target(t)} ELSE Below(Target(t)))

\* The gate word is loaded once,
Send(t, c) ==
  /\ pc[t] = "run"
  /\ call' = [call EXCEPT ![t] = [NoCall EXCEPT !.of = c, !.gate = gate,
                                                !.late = c \in told /\ ~Publishing(c)]]
  /\ Goto(t, "bit")
  /\ UNCHANGED <<overlay, marks, gen, sites, defining, defs>>

\* the class's bit behind it,
Bit(t) ==
  /\ pc[t] = "bit"
  /\ Goto(t, IF call[t].gate /\ call[t].of \in bits THEN "miss" ELSE "cache")
  /\ UNCHANGED <<overlay, marks, gen, sites, defining, call, defs>>

\* and a site of this class, or an empty one that finds something to keep,
\* answers from the frozen tables;
Cache(t) ==
  /\ pc[t] = "cache"
  /\ \/ hit = None /\ Goto(t, "fill")
     \/ hit = call[t].of /\ Goto(t, "frozen")
     \/ hit # call[t].of /\ Goto(t, "miss")
  /\ UNCHANGED <<overlay, marks, gen, sites, defining, call, defs>>

\* the latter also when another thread was first to fill it.
Fill(t) ==
  /\ pc[t] = "fill"
  /\ hit' = IF hit = None THEN call[t].of ELSE hit
  /\ Goto(t, "frozen")
  /\ UNCHANGED <<overlay, marks, gen, word, defining, call, defs>>

\* The full send reads the overlay once something has marked it live.
Miss(t) ==
  /\ pc[t] = "miss"
  /\ IF live THEN Goto(t, "run") /\ call' = [call EXCEPT ![t] = NoCall]
             ELSE Goto(t, "frozen") /\ UNCHANGED call
  /\ UNCHANGED <<overlay, marks, gen, sites, defining, defs>>

\* The frozen answer is called.
Frozen(t) ==
  /\ pc[t] = "frozen"
  /\ Goto(t, "run")
  /\ call' = [call EXCEPT ![t] = NoCall]
  /\ UNCHANGED <<overlay, marks, gen, sites, defining, defs>>

-----------------------------------------------------------------------------
(* class_vet_at *)

Verdict == [r \in Rows |-> CASE r = "private" -> "Private"
                             [] r = "public"  -> "Provided"
                             [] OTHER         -> "NotProvided"]

\* The generation is read first,
Vet(t) ==
  /\ pc[t] = "run"
  /\ call' = [call EXCEPT ![t].stamp = gen]
  /\ Goto(t, "word")
  /\ UNCHANGED <<overlay, marks, gen, sites, defining, defs>>

\* a word of that generation answers,
Word(t) ==
  /\ pc[t] = "word"
  /\ IF word # Empty /\ word.stamp = call[t].stamp
       THEN Goto(t, "run") /\ call' = [call EXCEPT ![t] = NoCall]
       ELSE Goto(t, "private") /\ UNCHANGED call
  /\ UNCHANGED <<overlay, marks, gen, sites, defining, defs>>

\* otherwise one walk asks whether the name is private,
IsPrivate(t) ==
  /\ pc[t] = "private"
  /\ IF row = "private"
       THEN Goto(t, "store") /\ call' = [call EXCEPT ![t].vet = "Private"]
       ELSE Goto(t, "owner") /\ UNCHANGED call
  /\ UNCHANGED <<overlay, marks, gen, sites, defining, defs>>

\* a second who supplies it,
Owner(t) ==
  /\ pc[t] = "owner"
  /\ call' = [call EXCEPT ![t].vet = IF row = "absent" THEN "NotProvided" ELSE "Provided"]
  /\ Goto(t, "store")
  /\ UNCHANGED <<overlay, marks, gen, sites, defining, defs>>

\* Mutant: the word is stamped with the generation of the store.
StoreNow(t) ==
  /\ pc[t] = "store"
  /\ word' = [stamp |-> gen, vet |-> call[t].vet]
  /\ call' = [call EXCEPT ![t] = NoCall]
  /\ Goto(t, "run")
  /\ UNCHANGED <<overlay, marks, gen, hit, defining, defs>>

\* and the word is replaced, stamped with the generation read first.
Store(t) ==
  /\ pc[t] = "store"
  /\ word' = [stamp |-> call[t].stamp, vet |-> call[t].vet]
  /\ call' = [call EXCEPT ![t] = NoCall]
  /\ Goto(t, "run")
  /\ UNCHANGED <<overlay, marks, gen, hit, defining, defs>>

-----------------------------------------------------------------------------

Step(t) ==
  \/ \E c \in Classes : Define(t, c) \/ DefineFails(t, c) \/ DefineOwn(t, c) \/ Send(t, c)
  \/ \E c \in Classes, m \in Modules : MixIn(t, c, m)
  \/ SpliceRead(t) \/ SpliceWrite(t)
  \/ Patch(t) \/ Known(t) \/ Insert(t) \/ Mirror(t) \/ Gate(t) \/ MarkLive(t)
  \/ Bit(t) \/ Cache(t) \/ Fill(t) \/ Miss(t) \/ Frozen(t)
  \/ Vet(t) \/ Word(t) \/ IsPrivate(t) \/ Owner(t) \/ Store(t)

Next == \E t \in Threads : Step(t)

Spec == Init /\ [][Next]_vars

-----------------------------------------------------------------------------
(* Properties. *)

\* INV-1 as a call site relies on it: a send begun after a definition returned
\* is not answered from the frozen tables when the definition reaches its
\* receiver's class, by the frozen ancestry or by chains spliced since.  Where
\* another definition has marked the class and not yet published the mark, the
\* later one has returned without waiting for it, and the send may be.
SendFresh == \A t \in Threads : pc[t] = "frozen" => ~call[t].late

\* A remembered verdict of the current generation is the one class_vet would
\* compute, unless the generation has not moved since a row was written: a
\* definition is between its write and its mark, or ended between the two.
VetFresh == word # Empty /\ word.stamp = gen /\ ~unmarked => word.vet = Verdict[row]
=============================================================================
