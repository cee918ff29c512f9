------------------------------ MODULE Features ------------------------------
(***************************************************************************)
(* Loading at run time (features.rs, kernel/load.rs, rmodule.rs): a        *)
(* computed require of a unit the program compiled in or of a file on      *)
(* disk, Kernel#load, and the autoload that a constant's first read runs.  *)
(* One table, under one lock, serves every thread; a body runs with the    *)
(* lock free, and may require, load, declare and read in its turn.         *)
(***************************************************************************)
EXTENDS Naturals, Sequences, FiniteSets

CONSTANTS
  Threads,
  Units,       \* files compiled into the program
  Files,       \* files found on disk, compiled where they are found
  Names, Of,   \* the spellings of a feature, and the unit or file each reaches
  Consts, Target, \* the constants autoload is called for, and the name it gives
  Reloaded,    \* the files the program runs with Kernel#load
  MaxFrames    \* bound on the loads and reads open on one thread

Items == Units \cup Files

ASSUME Disjoint == Units \cap Files = {}
ASSUME NamesReach == Of \in [Names -> Items] /\ Target \in [Consts -> Names]
ASSUME ReloadedOnDisk == Reloaded \subseteq Files
ASSUME ThreadsFinite == IsFiniteSet(Threads)
ASSUME FramesBound == MaxFrames \in Nat

VARIABLES
  loaded, loading,   \* LoadState: units by identity, files by path
  depth,             \* LoadState.depth: the unit loads on every thread's stack
  recorded,          \* $LOADED_FEATURES
  pending,           \* pending_autoloads
  stack,             \* the loads and constant reads open on a thread, outermost first
  completed          \* the bodies that ran to their end

table == <<loaded, loading, depth>>
vars == <<table, recorded, pending, stack, completed>>

\* A body of item `what` that a require or a Kernel#load runs, or a read of
\* constant `what`; `at` is how far it is.
Frames ==
  [how : {"require"}, what : Names, at : {"mark", "body"}]
    \cup [how : {"load"}, what : Reloaded, at : {"body"}]
    \cup [how : {"read"}, what : Consts, at : {"load", "wait", "take"}]

TypeOK ==
  /\ loaded \subseteq Items /\ loading \subseteq Items
  /\ depth \in Nat
  /\ recorded \subseteq Items
  /\ pending \subseteq Consts
  /\ stack \in [Threads -> Seq(Frames)]
  /\ completed \subseteq Items

Init ==
  /\ loaded = {} /\ loading = {} /\ depth = 0
  /\ recorded = {}
  /\ pending = {}
  /\ stack = [t \in Threads |-> <<>>]
  /\ completed = {}

Top(t) == stack[t][Len(stack[t])]
Below(t) == SubSeq(stack[t], 1, Len(stack[t]) - 1)
In(t, how, at) == stack[t] # <<>> /\ Top(t).how = how /\ Top(t).at = at

\* Ruby code of the thread is running, in the main program or in a body.
Running(t) == stack[t] # <<>> => Top(t).at = "body"

Room(t) == Len(stack[t]) < MaxFrames
Push(t, how, what, at) ==
  stack' = [stack EXCEPT ![t] = Append(@, [how |-> how, what |-> what, at |-> at])]
Advance(t, at) == stack' = [stack EXCEPT ![t] = [@ EXCEPT ![Len(@)].at = at]]

\* Mutant: a file under two spellings is two entries of the table.
IdentityOfName(n) == n

\* UnitImpl::identity and the canonical path: the entry is the file's.
Identity(n) == Of[n]

-----------------------------------------------------------------------------
(* require. *)

\* load_feature or load_from_disk, up to the call of the body: the item is
\* neither loaded nor loading.  A unit's body leads with its marker.
Enter(t, n) ==
  /\ Identity(n) \notin loaded \cup loading
  /\ loading' = loading \cup {Identity(n)}
  /\ depth' = IF Of[n] \in Units THEN depth + 1 ELSE depth
  /\ UNCHANGED loaded

Opening(n) == [how |-> "require", what |-> n, at |-> IF Of[n] \in Units THEN "mark" ELSE "body"]

\* dynamic_require first looks for the file in $LOADED_FEATURES.  A require
\* that answers false leaves everything as it is.
Require(t, n) ==
  /\ Running(t)
  /\ Room(t)
  /\ Of[n] \notin recorded
  /\ Enter(t, n)
  /\ stack' = [stack EXCEPT ![t] = Append(@, Opening(n))]
  /\ UNCHANGED <<recorded, pending, completed>>

\* The FeatureLoaded marker: the unit is in $LOADED_FEATURES before its body.
Mark(t) ==
  /\ In(t, "require", "mark")
  /\ recorded' = recorded \cup {Of[Top(t).what]}
  /\ Advance(t, "body")
  /\ UNCHANGED <<table, pending, completed>>

\* What is left of the stack when the load on top ends: a constant read that
\* ran it goes on to spend the registration, or passes the error on.
After(t, ok) ==
  LET rest == Below(t)
      k == Len(rest)
  IN IF rest = <<>> \/ rest[k].at # "wait" THEN rest
     ELSE IF ok THEN [rest EXCEPT ![k].at = "take"]
     ELSE SubSeq(rest, 1, k - 1)

\* Mutant: a body that raised stays in the loading table.
FinishStuck(t, ok) ==
  /\ In(t, "require", "body")
  /\ LET n == Top(t).what IN
     /\ loading' = IF ok THEN loading \ {Identity(n)} ELSE loading
     /\ depth' = IF Of[n] \in Units THEN depth - 1 ELSE depth
     /\ loaded' = IF ok THEN loaded \cup {Identity(n)} ELSE loaded
     /\ recorded' = IF ok THEN recorded \cup {Of[n]} ELSE recorded
     /\ completed' = IF ok THEN completed \cup {Of[n]} ELSE completed
  /\ stack' = [stack EXCEPT ![t] = After(t, ok)]
  /\ UNCHANGED pending

\* The body returned, or raised: only the first is loaded.  A file from disk
\* is put into $LOADED_FEATURES here.
Finish(t, ok) ==
  /\ In(t, "require", "body")
  /\ LET n == Top(t).what IN
     /\ loading' = loading \ {Identity(n)}
     /\ depth' = IF Of[n] \in Units THEN depth - 1 ELSE depth
     /\ loaded' = IF ok THEN loaded \cup {Identity(n)} ELSE loaded
     /\ recorded' = IF ok THEN recorded \cup {Of[n]} ELSE recorded
     /\ completed' = IF ok THEN completed \cup {Of[n]} ELSE completed
  /\ stack' = [stack EXCEPT ![t] = After(t, ok)]
  /\ UNCHANGED pending

-----------------------------------------------------------------------------
(* Kernel#load: the file is run whatever the table says, and the table is   *)
(* updated at its end.                                                      *)

Load(t, f) ==
  /\ Running(t)
  /\ Room(t)
  /\ Push(t, "load", f, "body")
  /\ UNCHANGED <<table, recorded, pending, completed>>

FinishLoad(t, ok) ==
  /\ In(t, "load", "body")
  /\ LET f == Top(t).what IN
     /\ loading' = loading \ {f}
     /\ loaded' = IF ok THEN loaded \cup {f} ELSE loaded
     /\ completed' = IF ok THEN completed \cup {f} ELSE completed
  /\ stack' = [stack EXCEPT ![t] = Below(t)]
  /\ UNCHANGED <<depth, recorded, pending>>

-----------------------------------------------------------------------------
(* autoload. *)

RegisterAutoload(t, c) ==
  /\ Running(t)
  /\ pending' = pending \cup {c}
  /\ UNCHANGED <<table, recorded, stack, completed>>

\* A constant that is not defined is read: peek_autoload_target.
Read(t, c) ==
  /\ Running(t)
  /\ Room(t)
  /\ c \in pending
  /\ Push(t, "read", c, "load")
  /\ UNCHANGED <<table, recorded, pending, completed>>

\* run_pending_autoload loads the target, or is told that it is loaded or
\* being loaded.
ReadLoads(t) ==
  /\ In(t, "read", "load")
  /\ Room(t)
  /\ LET n == Target[Top(t).what] IN
     /\ Enter(t, n)
     /\ stack' = [stack EXCEPT ![t] = Append([@ EXCEPT ![Len(@)].at = "wait"], Opening(n))]
  /\ UNCHANGED <<recorded, pending, completed>>

ReadFalse(t) ==
  /\ In(t, "read", "load")
  /\ Identity(Target[Top(t).what]) \in loaded \cup loading
  /\ Advance(t, "take")
  /\ UNCHANGED <<table, recorded, pending, completed>>

\* take_autoload_target: the registration is spent.
Take(t) ==
  /\ In(t, "read", "take")
  /\ pending' = pending \ {Top(t).what}
  /\ stack' = [stack EXCEPT ![t] = Below(t)]
  /\ UNCHANGED <<table, recorded, completed>>

-----------------------------------------------------------------------------

Next ==
  \E t \in Threads :
    \/ \E n \in Names : Require(t, n)
    \/ \E ok \in BOOLEAN : Finish(t, ok) \/ FinishLoad(t, ok)
    \/ \E f \in Reloaded : Load(t, f)
    \/ \E c \in Consts : RegisterAutoload(t, c) \/ Read(t, c)
    \/ Mark(t) \/ ReadLoads(t) \/ ReadFalse(t) \/ Take(t)

Spec == Init /\ [][Next]_vars

-----------------------------------------------------------------------------
(* Properties. *)

\* The requires open on every stack, as pairs of a thread and a position.
Open == {o \in Threads \X (1..MaxFrames) :
           o[2] \in DOMAIN stack[o[1]] /\ stack[o[1]][o[2]].how = "require"}
NameAt(o) == stack[o[1]][o[2]].what
ItemAt(o) == Of[NameAt(o)]

\* "Loading is once-only and re-entrant-safe" (features.rs): whatever the
\* spellings, the threads and the cycles, a file runs for one require at a
\* time, and for none once it has run to its end.  Kernel#load runs it again.
OnceOnly ==
  \A o \in Open : ItemAt(o) \notin Reloaded =>
    /\ ItemAt(o) \notin completed
    /\ \A p \in Open : ItemAt(p) = ItemAt(o) => p = o

\* What is in the loading table is running somewhere, and depth counts it: a
\* body that raised leaves nothing behind that would make every later require
\* of the file answer false.
LoadingExact ==
  /\ loading \ Reloaded = {Identity(NameAt(o)) : o \in Open} \ Reloaded
  /\ depth = Cardinality({o \in Open : ItemAt(o) \in Units})

\* "A unit that raised is NOT loaded: CRuby leaves the feature out of
\* $LOADED_FEATURES so a later require retries it" (load_feature).
RaisedIsRetried == recorded \cap Units \subseteq loaded \cup loading

\* "A target whose load raises goes back to pending" (run_pending_autoload):
\* a registration is spent by a read only if the target is loaded.
RaisedStaysPending ==
  [][\A c \in pending \ pending' : Of[Target[c]] \in loaded]_vars

\* "one currently loading answers `false` too" (features.rs), of a file the
\* program also runs with Kernel#load.
LoadKeepsLoading == \A o \in Open : Identity(NameAt(o)) \in loaded \cup loading
=============================================================================
