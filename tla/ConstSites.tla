----------------------------- MODULE ConstSites -----------------------------
(***************************************************************************)
(* One emitted constant reference (constants.rs): a ConstSite fills once   *)
(* with the value its lookup gave and the epoch it read first, and trusts  *)
(* it while the epoch stands still.  const_set and const_remove move the   *)
(* epoch before they touch the table, reveal_class and                     *)
(* set_temporary_class_name after; a mix-in at run time changes the chain  *)
(* the lookup walks and leaves the epoch alone.  The table is what the     *)
(* site's lookup would answer.                                             *)
(***************************************************************************)
EXTENDS Integers

CONSTANTS
  Threads,
  Values,
  None,        \* the name is not bound
  MaxWrites    \* bound on changes of any constant

Unfilled == -1

VARIABLES
  table,       \* what the lookup answers
  epoch,       \* EPOCH
  cached,      \* the site's OnceLock
  stamp,       \* the site's epoch
  pc,
  value,       \* per thread: what it is about to write, or has looked up
  read,        \* per thread: the epoch a fill read
  writes,      \* changes so far
  over,        \* per thread: writes that had moved the epoch when it read it and
               \* have not reached the table
  raced        \* the site was filled from such a lookup, or a mix-in has come since
               \* the lookup it was filled from

site == <<cached, stamp, raced>>
locals == <<value, read, over>>
vars == <<table, epoch, site, locals, pc, writes>>

Init ==
  /\ table \in Values \cup {None}
  /\ epoch = 0 /\ writes = 0
  /\ cached = None /\ stamp = Unfilled /\ raced = FALSE
  /\ pc = [t \in Threads |-> "run"]
  /\ value = [t \in Threads |-> None]
  /\ read = [t \in Threads |-> 0]
  /\ over = [t \in Threads |-> {}]

Goto(t, where) == pc' = [pc EXCEPT ![t] = where]

-----------------------------------------------------------------------------
(* Writers *)

\* const_set, or const_remove with None: the epoch moves first,
Move(t, v) ==
  /\ pc[t] = "run" /\ writes < MaxWrites
  /\ epoch' = epoch + 1
  /\ writes' = writes + 1
  /\ value' = [value EXCEPT ![t] = v]
  /\ \/ Goto(t, "insert")
     \/ v # None /\ Goto(t, "name")
  /\ UNCHANGED <<table, site, read, over>>

\* an anonymous class takes the name, which may be enough to find it, and the
\* epoch moves again before the name's lock is let go,
Name(t) ==
  /\ pc[t] = "name"
  /\ table' \in {table, value[t]}
  /\ epoch' = epoch + 1
  /\ Goto(t, "insert")
  /\ UNCHANGED <<site, locals, writes>>

\* then the table changes under its lock.
Insert(t) ==
  /\ pc[t] = "insert"
  /\ table' = value[t]
  /\ over' = [u \in Threads |-> over[u] \ {t}]
  /\ value' = [value EXCEPT ![t] = None]
  /\ Goto(t, "run")
  /\ UNCHANGED <<epoch, site, read, writes>>

\* reveal_class and set_temporary_class_name change what resolves first,
Reveal(t, v) ==
  /\ pc[t] = "run" /\ writes < MaxWrites
  /\ table' = v
  /\ writes' = writes + 1
  /\ Goto(t, "bump")
  /\ UNCHANGED <<epoch, site, locals>>

\* then the epoch moves.
Bump(t) ==
  /\ pc[t] = "bump"
  /\ epoch' = epoch + 1
  /\ Goto(t, "run")
  /\ UNCHANGED <<table, site, locals, writes>>

\* A write of another constant: one epoch serves them all.
Elsewhere(t) ==
  /\ pc[t] = "run" /\ writes < MaxWrites
  /\ epoch' = epoch + 1
  /\ writes' = writes + 1
  /\ UNCHANGED <<table, site, locals, pc>>

\* splice_module_into, from mix_in or splice_mixin: the owner's chain gets
\* another module, whose constant hides or adds what the lookup finds.
Include(t, v) ==
  /\ pc[t] = "run" /\ writes < MaxWrites
  /\ table' = v
  /\ writes' = writes + 1
  /\ pc' = [u \in Threads |-> IF pc[u] = "fill" THEN "fillraced" ELSE pc[u]]
  /\ raced' = (raced \/ cached # None)
  /\ UNCHANGED <<epoch, cached, stamp, locals>>

-----------------------------------------------------------------------------
(* ConstSite::get *)

Get(t) ==
  /\ pc[t] = "run"
  /\ Goto(t, IF cached = None THEN "epoch" ELSE "check")
  /\ UNCHANGED <<table, epoch, site, locals, writes>>

\* A filled site answers while its epoch is the current one and looks up, for
\* good, once it is not; neither changes the site.
Check(t) ==
  /\ pc[t] = "check"
  /\ Goto(t, "run")
  /\ UNCHANGED <<table, epoch, site, locals, writes>>

\* An empty one reads the epoch,
ReadEpoch(t) ==
  /\ pc[t] = "epoch"
  /\ read' = [read EXCEPT ![t] = epoch]
  /\ over' = [over EXCEPT ![t] = {u \in Threads : pc[u] = "insert"}]
  /\ Goto(t, "resolve")
  /\ UNCHANGED <<table, epoch, site, value, writes>>

\* looks the name up, and leaves on a miss;
Resolve(t) ==
  /\ pc[t] = "resolve"
  /\ IF table = None
       THEN /\ Goto(t, "run")
            /\ read' = [read EXCEPT ![t] = 0]
            /\ UNCHANGED value
       ELSE /\ Goto(t, IF over[t] = {} THEN "fill" ELSE "fillraced")
            /\ value' = [value EXCEPT ![t] = table]
            /\ UNCHANGED read
  /\ over' = [over EXCEPT ![t] = {}]
  /\ UNCHANGED <<table, epoch, site, writes>>

\* the first to fill it stamps it.
Fill(t) ==
  /\ pc[t] \in {"fill", "fillraced"}
  /\ IF cached = None
       THEN /\ cached' = value[t]
            /\ raced' = (pc[t] = "fillraced")
            /\ Goto(t, "stamp")
            /\ UNCHANGED read
       ELSE /\ Goto(t, "run")
            /\ read' = [read EXCEPT ![t] = 0]
            /\ UNCHANGED <<cached, raced>>
  /\ value' = [value EXCEPT ![t] = None]
  /\ UNCHANGED <<table, epoch, stamp, over, writes>>

\* Mutant: the stamp is the epoch of the store.
StampNow(t) ==
  /\ pc[t] = "stamp"
  /\ stamp' = epoch
  /\ read' = [read EXCEPT ![t] = 0]
  /\ Goto(t, "run")
  /\ UNCHANGED <<table, epoch, cached, raced, value, over, writes>>

Stamp(t) ==
  /\ pc[t] = "stamp"
  /\ stamp' = read[t]
  /\ read' = [read EXCEPT ![t] = 0]
  /\ Goto(t, "run")
  /\ UNCHANGED <<table, epoch, cached, raced, value, over, writes>>

-----------------------------------------------------------------------------

Step(t) ==
  \/ \E v \in Values \cup {None} : Move(t, v) \/ Reveal(t, v)
  \/ \E v \in Values : Include(t, v)
  \/ Name(t) \/ Insert(t) \/ Bump(t) \/ Elsewhere(t)
  \/ Get(t) \/ Check(t) \/ ReadEpoch(t) \/ Resolve(t) \/ Fill(t) \/ Stamp(t)

Next == \E t \in Threads : Step(t)

Spec == Init /\ [][Next]_vars

-----------------------------------------------------------------------------
(* Properties. *)

Trusted == cached # None /\ stamp = epoch

\* "readers reject the value rather than trusting a stale one": a site that
\* answers from its cache answers what the lookup would.  A reveal between its
\* two halves is excepted, and so are a site filled while a write was between
\* its own and a site whose value was looked up before a mix-in: those keep
\* the old value until the epoch moves again.
ConstFresh ==
  Trusted /\ ~raced /\ (\A t \in Threads : pc[t] # "bump") => cached = table
=============================================================================
