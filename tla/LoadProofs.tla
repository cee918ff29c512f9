----------------------------- MODULE LoadProofs -----------------------------
(***************************************************************************)
(* What a program is made of: the files it requires, and the caches it is  *)
(* built from.                                                             *)
(*                                                                         *)
(* Features, for any number of threads, units, files, spellings, constants *)
(* and open loads: a file runs for one require at a time and for none once *)
(* it has run to its end, and the loading table is exact.                  *)
(*                                                                         *)
(* ProgCache, for any number of processes, texts, edits, kills and I/O     *)
(* errors.  While a process builds, no source changes, so everything any   *)
(* process links, writes or commits meanwhile is made of the sources as    *)
(* they are; and a manifest older than that is removed before the file it  *)
(* vouches for is touched.                                                 *)
(***************************************************************************)
EXTENDS Features, ProgCache, FiniteSetTheorems, TLAPS

-----------------------------------------------------------------------------
(* Features. *)

StackOK ==
  /\ stack \in [Threads -> Seq(Frames)]
  /\ \A t \in Threads : Len(stack[t]) <= MaxFrames

\* What ran to its end is loaded, of the files Kernel#load does not run.
CompletedLoaded == completed \ Reloaded \subseteq loaded

FeatInd == StackOK /\ OnceOnly /\ LoadingExact /\ CompletedLoaded

OpenUnits == {o \in Open : ItemAt(o) \in Units}

\* The positions of the requires in one stack.
Requires(s) == {k \in DOMAIN s : s[k].how = "require"}

\* The open requires are those of every stack.
LEMMA OpenMeans ==
  ASSUME StackOK
  PROVE  \A t, k : <<t, k>> \in Open <=> t \in Threads /\ k \in Requires(stack[t])
BY FramesBound DEF StackOK, Open, Requires

\* They are finitely many.
LEMMA OpenFinite == IsFiniteSet(Open) /\ IsFiniteSet(OpenUnits)
<1>1. IsFiniteSet(Threads \X (1..MaxFrames))
  <2>1. IsFiniteSet(1..MaxFrames)
    BY FramesBound, FS_Interval
  <2> QED
    BY <2>1, ThreadsFinite, FS_Product, Zenon
<1>2. Open \subseteq Threads \X (1..MaxFrames) /\ OpenUnits \subseteq Open
  BY DEF Open, OpenUnits
<1> QED
  BY <1>1, <1>2, FS_Subset

\* A step of t that touches no other stack, opens the require of n at position
\* k or closes the one there or neither, and renames nothing.
Rest(t) == \A u \in Threads \ {t} : stack'[u] = stack[u]
Keeps(t, S) == \A k \in S : stack'[t][k].what = stack[t][k].what

\* A require is opened.
LEMMA Opened ==
  ASSUME StackOK, StackOK', NEW t \in Threads, NEW k, Rest(t), k \notin Requires(stack[t]),
         Requires(stack[t])' = Requires(stack[t]) \cup {k}, Keeps(t, Requires(stack[t]))
  PROVE  /\ Open' = Open \cup {<<t, k>>} /\ <<t, k>> \notin Open
         /\ \A o \in Open : NameAt(o)' = NameAt(o)
         /\ NameAt(<<t, k>>)' = stack'[t][k].what
<1>1. Open' = Open \cup {<<t, k>>}
  <2>1. \A u, j : <<u, j>> \in Open' <=> u \in Threads /\ j \in Requires(stack'[u])
    BY FramesBound DEF StackOK, Open, Requires
  <2> QED
    BY <2>1, OpenMeans DEF Rest, Open, Requires
<1>2. <<t, k>> \notin Open
  BY OpenMeans
<1>3. \A o \in Open : NameAt(o)' = NameAt(o)
  BY OpenMeans DEF Rest, Keeps, NameAt, Open
<1> QED
  BY <1>1, <1>2, <1>3 DEF NameAt

\* A require is closed.
LEMMA Closed ==
  ASSUME StackOK, StackOK', NEW t \in Threads, NEW k, Rest(t), k \in Requires(stack[t]),
         Requires(stack[t])' = Requires(stack[t]) \ {k}, Keeps(t, Requires(stack[t]) \ {k})
  PROVE  /\ Open' = Open \ {<<t, k>>} /\ <<t, k>> \in Open
         /\ \A o \in Open' : NameAt(o)' = NameAt(o)
<1>1. Open' = Open \ {<<t, k>>}
  <2>1. \A u, j : <<u, j>> \in Open' <=> u \in Threads /\ j \in Requires(stack'[u])
    BY FramesBound DEF StackOK, Open, Requires
  <2> QED
    BY <2>1, OpenMeans DEF Rest, Open, Requires
<1>2. <<t, k>> \in Open
  BY OpenMeans
<1>3. \A o \in Open' : NameAt(o)' = NameAt(o)
  BY <1>1, OpenMeans DEF Rest, Keeps, NameAt, Open
<1> QED
  BY <1>1, <1>2, <1>3

\* None is opened or closed.
LEMMA Neither ==
  ASSUME StackOK, StackOK', NEW t \in Threads, Rest(t),
         Requires(stack[t])' = Requires(stack[t]), Keeps(t, Requires(stack[t]))
  PROVE  Open' = Open /\ \A o \in Open : NameAt(o)' = NameAt(o)
<1>1. Open' = Open
  <2>1. \A u, j : <<u, j>> \in Open' <=> u \in Threads /\ j \in Requires(stack'[u])
    BY FramesBound DEF StackOK, Open, Requires
  <2> QED
    BY <2>1, OpenMeans DEF Rest, Open, Requires
<1> QED
  BY <1>1, OpenMeans DEF Rest, Keeps, NameAt, Open

\* The name of an open require is a name.
LEMMA OpenNames ==
  ASSUME StackOK
  PROVE  \A o \in Open : NameAt(o) \in Names
<1> TAKE o \in Open
<1>1. stack[o[1]][o[2]] \in Frames /\ stack[o[1]][o[2]].how = "require"
  BY DEF Open, StackOK
<1> QED
  BY <1>1 DEF Frames, NameAt

-----------------------------------------------------------------------------
(* The accounting of the table, given what happens to the open requires. *)

\* load_feature puts into the table what neither runs nor ran.
LEMMA EnterCounts ==
  ASSUME FeatInd, NEW t, NEW o, NEW n \in Names, Enter(t, n), UNCHANGED completed,
         Open' = Open \cup {o}, o \notin Open,
         \A p \in Open : NameAt(p)' = NameAt(p), NameAt(o)' = n
  PROVE  (OnceOnly /\ LoadingExact /\ CompletedLoaded)'
<1>1. ItemAt(o)' = Of[n] /\ \A p \in Open : ItemAt(p)' = ItemAt(p)
  BY DEF ItemAt
<1>2. Of[n] \notin Reloaded => Of[n] \notin completed /\ \A p \in Open : ItemAt(p) # Of[n]
  BY DEF Enter, FeatInd, CompletedLoaded, LoadingExact, Identity, ItemAt
<1>3. OnceOnly'
  <2> SUFFICES ASSUME NEW p \in Open', ItemAt(p)' \notin Reloaded
               PROVE  /\ ItemAt(p)' \notin completed
                      /\ \A q \in Open' : ItemAt(q)' = ItemAt(p)' => q = p
    BY DEF OnceOnly
  <2>1. CASE p = o
    BY <2>1, <1>1, <1>2
  <2>2. CASE p \in Open
    BY <2>2, <1>1, <1>2 DEF FeatInd, OnceOnly
  <2> QED
    BY <2>1, <2>2
<1>4. (loading \ Reloaded = {Identity(NameAt(p)) : p \in Open} \ Reloaded)'
  <2>1. {Identity(NameAt(p))' : p \in Open'} = {Identity(NameAt(p)) : p \in Open} \cup {Of[n]}
    BY DEF Identity
  <2> QED
    BY <2>1 DEF Enter, FeatInd, LoadingExact, Identity
<1>5. (depth = Cardinality(OpenUnits))'
  <2>1. CASE Of[n] \in Units
    <3>1. OpenUnits' = OpenUnits \cup {o} /\ o \notin OpenUnits
      BY <2>1, <1>1 DEF OpenUnits
    <3>2. Cardinality(OpenUnits') = Cardinality(OpenUnits) + 1
      BY <3>1, OpenFinite, FS_AddElement, Zenon
    <3> QED
      BY <2>1, <3>2 DEF Enter, FeatInd, LoadingExact, OpenUnits
  <2>2. CASE Of[n] \notin Units
    <3>1. OpenUnits' = OpenUnits
      BY <2>2, <1>1 DEF OpenUnits
    <3>2. depth = Cardinality(OpenUnits)
      BY Zenon DEF FeatInd, LoadingExact, OpenUnits
    <3> QED
      BY <2>2, <3>1, <3>2 DEF Enter
  <2> QED
    BY <2>1, <2>2
<1>6. CompletedLoaded'
  BY DEF Enter, FeatInd, CompletedLoaded
<1> QED
  BY <1>3, <1>4, <1>5, <1>6 DEF LoadingExact, OpenUnits

\* The end of the body takes it out, and loads it only if it returned.
LEMMA FinishCounts ==
  ASSUME FeatInd, NEW o, NEW ok \in BOOLEAN, NEW n, NameAt(o) = n,
         loading' = loading \ {Of[n]},
         depth' = IF Of[n] \in Units THEN depth - 1 ELSE depth,
         loaded' = IF ok THEN loaded \cup {Of[n]} ELSE loaded,
         completed' = IF ok THEN completed \cup {Of[n]} ELSE completed,
         Open' = Open \ {o}, o \in Open, \A p \in Open' : NameAt(p)' = NameAt(p)
  PROVE  (OnceOnly /\ LoadingExact /\ CompletedLoaded)'
<1>1. ItemAt(o) = Of[n] /\ \A p \in Open' : ItemAt(p)' = ItemAt(p)
  BY DEF ItemAt
<1>2. Of[n] \notin Reloaded => \A p \in Open' : ItemAt(p) # Of[n]
  BY <1>1 DEF FeatInd, OnceOnly
<1>a. completed' \subseteq completed \cup {Of[n]} /\ completed \subseteq completed'
  OBVIOUS
<1>3. OnceOnly'
  <2> SUFFICES ASSUME NEW p \in Open', ItemAt(p)' \notin Reloaded
               PROVE  /\ ItemAt(p)' \notin completed'
                      /\ \A q \in Open' : ItemAt(q)' = ItemAt(p)' => q = p
    BY DEF OnceOnly
  <2>1. p \in Open /\ ItemAt(p)' = ItemAt(p) /\ ItemAt(p) # Of[n]
    BY <1>1, <1>2
  <2>2. ItemAt(p) \notin completed
    BY <2>1 DEF FeatInd, OnceOnly
  <2>3. \A q \in Open' : ItemAt(q)' = ItemAt(p)' => q = p
    BY <2>1, <1>1 DEF FeatInd, OnceOnly
  <2> QED
    BY <2>1, <2>2, <2>3, <1>a
<1>4. (loading \ Reloaded = {Identity(NameAt(p)) : p \in Open} \ Reloaded)'
  <2>1. {Identity(NameAt(p))' : p \in Open'} = {Of[NameAt(p)] : p \in Open'}
    BY DEF Identity
  <2>2. {Of[NameAt(p)] : p \in Open} = {Of[NameAt(p)] : p \in Open'} \cup {Of[n]}
    OBVIOUS
  <2>3. Of[n] \in Reloaded \/ Of[n] \notin {Of[NameAt(p)] : p \in Open'}
    BY <1>2 DEF ItemAt
  <2> QED
    BY <2>1, <2>2, <2>3 DEF FeatInd, LoadingExact, Identity
<1>5. (depth = Cardinality(OpenUnits))'
  <2>1. CASE Of[n] \in Units
    <3>1. OpenUnits' = OpenUnits \ {o} /\ o \in OpenUnits
      BY <2>1, <1>1 DEF OpenUnits
    <3>2. Cardinality(OpenUnits') = Cardinality(OpenUnits) - 1
      BY <3>1, OpenFinite, FS_RemoveElement, Zenon
    <3> QED
      BY <2>1, <3>2 DEF FeatInd, LoadingExact, OpenUnits
  <2>2. CASE Of[n] \notin Units
    <3>1. OpenUnits' = OpenUnits
      BY <2>2, <1>1 DEF OpenUnits
    <3> QED
      BY <2>2, <3>1, SMTT(20) DEF FeatInd, LoadingExact, OpenUnits
  <2> QED
    BY <2>1, <2>2
<1>6. CompletedLoaded'
  BY DEF FeatInd, CompletedLoaded
<1> QED
  BY <1>3, <1>4, <1>5, <1>6 DEF LoadingExact, OpenUnits

\* With the open requires as they are, only a file that Kernel#load runs may
\* change its place.
LEMMA SameCounts ==
  ASSUME FeatInd, Open' = Open, \A p \in Open : NameAt(p)' = NameAt(p),
         depth' = depth, loading' \ Reloaded = loading \ Reloaded,
         loaded' \ Reloaded = loaded \ Reloaded, completed' \ Reloaded = completed \ Reloaded
  PROVE  (OnceOnly /\ LoadingExact /\ CompletedLoaded)'
<1>1. \A p \in Open : ItemAt(p)' = ItemAt(p)
  BY DEF ItemAt
<1>2. OnceOnly'
  BY <1>1 DEF FeatInd, OnceOnly
<1>3. {Identity(NameAt(p))' : p \in Open'} = {Identity(NameAt(p)) : p \in Open}
  BY DEF Identity
<1>4. OpenUnits' = OpenUnits
  BY <1>1 DEF OpenUnits
<1>5. LoadingExact'
  <2>1. /\ loading \ Reloaded = {Identity(NameAt(p)) : p \in Open} \ Reloaded
        /\ depth = Cardinality(OpenUnits)
    BY Zenon DEF FeatInd, LoadingExact, OpenUnits
  <2>2. (depth = Cardinality(OpenUnits))'
    BY <1>4, <2>1, Zenon
  <2>3. (loading \ Reloaded = {Identity(NameAt(p)) : p \in Open} \ Reloaded)'
    BY <1>3, <2>1, Zenon
  <2> QED
    BY <2>2, <2>3, Zenon DEF LoadingExact, OpenUnits
<1>6. CompletedLoaded'
  BY DEF FeatInd, CompletedLoaded
<1> QED
  BY <1>2, <1>5, <1>6

-----------------------------------------------------------------------------
(* The steps. *)

MovedOn(s, k, a) == [s EXCEPT ![k].at = a]

\* A frame that moves on is still the frame of the same load or read.
LEMMA Moved ==
  ASSUME NEW s \in Seq(Frames), NEW k \in 1..Len(s), NEW a,
         \/ s[k].how = "require" /\ a = "body"
         \/ s[k].how = "read" /\ a \in {"wait", "take"}
  PROVE  /\ MovedOn(s, k, a) \in Seq(Frames) /\ Len(MovedOn(s, k, a)) = Len(s)
         /\ \A j \in 1..Len(s) :
              MovedOn(s, k, a)[j].how = s[j].how /\ MovedOn(s, k, a)[j].what = s[j].what
<1>1. s[k] \in Frames
  OBVIOUS
<1>2. [s[k] EXCEPT !.at = a] \in Frames
  BY <1>1 DEF Frames
<1>3. [s[k] EXCEPT !.at = a].how = s[k].how /\ [s[k] EXCEPT !.at = a].what = s[k].what
  BY <1>1 DEF Frames
<1> DEFINE fr == [s[k] EXCEPT !.at = a]
<1> HIDE DEF fr
<1>4. [s EXCEPT ![k] = fr] \in Seq(Frames) /\ Len([s EXCEPT ![k] = fr]) = Len(s)
  BY <1>2 DEF fr
<1>5. \A j \in 1..Len(s) : [s EXCEPT ![k] = fr][j] = IF j = k THEN fr ELSE s[j]
  OBVIOUS
<1>6. MovedOn(s, k, a) = [s EXCEPT ![k] = fr]
  BY DEF fr, MovedOn
<1> QED
  BY <1>3, <1>4, <1>5, <1>6 DEF fr

\* The stack of t becomes r.
LEMMA Stacked ==
  ASSUME StackOK, NEW t \in Threads, NEW r \in Seq(Frames), Len(r) <= MaxFrames,
         stack' = [stack EXCEPT ![t] = r]
  PROVE  StackOK' /\ Rest(t) /\ stack'[t] = r
BY DEF StackOK, Rest

\* A frame on top says which load or read it is of.
LEMMA OnTop ==
  ASSUME StackOK, NEW t \in Threads, stack[t] # <<>>
  PROVE  /\ stack[t] \in Seq(Frames) /\ Len(stack[t]) \in 1..MaxFrames
         /\ Top(t) = stack[t][Len(stack[t])] /\ Top(t) \in Frames
BY FramesBound DEF StackOK, Top

LEMMA OpeningIsFrame ==
  ASSUME NEW n \in Names
  PROVE  Opening(n) \in Frames /\ Opening(n).how = "require" /\ Opening(n).what = n
BY DEF Opening, Frames

\* A require puts its frame on the stack, and a read waits for it.
LEMMA OpenedBy ==
  ASSUME FeatInd, NEW t \in Threads, NEW n \in Names, NEW s \in Seq(Frames),
         Len(s) = Len(stack[t]), Room(t), Enter(t, n), UNCHANGED completed,
         \A j \in 1..Len(s) : s[j].how = stack[t][j].how /\ s[j].what = stack[t][j].what,
         stack' = [stack EXCEPT ![t] = Append(s, Opening(n))]
  PROVE  FeatInd'
<1> DEFINE k == Len(s) + 1
           r == Append(s, Opening(n))
<1>1. stack[t] \in Seq(Frames)
  BY DEF FeatInd, StackOK
<1>2. /\ r \in Seq(Frames) /\ Len(r) = k /\ r[k] = Opening(n)
      /\ \A j \in 1..Len(s) : r[j] = s[j]
  BY OpeningIsFrame
<1>3. Len(r) <= MaxFrames
  BY <1>1, <1>2, FramesBound DEF Room
<1>4. StackOK' /\ Rest(t) /\ stack'[t] = r
  BY <1>2, <1>3, Stacked, Zenon DEF FeatInd
<1> HIDE DEF r
<1>5. DOMAIN r = 1..Len(s) \cup {k} /\ DOMAIN stack[t] = 1..Len(s) /\ k \notin 1..Len(s)
  <2>1. Len(s) \in Nat /\ DOMAIN r = 1..k /\ DOMAIN stack[t] = 1..Len(s)
    BY <1>1, <1>2
  <2> QED
    BY <2>1
<1>6. Requires(r) = Requires(stack[t]) \cup {k} /\ k \notin Requires(stack[t])
  BY <1>2, <1>5, OpeningIsFrame DEF Requires
<1>7. Keeps(t, Requires(stack[t]))
  BY <1>2, <1>4, <1>5 DEF Keeps, Requires
<1>8. /\ Open' = Open \cup {<<t, k>>} /\ <<t, k>> \notin Open
      /\ \A o \in Open : NameAt(o)' = NameAt(o)
      /\ NameAt(<<t, k>>)' = n
  <2>1. stack'[t][k].what = n
    BY <1>2, <1>4, OpeningIsFrame
  <2>2. Requires(stack[t])' = Requires(stack[t]) \cup {k}
    BY <1>4, <1>6, Zenon
  <2>3. StackOK
    BY DEF FeatInd
  <2> HIDE DEF k
  <2> QED
    BY <2>1, <2>2, <2>3, <1>4, <1>6, <1>7, Opened, Zenon
<1> HIDE DEF k
<1>9. (OnceOnly /\ LoadingExact /\ CompletedLoaded)'
  BY <1>8, EnterCounts
<1> QED
  BY <1>4, <1>9 DEF FeatInd

\* No require is opened or closed.
LEMMA KeptBy ==
  ASSUME FeatInd, NEW t \in Threads, NEW r \in Seq(Frames), Len(r) <= MaxFrames,
         stack' = [stack EXCEPT ![t] = r],
         Requires(r) = Requires(stack[t]),
         \A j \in Requires(r) : r[j].what = stack[t][j].what,
         depth' = depth, loading' \ Reloaded = loading \ Reloaded,
         loaded' \ Reloaded = loaded \ Reloaded, completed' \ Reloaded = completed \ Reloaded
  PROVE  FeatInd'
<1>1. StackOK' /\ Rest(t) /\ stack'[t] = r
  BY Stacked, Zenon DEF FeatInd
<1>2. Requires(stack[t])' = Requires(stack[t]) /\ Keeps(t, Requires(stack[t]))
  BY <1>1 DEF Keeps
<1>3. Open' = Open /\ \A o \in Open : NameAt(o)' = NameAt(o)
  BY <1>1, <1>2, Neither DEF FeatInd
<1>4. (OnceOnly /\ LoadingExact /\ CompletedLoaded)'
  BY <1>3, SameCounts
<1> QED
  BY <1>1, <1>4 DEF FeatInd

\* A frame that is no require is put on the stack or taken off it, or one moves on.
LEMMA Pushed ==
  ASSUME NEW s \in Seq(Frames), NEW fr \in Frames, fr.how # "require"
  PROVE  LET r == Append(s, fr)
         IN /\ r \in Seq(Frames) /\ Len(r) = Len(s) + 1 /\ Requires(r) = Requires(s)
            /\ \A j \in Requires(r) : r[j].what = s[j].what
<1> DEFINE r == Append(s, fr)
<1>1. r \in Seq(Frames) /\ Len(r) = Len(s) + 1 /\ r[Len(s) + 1] = fr /\ \A j \in 1..Len(s) : r[j] = s[j]
  OBVIOUS
<1> HIDE DEF r
<1>2. DOMAIN r = 1..Len(s) \cup {Len(s) + 1} /\ DOMAIN s = 1..Len(s)
  BY <1>1
<1>3. Requires(r) = Requires(s)
  BY <1>1, <1>2 DEF Requires
<1> QED
  BY <1>1, <1>2, <1>3 DEF r, Requires

LEMMA Popped ==
  ASSUME NEW s \in Seq(Frames), s # <<>>
  PROVE  LET r == SubSeq(s, 1, Len(s) - 1)
         IN /\ r \in Seq(Frames) /\ Len(r) = Len(s) - 1
            /\ Requires(r) = Requires(s) \ {Len(s)}
            /\ \A j \in 1..Len(r) : r[j] = s[j]
<1> DEFINE r == SubSeq(s, 1, Len(s) - 1)
<1>0. Len(s) \in Nat /\ Len(s) >= 1
  OBVIOUS
<1>1. r \in Seq(Frames) /\ Len(r) = Len(s) - 1 /\ \A j \in 1..Len(r) : r[j] = s[j]
  BY <1>0, SMTT(20)
<1> HIDE DEF r
<1>2. Len(s) \in Nat \ {0} /\ DOMAIN r = 1..(Len(s) - 1) /\ DOMAIN s = 1..Len(s)
  BY <1>1
<1>3. DOMAIN r = DOMAIN s \ {Len(s)}
  BY <1>2
<1>4. Requires(r) = Requires(s) \ {Len(s)}
  BY <1>1, <1>2, <1>3 DEF Requires
<1> QED
  BY <1>1, <1>4 DEF r

\* A frame that is no require, or one that moves on, changes no position of one.
LEMMA SamePlaces ==
  ASSUME NEW s \in Seq(Frames), NEW r \in Seq(Frames), Len(r) = Len(s),
         \A j \in 1..Len(s) : r[j].how = s[j].how /\ r[j].what = s[j].what
  PROVE  Requires(r) = Requires(s) /\ \A j \in Requires(r) : r[j].what = s[j].what
<1>1. DOMAIN r = 1..Len(s) /\ DOMAIN s = 1..Len(s)
  OBVIOUS
<1> QED
  BY <1>1 DEF Requires

LEMMA RequireInd ==
  ASSUME FeatInd, NEW t \in Threads, NEW n \in Names, Require(t, n)
  PROVE  FeatInd'
<1>1. stack[t] \in Seq(Frames)
  BY DEF FeatInd, StackOK
<1>2. stack' = [stack EXCEPT ![t] = Append(stack[t], Opening(n))]
  BY DEF Require
<1> QED
  BY <1>1, <1>2, OpenedBy, Zenon DEF Require

LEMMA ReadLoadsInd ==
  ASSUME FeatInd, NEW t \in Threads, ReadLoads(t)
  PROVE  FeatInd'
<1> DEFINE k == Len(stack[t])
           s == MovedOn(stack[t], k, "wait")
           n == Target[Top(t).what]
<1>1. /\ stack[t] \in Seq(Frames) /\ k \in 1..k /\ stack[t][k].how = "read"
      /\ Top(t) \in Frames /\ Top(t).how = "read"
  BY OnTop DEF ReadLoads, In, Top, FeatInd
<1>2. n \in Names
  BY <1>1, NamesReach DEF Frames
<1>3. /\ s \in Seq(Frames) /\ Len(s) = k
      /\ \A j \in 1..k : s[j].how = stack[t][j].how /\ s[j].what = stack[t][j].what
  BY <1>1, Moved
<1>4. /\ Room(t) /\ Enter(t, n) /\ UNCHANGED completed
      /\ stack' = [stack EXCEPT ![t] = Append(s, Opening(n))]
  BY DEF ReadLoads, MovedOn
<1> HIDE DEF s, n
<1> QED
  BY <1>2, <1>3, <1>4, OpenedBy, Zenon

\* A frame on top moves on.
LEMMA AdvanceInd ==
  ASSUME FeatInd, NEW t \in Threads, NEW a, Advance(t, a), stack[t] # <<>>,
         \/ Top(t).how = "require" /\ a = "body"
         \/ Top(t).how = "read" /\ a = "take",
         UNCHANGED <<table, completed>>
  PROVE  FeatInd'
<1> DEFINE k == Len(stack[t])
           r == MovedOn(stack[t], k, a)
<1>1. stack[t] \in Seq(Frames) /\ k \in 1..k /\ k <= MaxFrames /\ Top(t) = stack[t][k]
  BY OnTop, FramesBound DEF FeatInd
<1>2. /\ r \in Seq(Frames) /\ Len(r) = k
      /\ \A j \in 1..k : r[j].how = stack[t][j].how /\ r[j].what = stack[t][j].what
  BY <1>1, Moved
<1>3. stack' = [stack EXCEPT ![t] = r]
  BY DEF Advance, MovedOn
<1> HIDE DEF r
<1>4. Requires(r) = Requires(stack[t]) /\ \A j \in Requires(r) : r[j].what = stack[t][j].what
  BY <1>1, <1>2, SamePlaces
<1> QED
  BY <1>1, <1>2, <1>3, <1>4, KeptBy, Zenon DEF table

\* A frame that is no require is put on the stack.
LEMMA PushInd ==
  ASSUME FeatInd, NEW t \in Threads, NEW how, NEW what, NEW at, Push(t, how, what, at), Room(t),
         [how |-> how, what |-> what, at |-> at] \in Frames, how # "require",
         UNCHANGED <<table, completed>>
  PROVE  FeatInd'
<1> DEFINE fr == [how |-> how, what |-> what, at |-> at]
           r == Append(stack[t], fr)
<1>1. stack[t] \in Seq(Frames) /\ fr.how # "require" /\ stack' = [stack EXCEPT ![t] = r]
  BY DEF FeatInd, StackOK, Push
<1> HIDE DEF fr
<1>2. /\ r \in Seq(Frames) /\ Len(r) = Len(stack[t]) + 1 /\ Requires(r) = Requires(stack[t])
      /\ \A j \in Requires(r) : r[j].what = stack[t][j].what
  BY <1>1, Pushed, Zenon DEF fr
<1>3. Len(r) <= MaxFrames
  BY <1>1, <1>2, FramesBound DEF Room
<1> HIDE DEF r
<1> QED
  BY <1>1, <1>2, <1>3, KeptBy, Zenon DEF table

\* One is taken off it: the end of a read, or of a Kernel#load.
LEMMA PopInd ==
  ASSUME FeatInd, NEW t \in Threads, stack[t] # <<>>, Top(t).how # "require",
         stack' = [stack EXCEPT ![t] = Below(t)],
         depth' = depth, loading' \ Reloaded = loading \ Reloaded,
         loaded' \ Reloaded = loaded \ Reloaded, completed' \ Reloaded = completed \ Reloaded
  PROVE  FeatInd'
<1>1. stack[t] \in Seq(Frames) /\ Len(stack[t]) \in 1..MaxFrames /\ Top(t) = stack[t][Len(stack[t])]
  BY OnTop DEF FeatInd
<1>2. /\ Below(t) \in Seq(Frames) /\ Len(Below(t)) = Len(stack[t]) - 1
      /\ Requires(Below(t)) = Requires(stack[t]) \ {Len(stack[t])}
      /\ \A j \in 1..Len(Below(t)) : Below(t)[j] = stack[t][j]
  BY <1>1, Popped DEF Below
<1>3. Requires(Below(t)) = Requires(stack[t])
  BY <1>1, <1>2 DEF Requires
<1>4. \A j \in Requires(Below(t)) : Below(t)[j].what = stack[t][j].what
  BY <1>2 DEF Requires
<1>5. Len(Below(t)) <= MaxFrames
  BY <1>1, <1>2, FramesBound
<1> QED
  BY <1>2, <1>3, <1>4, <1>5, KeptBy, Zenon

\* The load on top ends: its frame goes, and a read that waited for it moves on
\* or goes with it.
LEMMA AfterKeeps ==
  ASSUME NEW t, stack[t] \in Seq(Frames), stack[t] # <<>>, NEW ok \in BOOLEAN
  PROVE  /\ After(t, ok) \in Seq(Frames) /\ Len(After(t, ok)) <= Len(stack[t])
         /\ Requires(After(t, ok)) = Requires(stack[t]) \ {Len(stack[t])}
         /\ \A j \in Requires(After(t, ok)) : After(t, ok)[j].what = stack[t][j].what
<1> DEFINE rest == Below(t)
           k == Len(rest)
<1>1. /\ rest \in Seq(Frames) /\ k = Len(stack[t]) - 1
      /\ Requires(rest) = Requires(stack[t]) \ {Len(stack[t])}
      /\ \A j \in 1..k : rest[j] = stack[t][j]
  BY Popped DEF Below
<1>2. k \in Nat /\ k <= Len(stack[t]) /\ DOMAIN rest = 1..k
  BY <1>1
<1>3. CASE rest = <<>> \/ rest[k].at # "wait"
  <2>1. After(t, ok) = rest
    BY <1>3 DEF After
  <2> QED
    BY <2>1, <1>1, <1>2, Zenon DEF Requires
<1>4. CASE rest # <<>> /\ rest[k].at = "wait"
  <2>1. k \in 1..k /\ rest[k] \in Frames
    BY <1>1, <1>4
  <2>2. rest[k].how = "read"
    BY <2>1, <1>4 DEF Frames
  <2>3. CASE ok
    <3> DEFINE r == MovedOn(rest, k, "take")
    <3>1. After(t, ok) = r
      BY <1>4, <2>3 DEF After, MovedOn
    <3> HIDE DEF rest
    <3>2. /\ r \in Seq(Frames) /\ Len(r) = k
          /\ \A j \in 1..k : r[j].how = rest[j].how /\ r[j].what = rest[j].what
      BY <1>1, <2>1, <2>2, Moved
    <3> HIDE DEF r
    <3>3. Requires(r) = Requires(rest) /\ \A j \in Requires(r) : r[j].what = rest[j].what
      BY <1>1, <3>2, SamePlaces
    <3>4. \A j \in Requires(r) : r[j].what = stack[t][j].what
      BY <3>3, <1>1, <1>2, Zenon DEF Requires
    <3> QED
      BY <3>1, <3>2, <3>3, <3>4, <1>1, <1>2
  <2>4. CASE ~ok
    <3> DEFINE r == SubSeq(rest, 1, k - 1)
    <3>1. After(t, ok) = r
      BY <1>4, <2>4 DEF After
    <3> HIDE DEF rest
    <3>2. /\ r \in Seq(Frames) /\ Len(r) = k - 1
          /\ Requires(r) = Requires(rest) \ {k}
          /\ \A j \in 1..Len(r) : r[j] = rest[j]
      BY <1>1, <1>4, Popped, Zenon
    <3> HIDE DEF r
    <3>3. Requires(r) = Requires(rest)
      BY <3>2, <2>2 DEF Requires
    <3>4. \A j \in Requires(r) : j \in 1..Len(r) /\ j \in 1..k
      BY <3>2, <3>3, <1>2 DEF Requires
    <3>5. \A j \in Requires(r) : r[j].what = stack[t][j].what
      BY <3>4, <3>2, <1>1, Zenon
    <3> QED
      BY <3>1, <3>2, <3>3, <3>5, <1>1, <1>2
  <2> QED
    BY <2>3, <2>4
<1> QED
  BY <1>3, <1>4

LEMMA FinishInd ==
  ASSUME FeatInd, NEW t \in Threads, NEW ok \in BOOLEAN, Finish(t, ok)
  PROVE  FeatInd'
<1> DEFINE k == Len(stack[t])
           r == After(t, ok)
           n == Top(t).what
<1>1. /\ stack[t] \in Seq(Frames) /\ k \in 1..MaxFrames /\ Top(t) = stack[t][k]
      /\ stack[t] # <<>> /\ stack[t][k].how = "require"
  BY OnTop, SMTT(20) DEF Finish, In, FeatInd
<1>2. /\ r \in Seq(Frames) /\ Len(r) <= k
      /\ Requires(r) = Requires(stack[t]) \ {k}
      /\ \A j \in Requires(r) : r[j].what = stack[t][j].what
  BY <1>1, AfterKeeps, SMTT(20)
<1>3. stack' = [stack EXCEPT ![t] = r]
  BY DEF Finish
<1> HIDE DEF r
<1>4. Len(r) <= MaxFrames
  BY <1>1, <1>2, FramesBound
<1>5. StackOK' /\ Rest(t) /\ stack'[t] = r
  BY <1>2, <1>3, <1>4, Stacked, Zenon DEF FeatInd
<1>6. k \in Requires(stack[t])
  BY <1>1 DEF Requires
<1>7. Requires(stack[t])' = Requires(stack[t]) \ {k} /\ Keeps(t, Requires(stack[t]) \ {k})
  BY <1>2, <1>5 DEF Keeps
<1>8. NameAt(<<t, k>>) = n
  BY <1>1 DEF NameAt
<1>9. /\ loading' = loading \ {Of[n]}
      /\ depth' = IF Of[n] \in Units THEN depth - 1 ELSE depth
      /\ loaded' = IF ok THEN loaded \cup {Of[n]} ELSE loaded
      /\ completed' = IF ok THEN completed \cup {Of[n]} ELSE completed
  BY DEF Finish, Identity
<1> HIDE DEF k, n
<1>10. /\ Open' = Open \ {<<t, k>>} /\ <<t, k>> \in Open
       /\ \A o \in Open' : NameAt(o)' = NameAt(o)
  BY <1>5, <1>6, <1>7, Closed DEF FeatInd
<1>11. (OnceOnly /\ LoadingExact /\ CompletedLoaded)'
  BY <1>8, <1>9, <1>10, FinishCounts
<1> QED
  BY <1>5, <1>11 DEF FeatInd

LEMMA FinishLoadInd ==
  ASSUME FeatInd, NEW t \in Threads, NEW ok \in BOOLEAN, FinishLoad(t, ok)
  PROVE  FeatInd'
<1>1. stack[t] # <<>> /\ Top(t).how = "load" /\ Top(t) \in Frames
  BY OnTop DEF FinishLoad, In, FeatInd
<1>2. Top(t).what \in Reloaded
  BY <1>1 DEF Frames
<1>3. /\ loading' \ Reloaded = loading \ Reloaded /\ loaded' \ Reloaded = loaded \ Reloaded
      /\ completed' \ Reloaded = completed \ Reloaded
  BY <1>2 DEF FinishLoad
<1> QED
  BY <1>1, <1>3, PopInd, Zenon DEF FinishLoad

-----------------------------------------------------------------------------
(* The theorems. *)

LEMMA FeatInit == Init => FeatInd
<1> SUFFICES ASSUME Init PROVE FeatInd
  OBVIOUS
<1>1. StackOK
  BY FramesBound DEF Init, StackOK
<1>2. Open = {}
  BY DEF Init, Open
<1>3. OnceOnly
  BY <1>2 DEF OnceOnly
<1>4. {o \in Open : ItemAt(o) \in Units} = {}
  BY <1>2
<1>5. Cardinality({o \in Open : ItemAt(o) \in Units}) = 0
  BY <1>4, FS_EmptySet
<1>6. LoadingExact
  BY <1>2, <1>5 DEF Init, LoadingExact
<1> QED
  BY <1>1, <1>3, <1>6 DEF FeatInd, Init, CompletedLoaded

LEMMA FeatStep == FeatInd /\ [Next]_vars => FeatInd'
<1> SUFFICES ASSUME FeatInd, [Next]_vars PROVE FeatInd'
  OBVIOUS
<1>1. CASE UNCHANGED <<table, stack, completed>>
  <2>1. Open' = Open /\ \A o \in Open : NameAt(o)' = NameAt(o)
    BY <1>1 DEF Open, NameAt
  <2>2. StackOK'
    BY <1>1 DEF FeatInd, StackOK
  <2>3. (OnceOnly /\ LoadingExact /\ CompletedLoaded)'
    BY <1>1, <2>1, SameCounts DEF table
  <2> QED
    BY <2>2, <2>3 DEF FeatInd
<1>2. ASSUME NEW t \in Threads, NEW n \in Names, Require(t, n) PROVE FeatInd'
  BY <1>2, RequireInd
<1>3. ASSUME NEW t \in Threads, NEW ok \in BOOLEAN, Finish(t, ok) \/ FinishLoad(t, ok)
      PROVE  FeatInd'
  BY <1>3, FinishInd, FinishLoadInd
<1>4. ASSUME NEW t \in Threads, NEW f \in Reloaded, Load(t, f) PROVE FeatInd'
  <2>1. [how |-> "load", what |-> f, at |-> "body"] \in Frames
    BY DEF Frames
  <2> QED
    BY <1>4, <2>1, PushInd DEF Load
<1>5. ASSUME NEW t \in Threads, NEW c \in Consts, Read(t, c) PROVE FeatInd'
  <2>1. [how |-> "read", what |-> c, at |-> "load"] \in Frames
    BY DEF Frames
  <2> QED
    BY <1>5, <2>1, PushInd DEF Read
<1>6. ASSUME NEW t \in Threads, NEW c \in Consts, RegisterAutoload(t, c) PROVE FeatInd'
  BY <1>1, <1>6 DEF RegisterAutoload
<1>7. ASSUME NEW t \in Threads, Mark(t) PROVE FeatInd'
  BY <1>7, AdvanceInd DEF Mark, In
<1>8. ASSUME NEW t \in Threads, ReadLoads(t) PROVE FeatInd'
  BY <1>8, ReadLoadsInd
<1>9. ASSUME NEW t \in Threads, ReadFalse(t) PROVE FeatInd'
  BY <1>9, AdvanceInd DEF ReadFalse, In
<1>10. ASSUME NEW t \in Threads, Take(t) PROVE FeatInd'
  BY <1>10, PopInd, Zenon DEF Take, In, table
<1>11. CASE UNCHANGED vars
  BY <1>1, <1>11 DEF vars
<1> QED
  BY <1>2, <1>3, <1>4, <1>5, <1>6, <1>7, <1>8, <1>9, <1>10, <1>11 DEF Next

\* The stacks, the table and what ran agree in every state, whatever threads,
\* files, spellings and cycles there are.
THEOREM FeatInvariant == Spec => []FeatInd
BY FeatInit, FeatStep, PTL DEF Spec

\* A file runs for one require at a time and, unless Kernel#load runs it, for
\* none once it has run to its end (load_feature and load_from_disk).
THEOREM FeatOnceOnly == Spec => []OnceOnly
<1>1. FeatInd => OnceOnly
  BY DEF FeatInd
<1> QED
  BY <1>1, FeatInvariant, PTL

\* The loading table holds what is running and depth counts its units, also
\* after a body raised (the two ends of load_feature).
THEOREM FeatLoadingExact == Spec => []LoadingExact
<1>1. FeatInd => LoadingExact
  BY DEF FeatInd
<1> QED
  BY <1>1, FeatInvariant, PTL

-----------------------------------------------------------------------------
(* ProgCache. *)

ProgTypeOK ==
  /\ src \in [SourceFiles -> Sources]
  /\ edits \in 0..MaxEdits /\ \A f \in SourceFiles : src[f][2] <= edits
  /\ bin \in {None, Torn} \cup [SourceFiles -> Sources]
  /\ art \in {None, Torn} \cup Sources
  /\ pc \in [Procs -> Pcs]
  /\ DOMAIN obj = Procs /\ DOMAIN inputs = Procs /\ DOMAIN writing = Procs
  /\ DOMAIN missed = Procs /\ DOMAIN ran = Procs
  /\ seen \in [Procs -> [SourceFiles -> SUBSET Sources]]

\* A file in an entry is missing, cut short, or made of the sources as they are.
BinNow == bin \in {None, Torn, src}
ArtNow == art \in {None, Torn, src[Gem]}

\* So are the rows, as far as they go, of a program and of the package.
RowsNow(rows) == rows \in {None, Torn} \/ \A r \in DOMAIN rows : rows[r] = RowOf(r, src[r[2]])
GemRowsNow(rows) == rows \in {None, Torn} \/ \A r \in DOMAIN rows : rows[r] = RowOf(r, src[Gem])

Texted == [f \in SourceFiles |-> src[f][1]]

\* Rows that were written to their end leave none of the files out.
Covers(rows, files) == \A f \in files : <<"F", f>> \in DOMAIN rows /\ <<"D", f>> \in DOMAIN rows
Full(rows, files) == rows \notin {None, Torn} /\ Ended(rows) => Covers(rows, files)
Whole == Full(manifest, SourceFiles) /\ Full(pkgManifest, {Gem})

\* What a build holds is the sources as they are; past its reserve there is no
\* older manifest, and past its link no older file.
BuildNow(p) ==
  /\ pc[p] \in {"merge", "reserve", "link", "linking", "pkgreserve", "pkgwrite", "pkgwriting",
                "pkgcommit"} => obj[p] = src
  /\ pc[p] \in {"merge", "reserve", "link", "linking", "commit"} => inputs[p] = Texted
  /\ pc[p] \in {"link", "linking", "commit", "committing"} => RowsNow(manifest)
  /\ pc[p] = "committing" => RowsNow(writing[p]) /\ Full(writing[p], SourceFiles)
  /\ pc[p] \in {"pkgwrite", "pkgwriting", "pkgcommit", "pkgcommitting"} => GemRowsNow(pkgManifest)
  /\ pc[p] = "pkgcommitting" => GemRowsNow(writing[p]) /\ Full(writing[p], {Gem})
  /\ pc[p] \in {"commit", "committing"} => BinNow
  /\ pc[p] \in {"merge", "pkgcommit", "pkgcommitting"} => ArtNow

BinSeen(p) == bin \in {None, Torn} \/ \A f \in SourceFiles : bin[f] \in seen[p][f]

\* A process has seen the sources as they are, the binary it may execute, and
\* what it has executed.
SeenNow(p) ==
  /\ pc[p] \notin {"idle", "ran"} => \A f \in SourceFiles : src[f] \in seen[p][f]
  /\ pc[p] \in {"hit", "commit", "committing", "package", "pkgreserve", "pkgwrite", "pkgwriting",
                "pkgcommit", "pkgcommitting", "exec"} => BinSeen(p)
  /\ pc[p] # "ran" => ran[p] = None
  /\ ran[p] # None => \A f \in SourceFiles : ran[p][f] \in seen[p][f]

ProgInd ==
  /\ ProgTypeOK /\ Whole /\ EntryTrue /\ PackageTrue
  /\ \A p \in Procs : BuildNow(p) /\ SeenNow(p)

\* What the invariant says of one process.
LEMMA ProcNow ==
  ASSUME ProgInd, NEW p \in Procs
  PROVE  ProgTypeOK /\ Whole /\ EntryTrue /\ PackageTrue /\ BuildNow(p) /\ SeenNow(p)
BY Zenon DEF ProgInd

\* A source is neither a missing file nor one cut short.
LEMMA GemIsSource ==
  ASSUME ProgTypeOK
  PROVE  src[Gem] \in Sources /\ src[Gem] # None /\ src[Gem] # Torn
<1>1. src[Gem] \in Sources
  BY Zenon DEF ProgTypeOK, SourceFiles
<1> QED
  BY <1>1, NoFile, Zenon

\* A source is its text and its stamp.
LEMMA SamePair ==
  ASSUME NEW a \in Sources, NEW b \in Sources, a[1] = b[1], a[2] = b[2]
  PROVE  a = b
BY DEF Sources

\* A file that is being written holds rows of the whole.
LEMMA CutKeeps ==
  ASSUME NEW rows, NEW c \in Cut(rows)
  PROVE  c = Torn \/ (DOMAIN c \subseteq DOMAIN rows /\ \A r \in DOMAIN c : c[r] = rows[r])
BY Zenon DEF Cut

\* The rows of inputs as they are.
LEMMA RowsForNow ==
  ASSUME NEW texts, \A f \in DOMAIN texts : texts[f] = src[f][1]
  PROVE  /\ RowsNow(RowsFor(texts))
         /\ DOMAIN texts = {Gem} => GemRowsNow(RowsFor(texts))
         /\ \A c \in Cut(RowsFor(texts)) :
              RowsNow(c) /\ (DOMAIN texts = {Gem} => GemRowsNow(c))
<1> DEFINE rows == RowsFor(texts)
<1>1. DOMAIN rows = {"F", "D"} \X DOMAIN texts
  BY Zenon DEF RowsFor
<1>2. ASSUME NEW r \in DOMAIN rows
      PROVE  rows[r] = RowOf(r, src[r[2]]) /\ r[2] \in DOMAIN texts
  <2>1. r[2] \in DOMAIN texts
    BY <1>1, <1>2
  <2>2. rows[r] = IF r[1] = "F" THEN texts[r[2]] ELSE src[r[2]][2]
    BY <1>1, <1>2, Zenon DEF RowsFor
  <2> QED
    BY <2>1, <2>2, Zenon DEF RowOf
<1>3. ASSUME NEW c \in Cut(rows) PROVE RowsNow(c) /\ (DOMAIN texts = {Gem} => GemRowsNow(c))
  <2> HIDE DEF rows
  <2>1. CASE c = Torn
    BY <2>1, Zenon DEF RowsNow, GemRowsNow
  <2>2. CASE DOMAIN c \subseteq DOMAIN rows /\ \A r \in DOMAIN c : c[r] = rows[r]
    BY <1>2, <2>2, Zenon DEF RowsNow, GemRowsNow
  <2> QED
    BY <1>3, <2>1, <2>2, CutKeeps, Zenon
<1>4. RowsNow(rows) /\ (DOMAIN texts = {Gem} => GemRowsNow(rows))
  <2> HIDE DEF rows
  <2> QED
    BY <1>2, Zenon DEF RowsNow, GemRowsNow
<1> QED
  BY <1>3, <1>4, Zenon

\* The rows of all the inputs are whole, and a part of them was not written to
\* its end: the texts come first, so that a stamp is there only after all of them.
LEMMA RowsForFull ==
  ASSUME NEW texts, DOMAIN texts \subseteq SourceFiles
  PROVE  /\ Full(RowsFor(texts), DOMAIN texts)
         /\ \A c \in Cut(RowsFor(texts)) : Full(c, DOMAIN texts)
<1> DEFINE rows == RowsFor(texts)
<1>1. DOMAIN rows = {"F", "D"} \X DOMAIN texts
  BY Zenon DEF RowsFor
<1>2. Covers(rows, DOMAIN texts)
  BY <1>1 DEF Covers
<1>3. ASSUME NEW c \in Cut(rows), c # Torn, Ended(c) PROVE FALSE
  <2> HIDE DEF rows
  <2>0. PICK part \in {s \in (SUBSET DOMAIN rows) \ {DOMAIN rows} :
                        \A q \in s, r \in DOMAIN rows : Precedes(r, q) => r \in s} :
          c = [r \in part |-> rows[r]]
    BY <1>3 DEF Cut
  <2>1. /\ part \subseteq DOMAIN rows /\ part # DOMAIN rows /\ c = [r \in part |-> rows[r]]
        /\ \A q \in part, r \in DOMAIN rows : Precedes(r, q) => r \in part
    BY <2>0
  <2>2. DOMAIN c = part
    BY <2>1, Zenon
  <2>3. PICK q \in part : TRUE
    BY <1>3, <2>2, Zenon DEF Ended
  <2>4. PICK k \in {"F", "D"}, f \in DOMAIN texts : q = <<k, f>>
    BY <1>1, <2>1, <2>3
  <2>5. \A g \in DOMAIN texts : <<"F", g>> \in part <=> <<"D", g>> \in part
    BY <1>3, <2>2, Zenon DEF Ended
  <2>6. <<"D", f>> \in part
    BY <2>4, <2>5
  <2>7. ASSUME NEW g \in DOMAIN texts PROVE <<"F", g>> \in part /\ <<"D", g>> \in part
    <3>1. <<"F", g>> \in DOMAIN rows /\ Precedes(<<"F", g>>, <<"D", f>>)
      BY <1>1 DEF Precedes
    <3> QED
      BY <2>1, <2>5, <2>6, <3>1
  <2>8. ASSUME NEW r \in DOMAIN rows PROVE r \in part
    <3>1. PICK j \in {"F", "D"}, g \in DOMAIN texts : r = <<j, g>>
      BY <1>1
    <3>2. <<"F", g>> \in part /\ <<"D", g>> \in part
      BY <2>7, Zenon
    <3> QED
      BY <3>1, <3>2, Zenon
  <2> QED
    BY <2>1, <2>8, Zenon
<1> QED
  BY <1>2, <1>3, Zenon DEF Full

\* A source changes only while nobody builds; whoever runs has seen it.
LEMMA ChangeInd ==
  ASSUME ProgInd, Quiet, NEW f \in SourceFiles, NEW s \in Sources, s[2] <= edits + 1, Change(f, s)
  PROVE  ProgInd'
<1>0. ProgTypeOK /\ EntryTrue /\ PackageTrue
  BY Zenon DEF ProgInd
<1>1. /\ Building = {} /\ edits < MaxEdits /\ edits' = edits + 1
      /\ UNCHANGED <<bin, manifest, art, pkgManifest, pc, obj, inputs, writing, missed, ran>>
      /\ src' = [src EXCEPT ![f] = s]
  BY Zenon DEF Change
<1>2. ASSUME NEW p \in Procs
      PROVE  /\ seen'[p] \in [SourceFiles -> SUBSET Sources]
             /\ \A g \in SourceFiles : seen[p][g] \subseteq seen'[p][g]
             /\ pc[p] \notin {"idle", "ran"} => s \in seen'[p][f]
  <2>1. seen[p] \in [SourceFiles -> SUBSET Sources]
    BY <1>0, Zenon DEF ProgTypeOK
  <2>2. seen'[p] = IF pc[p] \in {"idle", "ran"} THEN seen[p]
                   ELSE [seen[p] EXCEPT ![f] = @ \cup {s}]
    BY Zenon DEF Change
  <2> QED
    BY <2>1, <2>2
<1>3. ProgTypeOK'
  <2>1. src' \in [SourceFiles -> Sources]
    BY <1>0, <1>1, Zenon DEF ProgTypeOK
  <2>2. seen' \in [Procs -> [SourceFiles -> SUBSET Sources]]
    <3>1. seen' = [p \in Procs |-> seen'[p]]
      BY Zenon DEF Change
    <3> QED
      BY <1>2, <3>1, Zenon
  <2>3. edits' \in 0..MaxEdits
    BY <1>0, <1>1, BoundsAreNat DEF ProgTypeOK
  <2>4. ASSUME NEW g \in SourceFiles PROVE src'[g][2] <= edits'
    <3>1. src[g][2] <= edits /\ src[g][2] \in Nat /\ s[2] \in Nat /\ edits \in Nat
      BY <1>0, BoundsAreNat DEF ProgTypeOK, Sources
    <3>2. src'[g] = IF g = f THEN s ELSE src[g]
      BY <1>0, <1>1, Zenon DEF ProgTypeOK
    <3> QED
      BY <1>1, <3>1, <3>2
  <2> QED
    BY <1>0, <1>1, <2>1, <2>2, <2>3, <2>4, Zenon DEF ProgTypeOK
<1>4. ASSUME NEW p \in Procs PROVE BuildNow(p)'
  <2>1. p \notin Building /\ p \notin Building'
    BY <1>1, Zenon DEF Building
  <2>2. pc'[p] \notin {"merge", "reserve", "link", "linking", "commit", "committing", "pkgreserve",
                       "pkgwrite", "pkgwriting", "pkgcommit", "pkgcommitting"}
    BY <2>1, Zenon DEF Building
  <2> QED
    BY <2>2, Zenon DEF BuildNow
<1>5. ASSUME NEW p \in Procs PROVE SeenNow(p)'
  <2>1. SeenNow(p)
    BY Zenon DEF ProgInd
  <2>2. pc[p] \notin {"idle", "ran"} => \A g \in SourceFiles : src'[g] \in seen'[p][g]
    <3> SUFFICES ASSUME pc[p] \notin {"idle", "ran"}, NEW g \in SourceFiles
                 PROVE  src'[g] \in seen'[p][g]
      BY Zenon
    <3>1. src[g] \in seen[p][g]
      BY <2>1, Zenon DEF SeenNow
    <3>2. src'[g] = IF g = f THEN s ELSE src[g]
      BY <1>0, <1>1, Zenon DEF ProgTypeOK
    <3> QED
      BY <1>2, <3>1, <3>2, Zenon
  <2>3. BinSeen(p) => BinSeen(p)'
    BY <1>1, <1>2, Zenon DEF BinSeen
  <2>4. ran[p] # None => \A g \in SourceFiles : ran'[p][g] \in seen'[p][g]
    BY <1>1, <1>2, <2>1, Zenon DEF SeenNow
  <2> QED
    BY <1>1, <2>1, <2>2, <2>3, <2>4, Zenon DEF SeenNow
<1>6. EntryTrue' /\ PackageTrue'
  BY <1>0, <1>1, Zenon DEF EntryTrue, PackageTrue, RowOf
<1>7. Whole'
  BY <1>1, Zenon DEF ProgInd, Whole, Full, Ended, Covers
<1> QED
  BY <1>3, <1>4, <1>5, <1>6, <1>7, Zenon DEF ProgInd

\* What holds of a process rests on the files and on what is the process's own.
LEMMA SameNow ==
  ASSUME NEW q \in Procs, BuildNow(q), SeenNow(q), UNCHANGED <<src, bin, manifest, art, pkgManifest>>,
         pc'[q] = pc[q], obj'[q] = obj[q], inputs'[q] = inputs[q], writing'[q] = writing[q],
         ran'[q] = ran[q], seen'[q] = seen[q]
  PROVE  BuildNow(q)' /\ SeenNow(q)'
<1>1. BinNow' = BinNow /\ ArtNow' = ArtNow /\ Texted' = Texted
  BY Zenon DEF BinNow, ArtNow, Texted
<1>2. RowsNow(manifest)' = RowsNow(manifest) /\ RowsNow(writing[q])' = RowsNow(writing[q])
  BY Zenon DEF RowsNow, RowOf
<1>3. /\ GemRowsNow(pkgManifest)' = GemRowsNow(pkgManifest)
      /\ GemRowsNow(writing[q])' = GemRowsNow(writing[q])
  BY Zenon DEF GemRowsNow, RowOf
<1>4. ASSUME NEW files PROVE Full(writing[q], files)' = Full(writing[q], files)
  BY Zenon DEF Full, Ended, Covers
<1>5. BuildNow(q)'
  BY <1>1, <1>2, <1>3, <1>4, Zenon DEF BuildNow
<1>6. SeenNow(q)'
  BY Zenon DEF SeenNow, BinSeen
<1> QED
  BY <1>5, <1>6

\* A step of p that leaves the files alone.
Calm(p) ==
  /\ UNCHANGED <<src, bin, manifest, art, pkgManifest, edits>>
  /\ \A q \in Procs \ {p} : /\ pc'[q] = pc[q] /\ obj'[q] = obj[q] /\ inputs'[q] = inputs[q]
                            /\ writing'[q] = writing[q] /\ ran'[q] = ran[q] /\ seen'[q] = seen[q]

\* It has only p to answer for.
LEMMA CalmInd ==
  ASSUME ProgInd, NEW p \in Procs, Calm(p), ProgTypeOK', BuildNow(p)', SeenNow(p)'
  PROVE  ProgInd'
<1>0. UNCHANGED <<src, bin, manifest, art, pkgManifest>>
  BY Zenon DEF Calm
<1>1. EntryTrue' /\ PackageTrue' /\ Whole'
  BY <1>0, Zenon DEF ProgInd, EntryTrue, PackageTrue, Whole, Full, Ended, Covers, RowOf
<1>2. ASSUME NEW q \in Procs \ {p} PROVE BuildNow(q)' /\ SeenNow(q)'
  <2>1. /\ pc'[q] = pc[q] /\ obj'[q] = obj[q] /\ inputs'[q] = inputs[q]
        /\ writing'[q] = writing[q] /\ ran'[q] = ran[q] /\ seen'[q] = seen[q]
    BY Zenon DEF Calm
  <2>2. BuildNow(q) /\ SeenNow(q)
    BY Zenon DEF ProgInd
  <2> QED
    BY <1>0, <2>1, <2>2, SameNow, Zenon
<1> QED
  BY <1>1, <1>2, Zenon DEF ProgInd

\* A step that only moves the program counter of p.
LEMMA CalmMove ==
  ASSUME ProgTypeOK, NEW p \in Procs, NEW w \in Pcs, Goto(p, w), UNCHANGED <<disk, job, edits>>
  PROVE  /\ Calm(p) /\ ProgTypeOK' /\ pc'[p] = w
         /\ UNCHANGED <<src, bin, manifest, art, pkgManifest, obj, inputs, writing, ran, seen>>
<1>1. UNCHANGED <<src, bin, manifest, art, pkgManifest, edits, obj, inputs, writing, missed, ran,
                  seen>>
  BY Zenon DEF disk, job
<1>2. pc' \in [Procs -> Pcs] /\ pc'[p] = w /\ \A q \in Procs \ {p} : pc'[q] = pc[q]
  BY Zenon DEF Goto, ProgTypeOK
<1> QED
  BY <1>1, <1>2, Zenon DEF Calm, ProgTypeOK

\* The steps of a run that change nothing but where it is.  A hit, on rows that
\* leave no source out, is a binary of the sources as they are.
LEMMA MoveInd ==
  ASSUME ProgInd, NEW p \in Procs, Lookup(p) \/ Decline(p), lapses' = {}
  PROVE  ProgInd'
<1>1. ProgTypeOK /\ Whole /\ EntryTrue /\ BuildNow(p) /\ SeenNow(p)
  BY ProcNow, Zenon
<1>2. CASE Lookup(p) /\ bin # None /\ Verify(manifest)
  <2>1. /\ pc[p] = "lookup" /\ Goto(p, "hit") /\ UNCHANGED <<disk, job, edits>>
        /\ Lapse("cut", ~Ended(manifest))
    BY <1>2, Zenon DEF Lookup
  <2>2. /\ Calm(p) /\ ProgTypeOK' /\ pc'[p] = "hit"
        /\ UNCHANGED <<src, bin, manifest, art, pkgManifest, obj, inputs, ran, seen>>
    BY <1>1, <2>1, CalmMove, Zenon DEF Pcs
  <2>3. \A f \in SourceFiles : src[f] \in seen[p][f]
    BY <1>1, <2>1, Zenon DEF SeenNow
  <2>4. BinSeen(p)
    <3> SUFFICES ASSUME bin \notin {None, Torn}, NEW f \in SourceFiles PROVE bin[f] = src[f]
      BY <2>3, Zenon DEF BinSeen
    <3>1. Ended(manifest)
      BY <2>1, Zenon DEF Lapse
    <3>2. <<"F", f>> \in DOMAIN manifest /\ <<"D", f>> \in DOMAIN manifest
      BY <1>1, <1>2, <3>1, Zenon DEF Verify, Whole, Full, Covers
    <3>3. \A r \in DOMAIN manifest : RowOf(r, bin[r[2]]) = RowOf(r, src[r[2]])
      BY <1>1, <1>2, Zenon DEF Verify, EntryTrue
    <3>4. bin[f][1] = src[f][1] /\ bin[f][2] = src[f][2]
      BY <3>2, <3>3 DEF RowOf
    <3>5. bin[f] \in Sources /\ src[f] \in Sources
      BY <1>1 DEF ProgTypeOK
    <3> QED
      BY <3>4, <3>5, SamePair
  <2>5. BuildNow(p)'
    BY <2>2, Zenon DEF BuildNow
  <2>6. SeenNow(p)'
    BY <1>1, <2>1, <2>2, <2>3, <2>4, Zenon DEF SeenNow, BinSeen
  <2> QED
    BY <2>2, <2>5, <2>6, CalmInd, Zenon
<1>3. CASE (Lookup(p) /\ ~(bin # None /\ Verify(manifest))) \/ Decline(p)
  <2>1. PICK w \in {"compile", "jit"} : Goto(p, w)
    BY <1>3, Zenon DEF Lookup, Decline
  <2>2. pc[p] \in {"lookup", "compile"} /\ UNCHANGED <<disk, job, edits>>
    BY <1>3, Zenon DEF Lookup, Decline
  <2>3. /\ Calm(p) /\ ProgTypeOK' /\ pc'[p] = w
        /\ UNCHANGED <<src, bin, manifest, art, pkgManifest, obj, inputs, ran, seen>>
    BY <1>1, <2>1, <2>2, CalmMove, Zenon DEF Pcs
  <2>4. BuildNow(p)'
    BY <2>1, <2>3, Zenon DEF BuildNow
  <2>5. SeenNow(p)'
    BY <1>1, <2>1, <2>2, <2>3, Zenon DEF SeenNow
  <2> QED
    BY <2>3, <2>4, <2>5, CalmInd, Zenon
<1> QED
  BY <1>2, <1>3, Zenon

\* A manifest or a package that could not be written: what is there of it stays.
LEMMA UnwrittenInd ==
  ASSUME ProgInd, NEW p \in Procs, FailCommit(p)
  PROVE  ProgInd'
<1>1. ProgTypeOK /\ SeenNow(p)
  BY ProcNow, Zenon
<1>2. /\ pc[p] \in {"commit", "committing", "pkgreserve", "pkgwriting", "pkgcommit", "pkgcommitting"}
      /\ UNCHANGED <<src, bin, manifest, art, pkgManifest, edits, missed, ran, seen>>
  BY Zenon DEF FailCommit, Fault, disk
<1>3. /\ pc' \in [Procs -> Pcs] /\ pc'[p] \in {"package", "exec"}
      /\ \A q \in Procs \ {p} : pc'[q] = pc[q]
  BY <1>1, Zenon DEF FailCommit, AfterCommit, Goto, ProgTypeOK, Pcs
<1>4. /\ DOMAIN obj' = Procs /\ DOMAIN inputs' = Procs /\ DOMAIN writing' = Procs
      /\ \A q \in Procs \ {p} : /\ obj'[q] = obj[q] /\ inputs'[q] = inputs[q]
                                /\ writing'[q] = writing[q]
  BY <1>1, Zenon DEF FailCommit, Dropped, ProgTypeOK
<1>5. Calm(p)
  BY <1>2, <1>3, <1>4, Zenon DEF Calm
<1>6. ProgTypeOK'
  BY <1>1, <1>2, <1>3, <1>4, Zenon DEF ProgTypeOK
<1>7. BuildNow(p)'
  BY <1>3, Zenon DEF BuildNow
<1>8. SeenNow(p)'
  BY <1>1, <1>2, <1>3, Zenon DEF SeenNow, BinSeen
<1> QED
  BY <1>5, <1>6, <1>7, <1>8, CalmInd, Zenon

\* A run begins with the sources seen, and ends with nothing.
LEMMA EndsInd ==
  ASSUME ProgInd, NEW p \in Procs, Start(p) \/ Exit(p) \/ Kill(p)
  PROVE  ProgInd'
<1>1. ProgTypeOK /\ BuildNow(p) /\ SeenNow(p)
  BY ProcNow, Zenon
<1>2. UNCHANGED <<src, bin, manifest, art, pkgManifest, edits>>
  BY Zenon DEF Start, Exit, Kill, Gone, Fault, disk
<1>3. PICK w \in {"lookup", "idle"} : pc' = [pc EXCEPT ![p] = w]
  BY Zenon DEF Start, Exit, Kill, Gone, Goto
<1>4. PICK v \in [SourceFiles -> SUBSET Sources] :
        /\ seen' = [seen EXCEPT ![p] = v]
        /\ w = "lookup" => \A f \in SourceFiles : src[f] \in v[f]
  <2>1. [f \in SourceFiles |-> {}] \in [SourceFiles -> SUBSET Sources]
    BY Zenon
  <2>2. [f \in SourceFiles |-> {src[f]}] \in [SourceFiles -> SUBSET Sources]
    BY <1>1 DEF ProgTypeOK
  <2>3. CASE Start(p)
    BY <2>2, <2>3, Zenon DEF Start
  <2>4. CASE Exit(p) \/ Kill(p)
    <3>1. pc'[p] = "idle"
      BY <1>1, <2>4, Zenon DEF Exit, Kill, Gone, Goto, ProgTypeOK
    <3>2. w # "lookup"
      BY <1>1, <1>3, <3>1, Zenon DEF ProgTypeOK
    <3>3. seen' = [seen EXCEPT ![p] = [f \in SourceFiles |-> {}]]
      BY <2>4, Zenon DEF Exit, Kill, Gone
    <3> QED
      BY <2>1, <3>2, <3>3, Zenon
  <2> QED
    BY <2>3, <2>4
<1>5. /\ DOMAIN obj' = Procs /\ DOMAIN inputs' = Procs /\ DOMAIN writing' = Procs
      /\ DOMAIN missed' = Procs /\ DOMAIN ran' = Procs
      /\ \A q \in Procs \ {p} : /\ obj'[q] = obj[q] /\ inputs'[q] = inputs[q]
                                /\ writing'[q] = writing[q] /\ ran'[q] = ran[q]
  BY <1>1, Zenon DEF Start, Exit, Kill, Gone, Dropped, ProgTypeOK
<1>6. ran'[p] = None
  <2>1. CASE Start(p)
    BY <1>1, <2>1, Zenon DEF Start, SeenNow
  <2>2. CASE Exit(p) \/ Kill(p)
    BY <1>1, <2>2, Zenon DEF Exit, Kill, Gone, ProgTypeOK
  <2> QED
    BY <2>1, <2>2
<1>7. /\ pc' \in [Procs -> Pcs] /\ pc'[p] = w /\ \A q \in Procs \ {p} : pc'[q] = pc[q]
      /\ seen' \in [Procs -> [SourceFiles -> SUBSET Sources]]
      /\ seen'[p] = v /\ \A q \in Procs \ {p} : seen'[q] = seen[q]
  BY <1>1, <1>3, <1>4, Zenon DEF ProgTypeOK, Pcs
<1>8. Calm(p)
  BY <1>2, <1>5, <1>7, Zenon DEF Calm
<1>9. ProgTypeOK'
  BY <1>1, <1>2, <1>5, <1>7, Zenon DEF ProgTypeOK
<1>10. BuildNow(p)'
  BY <1>3, <1>7, Zenon DEF BuildNow
<1>11. SeenNow(p)'
  BY <1>2, <1>3, <1>4, <1>6, <1>7, Zenon DEF SeenNow
<1> QED
  BY <1>8, <1>9, <1>10, <1>11, CalmInd, Zenon

\* A compile, and what it links, hold the sources as they are.
LEMMA CompileInd ==
  ASSUME ProgInd, NEW p \in Procs, Compile(p) \/ Merge(p) \/ Package(p), lapses' = {}
  PROVE  ProgInd'
<1>1. ProgTypeOK /\ Whole /\ PackageTrue /\ BuildNow(p) /\ SeenNow(p)
  BY ProcNow, Zenon
<1>2. UNCHANGED <<src, bin, manifest, art, pkgManifest, edits, writing, ran, seen>>
  BY Zenon DEF Compile, Merge, Package, disk
<1>3. PICK w \in {"merge", "reserve", "exec", "pkgreserve"} : pc' = [pc EXCEPT ![p] = w]
  BY Zenon DEF Compile, Merge, Package, Goto
<1>4. /\ DOMAIN obj' = Procs /\ DOMAIN inputs' = Procs /\ DOMAIN missed' = Procs
      /\ \A q \in Procs \ {p} : obj'[q] = obj[q] /\ inputs'[q] = inputs[q]
  BY <1>1, Zenon DEF Compile, Merge, CompileWith, Package, ProgTypeOK
<1>5. pc' \in [Procs -> Pcs] /\ pc'[p] = w /\ \A q \in Procs \ {p} : pc'[q] = pc[q]
  BY <1>1, <1>3, Zenon DEF ProgTypeOK, Pcs
<1>6. Calm(p)
  BY <1>2, <1>4, <1>5, Zenon DEF Calm
<1>7. ProgTypeOK'
  BY <1>1, <1>2, <1>4, <1>5, Zenon DEF ProgTypeOK
<1>8. pc[p] \in {"compile", "merge", "package"} /\ (w \in {"exec", "pkgreserve"} => pc[p] = "package")
  <2>1. CASE Compile(p)
    BY <1>1, <1>5, <2>1, Zenon DEF Compile, Goto, ProgTypeOK
  <2>2. CASE Merge(p)
    BY <1>1, <1>5, <2>2, Zenon DEF Merge, Goto, ProgTypeOK
  <2>3. CASE Package(p)
    BY <2>3, Zenon DEF Package
  <2> QED
    BY <2>1, <2>2, <2>3
<1>9. SeenNow(p)'
  BY <1>1, <1>2, <1>3, <1>5, <1>8, Zenon DEF SeenNow, BinSeen
<1>10. /\ w # "exec" => obj'[p] = src
       /\ w \in {"merge", "reserve"} => inputs'[p] = Texted
       /\ w = "merge" => ArtNow
  <2>1. CASE Compile(p)
    <3>1. obj'[p] = src /\ inputs'[p] = Texted
      BY <1>1, <2>1, Zenon DEF Compile, Texted, ProgTypeOK
    <3>2. w = "merge" => PkgLookup /\ Lapse("cut", ~Ended(pkgManifest))
      BY <1>1, <1>5, <2>1, Zenon DEF Compile, Goto, ProgTypeOK
    <3>3. ASSUME w = "merge", art \notin {None, Torn} PROVE art = src[Gem]
      <4>1. Ended(pkgManifest) /\ pkgManifest \notin {None, Torn}
        BY <3>2, <3>3, Zenon DEF Lapse, PkgLookup, Verify
      <4>2. <<"F", Gem>> \in DOMAIN pkgManifest /\ <<"D", Gem>> \in DOMAIN pkgManifest
        BY <1>1, <4>1, Zenon DEF Whole, Full, Covers
      <4>3. \A q \in DOMAIN pkgManifest : RowOf(q, art) = RowOf(q, src[q[2]])
        BY <1>1, <3>2, <3>3, Zenon DEF PkgLookup, Verify, PackageTrue
      <4>4. art[1] = src[Gem][1] /\ art[2] = src[Gem][2]
        BY <4>2, <4>3 DEF RowOf
      <4>5. art \in Sources /\ src[Gem] \in Sources
        BY <1>1, <3>3, GemIsSource, Zenon DEF ProgTypeOK
      <4> QED
        BY <4>4, <4>5, SamePair
    <3> QED
      BY <3>1, <3>3, Zenon DEF ArtNow
  <2>2. CASE Merge(p)
    <3>1. obj[p] = src /\ inputs[p] = Texted /\ ArtNow
      BY <1>1, <2>2, Zenon DEF Merge, BuildNow
    <3>2. PICK s \in {art, src[Gem]} : CompileWith(p, s, TRUE) /\ (art \in {None, Torn} => s = src[Gem])
      <4>1. ASSUME NEW named \in BOOLEAN, NamesGem(named), Lapse("bare", ~GemRow) PROVE named = TRUE
        BY <4>1, Zenon DEF NamesGem, Lapse
      <4> QED
        BY <2>2, <4>1, Zenon DEF Merge
    <3>3. s = src[Gem]
      BY <3>1, <3>2, Zenon DEF ArtNow
    <3>4. obj'[p] = src
      <4>1. obj'[p] = [src EXCEPT ![Gem] = src[Gem]]
        BY <1>1, <3>1, <3>2, <3>3, Zenon DEF CompileWith, ProgTypeOK
      <4> QED
        BY <1>1, <4>1, Zenon DEF ProgTypeOK, SourceFiles
    <3>5. inputs'[p] = [f \in SourceFiles |-> IF f = Gem THEN src[Gem][1] ELSE Texted[f]]
      BY <1>1, <3>1, <3>2, Zenon DEF CompileWith, ProgTypeOK
    <3>6. inputs'[p] = Texted
      BY <3>5, Zenon DEF Texted
    <3>7. w = "reserve"
      BY <1>1, <1>5, <2>2, Zenon DEF Merge, Goto, ProgTypeOK
    <3> QED
      BY <3>4, <3>6, <3>7, Zenon
  <2>3. CASE Package(p)
    <3>1. pc'[p] = "exec" \/ (pc'[p] = "pkgreserve" /\ obj'[p] = src)
      BY <1>1, <2>3, Zenon DEF Package, Goto, ProgTypeOK
    <3> QED
      BY <1>5, <3>1, Zenon
  <2> QED
    BY <2>1, <2>2, <2>3
<1>11. BuildNow(p)'
  BY <1>2, <1>3, <1>5, <1>10, Zenon DEF BuildNow, ArtNow, Texted
<1> QED
  BY <1>6, <1>7, <1>9, <1>11, CalmInd, Zenon

\* What is executed was seen.
LEMMA RunInd ==
  ASSUME ProgInd, NEW p \in Procs, Exec(p) \/ Jit(p)
  PROVE  ProgInd'
<1>1. ProgTypeOK /\ BuildNow(p) /\ SeenNow(p)
  BY ProcNow, Zenon
<1>2. UNCHANGED <<src, bin, manifest, art, pkgManifest, edits, obj, inputs, writing, missed, seen>>
  BY Zenon DEF Exec, Jit, disk
<1>3. /\ DOMAIN ran' = Procs /\ \A q \in Procs \ {p} : ran'[q] = ran[q]
      /\ pc' \in [Procs -> Pcs] /\ \A q \in Procs \ {p} : pc'[q] = pc[q]
  BY <1>1, Zenon DEF Exec, Jit, Goto, ProgTypeOK, Pcs
<1>4. Calm(p)
  BY <1>2, <1>3, Zenon DEF Calm
<1>5. ProgTypeOK'
  BY <1>1, <1>2, <1>3, Zenon DEF ProgTypeOK
<1>6. pc[p] \in {"hit", "exec", "jit"} /\ pc'[p] \in {"jit", "ran"}
  BY <1>1, Zenon DEF Exec, Jit, Goto, ProgTypeOK
<1>7. \A f \in SourceFiles : src[f] \in seen[p][f]
  BY <1>1, <1>6, Zenon DEF SeenNow
<1>8. \/ ran'[p] = ran[p] /\ ran[p] = None
      \/ pc'[p] = "ran" /\ \A f \in SourceFiles : ran'[p][f] \in seen[p][f]
  <2>1. CASE Exec(p) /\ bin \in {None, Torn}
    BY <1>1, <1>6, <2>1, Zenon DEF Exec, SeenNow
  <2>2. CASE Exec(p) /\ bin \notin {None, Torn}
    <3>1. pc[p] \in {"hit", "exec"} /\ pc'[p] = "ran" /\ ran'[p] = bin
      BY <1>1, <2>2, Zenon DEF Exec, Goto, ProgTypeOK
    <3>2. BinSeen(p)
      BY <1>1, <3>1, Zenon DEF SeenNow
    <3> QED
      BY <2>2, <3>1, <3>2, Zenon DEF BinSeen
  <2>3. CASE Jit(p)
    <3>1. pc'[p] = "ran" /\ ran'[p] = src
      BY <1>1, <2>3, Zenon DEF Jit, Goto, ProgTypeOK
    <3> QED
      BY <1>7, <3>1, Zenon
  <2> QED
    BY <2>1, <2>2, <2>3
<1>9. BuildNow(p)'
  BY <1>6, Zenon DEF BuildNow
<1>10. SeenNow(p)'
  BY <1>2, <1>6, <1>7, <1>8, Zenon DEF SeenNow
<1> QED
  BY <1>4, <1>5, <1>9, <1>10, CalmInd, Zenon

\* A step of p that writes an entry: it only removes or cuts short what is
\* there, or puts the sources as they are.
Writes(p) ==
  /\ UNCHANGED <<src, edits, ran, seen>>
  /\ pc' \in [Procs -> Pcs] /\ \A q \in Procs \ {p} : pc'[q] = pc[q]
  /\ DOMAIN obj' = Procs /\ DOMAIN inputs' = Procs /\ DOMAIN writing' = Procs /\ DOMAIN missed' = Procs
  /\ \A q \in Procs \ {p} : /\ obj'[q] = obj[q] /\ inputs'[q] = inputs[q]
                            /\ writing'[q] \in {writing[q], None}
  /\ manifest' = manifest \/ (RowsNow(manifest') /\ Full(manifest', SourceFiles))
  /\ pkgManifest' = pkgManifest \/ (GemRowsNow(pkgManifest') /\ Full(pkgManifest', {Gem}))
  /\ bin' \in {bin, None, Torn, src} /\ art' \in {art, None, Torn, src[Gem]}

\* Every other process can live with it.
LEMMA WriteInd ==
  ASSUME ProgInd, NEW p \in Procs, Writes(p), EntryTrue', PackageTrue', BuildNow(p)', SeenNow(p)'
  PROVE  ProgInd'
<1>0. ProgTypeOK
  BY Zenon DEF ProgInd
<1>1. UNCHANGED <<src, edits, ran, seen>>
  BY Zenon DEF Writes
<1>2. ProgTypeOK'
  <2>1. bin' \in {None, Torn} \cup [SourceFiles -> Sources]
    BY <1>0, Zenon DEF Writes, ProgTypeOK
  <2>2. art' \in {None, Torn} \cup Sources
    BY <1>0, GemIsSource, Zenon DEF Writes, ProgTypeOK
  <2> QED
    BY <1>0, <1>1, <2>1, <2>2, Zenon DEF ProgTypeOK, Writes
<1>3. ASSUME NEW q \in Procs \ {p} PROVE BuildNow(q)' /\ SeenNow(q)'
  <2>1. /\ BuildNow(q) /\ SeenNow(q) /\ pc'[q] = pc[q]
        /\ obj'[q] = obj[q] /\ inputs'[q] = inputs[q] /\ writing'[q] \in {writing[q], None}
    BY Zenon DEF ProgInd, Writes
  <2>2. bin' \in {bin, None, Torn, src} /\ art' \in {art, None, Torn, src[Gem]}
    BY Zenon DEF Writes
  <2>3. (BinNow => BinNow') /\ (ArtNow => ArtNow')
    BY <1>1, <2>2, Zenon DEF BinNow, ArtNow
  <2>4. /\ RowsNow(manifest) => RowsNow(manifest)'
        /\ GemRowsNow(pkgManifest) => GemRowsNow(pkgManifest)'
    <3>1. RowsNow(manifest') = RowsNow(manifest)' /\ GemRowsNow(pkgManifest') = GemRowsNow(pkgManifest)'
      BY <1>1, Zenon DEF RowsNow, GemRowsNow, RowOf
    <3>2. /\ manifest' = manifest \/ RowsNow(manifest')
          /\ pkgManifest' = pkgManifest \/ GemRowsNow(pkgManifest')
      BY Zenon DEF Writes
    <3> QED
      BY <3>1, <3>2, Zenon
  <2>5. /\ RowsNow(writing[q]) => RowsNow(writing[q])'
        /\ GemRowsNow(writing[q]) => GemRowsNow(writing[q])'
    BY <1>1, <2>1, Zenon DEF RowsNow, GemRowsNow, RowOf
  <2>6. Texted' = Texted /\ \A files : Full(writing[q], files) => Full(writing[q], files)'
    BY <1>1, <2>1, Zenon DEF Texted, Full, Ended, Covers
  <2>7. BuildNow(q)'
    BY <1>1, <2>1, <2>3, <2>4, <2>5, <2>6, Zenon DEF BuildNow
  <2>8. (BinSeen(q) /\ \A f \in SourceFiles : src[f] \in seen[q][f]) => BinSeen(q)'
    BY <1>1, <2>2, Zenon DEF BinSeen
  <2>9. SeenNow(q)'
    BY <1>1, <2>1, <2>8, Zenon DEF SeenNow
  <2> QED
    BY <2>7, <2>9
<1>4. Whole'
  <2>1. /\ manifest' = manifest \/ Full(manifest', SourceFiles)
        /\ pkgManifest' = pkgManifest \/ Full(pkgManifest', {Gem})
    BY Zenon DEF Writes
  <2> QED
    BY <2>1, Zenon DEF ProgInd, Whole, Full, Ended, Covers
<1> QED
  BY <1>2, <1>3, <1>4, Zenon DEF ProgInd

\* The steps that write the program's entry: what they put there is made of
\* the sources as they are, which every process that runs has seen.
LEMMA ProgramInd ==
  ASSUME ProgInd, NEW p \in Procs,
         Reserve(p) \/ LinkStart(p) \/ LinkEnd(p) \/ CommitStart(p) \/ CommitEnd(p) \/ Fail(p)
  PROVE  ProgInd'
<1>0. ProgTypeOK /\ Whole /\ EntryTrue /\ PackageTrue /\ BuildNow(p) /\ SeenNow(p)
  BY ProcNow, Zenon
<1>1. UNCHANGED <<src, edits, ran, seen, art, pkgManifest>>
  BY Zenon DEF Reserve, LinkStart, LinkEnd, CommitStart, CommitEnd, Fail, Fault, job
<1>2. /\ pc' \in [Procs -> Pcs] /\ \A q \in Procs \ {p} : pc'[q] = pc[q]
      /\ DOMAIN obj' = Procs /\ DOMAIN inputs' = Procs /\ DOMAIN writing' = Procs
      /\ DOMAIN missed' = Procs
      /\ \A q \in Procs \ {p} : /\ obj'[q] = obj[q] /\ inputs'[q] = inputs[q]
                                /\ writing'[q] \in {writing[q], None}
  <2>1. pc' \in [Procs -> Pcs] /\ \A q \in Procs \ {p} : pc'[q] = pc[q]
    BY <1>0, Zenon DEF Reserve, LinkStart, LinkEnd, CommitStart, CommitEnd, Fail, AfterCommit, Goto,
                       Pcs, ProgTypeOK
  <2>2. /\ DOMAIN obj' = Procs /\ DOMAIN inputs' = Procs /\ DOMAIN missed' = Procs
        /\ \A q \in Procs \ {p} : obj'[q] = obj[q] /\ inputs'[q] = inputs[q]
    BY <1>0, Zenon DEF Reserve, LinkStart, LinkEnd, CommitStart, CommitEnd, Fail, Dropped, job,
                       ProgTypeOK
  <2>3. DOMAIN writing' = Procs /\ \A q \in Procs \ {p} : writing'[q] \in {writing[q], None}
    BY <1>0, Zenon DEF Reserve, LinkStart, LinkEnd, CommitStart, CommitEnd, Fail, Dropped, Unlinked,
                       Close, job, ProgTypeOK
  <2> QED
    BY <2>1, <2>2, <2>3, Zenon
<1>3. PackageTrue'
  BY <1>0, <1>1, Zenon DEF PackageTrue, RowOf
<1>4. pc[p] \in {"reserve", "link", "linking", "commit", "committing"}
  BY Zenon DEF Reserve, LinkStart, LinkEnd, CommitStart, CommitEnd, Fail
<1>5. (\A f \in SourceFiles : src[f] \in seen[p][f]) /\ ran[p] = None
  BY <1>0, <1>4, Zenon DEF SeenNow
<1>6. CASE Reserve(p)
  <2>1. /\ manifest' = None /\ bin' = bin /\ pc[p] = "reserve" /\ pc'[p] = "link"
        /\ UNCHANGED <<obj, inputs>>
    BY <1>0, <1>6, Zenon DEF Reserve, Goto, ProgTypeOK
  <2>2. Writes(p) /\ EntryTrue'
    BY <1>1, <1>2, <2>1, Zenon DEF Writes, EntryTrue, RowsNow, Full
  <2>3. BuildNow(p)'
    BY <1>0, <1>1, <2>1, Zenon DEF BuildNow, Texted, RowsNow
  <2>4. SeenNow(p)'
    BY <1>1, <1>5, <2>1, Zenon DEF SeenNow
  <2> QED
    BY <1>3, <2>2, <2>3, <2>4, WriteInd, Zenon
<1>7. CASE LinkStart(p)
  <2>1. /\ bin' = Torn /\ manifest' = manifest /\ pc[p] = "link" /\ pc'[p] = "linking"
        /\ UNCHANGED <<obj, inputs>>
    BY <1>0, <1>7, Zenon DEF LinkStart, Goto, ProgTypeOK, job
  <2>2. Writes(p) /\ EntryTrue'
    BY <1>1, <1>2, <2>1, Zenon DEF Writes, EntryTrue
  <2>3. BuildNow(p)'
    BY <1>0, <1>1, <2>1, Zenon DEF BuildNow, Texted, RowsNow, RowOf
  <2>4. SeenNow(p)'
    BY <1>1, <1>5, <2>1, Zenon DEF SeenNow
  <2> QED
    BY <1>3, <2>2, <2>3, <2>4, WriteInd, Zenon
<1>8. CASE LinkEnd(p)
  <2>1. /\ manifest' = manifest /\ pc[p] = "linking" /\ pc'[p] = "commit" /\ inputs' = inputs
        /\ bin' = obj[p]
    BY <1>0, <1>8, Zenon DEF LinkEnd, Goto, ProgTypeOK
  <2>2. obj[p] = src /\ inputs[p] = Texted /\ RowsNow(manifest)
    BY <1>0, <2>1, Zenon DEF BuildNow
  <2>3. Writes(p)
    BY <1>1, <1>2, <2>1, <2>2, Zenon DEF Writes
  <2>4. EntryTrue'
    BY <1>1, <2>1, <2>2, Zenon DEF EntryTrue, RowsNow, RowOf
  <2>5. BuildNow(p)'
    BY <1>1, <2>1, <2>2, Zenon DEF BuildNow, BinNow, Texted, RowsNow, RowOf
  <2>6. SeenNow(p)'
    BY <1>1, <1>5, <2>1, <2>2, Zenon DEF SeenNow, BinSeen
  <2> QED
    BY <1>3, <2>3, <2>4, <2>5, <2>6, WriteInd, Zenon
<1>9. CASE CommitStart(p)
  <2>1. /\ bin' = bin /\ pc[p] = "commit" /\ pc'[p] = "committing"
        /\ writing'[p] = RowsFor(inputs[p]) /\ manifest' \in Cut(RowsFor(inputs[p]))
    BY <1>0, <1>9, Zenon DEF CommitStart, Goto, ProgTypeOK
  <2>2. BinNow /\ BinSeen(p) /\ inputs[p] = Texted
    BY <1>0, <2>1, Zenon DEF BuildNow, SeenNow
  <2>3. /\ RowsNow(writing'[p]) /\ Full(writing'[p], SourceFiles)
        /\ RowsNow(manifest') /\ Full(manifest', SourceFiles)
    <3>1. DOMAIN inputs[p] = SourceFiles /\ \A f \in DOMAIN inputs[p] : inputs[p][f] = src[f][1]
      BY <2>2, Zenon DEF Texted
    <3>2. RowsNow(RowsFor(inputs[p])) /\ \A c \in Cut(RowsFor(inputs[p])) : RowsNow(c)
      BY <3>1, RowsForNow, Zenon
    <3>3. /\ Full(RowsFor(inputs[p]), SourceFiles)
          /\ \A c \in Cut(RowsFor(inputs[p])) : Full(c, SourceFiles)
      <4>1. DOMAIN inputs[p] \subseteq SourceFiles
        BY <3>1, Zenon
      <4> QED
        BY <3>1, <4>1, RowsForFull, Zenon
    <3> QED
      BY <2>1, <3>2, <3>3, Zenon
  <2>4. Writes(p)
    BY <1>1, <1>2, <2>1, <2>3, Zenon DEF Writes
  <2>5. EntryTrue'
    BY <1>1, <2>1, <2>2, <2>3, Zenon DEF EntryTrue, BinNow, RowsNow, RowOf
  <2>6. BuildNow(p)'
    BY <1>1, <2>1, <2>2, <2>3, Zenon DEF BuildNow, BinNow, RowsNow, RowOf, Full, Ended, Covers
  <2>7. SeenNow(p)'
    BY <1>1, <1>5, <2>1, <2>2, Zenon DEF SeenNow, BinSeen
  <2> QED
    BY <1>3, <2>4, <2>5, <2>6, <2>7, WriteInd, Zenon
<1>10. CASE CommitEnd(p)
  <2>1. /\ bin' = bin /\ pc[p] = "committing" /\ pc'[p] \in {"package", "exec"}
        /\ manifest' \in {manifest, writing[p]}
    BY <1>0, <1>10, Zenon DEF CommitEnd, Written, AfterCommit, Goto, ProgTypeOK
  <2>2. /\ BinNow /\ BinSeen(p) /\ RowsNow(manifest) /\ RowsNow(writing[p])
        /\ Full(manifest, SourceFiles) /\ Full(writing[p], SourceFiles)
    BY <1>0, <2>1, Zenon DEF BuildNow, SeenNow, Whole
  <2>3. RowsNow(manifest') /\ Full(manifest', SourceFiles)
    BY <2>1, <2>2, Zenon
  <2>4. Writes(p)
    BY <1>1, <1>2, <2>1, <2>3, Zenon DEF Writes
  <2>5. EntryTrue'
    BY <1>1, <2>1, <2>2, <2>3, Zenon DEF EntryTrue, BinNow, RowsNow, RowOf
  <2>6. BuildNow(p)'
    BY <2>1, Zenon DEF BuildNow
  <2>7. SeenNow(p)'
    BY <1>1, <1>5, <2>1, <2>2, Zenon DEF SeenNow, BinSeen
  <2> QED
    BY <1>3, <2>4, <2>5, <2>6, <2>7, WriteInd, Zenon
<1>11. CASE Fail(p)
  <2>1. manifest' = manifest /\ bin' \in {bin, None} /\ pc'[p] = "jit"
    BY <1>0, <1>11, Zenon DEF Fail, Goto, ProgTypeOK
  <2>2. Writes(p)
    BY <1>1, <1>2, <2>1, Zenon DEF Writes
  <2>3. EntryTrue'
    BY <1>0, <2>1, Zenon DEF EntryTrue, RowOf
  <2>4. BuildNow(p)'
    BY <2>1, Zenon DEF BuildNow
  <2>5. SeenNow(p)'
    BY <1>1, <1>5, <2>1, Zenon DEF SeenNow
  <2> QED
    BY <1>3, <2>2, <2>3, <2>4, <2>5, WriteInd, Zenon
<1> QED
  BY <1>6, <1>7, <1>8, <1>9, <1>10, <1>11, Zenon

\* The same of the package's entry.
LEMMA PackageInd ==
  ASSUME ProgInd, NEW p \in Procs,
         \/ PkgReserve(p) \/ PkgWriteStart(p) \/ PkgWriteEnd(p)
         \/ PkgCommitStart(p) \/ PkgCommitEnd(p)
  PROVE  ProgInd'
<1>0. ProgTypeOK /\ Whole /\ EntryTrue /\ PackageTrue /\ BuildNow(p) /\ SeenNow(p)
  BY ProcNow, Zenon
<1>1. UNCHANGED <<src, edits, ran, seen, bin, manifest>>
  BY Zenon DEF PkgReserve, PkgWriteStart, PkgWriteEnd, PkgCommitStart, PkgCommitEnd, job
<1>2. /\ pc' \in [Procs -> Pcs] /\ \A q \in Procs \ {p} : pc'[q] = pc[q]
      /\ DOMAIN obj' = Procs /\ DOMAIN inputs' = Procs /\ DOMAIN writing' = Procs
      /\ DOMAIN missed' = Procs
      /\ \A q \in Procs \ {p} : /\ obj'[q] = obj[q] /\ inputs'[q] = inputs[q]
                                /\ writing'[q] \in {writing[q], None}
  <2>1. pc' \in [Procs -> Pcs] /\ \A q \in Procs \ {p} : pc'[q] = pc[q]
    BY <1>0, Zenon DEF PkgReserve, PkgWriteStart, PkgWriteEnd, PkgCommitStart, PkgCommitEnd, Goto,
                       Pcs, ProgTypeOK
  <2>2. /\ DOMAIN obj' = Procs /\ DOMAIN inputs' = Procs /\ DOMAIN missed' = Procs
        /\ \A q \in Procs \ {p} : obj'[q] = obj[q] /\ inputs'[q] = inputs[q]
    BY <1>0, Zenon DEF PkgReserve, PkgWriteStart, PkgWriteEnd, PkgCommitStart, PkgCommitEnd, job,
                       ProgTypeOK
  <2>3. DOMAIN writing' = Procs /\ \A q \in Procs \ {p} : writing'[q] \in {writing[q], None}
    BY <1>0, Zenon DEF PkgReserve, PkgWriteStart, PkgWriteEnd, PkgCommitStart, PkgCommitEnd, Unlinked,
                       Close, job, ProgTypeOK
  <2> QED
    BY <2>1, <2>2, <2>3, Zenon
<1>3. EntryTrue'
  BY <1>0, <1>1, Zenon DEF EntryTrue, RowOf
<1>4. pc[p] \in {"pkgreserve", "pkgwrite", "pkgwriting", "pkgcommit", "pkgcommitting"}
  BY Zenon DEF PkgReserve, PkgWriteStart, PkgWriteEnd, PkgCommitStart, PkgCommitEnd
<1>5. BinSeen(p) /\ (\A f \in SourceFiles : src[f] \in seen[p][f]) /\ ran[p] = None
  BY <1>0, <1>4, Zenon DEF SeenNow
<1>6. pc'[p] \in {"pkgwrite", "pkgwriting", "pkgcommit", "pkgcommitting", "exec"}
  BY <1>0, Zenon DEF PkgReserve, PkgWriteStart, PkgWriteEnd, PkgCommitStart, PkgCommitEnd, Goto,
                     ProgTypeOK
<1>7. SeenNow(p)'
  BY <1>1, <1>5, <1>6, Zenon DEF SeenNow, BinSeen
<1>8. CASE PkgReserve(p)
  <2>1. /\ pkgManifest' = None /\ art' = art /\ pc[p] = "pkgreserve" /\ pc'[p] = "pkgwrite"
        /\ obj' = obj
    BY <1>0, <1>8, Zenon DEF PkgReserve, Goto, ProgTypeOK
  <2>2. Writes(p) /\ PackageTrue'
    BY <1>1, <1>2, <2>1, Zenon DEF Writes, PackageTrue, GemRowsNow, Full
  <2>3. BuildNow(p)'
    BY <1>0, <1>1, <2>1, Zenon DEF BuildNow, GemRowsNow
  <2> QED
    BY <1>3, <1>7, <2>2, <2>3, WriteInd, Zenon
<1>9. CASE PkgWriteStart(p)
  <2>1. /\ art' = Torn /\ pkgManifest' = pkgManifest /\ pc[p] = "pkgwrite" /\ pc'[p] = "pkgwriting"
        /\ obj' = obj
    BY <1>0, <1>9, Zenon DEF PkgWriteStart, Goto, ProgTypeOK, job
  <2>2. Writes(p) /\ PackageTrue'
    BY <1>1, <1>2, <2>1, Zenon DEF Writes, PackageTrue
  <2>3. BuildNow(p)'
    BY <1>0, <1>1, <2>1, Zenon DEF BuildNow, GemRowsNow, RowOf
  <2> QED
    BY <1>3, <1>7, <2>2, <2>3, WriteInd, Zenon
<1>10. CASE PkgWriteEnd(p)
  <2>1. /\ art' = obj[p][Gem] /\ pkgManifest' = pkgManifest /\ obj' = obj
        /\ pc[p] = "pkgwriting" /\ pc'[p] = "pkgcommit"
    BY <1>0, <1>10, Zenon DEF PkgWriteEnd, Goto, ProgTypeOK, job
  <2>2. obj[p] = src /\ GemRowsNow(pkgManifest)
    BY <1>0, <2>1, Zenon DEF BuildNow
  <2>3. Writes(p)
    BY <1>1, <1>2, <2>1, <2>2, Zenon DEF Writes
  <2>4. PackageTrue'
    BY <1>1, <2>1, <2>2, Zenon DEF PackageTrue, GemRowsNow, RowOf
  <2>5. BuildNow(p)'
    BY <1>1, <2>1, <2>2, Zenon DEF BuildNow, ArtNow, GemRowsNow, RowOf
  <2> QED
    BY <1>3, <1>7, <2>3, <2>4, <2>5, WriteInd, Zenon
<1>11. CASE PkgCommitStart(p)
  <2> DEFINE texts == [f \in {Gem} |-> obj[p][f][1]]
  <2>1. /\ art' = art /\ pc[p] = "pkgcommit" /\ pc'[p] = "pkgcommitting"
        /\ writing'[p] = RowsFor(texts) /\ pkgManifest' \in Cut(RowsFor(texts))
    BY <1>0, <1>11, Zenon DEF PkgCommitStart, Goto, ProgTypeOK
  <2>2. ArtNow /\ obj[p] = src
    BY <1>0, <2>1, Zenon DEF BuildNow
  <2>3. DOMAIN texts = {Gem} /\ \A f \in DOMAIN texts : texts[f] = src[f][1]
    BY <2>2, Zenon
  <2>4. /\ GemRowsNow(writing'[p]) /\ Full(writing'[p], {Gem})
        /\ GemRowsNow(pkgManifest') /\ Full(pkgManifest', {Gem})
    <3> HIDE DEF texts
    <3> QED
      <4>1. GemRowsNow(RowsFor(texts)) /\ \A c \in Cut(RowsFor(texts)) : GemRowsNow(c)
        BY <2>3, RowsForNow, Zenon
      <4>2. DOMAIN texts \subseteq SourceFiles
        BY <2>3, Zenon DEF SourceFiles
      <4>3. Full(RowsFor(texts), {Gem}) /\ \A c \in Cut(RowsFor(texts)) : Full(c, {Gem})
        BY <2>3, <4>2, RowsForFull, Zenon
      <4> QED
        BY <2>1, <4>1, <4>3, Zenon
  <2>5. Writes(p)
    BY <1>1, <1>2, <2>1, <2>4, Zenon DEF Writes
  <2>6. PackageTrue'
    BY <1>1, <2>1, <2>2, <2>4, Zenon DEF PackageTrue, ArtNow, GemRowsNow, RowOf
  <2>7. BuildNow(p)'
    BY <1>1, <2>1, <2>2, <2>4, Zenon DEF BuildNow, ArtNow, GemRowsNow, RowOf, Full, Ended, Covers
  <2> QED
    BY <1>3, <1>7, <2>5, <2>6, <2>7, WriteInd, Zenon
<1>12. CASE PkgCommitEnd(p)
  <2>1. /\ art' = art /\ pc[p] = "pkgcommitting" /\ pc'[p] = "exec"
        /\ pkgManifest' \in {pkgManifest, writing[p]}
    BY <1>0, <1>12, Zenon DEF PkgCommitEnd, Written, Goto, ProgTypeOK
  <2>2. /\ ArtNow /\ GemRowsNow(pkgManifest) /\ GemRowsNow(writing[p])
        /\ Full(pkgManifest, {Gem}) /\ Full(writing[p], {Gem})
    BY <1>0, <2>1, Zenon DEF BuildNow, Whole
  <2>3. GemRowsNow(pkgManifest') /\ Full(pkgManifest', {Gem})
    BY <2>1, <2>2, Zenon
  <2>4. Writes(p)
    BY <1>1, <1>2, <2>1, <2>3, Zenon DEF Writes
  <2>5. PackageTrue'
    BY <1>1, <2>1, <2>2, <2>3, Zenon DEF PackageTrue, ArtNow, GemRowsNow, RowOf
  <2>6. BuildNow(p)'
    BY <2>1, Zenon DEF BuildNow
  <2> QED
    BY <1>3, <1>7, <2>4, <2>5, <2>6, WriteInd, Zenon
<1> QED
  BY <1>8, <1>9, <1>10, <1>11, <1>12, Zenon

\* A lapse is never taken back.
LEMMA LapsesStay == [CacheNext]_cacheVars /\ lapses' = {} => lapses = {}
<1> SUFFICES ASSUME [CacheNext]_cacheVars PROVE lapses \subseteq lapses'
  BY Zenon
<1>1. ASSUME NEW f \in SourceFiles, Edit(f) \/ AddFile(f) PROVE lapses' = lapses
  BY <1>1, Zenon DEF Edit, AddFile, Change
<1>2. ASSUME NEW p \in Procs, Lookup(p) \/ Compile(p) \/ Merge(p) \/ FailRemove(p)
      PROVE  lapses \subseteq lapses'
  BY <1>2, Zenon DEF Lookup, Compile, Merge, FailRemove, Lapse
<1>3. ASSUME NEW p \in Procs,
             Step(p) \/ Kill(p) \/ Fail(p) \/ FailRemove(p) \/ FailCommit(p),
             ~(Lookup(p) \/ Compile(p) \/ Merge(p) \/ FailRemove(p))
      PROVE  lapses' = lapses
  BY <1>3, Zenon DEF Step, Kill, Fail, FailCommit, Start, Exit, Gone, Decline, Reserve, LinkStart,
     LinkEnd, CommitStart, CommitEnd, Exec, Jit, Package, PkgReserve, PkgWriteStart, PkgWriteEnd,
     PkgCommitStart, PkgCommitEnd
<1>4. CASE UNCHANGED cacheVars
  BY <1>4, Zenon DEF cacheVars
<1> QED
  BY <1>1, <1>2, <1>3, <1>4, Zenon DEF CacheNext

\* The inductive invariant holds until a lapse, as long as no source changes
\* between a compile and its commit.
THEOREM ProgCacheInvariant == ASSUME Quiet PROVE CacheSpec => [](lapses = {} => ProgInd)
<1>1. CacheInit => ProgInd
  <2> SUFFICES ASSUME CacheInit PROVE ProgInd
    OBVIOUS
  <2>1. ProgTypeOK
    BY BoundsAreNat DEF CacheInit, ProgTypeOK, Sources, Pcs
  <2>2. \A p \in Procs : BuildNow(p) /\ SeenNow(p)
    BY DEF CacheInit, BuildNow, SeenNow
  <2>3. EntryTrue /\ PackageTrue /\ Whole
    BY DEF CacheInit, EntryTrue, PackageTrue, Whole, Full
  <2> QED
    BY <2>1, <2>2, <2>3 DEF ProgInd
<1>2. (lapses = {} => ProgInd) /\ [CacheNext]_cacheVars => (lapses = {} => ProgInd)'
  <2> SUFFICES ASSUME ProgInd, [CacheNext]_cacheVars, lapses' = {} PROVE ProgInd'
    BY LapsesStay, Zenon
  <2>1. ASSUME NEW f \in SourceFiles, Edit(f) \/ AddFile(f) PROVE ProgInd'
    <3>1. src[f] \in Sources /\ src[f][2] <= edits /\ edits \in 0..MaxEdits
      BY DEF ProgInd, ProgTypeOK
    <3>2. PICK s : Change(f, s) /\ (s = <<src[f][1], src[f][2] + 1>>
                                    \/ \E x \in Texts : s = <<x, src[f][2]>>)
      BY <2>1, Zenon DEF Edit, AddFile
    <3>3. edits < MaxEdits
      BY <3>2 DEF Change
    <3>4. s \in Sources /\ s[2] <= edits + 1
      BY <3>1, <3>2, <3>3, BoundsAreNat DEF Sources
    <3> QED
      BY <3>2, <3>4, ChangeInd
  <2>2. ASSUME NEW p \in Procs, Step(p) \/ Kill(p) \/ Fail(p) \/ FailRemove(p) \/ FailCommit(p)
        PROVE  ProgInd'
    <3>1. ~FailRemove(p)
      BY Zenon DEF FailRemove, Lapse
    <3> QED
      BY <2>2, <3>1, MoveInd, UnwrittenInd, EndsInd, CompileInd, RunInd, ProgramInd, PackageInd, Zenon
         DEF Step
  <2>3. CASE UNCHANGED cacheVars
    <3>1. UNCHANGED <<src, bin, manifest, art, pkgManifest, edits, pc, obj, inputs, writing, missed, ran,
                      seen>>
      BY <2>3, Zenon DEF cacheVars, disk, job
    <3>2. /\ ProgTypeOK' = ProgTypeOK /\ EntryTrue' = EntryTrue /\ PackageTrue' = PackageTrue
          /\ Whole' = Whole
      BY <3>1, Zenon DEF ProgTypeOK, EntryTrue, PackageTrue, Whole, Full, Ended, Covers, RowOf
    <3>3. ASSUME NEW p \in Procs PROVE BuildNow(p)' /\ SeenNow(p)'
      <4>1. BuildNow(p) /\ SeenNow(p)
        BY Zenon DEF ProgInd
      <4> QED
        BY <3>1, <4>1, SameNow, Zenon
    <3> QED
      BY <3>2, <3>3, Zenon DEF ProgInd
  <2> QED
    BY <2>1, <2>2, <2>3 DEF CacheNext
<1> QED
  BY <1>1, <1>2, PTL DEF CacheSpec

\* A run executes the program its sources say, each file as it was at some
\* moment since the process started, as long as no lookup accepted a manifest
\* that was not written to its end, no consult found its package's manifest
\* gone, and no reserve failed to remove one (lookup, consult, commit, exec).
THEOREM ProgRunsFresh == ASSUME Quiet PROVE CacheSpec => []RunsFresh
<1>1. (lapses = {} => ProgInd) => RunsFresh
  BY Zenon DEF ProgInd, SeenNow, RunsFresh
<1> QED
  BY <1>1, ProgCacheInvariant, PTL

\* Every row of a manifest, whole or cut short, is true of the binary beside
\* it, wherever processes were killed, until a lapse (reserve, commit).
THEOREM ProgEntryVouches == ASSUME Quiet PROVE CacheSpec => []EntryVouches
<1>1. (lapses = {} => ProgInd) => EntryVouches
  BY Zenon DEF ProgInd, EntryVouches
<1> QED
  BY <1>1, ProgCacheInvariant, PTL

\* The same of a package's artifact (build_and_cache).
THEOREM ProgPackageVouches == ASSUME Quiet PROVE CacheSpec => []PackageVouches
<1>1. (lapses = {} => ProgInd) => PackageVouches
  BY Zenon DEF ProgInd, PackageVouches
<1> QED
  BY <1>1, ProgCacheInvariant, PTL
=============================================================================
