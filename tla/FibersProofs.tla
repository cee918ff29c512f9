---------------------------- MODULE FibersProofs ----------------------------
(***************************************************************************)
(* The cells describe the stack that runs, no coroutine is lost and the    *)
(* claim comes back, for any number of fibers and of open C frames.        *)
(***************************************************************************)
EXTENDS Fibers, TLAPS

Contexts == Stacks \cup {Scratch}
Kept == [depth : Nat, claim : BOOLEAN]
Drives == [how : {"none", "resume", "transfer", "raise", "kill", "terminate"},
           cur : Stacks, ec : Contexts, frames : Kept]

OnStack == Range(running)

\* The stack below position i.
Under(i) == IF i = 1 THEN Root ELSE running[i - 1]

FiberTypes ==
  /\ born \subseteq Fibers /\ started \subseteq Fibers
  /\ table \subseteq Fibers /\ drained \subseteq Fibers
  /\ ended \in BOOLEAN /\ sole \in BOOLEAN /\ multi \in BOOLEAN
  /\ chain \in Seq(Fibers) /\ running \in Seq(Fibers)
  /\ current \in Stacks /\ ec \in Contexts /\ saved \in [Fibers -> Contexts]
  /\ depth \in Nat /\ claim \in BOOLEAN
  /\ driven \in [Fibers -> Drives] /\ kept \in [Fibers -> Kept]
  /\ open \in [Stacks -> Nat]

\* The call that drives a fiber keeps the cells of the stack below it; only the
\* innermost coroutine may be terminating.
Linked ==
  /\ \A i, j \in DOMAIN running : running[i] = running[j] => i = j
  /\ \A i \in DOMAIN running :
       /\ driven[running[i]].cur = Under(i)
       /\ driven[running[i]].how # "none"
       /\ driven[running[i]].how = "terminate" => i = Len(running)
  /\ \A f \in Fibers \ OnStack : driven[f] = NoDrive

\* Whose the cells are.
CellsOK ==
  /\ current = Here
  /\ chain = IF Terminating THEN Front(running) ELSE running
  /\ ec = IF Terminating THEN Scratch ELSE Here
  /\ \A f \in OnStack : driven[f].ec = driven[f].cur
  /\ \A f \in Fibers \ Range(chain) : saved[f] = f

\* Each stack's frames are counted in DEPTH, in the drive above it or on the
\* suspended fiber.
CountsOK ==
  /\ depth = open[Here]
  /\ \A f \in OnStack : driven[f].frames.depth = open[driven[f].cur] /\ kept[f] = NoFrames
  /\ \A f \in Fibers \ OnStack : kept[f].depth = open[f]

\* Where a coroutine is.
CorosOK ==
  /\ OnStack \cup table \cup drained \subseteq born
  /\ OnStack \subseteq started
  /\ OnStack \cap (table \cup drained) = {}
  /\ IF ended THEN table = {} ELSE drained = {}
  /\ \A f \in born \ (finished \cup table) : f \in Range(chain) \/ ended
  /\ \A f \in Fibers : open[f] > 0 => f \in started \cap (OnStack \cup table \cup drained)

\* Where the claim is: a stack that holds it has a frame open.
ClaimOK ==
  /\ multi => ~sole
  /\ claim => depth > 0
  /\ \A f \in Fibers : kept[f].claim => kept[f].depth > 0
  /\ \A f \in Fibers : driven[f].frames.claim => driven[f].frames.depth > 0
  /\ ~multi /\ ~sole =>
       claim \/ (\E f \in Fibers : kept[f].claim) \/ (\E f \in Fibers : driven[f].frames.claim)

FiberInd == FiberTypes /\ Linked /\ CellsOK /\ CountsOK /\ CorosOK /\ ClaimOK

-----------------------------------------------------------------------------
(* The stacks as a sequence. *)

\* The stack that runs is the native one or the last of the others.
LEMMA HereIs ==
  ASSUME FiberTypes
  PROVE  /\ OnStack \subseteq Fibers /\ Here \in Stacks
         /\ running = <<>> => Here = Root /\ OnStack = {}
         /\ running # <<>> =>
              /\ Len(running) \in DOMAIN running /\ Here = running[Len(running)]
              /\ Here \in OnStack /\ Here \in Fibers
<1>1. running \in Seq(Fibers) /\ DOMAIN running = 1..Len(running) /\ Len(running) \in Nat
  BY DEF FiberTypes
<1>2. OnStack \subseteq Fibers
  BY <1>1 DEF OnStack, Range
<1>3. CASE running = <<>>
  <2>1. DOMAIN running = {}
    BY <1>3
  <2> QED
    BY <1>2, <1>3, <2>1 DEF Here, OnStack, Range, Stacks
<1>4. CASE running # <<>>
  <2>1. Len(running) \in DOMAIN running
    BY <1>1, <1>4
  <2>2. Here = running[Len(running)]
    BY <1>4 DEF Here, Last
  <2>3. Here \in OnStack
    BY <2>1, <2>2 DEF OnStack, Range
  <2> QED
    BY <1>2, <1>4, <2>1, <2>2, <2>3 DEF Stacks
<1> QED
  BY <1>3, <1>4

\* A stack below is the native one or another, never the one that runs, and
\* does not terminate.
LEMMA UnderIs ==
  ASSUME FiberTypes, Linked
  PROVE  /\ \A f \in OnStack : driven[f].cur \in (OnStack \cup {Root}) \ {Here}
         /\ \A f \in OnStack : driven[f].how = "terminate" => f = Here
<1>1. running \in Seq(Fibers) /\ DOMAIN running = 1..Len(running) /\ Len(running) \in Nat
  BY DEF FiberTypes
<1> SUFFICES ASSUME NEW f \in OnStack
             PROVE  /\ driven[f].cur \in (OnStack \cup {Root}) \ {Here}
                    /\ driven[f].how = "terminate" => f = Here
  OBVIOUS
<1>2. PICK i \in DOMAIN running : f = running[i]
  BY DEF OnStack, Range
<1>3. running # <<>>
  BY <1>1, <1>2
<1>4. Here = running[Len(running)] /\ Len(running) \in DOMAIN running /\ Here \in Fibers
  BY <1>3, HereIs
<1>5. driven[f].cur = Under(i) /\ (driven[f].how = "terminate" => i = Len(running))
  BY <1>2 DEF Linked
<1>6. CASE i = 1
  BY <1>4, <1>5, <1>6, <1>2, StacksDiffer DEF Under
<1>7. CASE i # 1
  <2>1. i - 1 \in DOMAIN running /\ i - 1 # Len(running)
    BY <1>1, <1>2, <1>7
  <2>2. Under(i) = running[i - 1]
    BY <1>7 DEF Under
  <2>3. running[i - 1] # Here
    BY <2>1, <1>4 DEF Linked
  <2>4. running[i - 1] \in OnStack
    BY <2>1 DEF OnStack, Range
  <2> QED
    BY <2>2, <2>3, <2>4, <1>2, <1>4, <1>5
<1> QED
  BY <1>6, <1>7

\* A fiber is switched to.
LEMMA PushLinks ==
  ASSUME FiberTypes, Linked, NEW f \in Fibers \ OnStack, NEW d \in Drives,
         d.how # "none", d.cur = Here, ~Terminating,
         running' = Append(running, f), driven' = [driven EXCEPT ![f] = d]
  PROVE  /\ Linked' /\ running' \in Seq(Fibers) /\ running' # <<>>
         /\ Here' = f /\ OnStack' = OnStack \cup {f} /\ Front(running') = running
         /\ \A g \in OnStack : driven'[g] = driven[g]
         /\ driven'[f] = d
<1> DEFINE n == Len(running)
<1>1. running \in Seq(Fibers) /\ DOMAIN running = 1..n /\ n \in Nat
  BY DEF FiberTypes
<1>2. /\ running' \in Seq(Fibers) /\ Len(running') = n + 1 /\ running'[n + 1] = f
      /\ \A i \in 1..n : running'[i] = running[i]
  BY <1>1
<1>3. DOMAIN running' = 1..(n + 1) /\ running' # <<>>
  BY <1>1, <1>2
<1>4. Here' = f
  BY <1>2, <1>3 DEF Here, Last
<1>5. OnStack' = OnStack \cup {f}
  BY <1>1, <1>2, <1>3 DEF OnStack, Range
<1>6. Front(running') = running
  BY <1>1, <1>2, <1>3 DEF Front
<1>7. driven'[f] = d /\ \A g \in Fibers \ {f} : driven'[g] = driven[g]
  BY DEF FiberTypes
<1>8. \A i, j \in DOMAIN running' : running'[i] = running'[j] => i = j
  BY <1>1, <1>2, <1>3 DEF Linked, OnStack, Range
<1>9. ASSUME NEW i \in DOMAIN running'
      PROVE  /\ driven'[running'[i]].cur = Under(i)'
             /\ driven'[running'[i]].how # "none"
             /\ driven'[running'[i]].how = "terminate" => i = Len(running')
  <2>1. CASE i = n + 1
    <3>1. Under(i)' = Here
      <4>1. CASE n = 0
        <5>1. running = <<>>
          BY <1>1, <4>1
        <5> QED
          BY <4>1, <5>1, <2>1 DEF Under, Here
      <4>2. CASE n # 0
        <5>1. i # 1 /\ i - 1 = n /\ n \in 1..n /\ running # <<>>
          BY <1>1, <4>2, <2>1
        <5> QED
          BY <5>1, <1>2 DEF Under, Here, Last
      <4> QED
        BY <4>1, <4>2
    <3> QED
      BY <2>1, <3>1, <1>2, <1>7
  <2>2. CASE i # n + 1
    <3>1. i \in 1..n /\ i \in DOMAIN running /\ running'[i] = running[i]
      BY <1>1, <1>2, <1>3, <2>2
    <3>2. running[i] \in OnStack /\ running[i] \in Fibers /\ running[i] # f
      BY <3>1, <1>1 DEF OnStack, Range
    <3>3. Under(i)' = Under(i)
      BY <3>1, <1>1, <1>2 DEF Under
    <3>4. /\ driven[running[i]].cur = Under(i) /\ driven[running[i]].how # "none"
          /\ driven[running[i]].how # "terminate"
      <4>1. driven[running[i]].how = "terminate" => running[i] = Here
        BY <3>2, UnderIs
      <4>2. running # <<>>
        BY <3>1, <1>1
      <4> QED
        BY <4>1, <4>2, <3>1 DEF Terminating, Linked
    <3> QED
      BY <3>1, <3>2, <3>3, <3>4, <1>7
  <2> QED
    BY <2>1, <2>2
<1>10. \A g \in Fibers \ OnStack' : driven'[g] = NoDrive
  BY <1>5, <1>7 DEF Linked
<1>11. Linked'
  BY <1>8, <1>9, <1>10 DEF Linked
<1>12. \A g \in OnStack : driven'[g] = driven[g]
  BY <1>7, HereIs
<1> QED
  BY <1>2, <1>3, <1>4, <1>5, <1>6, <1>7, <1>11, <1>12

\* The innermost fiber returns to the stack below it.
LEMMA PopLinks ==
  ASSUME FiberTypes, Linked, running # <<>>,
         running' = Front(running), driven' = [driven EXCEPT ![Here] = NoDrive]
  PROVE  /\ Linked' /\ running' \in Seq(Fibers) /\ ~Terminating'
         /\ Here' = driven[Here].cur /\ OnStack' = OnStack \ {Here}
         /\ \A g \in OnStack' : driven'[g] = driven[g]
         /\ driven'[Here] = NoDrive
<1> DEFINE n == Len(running)
<1>1. running \in Seq(Fibers) /\ DOMAIN running = 1..n /\ n \in Nat /\ n >= 1
  BY DEF FiberTypes
<1>2. /\ running' \in Seq(Fibers) /\ Len(running') = n - 1
      /\ \A i \in 1..(n - 1) : running'[i] = running[i]
  BY <1>1 DEF Front
<1>3. DOMAIN running' = 1..(n - 1)
  BY <1>1, <1>2
<1>4. Here = running[n] /\ Here \in Fibers /\ Here \in OnStack
  BY HereIs
<1>5. driven'[Here] = NoDrive /\ \A g \in Fibers \ {Here} : driven'[g] = driven[g]
  BY <1>4 DEF FiberTypes
<1>6. OnStack' = OnStack \ {Here}
  <2>1. DOMAIN running' = DOMAIN running \ {n} /\ n \in DOMAIN running
    BY <1>1, <1>3
  <2>2. \A i \in DOMAIN running' : running'[i] = running[i] /\ running[i] # running[n]
    BY <2>1, <1>2, <1>3 DEF Linked
  <2> QED
    BY <2>1, <2>2, <1>4 DEF OnStack, Range
<1>7. Here' = driven[Here].cur
  <2>1. driven[Here].cur = Under(n)
    BY <1>1, <1>4 DEF Linked
  <2>2. CASE n = 1
    <3>1. running' = <<>>
      BY <1>1, <1>2, <2>2
    <3> QED
      BY <2>1, <2>2, <3>1 DEF Under, Here
  <2>3. CASE n # 1
    <3>1. running' # <<>> /\ n - 1 \in 1..(n - 1)
      BY <1>1, <1>2, <2>3
    <3> QED
      BY <2>1, <2>3, <3>1, <1>2 DEF Under, Here, Last
  <2> QED
    BY <2>2, <2>3
<1>8. \A i, j \in DOMAIN running' : running'[i] = running'[j] => i = j
  BY <1>1, <1>2, <1>3 DEF Linked
<1>9. ASSUME NEW i \in DOMAIN running'
      PROVE  /\ driven'[running'[i]].cur = Under(i)'
             /\ driven'[running'[i]].how # "none"
             /\ driven'[running'[i]].how # "terminate"
  <2>1. i \in 1..(n - 1) /\ i \in DOMAIN running /\ running'[i] = running[i] /\ i # n
    BY <1>1, <1>2, <1>3
  <2>2. running'[i] \in OnStack' /\ running'[i] # Here /\ running'[i] \in Fibers
    BY <2>1, <1>1, <1>6 DEF OnStack, Range
  <2>3. Under(i)' = Under(i)
    BY <2>1, <1>1, <1>2 DEF Under
  <2>4. driven'[running'[i]] = driven[running[i]]
    BY <2>1, <2>2, <1>5
  <2> QED
    BY <2>1, <2>3, <2>4 DEF Linked
<1>10. \A g \in Fibers \ OnStack' : driven'[g] = NoDrive
  BY <1>5, <1>6 DEF Linked
<1>11. Linked'
  BY <1>8, <1>9, <1>10 DEF Linked
<1>12. ~Terminating'
  <2>1. CASE running' = <<>>
    BY <2>1 DEF Terminating
  <2>2. CASE running' # <<>>
    <3>1. n - 1 \in DOMAIN running' /\ Here' = running'[n - 1]
      BY <2>2, <1>1, <1>2, <1>3 DEF Here, Last
    <3> QED
      BY <3>1, <1>9 DEF Terminating
  <2> QED
    BY <2>1, <2>2
<1>13. \A g \in OnStack' : driven'[g] = driven[g]
  BY <1>5, <1>6, HereIs
<1> QED
  BY <1>2, <1>5, <1>6, <1>7, <1>11, <1>12, <1>13

-----------------------------------------------------------------------------
(* What a switch does to the cells. *)

Hows == {"resume", "transfer", "raise", "kill", "terminate"}

\* The two half-switches, with what the tables and the chain have to say left
\* to the calls.
StackInd == Linked /\ CountsOK /\ ClaimOK
StackTypes ==
  /\ running \in Seq(Fibers) /\ current \in Stacks /\ depth \in Nat /\ claim \in BOOLEAN
  /\ driven \in [Fibers -> Drives] /\ kept \in [Fibers -> Kept]

LEMMA NoFramesKept == NoFrames \in Kept /\ NoFrames.claim = FALSE /\ NoFrames.depth = 0
BY DEF NoFrames, Kept

LEMMA NoDriveDrives == NoDrive \in Drives /\ NoDrive.frames = NoFrames
BY NoFramesKept DEF NoDrive, Drives, Stacks, Contexts

\* The cells as a record of one stack.
Mine == [depth |-> depth, claim |-> claim]

LEMMA MineKept ==
  ASSUME FiberTypes
  PROVE  Mine \in Kept /\ Mine.depth = depth /\ Mine.claim = claim
BY DEF FiberTypes, Mine, Kept

LEMMA SwitchToInd ==
  ASSUME FiberInd, ~Terminating, NEW f \in Fibers \ OnStack, NEW how \in Hows,
         SwitchTo(f, how), UNCHANGED <<open, flags>>
  PROVE  /\ StackInd' /\ StackTypes'
         /\ Here' = f /\ current' = f /\ OnStack' = OnStack \cup {f}
         /\ Front(running') = running
         /\ Terminating' <=> how = "terminate"
         /\ \A g \in OnStack' : driven'[g].ec = driven'[g].cur
<1> DEFINE d == [how |-> how, cur |-> current, ec |-> ec, frames |-> Mine]
<1>0. FiberTypes /\ Linked /\ CellsOK /\ CountsOK /\ ClaimOK
  BY DEF FiberInd
<1>1. d \in Drives /\ d.how = how /\ d.cur = Here /\ d.ec = Here /\ d.frames = Mine
  BY <1>0, MineKept DEF FiberTypes, Drives, Hows, CellsOK
<1>2. driven' = [driven EXCEPT ![f] = d]
  BY DEF SwitchTo, Mine
<1> HIDE DEF d
<1>3. /\ current' = f /\ depth' = kept[f].depth /\ claim' = kept[f].claim
      /\ kept' = [kept EXCEPT ![f] = NoFrames] /\ running' = Append(running, f)
  BY DEF SwitchTo
<1>4. /\ Linked' /\ running' \in Seq(Fibers) /\ running' # <<>>
      /\ Here' = f /\ OnStack' = OnStack \cup {f} /\ Front(running') = running
      /\ \A g \in OnStack : driven'[g] = driven[g]
      /\ driven'[f] = d
  BY <1>0, <1>1, <1>2, <1>3, PushLinks, Zenon DEF Hows
<1>5. driven' \in [Fibers -> Drives] /\ \A g \in Fibers \ {f} : driven'[g] = driven[g]
  BY <1>0, <1>1, <1>2 DEF FiberTypes
<1>6. kept' \in [Fibers -> Kept] /\ kept'[f] = NoFrames /\ \A g \in Fibers \ {f} : kept'[g] = kept[g]
  BY <1>0, <1>3, NoFramesKept DEF FiberTypes
<1>7. kept[f] \in Kept /\ kept[f].depth = open[f]
  BY <1>0 DEF FiberTypes, CountsOK
<1>8. StackTypes'
  BY <1>3, <1>4, <1>5, <1>6, <1>7 DEF StackTypes, Kept, Stacks
<1>9. CountsOK'
  <2>1. depth' = open'[Here']
    BY <1>3, <1>4, <1>7
  <2>2. \A g \in OnStack' : driven'[g].frames.depth = open'[driven'[g].cur] /\ kept'[g] = NoFrames
    <3> TAKE g \in OnStack'
    <3>1. CASE g = f
      BY <3>1, <1>0, <1>1, <1>4, <1>6, MineKept DEF CountsOK
    <3>2. CASE g \in OnStack
      <4>1. g \in Fibers \ {f}
        BY <3>2, <1>0, HereIs
      <4> QED
        BY <3>2, <4>1, <1>0, <1>4, <1>6 DEF CountsOK
    <3> QED
      BY <3>1, <3>2, <1>4
  <2>3. \A g \in Fibers \ OnStack' : kept'[g].depth = open'[g]
    BY <1>0, <1>4, <1>6 DEF CountsOK
  <2> QED
    BY <2>1, <2>2, <2>3 DEF CountsOK
<1>10. ClaimOK'
  <2>1. claim' => depth' > 0
    BY <1>0, <1>3, Zenon DEF ClaimOK
  <2>2. \A g \in Fibers : kept'[g].claim => kept'[g].depth > 0
    BY <1>0, <1>6, NoFramesKept DEF ClaimOK
  <2>3. \A g \in Fibers : driven'[g].frames.claim => driven'[g].frames.depth > 0
    BY <1>0, <1>1, <1>4, <1>5, MineKept DEF ClaimOK
  <2>4. ASSUME ~multi, ~sole
        PROVE  \/ claim' \/ \E g \in Fibers : kept'[g].claim
               \/ \E g \in Fibers : driven'[g].frames.claim
    <3>1. CASE claim
      BY <3>1, <1>0, <1>1, <1>4, MineKept, Zenon
    <3>2. ASSUME NEW g \in Fibers, kept[g].claim PROVE claim' \/ \E h \in Fibers : kept'[h].claim
      BY <3>2, <1>3, <1>6
    <3>3. ASSUME NEW g \in Fibers, driven[g].frames.claim
          PROVE  \E h \in Fibers : driven'[h].frames.claim
      <4>1. g # f
        BY <3>3, <1>0, NoFramesKept, NoDriveDrives DEF Linked
      <4> QED
        BY <3>3, <4>1, <1>5
    <3> QED
      BY <2>4, <3>1, <3>2, <3>3, <1>0 DEF ClaimOK
  <2> QED
    BY <2>1, <2>2, <2>3, <2>4, <1>0 DEF ClaimOK, flags
<1>11. Terminating' <=> how = "terminate"
  BY <1>1, <1>4 DEF Terminating
<1>12. \A g \in OnStack' : driven'[g].ec = driven'[g].cur
  BY <1>0, <1>1, <1>4 DEF CellsOK
<1> QED
  BY <1>3, <1>4, <1>8, <1>9, <1>10, <1>11, <1>12 DEF StackInd

\* The way back, the cells of the stack left being kept there.
LEMMA SwitchBackInd ==
  ASSUME FiberInd, running # <<>>, SwitchBack, kept' = [kept EXCEPT ![Here] = Mine],
         UNCHANGED <<open, flags>>
  PROVE  /\ StackInd' /\ StackTypes' /\ CellsOK'
         /\ chain' \in Seq(Fibers) /\ ec' \in Contexts /\ saved' \in [Fibers -> Contexts]
         /\ OnStack' = OnStack \ {Here} /\ Range(chain') = OnStack' /\ chain' = running'
<1> DEFINE d == driven[Here]
<1>0. FiberTypes /\ Linked /\ CellsOK /\ CountsOK /\ ClaimOK
  BY DEF FiberInd
<1>1. Here \in Fibers /\ Here \in OnStack
  BY <1>0, HereIs
<1>2. d \in Drives /\ d.frames \in Kept /\ d.cur \in Stacks /\ d.ec \in Contexts
  BY <1>0, <1>1 DEF FiberTypes, Drives
<1>3. /\ current' = d.cur /\ ec' = d.ec /\ depth' = d.frames.depth /\ claim' = d.frames.claim
      /\ running' = Front(running) /\ driven' = [driven EXCEPT ![Here] = NoDrive]
  BY DEF SwitchBack
<1>4. /\ Linked' /\ running' \in Seq(Fibers) /\ ~Terminating'
      /\ Here' = d.cur /\ OnStack' = OnStack \ {Here}
      /\ \A g \in OnStack' : driven'[g] = driven[g]
      /\ driven'[Here] = NoDrive
  BY <1>0, <1>3, PopLinks
<1>5. d.ec = d.cur /\ d.frames.depth = open[d.cur]
  BY <1>0, <1>1 DEF CellsOK, CountsOK
<1> HIDE DEF d
<1>6. driven' \in [Fibers -> Drives] /\ \A g \in Fibers \ {Here} : driven'[g] = driven[g]
  BY <1>0, <1>3, NoDriveDrives, Zenon DEF FiberTypes
<1>7. kept' \in [Fibers -> Kept] /\ kept'[Here] = Mine /\ \A g \in Fibers \ {Here} : kept'[g] = kept[g]
  BY <1>0, <1>1, MineKept DEF FiberTypes
<1>8. StackTypes'
  BY <1>2, <1>3, <1>4, <1>6, <1>7 DEF StackTypes, Kept
<1>9. CountsOK'
  <2>1. depth' = open'[Here']
    BY <1>3, <1>4, <1>5
  <2>2. \A g \in OnStack' : driven'[g].frames.depth = open'[driven'[g].cur] /\ kept'[g] = NoFrames
    BY <1>0, <1>4, <1>7, HereIs DEF CountsOK
  <2>3. \A g \in Fibers \ OnStack' : kept'[g].depth = open'[g]
    BY <1>0, <1>4, <1>7, MineKept DEF CountsOK
  <2> QED
    BY <2>1, <2>2, <2>3 DEF CountsOK
<1>10. ClaimOK'
  <2>1. claim' => depth' > 0
    BY <1>0, <1>1, <1>3, Zenon DEF ClaimOK, d
  <2>2. \A g \in Fibers : kept'[g].claim => kept'[g].depth > 0
    BY <1>0, <1>7, MineKept DEF ClaimOK
  <2>3. \A g \in Fibers : driven'[g].frames.claim => driven'[g].frames.depth > 0
    BY <1>0, <1>4, <1>6, NoDriveDrives, NoFramesKept DEF ClaimOK
  <2>4. ASSUME ~multi, ~sole
        PROVE  \/ claim' \/ \E g \in Fibers : kept'[g].claim
               \/ \E g \in Fibers : driven'[g].frames.claim
    <3>1. CASE claim
      BY <3>1, <1>0, <1>1, <1>7, MineKept, Zenon
    <3>2. ASSUME NEW g \in Fibers, kept[g].claim PROVE \E h \in Fibers : kept'[h].claim
      <4>1. g # Here
        BY <3>2, <1>0, <1>1, NoFramesKept DEF CountsOK
      <4> QED
        BY <3>2, <4>1, <1>7
    <3>3. ASSUME NEW g \in Fibers, driven[g].frames.claim
          PROVE  claim' \/ \E h \in Fibers : driven'[h].frames.claim
      BY <3>3, <1>3, <1>6 DEF d
    <3> QED
      BY <2>4, <3>1, <3>2, <3>3, <1>0 DEF ClaimOK
  <2> QED
    BY <2>1, <2>2, <2>3, <2>4, <1>0 DEF ClaimOK, flags
<1>11. chain' = running'
  <2>1. CASE d.how = "terminate"
    BY <2>1, <1>0, <1>3 DEF SwitchBack, CellsOK, Terminating, d
  <2>2. CASE d.how # "terminate"
    BY <2>2, <1>0, <1>3 DEF SwitchBack, CellsOK, Terminating, d
  <2> QED
    BY <2>1, <2>2
<1>12. Range(chain') = OnStack'
  BY <1>11 DEF OnStack
<1>13. saved' \in [Fibers -> Contexts] /\ \A g \in Fibers \ Range(chain') : saved'[g] = g
  <2>1. CASE d.how = "terminate"
    <3>1. saved' = saved /\ chain' = chain
      BY <2>1 DEF SwitchBack, d
    <3> QED
      BY <3>1, <1>0 DEF FiberTypes, CellsOK
  <2>2. CASE d.how # "terminate"
    <3>1. chain = running /\ ec = Here /\ Last(chain) = Here
      BY <2>2, <1>0 DEF CellsOK, Terminating, Here, d
    <3>2. saved' = [saved EXCEPT ![Here] = Here]
      BY <2>2, <3>1 DEF SwitchBack, d
    <3>3. Range(chain) = OnStack
      BY <3>1 DEF OnStack
    <3> QED
      BY <3>2, <3>3, <1>0, <1>1, <1>4, <1>12 DEF FiberTypes, CellsOK, Contexts, Stacks
  <2> QED
    BY <2>1, <2>2
<1>14. CellsOK'
  <2>1. \A g \in OnStack' : driven'[g].ec = driven'[g].cur
    BY <1>0, <1>4 DEF CellsOK
  <2> QED
    BY <2>1, <1>3, <1>4, <1>5, <1>11, <1>13 DEF CellsOK
<1> QED
  BY <1>2, <1>3, <1>4, <1>8, <1>9, <1>10, <1>11, <1>12, <1>13, <1>14 DEF StackInd

-----------------------------------------------------------------------------
(* The actions. *)

\* What the tables say is kept apart from the cells.
LEMMA DriveInd ==
  ASSUME FiberInd, ~Terminating, NEW f \in Fibers, NEW how \in Hows \ {"terminate"}, Drive(f, how),
         UNCHANGED <<born, finished, drained, ended, flags, open>>
  PROVE  FiberInd'
<1>0. FiberTypes /\ CellsOK /\ CorosOK
  BY DEF FiberInd
<1>1. f \in table /\ f \in born /\ f \notin OnStack /\ f \notin drained
  BY <1>0 DEF Drive, CorosOK
<1>2. chain = running /\ Range(chain) = OnStack
  BY <1>0 DEF CellsOK, OnStack
<1>3. /\ table' = table \ {f} /\ ec' = saved[f] /\ saved' = [saved EXCEPT ![f] = Scratch]
      /\ chain' = Append(chain, f) /\ SwitchTo(f, how)
      /\ running' = Append(running, f) /\ started' = started \cup {f}
  BY DEF Drive, SwitchTo
<1>4. /\ StackInd' /\ StackTypes'
      /\ Here' = f /\ current' = f /\ OnStack' = OnStack \cup {f}
      /\ ~Terminating'
      /\ \A g \in OnStack' : driven'[g].ec = driven'[g].cur
  BY <1>1, <1>3, SwitchToInd
<1>5. chain' = running' /\ Range(chain') = OnStack'
  BY <1>2, <1>3 DEF OnStack
<1>6. saved[f] = f /\ ec' = f
  BY <1>0, <1>1, <1>2, <1>3 DEF CellsOK
<1>7. CellsOK'
  <2>1. \A g \in Fibers \ OnStack' : saved'[g] = g
    BY <1>0, <1>2, <1>3, <1>4 DEF CellsOK, FiberTypes
  <2> QED
    BY <2>1, <1>4, <1>5, <1>6 DEF CellsOK
<1>8. FiberTypes'
  <2>1. chain' \in Seq(Fibers)
    BY <1>4, <1>5 DEF StackTypes
  <2>2. saved' \in [Fibers -> Contexts]
    BY <1>0, <1>3 DEF FiberTypes, Contexts
  <2> QED
    BY <2>1, <2>2, <1>0, <1>3, <1>4, <1>6, Zenon DEF FiberTypes, StackTypes, Contexts, Stacks, flags
<1>9. CorosOK'
  <2>1. OnStack' \cup table' \cup drained' \subseteq born' /\ OnStack' \subseteq started'
    BY <1>0, <1>1, <1>3, <1>4 DEF CorosOK
  <2>2. OnStack' \cap (table' \cup drained') = {}
    BY <1>0, <1>1, <1>3, <1>4 DEF CorosOK
  <2>3. IF ended' THEN table' = {} ELSE drained' = {}
    BY <1>0, <1>1, <1>3 DEF CorosOK
  <2>4. \A g \in born' \ (finished' \cup table') : g \in Range(chain') \/ ended'
    BY <1>0, <1>2, <1>3, <1>4, <1>5 DEF CorosOK
  <2>5. \A g \in Fibers : open'[g] > 0 => g \in started' \cap (OnStack' \cup table' \cup drained')
    BY <1>0, <1>3, <1>4 DEF CorosOK
  <2> QED
    BY <2>1, <2>2, <2>3, <2>4, <2>5 DEF CorosOK
<1> QED
  BY <1>4, <1>7, <1>8, <1>9 DEF FiberInd, StackInd

\* Only the tables change: what is on the stacks stays, a fiber with frames open
\* stays in a table, and one that is not over stays where it was.
LEMMA TablesInd ==
  ASSUME FiberInd, UNCHANGED <<cells, stacks, started>>,
         sole' \in BOOLEAN, multi' \in BOOLEAN, ended' \in BOOLEAN,
         table' \subseteq Fibers, drained' \subseteq Fibers, born' \subseteq Fibers,
         CorosOK', ClaimOK'
  PROVE  FiberInd'
<1>1. FiberTypes'
  BY DEF FiberInd, FiberTypes, cells, stacks
<1>2. Linked'
  BY DEF FiberInd, Linked, OnStack, Under, stacks
<1>3. CellsOK'
  BY DEF FiberInd, CellsOK, OnStack, Here, Terminating, cells, stacks
<1>4. CountsOK'
  BY DEF FiberInd, CountsOK, OnStack, Here, cells, stacks
<1> QED
  BY <1>1, <1>2, <1>3, <1>4 DEF FiberInd

\* So does the claim, unless a thread is spawned.
LEMMA ClaimStays ==
  ASSUME ClaimOK, UNCHANGED <<claim, depth, kept, driven, flags>>
  PROVE  ClaimOK'
BY DEF ClaimOK, flags

LEMMA NewInd ==
  ASSUME FiberInd, NEW f \in Fibers, New(f)
  PROVE  FiberInd'
<1>1. /\ UNCHANGED <<cells, stacks, started, flags, drained, ended, finished>> /\ ~ended
      /\ born' = born \cup {f} /\ table' = table \cup {f} /\ f \notin born
  BY DEF New, Code
<1>2. ClaimOK'
  BY <1>1, ClaimStays DEF FiberInd, cells, stacks
<1>3. OnStack' = OnStack /\ chain' = chain /\ open' = open
  BY <1>1 DEF OnStack, cells, stacks
<1>4. CorosOK'
  BY <1>1, <1>3 DEF FiberInd, CorosOK
<1> QED
  BY <1>1, <1>2, <1>4, TablesInd DEF FiberInd, FiberTypes, flags

\* A call that is refused, and one of another thread.
LEMMA RefusedInd ==
  ASSUME FiberInd, UNCHANGED <<cells, stacks, started, flags, coros, finished, born>>
  PROVE  FiberInd'
<1>1. ClaimOK'
  BY ClaimStays DEF FiberInd, cells, stacks
<1>2. CorosOK'
  BY DEF FiberInd, CorosOK, OnStack, cells, stacks, coros
<1> QED
  BY <1>1, <1>2, TablesInd DEF FiberInd, FiberTypes, flags, coros

LEMMA KillInd ==
  ASSUME FiberInd, NEW f \in Fibers, Kill(f)
  PROVE  FiberInd'
<1>1. CASE f \in table \cap started
  <2>1. Drive(f, "kill") /\ ~Terminating /\ UNCHANGED <<born, finished, drained, ended, flags, open>>
    BY <1>1 DEF Kill, Code
  <2> QED
    BY <2>1, DriveInd DEF Hows
<1>2. CASE f \notin table \cap started
  <2>1. /\ UNCHANGED <<cells, stacks, started, flags, drained, ended, born>> /\ ~ended
        /\ table' = table \ {f} /\ finished' = finished \cup {f}
    BY <1>2 DEF Kill, Code, stacks
  <2>2. ClaimOK'
    BY <2>1, ClaimStays DEF FiberInd, cells, stacks
  <2>3. OnStack' = OnStack /\ chain' = chain /\ open' = open
    BY <2>1 DEF OnStack, cells, stacks
  <2>4. CorosOK'
    BY <1>2, <2>1, <2>3 DEF FiberInd, CorosOK
  <2> QED
    BY <2>1, <2>2, <2>4, TablesInd DEF FiberInd, FiberTypes, flags
<1> QED
  BY <1>1, <1>2

LEMMA EndInd ==
  ASSUME FiberInd, End
  PROVE  FiberInd'
<1>1. /\ UNCHANGED <<cells, stacks, started, flags, finished, born>>
      /\ ended' = TRUE /\ drained' = table /\ table' = {} /\ ~ended
  BY DEF End, Code, handles
<1>2. ClaimOK'
  BY <1>1, ClaimStays DEF FiberInd, cells, stacks
<1>3. OnStack' = OnStack /\ chain' = chain /\ open' = open
  BY <1>1 DEF OnStack, cells, stacks
<1>4. CorosOK'
  BY <1>1, <1>3 DEF FiberInd, CorosOK
<1> QED
  BY <1>1, <1>2, <1>4, TablesInd DEF FiberInd, FiberTypes, flags

LEMMA SpawnInd ==
  ASSUME FiberInd, Spawn
  PROVE  FiberInd'
<1>1. UNCHANGED <<cells, stacks, handles, coros>> /\ sole' = FALSE /\ multi' = TRUE
  BY DEF Spawn
<1>2. ClaimOK'
  BY <1>1 DEF FiberInd, ClaimOK, cells, stacks
<1>3. CorosOK'
  BY <1>1 DEF FiberInd, CorosOK, OnStack, cells, stacks, handles, coros
<1> QED
  BY <1>1, <1>2, <1>3, TablesInd, Zenon DEF FiberInd, FiberTypes, handles, coros

LEMMA DrainInd ==
  ASSUME FiberInd, Drain
  PROVE  FiberInd'
<1>0. FiberTypes /\ CellsOK /\ CorosOK /\ ended /\ running = <<>>
  BY DEF FiberInd, Drain
<1>1. PICK f \in drained :
        /\ drained' = drained \ {f}
        /\ IF f \in started THEN Terminate(f) ELSE UNCHANGED <<started, cells, driven, kept, running>>
  BY DEF Drain
<1>2. UNCHANGED <<born, finished, table, ended, flags, open>>
  BY DEF Drain
<1>3. f \in Fibers /\ f \notin OnStack /\ f \in born /\ ~Terminating /\ table = {}
  BY <1>0, <1>1 DEF FiberTypes, CorosOK, Terminating
<1>4. CASE f \notin started
  <2>1. UNCHANGED <<cells, stacks, started, flags, finished, born, table, ended>>
    BY <1>1, <1>2, <1>4 DEF stacks
  <2>2. ClaimOK'
    BY <2>1, ClaimStays DEF FiberInd, cells, stacks
  <2>3. OnStack' = OnStack /\ chain' = chain /\ open' = open
    BY <2>1 DEF OnStack, cells, stacks
  <2>4. CorosOK'
    BY <1>0, <1>1, <1>4, <2>1, <2>3 DEF CorosOK
  <2> QED
    BY <1>1, <2>1, <2>2, <2>4, TablesInd DEF FiberInd, FiberTypes, flags
<1>5. CASE f \in started
  <2>1. /\ ec' = Scratch /\ SwitchTo(f, "terminate") /\ UNCHANGED <<chain, saved>>
        /\ started' = started \cup {f}
    BY <1>1, <1>5 DEF Terminate, SwitchTo
  <2>2. /\ StackInd' /\ StackTypes'
        /\ Here' = f /\ current' = f /\ OnStack' = OnStack \cup {f} /\ Front(running') = running
        /\ Terminating'
        /\ \A g \in OnStack' : driven'[g].ec = driven'[g].cur
    BY <1>2, <1>3, <2>1, SwitchToInd DEF Hows
  <2>3. CellsOK'
    BY <1>0, <1>3, <2>1, <2>2 DEF CellsOK
  <2>4. FiberTypes'
    BY <1>0, <1>1, <1>2, <1>3, <2>1, <2>2, Zenon DEF FiberTypes, StackTypes, Contexts, flags
  <2>5. CorosOK'
    BY <1>0, <1>1, <1>2, <1>3, <2>1, <2>2, Zenon DEF CorosOK
  <2> QED
    BY <2>2, <2>3, <2>4, <2>5 DEF FiberInd, StackInd
<1> QED
  BY <1>4, <1>5

LEMMA FinishInd ==
  ASSUME FiberInd, Finish
  PROVE  FiberInd'
<1>0. FiberTypes /\ CellsOK /\ CountsOK /\ ClaimOK /\ CorosOK
  BY DEF FiberInd
<1>1. /\ running # <<>> /\ open[Here] = 0 /\ SwitchBack
      /\ finished' = IF Terminating THEN finished ELSE finished \cup {Here}
      /\ UNCHANGED <<born, started, coros, flags, kept, open>>
  BY DEF Finish
<1>2. Here \in Fibers /\ Here \in OnStack
  BY <1>0, <1>1, HereIs
<1>3. depth = 0 /\ claim = FALSE
  BY <1>0, <1>1 DEF CountsOK, ClaimOK, FiberTypes
<1>4. kept[Here] = Mine
  BY <1>0, <1>2, <1>3, Zenon DEF CountsOK, NoFrames, Mine
<1>5. kept' = [kept EXCEPT ![Here] = Mine]
  BY <1>0, <1>1, <1>2, <1>4 DEF FiberTypes
<1>6. /\ StackInd' /\ StackTypes' /\ CellsOK'
      /\ chain' \in Seq(Fibers) /\ ec' \in Contexts /\ saved' \in [Fibers -> Contexts]
      /\ OnStack' = OnStack \ {Here} /\ Range(chain') = OnStack'
  BY <1>1, <1>5, SwitchBackInd, Zenon
<1>7. FiberTypes'
  BY <1>0, <1>1, <1>6 DEF FiberTypes, StackTypes, flags, coros
<1>8. \A f \in born \ (finished' \cup table) : f \in Range(chain') \/ ended
  <2>1. CASE Terminating
    <3>1. chain' = chain /\ finished' = finished
      BY <2>1, <1>1 DEF SwitchBack, Terminating
    <3> QED
      BY <3>1, <1>0 DEF CorosOK
  <2>2. CASE ~Terminating
    <3>1. Range(chain) = OnStack /\ finished' = finished \cup {Here}
      BY <2>2, <1>0, <1>1 DEF CellsOK, OnStack
    <3> QED
      BY <3>1, <1>0, <1>6 DEF CorosOK
  <2> QED
    BY <2>1, <2>2
<1>9. CorosOK'
  BY <1>0, <1>1, <1>6, <1>8 DEF CorosOK, coros
<1> QED
  BY <1>6, <1>7, <1>9 DEF FiberInd, StackInd

\* What is left of the stacks without the innermost.
LEMMA FrontIs ==
  ASSUME FiberTypes, Linked, running # <<>>
  PROVE  Front(running) \in Seq(Fibers) /\ Range(Front(running)) = OnStack \ {Here}
<1> DEFINE n == Len(running)
           r == Front(running)
<1>1. running \in Seq(Fibers) /\ DOMAIN running = 1..n /\ n \in Nat /\ n >= 1
  BY DEF FiberTypes
<1>2. r \in Seq(Fibers) /\ Len(r) = n - 1 /\ \A i \in 1..(n - 1) : r[i] = running[i]
  BY <1>1 DEF Front
<1>3. Here = running[n]
  BY HereIs
<1> HIDE DEF r
<1>4. DOMAIN r = DOMAIN running \ {n} /\ DOMAIN r = 1..(n - 1) /\ n \in DOMAIN running
  <2>1. DOMAIN r = 1..(n - 1)
    BY <1>2
  <2> QED
    BY <2>1, <1>1
<1>5. \A i \in DOMAIN r : r[i] = running[i] /\ running[i] # running[n]
  BY <1>2, <1>4 DEF Linked
<1>6. Range(r) = OnStack \ {Here}
  BY <1>3, <1>4, <1>5 DEF OnStack, Range
<1> QED
  BY <1>2, <1>6 DEF r

\* The fiber being killed suspended: the kill goes on with its termination.
LEMMA KillGoesOn ==
  ASSUME FiberInd, Code, Suspend, driven[Here].how = "kill"
  PROVE  FiberInd'
<1>0. FiberTypes /\ Linked /\ CellsOK /\ CountsOK /\ ClaimOK /\ CorosOK /\ ~Terminating
  BY DEF FiberInd, Code
<1>1. running # <<>>
  BY <1>0 DEF Suspend, CellsOK, Here
<1>2. Here \in Fibers /\ Here \in OnStack /\ Here = running[Len(running)] /\ Len(running) \in DOMAIN running
  BY <1>0, <1>1, HereIs
<1>3. /\ finished' = finished \cup {Here} /\ chain' = Front(chain)
      /\ saved' = [saved EXCEPT ![Here] = ec] /\ ec' = Scratch
      /\ driven' = [driven EXCEPT ![Here].how = "terminate"]
      /\ UNCHANGED <<table, running, kept, current, depth, claim, born, started, drained, ended, flags, open>>
  BY DEF Suspend
<1>4. OnStack' = OnStack /\ Here' = Here
  BY <1>3 DEF OnStack, Here
<1>5. chain = running /\ ec = Here /\ Range(chain) = OnStack
  BY <1>0 DEF CellsOK, OnStack
<1>6. chain' = Front(running) /\ chain' \in Seq(Fibers) /\ Range(chain') = OnStack \ {Here}
  BY <1>0, <1>1, <1>3, <1>5, FrontIs
<1>7. driven[Here] \in Drives
  BY <1>0, <1>2 DEF FiberTypes
<1>8. /\ [driven[Here] EXCEPT !.how = "terminate"] \in Drives
      /\ driven'[Here] = [driven[Here] EXCEPT !.how = "terminate"]
      /\ \A g \in Fibers \ {Here} : driven'[g] = driven[g]
  BY <1>0, <1>2, <1>3, <1>7, Zenon DEF FiberTypes, Drives
<1>9. /\ driven'[Here].how = "terminate" /\ driven'[Here].cur = driven[Here].cur
      /\ driven'[Here].ec = driven[Here].ec /\ driven'[Here].frames = driven[Here].frames
  BY <1>7, <1>8 DEF Drives
<1>10. driven' \in [Fibers -> Drives]
  BY <1>0, <1>3, <1>7, <1>8, Zenon DEF FiberTypes
<1>11. \A g \in Fibers : /\ driven'[g].cur = driven[g].cur /\ driven'[g].ec = driven[g].ec
                         /\ driven'[g].frames = driven[g].frames
                         /\ g # Here => driven'[g].how = driven[g].how
  BY <1>8, <1>9, Zenon
<1>12. FiberTypes'
  <2>1. saved' \in [Fibers -> Contexts]
    BY <1>0, <1>3, Zenon DEF FiberTypes
  <2> QED
    BY <2>1, <1>0, <1>3, <1>6, <1>10 DEF FiberTypes, Contexts, flags
<1>13. Linked'
  <2>1. ASSUME NEW i \in DOMAIN running
        PROVE  /\ driven'[running[i]].cur = Under(i)'
               /\ driven'[running[i]].how # "none"
               /\ driven'[running[i]].how = "terminate" => i = Len(running)
    <3>1. running[i] \in Fibers
      BY <1>0, HereIs DEF OnStack, Range
    <3>2. Under(i)' = Under(i)
      BY <1>3 DEF Under
    <3>3. CASE i = Len(running)
      BY <3>1, <3>2, <3>3, <1>0, <1>2, <1>9 DEF Linked
    <3>4. CASE i # Len(running)
      BY <3>1, <3>2, <3>4, <1>0, <1>2, <1>11 DEF Linked
    <3> QED
      BY <3>3, <3>4
  <2> QED
    BY <2>1, <1>0, <1>2, <1>3, <1>4, <1>8 DEF Linked
<1>14. CellsOK'
  <2>1. Terminating'
    BY <1>1, <1>3, <1>4, <1>9 DEF Terminating
  <2>2. \A g \in Fibers \ Range(chain') : saved'[g] = g
    BY <1>0, <1>2, <1>3, <1>5, <1>6 DEF CellsOK, FiberTypes
  <2>3. \A g \in OnStack' : driven'[g].ec = driven'[g].cur
    BY <1>0, <1>4, <1>11, HereIs DEF CellsOK
  <2> QED
    BY <2>1, <2>2, <2>3, <1>0, <1>3, <1>4, <1>6 DEF CellsOK
<1>15. CountsOK'
  BY <1>0, <1>3, <1>4, <1>11, HereIs DEF CountsOK
<1>16. ClaimOK'
  BY <1>0, <1>3, <1>11 DEF ClaimOK, flags
<1>17. CorosOK'
  BY <1>0, <1>3, <1>4, <1>5, <1>6 DEF CorosOK
<1> QED
  BY <1>12, <1>13, <1>14, <1>15, <1>16, <1>17 DEF FiberInd

LEMMA SuspendInd ==
  ASSUME FiberInd, Code, Suspend
  PROVE  FiberInd'
<1>0. FiberTypes /\ CellsOK /\ CountsOK /\ ClaimOK /\ CorosOK /\ ~Terminating /\ ~ended
  BY DEF FiberInd, Code
<1>1. CASE driven[Here].how = "kill"
  BY <1>1, KillGoesOn
<1>2. CASE driven[Here].how # "kill"
  <2>1. running # <<>> /\ current = Here
    BY <1>0 DEF Suspend, CellsOK, Here
  <2>2. /\ SwitchBack /\ kept' = [kept EXCEPT ![Here] = Mine] /\ table' = table \cup {Here}
        /\ UNCHANGED <<finished, born, started, drained, ended, flags, open>>
    BY <1>2, <2>1 DEF Suspend, Mine
  <2>3. Here \in Fibers /\ Here \in OnStack
    BY <1>0, <2>1, HereIs
  <2>4. /\ StackInd' /\ StackTypes' /\ CellsOK'
        /\ chain' \in Seq(Fibers) /\ ec' \in Contexts /\ saved' \in [Fibers -> Contexts]
        /\ OnStack' = OnStack \ {Here} /\ Range(chain') = OnStack'
    BY <2>1, <2>2, SwitchBackInd
  <2>5. FiberTypes'
    BY <1>0, <2>2, <2>3, <2>4 DEF FiberTypes, StackTypes, flags
  <2>6. Range(chain) = OnStack
    BY <1>0 DEF CellsOK, OnStack
  <2>7. CorosOK'
    BY <1>0, <2>2, <2>3, <2>4, <2>6 DEF CorosOK
  <2> QED
    BY <2>4, <2>5, <2>7 DEF FiberInd, StackInd
<1> QED
  BY <1>1, <1>2

\* A C frame opens or closes on the stack that runs.
LEMMA FramesInd ==
  ASSUME FiberInd, depth' \in Nat, open' = [open EXCEPT ![Here] = depth'],
         claim' \in BOOLEAN, sole' \in BOOLEAN, ClaimOK',
         UNCHANGED <<handles, coros, chain, current, ec, saved, multi, driven, kept, running>>
  PROVE  FiberInd'
<1>0. FiberTypes /\ Linked /\ CellsOK /\ CountsOK /\ CorosOK
  BY DEF FiberInd
<1>1. OnStack' = OnStack /\ Here' = Here /\ Terminating' = Terminating
  BY DEF OnStack, Here, Terminating
<1>2. Here \in Stacks /\ OnStack \subseteq Fibers /\ (Here \in Fibers => Here \in OnStack)
  BY <1>0, HereIs, StacksDiffer
<1>3. open'[Here] = depth' /\ \A s \in Stacks \ {Here} : open'[s] = open[s]
  BY <1>0, <1>2 DEF FiberTypes
<1>4. FiberTypes'
  <2>1. open' \in [Stacks -> Nat]
    BY <1>0, Zenon DEF FiberTypes
  <2> QED
    BY <2>1, <1>0 DEF FiberTypes, handles, coros
<1>5. Linked'
  BY <1>0, <1>1 DEF Linked, Under
<1>6. CellsOK'
  BY <1>0, <1>1 DEF CellsOK
<1>7. CountsOK'
  <2>1. \A f \in OnStack : driven[f].cur \in Stacks \ {Here}
    BY <1>0, <1>2, UnderIs DEF Stacks
  <2>2. \A f \in Fibers \ OnStack : f \in Stacks \ {Here}
    BY <1>2 DEF Stacks
  <2> QED
    BY <2>1, <2>2, <1>0, <1>1, <1>3 DEF CountsOK
<1>8. CorosOK'
  <2>1. \A f \in Fibers : open'[f] > 0 => f \in started \cap (OnStack \cup table \cup drained)
    <3> SUFFICES ASSUME NEW f \in Fibers, open'[f] > 0
                 PROVE  f \in started \cap (OnStack \cup table \cup drained)
      OBVIOUS
    <3>1. CASE f = Here
      BY <3>1, <1>0, <1>2 DEF CorosOK
    <3>2. CASE f # Here
      BY <3>2, <1>0, <1>3 DEF CorosOK, Stacks
    <3> QED
      BY <3>1, <3>2
  <2> QED
    BY <2>1, <1>0, <1>1 DEF CorosOK, handles, coros
<1> QED
  BY <1>4, <1>5, <1>6, <1>7, <1>8 DEF FiberInd

LEMMA EnterInd ==
  ASSUME FiberInd, Enter
  PROVE  FiberInd'
<1>0. FiberTypes /\ CountsOK /\ ClaimOK
  BY DEF FiberInd
<1>1. depth' = depth + 1 /\ depth' \in Nat /\ depth = open[Here]
  BY <1>0 DEF Enter, FiberTypes, CountsOK
<1>2. open' = [open EXCEPT ![Here] = depth']
  BY <1>1 DEF Enter
<1>3. UNCHANGED <<handles, coros, chain, current, ec, saved, multi, driven, kept, running>>
  BY DEF Enter
<1>4. CASE depth = 0
  <2>1. claim' = sole /\ sole' = FALSE
    BY <1>4 DEF Enter
  <2>2. ClaimOK'
    BY <1>0, <1>1, <1>3, <1>4, <2>1 DEF ClaimOK, FiberTypes
  <2> QED
    BY <2>1, <2>2, <1>0, <1>1, <1>2, <1>3, FramesInd, Zenon DEF FiberTypes
<1>5. CASE depth # 0
  <2>1. claim' = claim /\ sole' = sole
    BY <1>5 DEF Enter
  <2>2. ClaimOK'
    BY <1>0, <1>1, <1>3, <2>1 DEF ClaimOK, FiberTypes
  <2> QED
    BY <2>1, <2>2, <1>0, <1>1, <1>2, <1>3, FramesInd, Zenon DEF FiberTypes
<1> QED
  BY <1>4, <1>5

LEMMA LeaveInd ==
  ASSUME FiberInd, Leave
  PROVE  FiberInd'
<1>0. FiberTypes /\ CountsOK /\ ClaimOK
  BY DEF FiberInd
<1>1. depth' = depth - 1 /\ depth' \in Nat /\ depth = open[Here] /\ depth \in Nat /\ depth > 0
  BY <1>0 DEF Leave, FiberTypes, CountsOK
<1>2. open' = [open EXCEPT ![Here] = depth']
  BY <1>1 DEF Leave
<1>3. UNCHANGED <<handles, coros, chain, current, ec, saved, multi, driven, kept, running>>
  BY DEF Leave
<1>4. CASE depth = 1 /\ claim
  <2>1. claim' = FALSE /\ sole' = ~multi
    BY <1>4 DEF Leave
  <2>2. ClaimOK'
    BY <1>0, <1>3, <2>1, Zenon DEF ClaimOK
  <2>3. sole' \in BOOLEAN /\ claim' \in BOOLEAN
    BY <2>1, Zenon
  <2> QED
    BY <2>2, <2>3, <1>1, <1>2, <1>3, FramesInd, Zenon
<1>5. CASE ~(depth = 1 /\ claim)
  <2>1. claim' = claim /\ sole' = sole
    BY <1>5 DEF Leave
  <2>2. claim' => depth' > 0
    BY <1>1, <1>5, <2>1
  <2>3. ClaimOK'
    BY <1>0, <1>3, <2>1, <2>2 DEF ClaimOK
  <2> QED
    BY <2>1, <2>3, <1>0, <1>1, <1>2, <1>3, FramesInd, Zenon DEF FiberTypes
<1> QED
  BY <1>4, <1>5

-----------------------------------------------------------------------------
(* The theorems. *)

LEMMA FiberInit == Init => FiberInd
<1> SUFFICES ASSUME Init PROVE FiberInd
  OBVIOUS
<1>1. running = <<>> /\ Here = Root /\ OnStack = {} /\ ~Terminating /\ Range(chain) = {}
  BY DEF Init, Here, OnStack, Range, Terminating
<1>2. FiberTypes
  <2>1. /\ driven \in [Fibers -> Drives] /\ kept \in [Fibers -> Kept]
        /\ saved \in [Fibers -> Contexts] /\ open \in [Stacks -> Nat]
    BY NoFramesKept, NoDriveDrives DEF Init, Contexts, Stacks
  <2>2. chain \in Seq(Fibers) /\ running \in Seq(Fibers)
    BY DEF Init
  <2>3. current \in Stacks /\ ec \in Contexts
    BY DEF Init, Stacks, Contexts
  <2> QED
    BY <2>1, <2>2, <2>3, Zenon DEF Init, FiberTypes
<1>3. Linked
  BY <1>1 DEF Init, Linked
<1>4. CellsOK
  BY <1>1 DEF Init, CellsOK
<1>5. CountsOK
  BY <1>1, NoFramesKept DEF Init, CountsOK, Stacks
<1>6. CorosOK
  BY <1>1 DEF Init, CorosOK, Stacks
<1>7. ClaimOK
  BY NoFramesKept, NoDriveDrives DEF Init, ClaimOK
<1> QED
  BY <1>2, <1>3, <1>4, <1>5, <1>6, <1>7 DEF FiberInd

LEMMA FiberStep == FiberInd /\ [Next]_vars => FiberInd'
<1> SUFFICES ASSUME FiberInd, [Next]_vars PROVE FiberInd'
  OBVIOUS
<1>1. ASSUME NEW f \in Fibers, New(f) PROVE FiberInd'
  BY <1>1, NewInd
<1>2. ASSUME NEW f \in Fibers, Resume(f) PROVE FiberInd'
  <2>1. CASE Drive(f, "resume")
    BY <1>2, <2>1, DriveInd DEF Resume, Code, Hows
  <2>2. CASE UNCHANGED <<table, started, cells, driven, kept, running>>
    BY <1>2, <2>2, RefusedInd DEF Resume, stacks, coros
  <2> QED
    BY <1>2, <2>1, <2>2 DEF Resume
<1>3. ASSUME NEW f \in Fibers, Transfer(f) PROVE FiberInd'
  <2>1. CASE Drive(f, "transfer")
    BY <1>3, <2>1, DriveInd DEF Transfer, Code, Hows
  <2>2. CASE UNCHANGED <<table, started, cells, driven, kept, running>>
    BY <1>3, <2>2, RefusedInd DEF Transfer, stacks, coros
  <2> QED
    BY <1>3, <2>1, <2>2 DEF Transfer
<1>4. ASSUME NEW f \in Fibers, Raise(f) PROVE FiberInd'
  BY <1>4, DriveInd DEF Raise, Code, Hows
<1>5. ASSUME NEW f \in Fibers, Kill(f) PROVE FiberInd'
  BY <1>5, KillInd
<1>6. ASSUME NEW f \in Fibers, ResumeElsewhere(f) PROVE FiberInd'
  BY <1>6, RefusedInd DEF ResumeElsewhere
<1>7. CASE Yield \/ TransferRoot
  BY <1>7, SuspendInd DEF Yield, TransferRoot
<1>8. CASE Finish \/ End \/ Drain
  BY <1>8, FinishInd, EndInd, DrainInd
<1>9. CASE Enter \/ Leave \/ Spawn
  BY <1>9, EnterInd, LeaveInd, SpawnInd
<1>10. CASE UNCHANGED vars
  BY <1>10, RefusedInd DEF vars, handles
<1> QED
  BY <1>1, <1>2, <1>3, <1>4, <1>5, <1>6, <1>7, <1>8, <1>9, <1>10 DEF Next

\* The links between the stacks, what each keeps, and the tables agree in every
\* state, for any number of fibers and open C frames.
THEOREM FiberInvariant == Spec => []FiberInd
BY FiberInit, FiberStep, PTL DEF Spec

\* Every cell describes the stack that runs, however resumes, yields, raises
\* and kills nest (coroutine.rs, fiber_drive, cframes.rs).
THEOREM FiberSwitchExact == Spec => []SwitchExact
<1>1. FiberInd => SwitchExact
  BY DEF FiberInd, CellsOK, CountsOK, SwitchExact
<1> QED
  BY <1>1, FiberInvariant, PTL

\* A coroutine that is not over runs once, or waits in the table or in the
\* drain's list (FIBERS and terminate_thread_fibers).
THEOREM FiberCoroKept == Spec => []CoroKept
<1>1. FiberInd => CoroKept
  BY DEF FiberInd, Linked, CorosOK, CoroKept, OnStack, IsInjective
<1> QED
  BY <1>1, FiberInvariant, PTL

\* The sole-thread claim is back as soon as no C frame is open on any stack,
\* unless a second thread came up (cframes::enter and leave).
THEOREM FiberClaimReturns == Spec => []ClaimReturns
<1>1. ASSUME FiberInd PROVE ClaimReturns
  <2>0. FiberTypes /\ Linked /\ CountsOK /\ ClaimOK
    BY <1>1 DEF FiberInd
  <2>1. ASSUME ~multi, \A s \in Stacks : open[s] = 0, ~sole PROVE FALSE
    <3>1. depth = 0
      BY <2>0, <2>1, HereIs DEF CountsOK
    <3>2. \A f \in Fibers : kept[f].depth = 0
      BY <2>0, <2>1, NoFramesKept DEF CountsOK, Stacks
    <3>3. \A f \in Fibers : driven[f].frames.depth = 0
      <4> TAKE f \in Fibers
      <4>1. CASE f \in OnStack
        <5>1. driven[f].cur \in Stacks
          BY <4>1, <2>0, UnderIs, HereIs DEF Stacks
        <5> QED
          BY <4>1, <5>1, <2>0, <2>1 DEF CountsOK
      <4>2. CASE f \notin OnStack
        BY <4>2, <2>0, NoFramesKept, NoDriveDrives DEF Linked
      <4> QED
        BY <4>1, <4>2
    <3> QED
      BY <3>1, <3>2, <3>3, <2>0, <2>1 DEF ClaimOK
  <2> QED
    BY <2>0, <2>1 DEF ClaimReturns, ClaimOK
<1> QED
  BY <1>1, FiberInvariant, PTL
=============================================================================
