--------------------------- MODULE TreeWalk_proof ---------------------------
(***************************************************************************)
(* The bounds of a walk, for every volume, however its blocks point at     *)
(* each other and at whichever copies the reads end; and what is shown of  *)
(* a sound one, for every tree, range of keys and size of the cache.       *)
(*                                                                         *)
(* The second part rests on one number: how many of the tree's items the   *)
(* walk has behind it.  It is told by the innermost frame, or by the block *)
(* that is wanted; going down and back up leaves it as it is, and going on *)
(* over an item adds what lies below that item.  The visitor has been      *)
(* shown those items behind it that are in the range (OnItsWay).           *)
(***************************************************************************)
EXTENDS TreeWalk, SequenceTheorems, FiniteSetTheorems, WellFoundedInduction, TLAPS

Blocks == {vol.blocks[p] : p \in DOMAIN vol.blocks} \ {None}
Frames == [node : Blocks, next : Nat]

\* The levels fall from each node to those below it, and the block that is to
\* be read next is to lie below them all.
Falling ==
  /\ frames \in Seq(Frames)
  /\ \A i, j \in DOMAIN frames : i < j => frames[j].node.level < frames[i].node.level
  /\ want # None /\ frames # <<>> =>
       want[2] \in Nat /\ want[2] < frames[Len(frames)].node.level

\* What is cached was read from a device.
Kept ==
  /\ \A a \in DOMAIN nodes : nodes[a] \in Blocks
  /\ IsFiniteSet(DOMAIN nodes)

Inv == vol \in Volumes /\ Falling /\ Kept /\ TypeOK

LEMMA LevelsAreNat ==
  ASSUME vol \in Volumes, NEW b \in Blocks
  PROVE  b.level \in Nat
BY LevelsAssumption DEF Blocks

-----------------------------------------------------------------------------
(* The stack *)

\* A child that is entered lies below the nodes it was reached through.
LEMMA Entered ==
  ASSUME Inv, want # None, ~TooDeep, NEW b \in Blocks, Enter(b), UNCHANGED vol
  PROVE  Falling' /\ Len(frames') <= MaxDepth + 1 /\ res' \in {"running", "error", res}
<1>1. CASE LevelFits(b, want[2])
  <2> DEFINE f == [node |-> b, next |-> 1]
             n == Len(frames)
  <2>1. frames' = Append(frames, f) /\ want' = None /\ res' = res
    BY <1>1 DEF Enter
  <2>2. f \in Frames /\ f.node = b /\ frames \in Seq(Frames) /\ Frames' = Frames
    BY DEF Inv, Falling, Frames, Blocks
  <2> HIDE DEF f
  <2>3. /\ frames' \in Seq(Frames) /\ n \in Nat /\ Len(frames') = n + 1
        /\ DOMAIN frames = 1..n /\ DOMAIN frames' = 1..(n + 1)
        /\ \A i \in 1..n : frames'[i] = frames[i]
        /\ frames'[n + 1] = f
    BY <2>1, <2>2
  <2>4. \A i \in 1..n : frames[i].node \in Blocks /\ frames[i].node.level \in Nat
    <3> SUFFICES ASSUME NEW i \in 1..n
                 PROVE  frames[i].node \in Blocks /\ frames[i].node.level \in Nat
      OBVIOUS
    <3>1. frames[i] \in Frames
      BY <2>2, <2>3
    <3>2. frames[i].node \in Blocks
      BY <3>1 DEF Frames
    <3> QED
      BY <3>2, LevelsAreNat DEF Inv
  <2>5. \A i \in 1..n : b.level < frames[i].node.level
    <3> SUFFICES ASSUME NEW i \in 1..n PROVE b.level < frames[i].node.level
      OBVIOUS
    <3>1. frames # <<>> /\ n \in 1..n
      BY <2>2, <2>3
    <3>2. want[2] \in Nat /\ want[2] < frames[n].node.level
      BY <3>1 DEF Inv, Falling
    <3>3. b.level = want[2]
      BY <1>1, <3>2, WalkAssumption DEF LevelFits
    <3>4. i = n \/ frames[n].node.level < frames[i].node.level
      <4>1. \A k, j \in DOMAIN frames : k < j => frames[j].node.level < frames[k].node.level
        BY DEF Inv, Falling
      <4>2. i \in DOMAIN frames /\ n \in DOMAIN frames
        BY <2>3, <3>1
      <4>3. i < n => frames[n].node.level < frames[i].node.level
        BY <4>1, <4>2
      <4>4. n \in Nat
        BY <2>2
      <4>5. i < n \/ i = n
        BY <4>4
      <4> QED
        BY <4>3, <4>5, Zenon
    <3> QED
      BY <2>4, <3>1, <3>2, <3>3, <3>4
  <2>6. \A i, j \in DOMAIN frames' : i < j => frames'[j].node.level < frames'[i].node.level
    <3> SUFFICES ASSUME NEW i \in 1..(n + 1), NEW j \in 1..(n + 1), i < j
                 PROVE  frames'[j].node.level < frames'[i].node.level
      BY <2>3
    <3>1. CASE j = n + 1
      BY <2>2, <2>3, <2>5, <3>1
    <3>2. CASE j \in 1..n
      BY SMTT(40), <2>3, <3>2 DEF Inv, Falling
    <3> QED
      BY <2>3, <3>1, <3>2
  <2>7. Len(frames') <= MaxDepth + 1
    BY <2>3, WalkAssumption DEF TooDeep
  <2> QED
    BY <2>1, <2>2, <2>3, <2>6, <2>7 DEF Falling
<1>2. CASE ~LevelFits(b, want[2])
  <2>1. frames' = <<>> /\ res' = "error"
    BY <1>2 DEF Enter, EndWalk
  <2> QED
    BY <2>1, WalkAssumption DEF Falling
<1> QED
  BY <1>1, <1>2

\* An emptied stack falls, and so does one of which the next item or the
\* innermost node changed.
LEMMA Emptied ==
  ASSUME frames' = <<>>
  PROVE  Falling' /\ Len(frames') <= MaxDepth + 1
BY WalkAssumption DEF Falling

LEMMA Advanced ==
  ASSUME Inv, frames' = Advance, UNCHANGED vol,
         want' # None /\ frames # <<>> => want'[2] \in Nat /\ want'[2] < Top.node.level
  PROVE  Falling' /\ Len(frames') <= MaxDepth + 1
<1> DEFINE n == Len(frames)
<1>1. frames \in Seq(Frames) /\ Frames' = Frames /\ n <= MaxDepth + 1
  BY DEF Inv, Falling, Frames, Blocks, TypeOK
<1>2. n \in Nat /\ DOMAIN frames = 1..n /\ (n \in 1..n \/ frames = <<>>)
  BY <1>1
<1>3. /\ \A i \in 1..n : frames'[i] \in Frames /\ frames'[i].node = frames[i].node
      /\ DOMAIN frames' = 1..n
  <2>0. DOMAIN frames' = 1..n
    BY <1>2 DEF Advance
  <2> SUFFICES ASSUME NEW i \in 1..n
               PROVE  frames'[i] \in Frames /\ frames'[i].node = frames[i].node
    BY <2>0
  <2>1. frames[i] \in [node : Blocks, next : Nat]
    <3>1. frames[i] \in Frames
      BY <1>1, ElementOfSeq
    <3> QED
      BY <3>1 DEF Frames
  <2>2. frames'[i] = IF i = n THEN [frames[n] EXCEPT !.next = @ + 1] ELSE frames[i]
    BY <1>2 DEF Advance
  <2>3. CASE i = n
    <3>1. frames'[i] = [frames[i] EXCEPT !.next = frames[i].next + 1]
      BY <2>2, <2>3
    <3> HIDE DEF Advance
    <3>2. frames'[i] \in [node : Blocks, next : Nat] /\ frames'[i].node = frames[i].node
      BY <2>1, <3>1
    <3> QED
      BY <3>2 DEF Frames
  <2>4. CASE i # n
    BY <1>1, <1>2, <2>2, <2>4
  <2> QED
    BY <2>3, <2>4
<1>4. frames' \in Seq(Frames) /\ Len(frames') = n
  <2>1. frames' = [i \in 1..n |-> frames'[i]]
    BY <1>1, <1>2 DEF Advance
  <2>2. frames' \in [1..n -> Frames]
    BY <1>3, <2>1
  <2> QED
    BY <1>2, <2>1, <2>2
<1>5. frames' = <<>> \/ (frames # <<>> /\ frames'[n].node = frames[n].node)
  BY <1>2, <1>3, <1>4
<1> QED
  BY <1>1, <1>2, <1>3, <1>4, <1>5 DEF Inv, Falling, Top, Last

LEMMA Left ==
  ASSUME Inv, frames' = Front(frames), want = None, UNCHANGED <<vol, want>>
  PROVE  Falling' /\ Len(frames') <= MaxDepth + 1
<1> DEFINE n == Len(frames)
<1>1. /\ frames \in Seq(Frames) /\ Frames' = Frames /\ n <= MaxDepth + 1 /\ n \in Nat
      /\ DOMAIN frames = 1..n
  BY DEF Inv, Falling, Frames, Blocks, TypeOK
<1>2. /\ frames' \in Seq(Frames)
      /\ Len(frames') <= n /\ DOMAIN frames' \subseteq 1..n
      /\ \A i \in DOMAIN frames' : frames'[i] = frames[i]
  BY <1>1 DEF Front
<1> QED
  BY <1>1, <1>2, WalkAssumption DEF Inv, Falling

-----------------------------------------------------------------------------
(* The cache *)

LEMMA PutGrows ==
  ASSUME NEW f, IsFiniteSet(DOMAIN f), NEW key, NEW value
  PROVE  LET g == Put(f, key, value)
         IN  /\ IsFiniteSet(DOMAIN g)
             /\ Cardinality(DOMAIN g) <= Cardinality(DOMAIN f) + 1
             /\ Cardinality(DOMAIN f) \in Nat
             /\ \A a \in DOMAIN g : g[a] = value \/ (a \in DOMAIN f /\ g[a] = f[a])
<1> DEFINE D == DOMAIN f
           g == Put(f, key, value)
<1>1. DOMAIN g = D \cup {key} /\ \A a \in DOMAIN g : g[a] = IF a = key THEN value ELSE f[a]
  BY DEF Put
<1>2. /\ IsFiniteSet(D \cup {key}) /\ Cardinality(D) \in Nat
      /\ Cardinality(D \cup {key}) =
           IF key \in D THEN Cardinality(D) ELSE Cardinality(D) + 1
  BY FS_AddElement, FS_CardinalityType
<1> HIDE DEF D, g
<1>3. Cardinality(DOMAIN g) <= Cardinality(D) + 1
  BY <1>1, <1>2
<1> QED
  BY <1>1, <1>2, <1>3 DEF D, g

\* The cache never holds more than its limit.
LEMMA CacheBounded ==
  ASSUME Inv, NEW logical, NEW b \in Blocks, nodes' = Cached(logical, b), UNCHANGED vol
  PROVE  Kept' /\ Cardinality(DOMAIN nodes') <= CacheMax
<1> DEFINE old == IF Cardinality(DOMAIN nodes) >= CacheMax THEN Empty ELSE nodes
<1>1. nodes' = Put(old, logical, b) /\ Blocks' = Blocks
  BY DEF Cached, Blocks
<1>2. IsFiniteSet(DOMAIN nodes) /\ Cardinality(DOMAIN nodes) \in Nat
  BY FS_CardinalityType DEF Inv, Kept
<1>3. DOMAIN Empty = {}
  BY DEF Empty
<1>4. IsFiniteSet({}) /\ Cardinality({}) = 0
  BY FS_EmptySet
<1>5. /\ IsFiniteSet(DOMAIN old) /\ Cardinality(DOMAIN old) + 1 <= CacheMax
      /\ \A a \in DOMAIN old : old[a] \in Blocks
  <2>1. CASE Cardinality(DOMAIN nodes) >= CacheMax
    <3>1. old = Empty
      BY <2>1
    <3> QED
      BY <1>3, <1>4, <3>1, WalkAssumption
  <2>2. CASE ~(Cardinality(DOMAIN nodes) >= CacheMax)
    <3>1. old = nodes
      BY <2>2
    <3>2. Cardinality(DOMAIN nodes) + 1 <= CacheMax
      BY <1>2, <2>2, WalkAssumption
    <3> QED
      BY <1>2, <3>1, <3>2 DEF Inv, Kept
  <2> QED
    BY <2>1, <2>2
<1> HIDE DEF old
<1>6. /\ IsFiniteSet(DOMAIN nodes') /\ Cardinality(DOMAIN old) \in Nat
      /\ Cardinality(DOMAIN nodes') <= Cardinality(DOMAIN old) + 1
      /\ \A a \in DOMAIN nodes' : nodes'[a] = b \/ (a \in DOMAIN old /\ nodes'[a] = old[a])
  BY <1>1, <1>5, PutGrows
<1>7. Cardinality(DOMAIN nodes') \in Nat
  BY <1>6, FS_CardinalityType
<1> QED
  BY <1>1, <1>5, <1>6, <1>7, WalkAssumption DEF Kept

-----------------------------------------------------------------------------
(* The steps *)

\* Only the cache's own step changes it.
LEMMA CacheStays ==
  ASSUME Inv, UNCHANGED <<vol, nodes>>
  PROVE  Kept' /\ Cardinality(DOMAIN nodes') <= CacheMax
<1>1. Blocks' = Blocks
  BY DEF Blocks
<1> QED
  BY <1>1 DEF Inv, Kept, TypeOK

LEMMA StackStays ==
  ASSUME Inv, UNCHANGED <<vol, frames, want>>
  PROVE  Falling' /\ Len(frames') <= MaxDepth + 1
<1>1. Frames' = Frames
  BY DEF Frames, Blocks
<1> QED
  BY <1>1 DEF Inv, Falling, TypeOK

\* What the types leave to say of a step.
Flags ==
  /\ stage \in {"devices", "chunks", "ready", "failed"}
  /\ res \in {"none", "running", "true", "false", "error"}
  /\ stopped \in BOOLEAN
  /\ walks \in 0..MaxWalks

LEMMA Assembled ==
  ASSUME vol' \in Volumes, Falling' /\ Len(frames') <= MaxDepth + 1,
         Kept' /\ Cardinality(DOMAIN nodes') <= CacheMax, Flags'
  PROVE  Inv'
BY DEF Inv, TypeOK, Flags

LEMMA OpenSteps == Inv /\ (OpenDevice \/ Bootstrap \/ EndOpen \/ Walk) => Inv'
<1> SUFFICES ASSUME Inv, OpenDevice \/ Bootstrap \/ EndOpen \/ Walk PROVE Inv'
  OBVIOUS
<1>1. Flags
  BY DEF Inv, TypeOK, Flags
<1>2. UNCHANGED <<vol, nodes>>
  BY DEF OpenDevice, Bootstrap, EndOpen, Walk
<1>3. Kept' /\ Cardinality(DOMAIN nodes') <= CacheMax /\ vol' \in Volumes
  BY <1>2, CacheStays DEF Inv
<1>4. ASSUME UNCHANGED <<frames, want>>, Flags' PROVE Inv'
  BY <1>2, <1>3, <1>4, StackStays, Assembled
<1>5. ASSUME frames' = <<>>, Flags' PROVE Inv'
  BY <1>3, <1>5, Emptied, Assembled
<1>6. CASE OpenDevice
  <2>1. UNCHANGED <<frames, want>>
    BY <1>6 DEF OpenDevice
  <2>2. Flags'
    BY <1>1, <1>6 DEF OpenDevice, Fail, Flags
  <2> QED
    BY <1>4, <2>1, <2>2
<1>7. CASE Bootstrap
  <2>1. Flags'
    BY <1>1, <1>7 DEF Bootstrap, Fail, StartWalk, Flags
  <2>2. UNCHANGED <<frames, want>> \/ frames' = <<>>
    BY <1>7 DEF Bootstrap, StartWalk
  <2> QED
    BY <1>4, <1>5, <2>1, <2>2
<1>8. CASE EndOpen
  <2>1. UNCHANGED <<frames, want>>
    BY <1>8 DEF EndOpen
  <2>2. Flags'
    BY <1>1, <1>8 DEF EndOpen, Fail, Flags
  <2> QED
    BY <1>4, <2>1, <2>2
<1>9. CASE Walk
  <2>1. frames' = <<>> /\ res' = "running" /\ stopped' = FALSE /\ stage' = stage
    BY <1>9 DEF Walk, StartWalk, openVars
  <2>2. walks' \in 0..MaxWalks
    <3>1. walks < MaxWalks /\ walks' = walks + 1 /\ walks \in 0..MaxWalks
      BY <1>1, <1>9 DEF Walk, Flags
    <3> QED
      BY <3>1, WalkAssumption
  <2>3. Flags'
    BY <1>1, <2>1, <2>2 DEF Flags
  <2> QED
    BY <1>5, <2>1, <2>3
<1> QED
  BY <1>6, <1>7, <1>8, <1>9

\* What a copy that is accepted holds is a block.
LEMMA AcceptedIsBlock ==
  ASSUME NEW logical, NEW failing, NEW copy \in Usable(logical, failing)
  PROVE  BlockAt(copy) \in Blocks
<1>1. BlockAt(copy) # None
  BY DEF Usable, Accepted
<1> QED
  BY <1>1 DEF BlockAt, Blocks

LEMMA ReadNodeKeeps == Inv /\ ReadNode => Inv'
<1> SUFFICES ASSUME Inv, ReadNode PROVE Inv'
  OBVIOUS
<1>1. Flags
  BY DEF Inv, TypeOK, Flags
<1>2. /\ UNCHANGED <<vol, stage, stopped, walks>> /\ want # None
      /\ vol' \in Volumes
  BY DEF ReadNode, openVars, Inv
<1>3. ASSUME EndWalk("error"), UNCHANGED nodes PROVE Inv'
  <2>1. frames' = <<>> /\ Flags'
    BY <1>1, <1>2, <1>3 DEF EndWalk, Flags
  <2> QED
    BY <1>2, <1>3, <2>1, Emptied, CacheStays, Assembled
<1>4. ASSUME NEW b \in Blocks, ~TooDeep, Enter(b),
             Kept' /\ Cardinality(DOMAIN nodes') <= CacheMax
      PROVE  Inv'
  <2>1. Falling' /\ Len(frames') <= MaxDepth + 1 /\ res' \in {"running", "error", res}
    BY <1>2, <1>4, Entered
  <2>2. Flags'
    BY <1>1, <1>2, <2>1 DEF Flags
  <2> QED
    BY <1>2, <1>4, <2>1, <2>2, Assembled
<1>5. CASE TooDeep
  BY <1>3, <1>5 DEF ReadNode
<1>6. CASE ~TooDeep /\ want[1] \in DOMAIN nodes
  <2>1. Enter(nodes[want[1]]) /\ UNCHANGED nodes
    BY <1>6 DEF ReadNode
  <2>2. nodes[want[1]] \in Blocks
    BY <1>6 DEF Inv, Kept
  <2> QED
    BY <1>2, <1>4, <1>6, <2>1, <2>2, CacheStays
<1>7. CASE ~TooDeep /\ want[1] \notin DOMAIN nodes
  <2>1. PICK failing \in Failing(want[1]) :
          \/ EndWalk("error") /\ UNCHANGED nodes
          \/ \E copy \in Usable(want[1], failing) : EndRead(want[1], BlockAt(copy))
    BY <1>7 DEF ReadNode
  <2>2. CASE EndWalk("error") /\ UNCHANGED nodes
    BY <1>3, <2>2
  <2>3. ASSUME NEW copy \in Usable(want[1], failing), EndRead(want[1], BlockAt(copy))
        PROVE  Inv'
    <3> DEFINE b == BlockAt(copy)
    <3>1. b \in Blocks
      BY AcceptedIsBlock
    <3> HIDE DEF b
    <3>2. CASE EndWalk("error") /\ UNCHANGED nodes
      BY <1>3, <3>2
    <3>3. CASE nodes' = Cached(want[1], b) /\ Enter(b)
      BY <1>2, <1>4, <1>7, <3>1, <3>3, CacheBounded
    <3> QED
      BY <2>3, <3>2, <3>3 DEF EndRead, b
  <2> QED
    BY <2>1, <2>2, <2>3
<1> QED
  BY <1>5, <1>6, <1>7

LEMMA ItemSteps == Inv /\ (VisitItem \/ Descend \/ LeaveNode) => Inv'
<1> SUFFICES ASSUME Inv, VisitItem \/ Descend \/ LeaveNode PROVE Inv'
  OBVIOUS
<1>1. Flags
  BY DEF Inv, TypeOK, Flags
<1>2. /\ UNCHANGED <<vol, nodes, stage, walks>> /\ want = None /\ vol' \in Volumes
      /\ Kept' /\ Cardinality(DOMAIN nodes') <= CacheMax
  <2>1. UNCHANGED <<vol, nodes, stage, walks>> /\ want = None
    BY DEF VisitItem, Descend, LeaveNode, AtItem, InNode, openVars
  <2> QED
    BY <2>1, CacheStays DEF Inv
<1>3. ASSUME NEW r \in {"true", "false", "error"}, EndWalk(r), stopped' \in BOOLEAN
      PROVE  Inv'
  <2>1. frames' = <<>> /\ Flags'
    BY <1>1, <1>2, <1>3 DEF EndWalk, Flags
  <2> QED
    BY <1>2, <2>1, Emptied, Assembled
<1>4. ASSUME frames' = Advance, UNCHANGED <<res, stopped>>,
             want' # None /\ frames # <<>> => want'[2] \in Nat /\ want'[2] < Top.node.level
      PROVE  Inv'
  <2>1. Flags'
    BY <1>1, <1>2, <1>4 DEF Flags
  <2>2. Falling' /\ Len(frames') <= MaxDepth + 1
    BY <1>2, <1>4, Advanced
  <2> QED
    BY <1>2, <2>1, <2>2, Assembled
<1>5. CASE VisitItem
  <2>1. \/ frames' = Advance /\ UNCHANGED <<want, res, stopped>>
        \/ \E r \in {"true", "false", "error"} : EndWalk(r) /\ stopped' \in {stopped, TRUE}
    BY <1>5 DEF VisitItem, Shown
  <2>2. stopped \in BOOLEAN
    BY <1>1 DEF Flags
  <2> QED
    BY <1>2, <1>3, <1>4, <2>1, <2>2
<1>6. CASE Descend
  <2>1. \/ /\ frames' = Advance /\ UNCHANGED <<res, stopped>>
           /\ want' \in {None, <<Top.node.ptrs[Top.next], Top.node.level - 1>>}
        \/ \E r \in {"false", "error"} : EndWalk(r) /\ stopped' = stopped
    BY <1>6 DEF Descend
  <2>2. frames # <<>> => Top.node.level - 1 \in Nat /\ Top.node.level - 1 < Top.node.level
    <3>1. Top.node.level > 0
      BY <1>6 DEF Descend
    <3>2. ASSUME frames # <<>> PROVE Top.node.level \in Nat
      <4>1. Len(frames) \in 1..Len(frames) /\ frames \in Seq(Frames)
        BY <3>2 DEF Inv, Falling
      <4>2. Top \in Frames
        BY <4>1, ElementOfSeq DEF Top, Last
      <4>3. Top.node \in Blocks
        BY <4>2 DEF Frames
      <4> QED
        BY <4>3, LevelsAreNat DEF Inv
    <3> QED
      BY <3>1, <3>2
  <2>3. CASE /\ frames' = Advance /\ UNCHANGED <<res, stopped>>
             /\ want' \in {None, <<Top.node.ptrs[Top.next], Top.node.level - 1>>}
    BY <1>4, <2>2, <2>3
  <2>4. stopped \in BOOLEAN
    BY <1>1 DEF Flags
  <2> QED
    BY <1>3, <2>1, <2>3, <2>4
<1>7. CASE LeaveNode
  <2>1. CASE EndWalk("true") /\ stopped' = stopped
    BY <1>1, <1>3, <2>1 DEF Flags
  <2>2. CASE frames' = Front(frames) /\ UNCHANGED <<want, res, stopped>>
    <3>1. Falling' /\ Len(frames') <= MaxDepth + 1
      BY <1>2, <2>2, Left
    <3>2. Flags'
      BY <1>1, <1>2, <2>2 DEF Flags
    <3> QED
      BY <1>2, <3>1, <3>2, Assembled
  <2> QED
    BY <1>7, <2>1, <2>2 DEF LeaveNode
<1> QED
  BY <1>5, <1>6, <1>7

-----------------------------------------------------------------------------
(* The theorems *)

LEMMA Invariance == Spec => []Inv
<1>1. Init => Inv
  <2> SUFFICES ASSUME Init PROVE Inv
    OBVIOUS
  <2>1. /\ vol \in Volumes /\ frames = <<>> /\ want = None /\ nodes = Empty
        /\ stage = "devices" /\ res = "none" /\ stopped = FALSE /\ walks = 0
    BY DEF Init
  <2>2. IsFiniteSet(DOMAIN nodes) /\ Cardinality(DOMAIN nodes) = 0 /\ DOMAIN nodes = {}
    BY <2>1, FS_EmptySet DEF Empty
  <2>3. Falling
    BY <2>1 DEF Falling
  <2>4. Kept
    BY <2>2 DEF Kept
  <2>5. TypeOK
    <3>1. MaxDepth \in Nat /\ CacheMax \in Nat /\ MaxWalks \in Nat
      BY WalkAssumption
    <3>2. Len(frames) <= MaxDepth + 1
      BY <2>1, <3>1
    <3>3. Cardinality(DOMAIN nodes) <= CacheMax
      BY <2>2, <3>1
    <3>4. walks \in 0..MaxWalks
      BY <2>1, <3>1
    <3> QED
      BY <2>1, <3>2, <3>3, <3>4 DEF TypeOK
  <2> QED
    BY <2>1, <2>3, <2>4, <2>5 DEF Inv
<1>2. Inv /\ [Next]_vars => Inv'
  <2>1. Inv /\ Next => Inv'
    BY OpenSteps, ReadNodeKeeps, ItemSteps DEF Next
  <2>2. Inv /\ UNCHANGED vars => Inv'
    <3> SUFFICES ASSUME Inv, UNCHANGED vars PROVE Inv'
      OBVIOUS
    <3>1. UNCHANGED <<vol, frames, want, nodes, stage, res, stopped, walks>>
      BY DEF vars
    <3>2. Flags'
      BY <3>1 DEF Inv, TypeOK, Flags
    <3> QED
      BY <3>1, <3>2, StackStays, CacheStays, Assembled DEF Inv
  <2> QED
    BY <2>1, <2>2
<1> QED
  BY <1>1, <1>2, PTL DEF Spec

\* The stack of walk_node's calls and the cache of read_node stay within their
\* limits on every volume.
THEOREM TypeCorrect == Spec => []TypeOK
<1>1. Inv => TypeOK
  BY DEF Inv
<1> QED
  BY <1>1, Invariance, PTL

\* Where all the copies that may be accepted for an address are of one level,
\* the level check of walk_node (fs.rs 285) keeps a walk from entering a node
\* again below itself, whatever the pointers on the device.
THEOREM NoLoops ==
  ASSUME \A v \in Volumes : \A p, r \in DOMAIN v.blocks :
           /\ v.blocks[p] # None /\ v.blocks[r] # None
           /\ v.blocks[p].addr = v.blocks[r].addr
           => v.blocks[p].level = v.blocks[r].level
  PROVE  Spec => []NoLoopEntered
<1>1. Inv => NoLoopEntered
  <2> SUFFICES ASSUME Inv, NEW i \in DOMAIN frames, NEW j \in DOMAIN frames, i < j,
                      frames[i].node.addr = frames[j].node.addr
               PROVE  FALSE
    BY DEF NoLoopEntered
  <2>1. frames[i] \in Frames /\ frames[j] \in Frames
    BY DEF Inv, Falling
  <2>2. frames[i].node \in Blocks /\ frames[j].node \in Blocks
    BY <2>1 DEF Frames
  <2>3. frames[i].node.level = frames[j].node.level
    BY <2>2 DEF Inv, Blocks
  <2>4. frames[j].node.level < frames[i].node.level
    BY DEF Inv, Falling
  <2>5. frames[i].node.level \in Nat
    BY <2>2, LevelsAreNat DEF Inv
  <2> QED
    BY <2>3, <2>4, <2>5
<1> QED
  BY <1>1, Invariance, PTL

-----------------------------------------------------------------------------
(* A walk over a sound tree *)

\* The tree that is walked.
Walked == IF stage = "chunks" THEN vol.chunkTree ELSE vol.fsTree

\* How many of the tree's items come before the i-th of a block, and how many
\* the walk has behind it.
Before(t, b, i) ==
  IF b.level = 0 THEN t.from[b.addr] + i - 1
  ELSE IF i <= Len(b.keys) THEN t.from[b.ptrs[i]]
  ELSE t.upto[b.addr]
Reached(t) == IF want # None THEN t.from[want[1]] ELSE Before(t, Top.node, Top.next)

\* A frame is at a block of the tree.
InTree(t, f) ==
  /\ f.node.addr \in DOMAIN t.from
  /\ f.node = vol.tree[f.node.addr]
  /\ f.next \in 1..(Len(f.node.keys) + 1)

\* A frame is at the child before its next item.
Below(f, a) == f.node.level > 0 /\ f.next > 1 /\ a = f.node.ptrs[f.next - 1]

\* The frames are a way down from the root, and what is wanted is one step on.
OnTree(t) ==
  /\ \A j \in 1..Len(frames) : /\ InTree(t, frames[j])
                               /\ frames[j].node.level + j = vol.tree[t.root].level + 1
  /\ \A j \in 1..(Len(frames) - 1) : Below(frames[j], frames[j + 1].node.addr)
  /\ frames # <<>> => frames[1].node.addr = t.root
  /\ want = None => frames # <<>>
  /\ want # None =>
       /\ want[1] \in DOMAIN t.from
       /\ frames = <<>> => want[1] = t.root /\ want[2] = None
       /\ frames # <<>> => /\ Below(frames[Len(frames)], want[1])
                           /\ want[2] = frames[Len(frames)].node.level - 1

\* The visitor has been shown those of the first n items that are in the range.
Ascends == \A i, j \in DOMAIN out : i < j => out[i] < out[j]
ShownUpTo(t, n) ==
  Range(out) = {k \in {t.items[i] : i \in 1..n} : range[1] <= k /\ k <= range[2]}

OnItsWay ==
  /\ out \in Seq(Nat) /\ range[1] \in Nat /\ range[2] \in Nat
  /\ IF res = "running"
     THEN OnTree(Walked) /\ Ascends /\ ShownUpTo(Walked, Reached(Walked))
     ELSE Shows(Walked)
  /\ \A a \in DOMAIN nodes : nodes[a] = vol.tree[a]

\* The superblock that is believed is the newest of the first n.
OfFirst(n) ==
  /\ sb # None
  /\ \E i \in 1..n : sb = vol.supers[vol.paths[i]]
  /\ \A i \in 1..n : /\ vol.supers[vol.paths[i]] # None
                     /\ vol.supers[vol.paths[i]].generation <= sb.generation

\* The first n paths have been opened.
Opening(n) ==
  /\ given \in Seq(Range(vol.paths)) /\ Len(given) = Len(vol.paths) - n
  /\ \A i \in 1..Len(given) : given[i] = vol.paths[n + i]
  /\ n = 0 => sb = None
  /\ n > 0 => OfFirst(n)

Starting == /\ nodes = Empty /\ found = <<>> /\ res = "none"
            /\ \E n \in 0..Len(vol.paths) : Opening(n)

\* The chunks that are known, and those of the chunk tree.
Maps(map) == \A s \in DOMAIN map : s \in Nat /\ DOMAIN map[s].stripes \subseteq Nat
Mapped == Maps(chunks)
Items == {vol.chunkItems[k] : k \in DOMAIN vol.chunkItems}
Gathering ==
  /\ range = <<0, MaxKey>> /\ ~stopped /\ res # "none"
  /\ found \in Seq(Items)
  /\ res # "error" =>
       \A k \in DOMAIN vol.chunkItems : k \in Range(out) => vol.chunkItems[k] \in Range(found)
Gathered ==
  \A k \in DOMAIN vol.chunkItems :
    LET c == vol.chunkItems[k]
    IN  c.start \in DOMAIN chunks /\ chunks[c.start] = c

SoundInv ==
  vol.kind = "sound" =>
    /\ stage = "devices" => Starting
    /\ stage \in {"chunks", "ready"} => OfFirst(Len(vol.paths)) /\ Mapped /\ OnItsWay
    /\ stage = "chunks" => Gathering
    /\ stage = "ready" => Gathered /\ FailsOnlyWhenLost

\* What is written about one block of a tree.
LEMMA BlockFacts ==
  ASSUME NEW t, Written(vol, t), NEW a \in DOMAIN t.from
  PROVE  LET b == vol.tree[a]
         IN  /\ b.addr = a /\ b.level \in Nat /\ b.level <= MaxDepth
             /\ b.keys \in Seq(0..MaxKey) /\ Len(b.keys) \in Nat
             /\ t.from[a] \in Nat /\ t.upto[a] \in Nat
             /\ t.from[a] <= t.upto[a] /\ t.upto[a] <= Len(t.items)
             /\ Len(t.items) \in Nat
             /\ \A i \in 1..Len(t.items) : t.items[i] \in Nat
<1>1. /\ vol.tree[a].addr = a /\ vol.tree[a].level \in 0..MaxDepth
      /\ vol.tree[a].keys \in Seq(0..MaxKey)
      /\ t.from[a] \in Nat /\ t.upto[a] \in t.from[a]..Len(t.items)
      /\ t.items \in Seq(0..MaxKey)
  BY DEF Written
<1>2. Len(t.items) \in Nat /\ \A i \in 1..Len(t.items) : t.items[i] \in 0..MaxKey
  BY <1>1, ElementOfSeq, LenProperties
<1>3. MaxDepth \in Nat /\ MaxKey \in Nat
  BY WalkAssumption
<1>4. vol.tree[a].level \in Nat /\ vol.tree[a].level <= MaxDepth
  BY <1>1, <1>3
<1>5. Len(vol.tree[a].keys) \in Nat
  BY <1>1, LenProperties
<1>6. t.upto[a] \in Nat /\ t.from[a] <= t.upto[a] /\ t.upto[a] <= Len(t.items)
  BY <1>1, <1>2
<1>7. \A i \in 1..Len(t.items) : t.items[i] \in Nat
  BY SMTT(40), <1>2, <1>3
<1> QED
  BY <1>1, <1>2, <1>4, <1>5, <1>6, <1>7

\* Its children, if it has any.
LEMMA ChildFacts ==
  ASSUME NEW t, Written(vol, t), NEW a \in DOMAIN t.from, vol.tree[a].level # 0
  PROVE  LET b == vol.tree[a]
         IN  /\ Len(b.keys) > 0
             /\ \A i \in 1..Len(b.keys) :
                  LET c == b.ptrs[i]
                  IN  /\ c \in DOMAIN t.from
                      /\ vol.tree[c].level = b.level - 1
                      /\ t.from[c] < t.upto[c]
                      /\ b.keys[i] = t.items[t.from[c] + 1]
                      /\ i = 1 => t.from[c] = t.from[a]
                      /\ i # 1 => t.from[c] = t.upto[b.ptrs[i - 1]]
             /\ t.upto[b.ptrs[Len(b.keys)]] = t.upto[a]
<1>1. vol.tree[a].level \in Nat
  BY BlockFacts
<1> DEFINE b == vol.tree[a]
<1>2. b.level > 0
  BY <1>1
<1>3. /\ Len(b.keys) > 0
      /\ t.upto[b.ptrs[Len(b.keys)]] = t.upto[a]
  BY <1>2 DEF Written
<1>4. ASSUME NEW i \in 1..Len(b.keys)
      PROVE  /\ b.ptrs[i] \in DOMAIN t.from
             /\ vol.tree[b.ptrs[i]].level = b.level - 1
             /\ t.from[b.ptrs[i]] < t.upto[b.ptrs[i]]
             /\ b.keys[i] = t.items[t.from[b.ptrs[i]] + 1]
             /\ t.from[b.ptrs[i]] = IF i = 1 THEN t.from[a] ELSE t.upto[b.ptrs[i - 1]]
  BY <1>2, <1>4 DEF Written
<1> HIDE DEF b
<1> QED
  BY <1>3, <1>4 DEF b

\* Its items, if it is a leaf.
LEMMA LeafFacts ==
  ASSUME NEW t, Written(vol, t), NEW a \in DOMAIN t.from, vol.tree[a].level = 0
  PROVE  /\ Len(vol.tree[a].keys) = t.upto[a] - t.from[a]
         /\ \A i \in 1..Len(vol.tree[a].keys) : vol.tree[a].keys[i] = t.items[t.from[a] + i]
BY DEF Written

\* A block that is entered has its first item ahead.
LEMMA BeforeFirst ==
  ASSUME NEW t, Written(vol, t), NEW a \in DOMAIN t.from
  PROVE  Before(t, vol.tree[a], 1) = t.from[a]
<1>1. /\ vol.tree[a].addr = a /\ Len(vol.tree[a].keys) \in Nat /\ t.from[a] \in Nat
  BY BlockFacts
<1>2. CASE vol.tree[a].level = 0
  BY <1>1, <1>2 DEF Before
<1>3. CASE vol.tree[a].level # 0
  <2>1. Len(vol.tree[a].keys) > 0
    BY <1>3, ChildFacts
  <2>2. 1 \in 1..Len(vol.tree[a].keys)
    BY <1>1, <2>1
  <2>3. t.from[vol.tree[a].ptrs[1]] = t.from[a]
    BY <1>3, <2>2, ChildFacts
  <2> QED
    BY <1>1, <1>3, <2>1, <2>3 DEF Before
<1> QED
  BY <1>2, <1>3

\* Counting in a leaf.
LEMMA InLeaf ==
  ASSUME NEW f \in Nat, NEW u \in Nat, NEW all \in Nat, u <= all,
         NEW k \in Nat, k = u - f, NEW i \in Nat, 1 <= i, i <= k
  PROVE  /\ f + i - 1 \in Nat /\ (f + i - 1) + 1 \in 1..all
         /\ f + (i + 1) - 1 = (f + i - 1) + 1 /\ (f + i - 1) + 1 = f + i
OBVIOUS

\* An item of a leaf is the next of the tree's, and the next comes after it.
LEMMA LeafItem ==
  ASSUME NEW t, Written(vol, t), NEW a \in DOMAIN t.from, vol.tree[a].level = 0,
         NEW i \in 1..Len(vol.tree[a].keys)
  PROVE  LET b == vol.tree[a]
             n == Before(t, b, i)
         IN  /\ n \in Nat /\ n + 1 \in 1..Len(t.items)
             /\ b.keys[i] = t.items[n + 1]
             /\ Before(t, b, i + 1) = n + 1
<1> DEFINE b == vol.tree[a]
           n == Before(t, b, i)
<1>1. /\ b.addr = a /\ Len(b.keys) \in Nat /\ t.from[a] \in Nat /\ t.upto[a] \in Nat
      /\ t.upto[a] <= Len(t.items) /\ Len(t.items) \in Nat
  BY BlockFacts
<1>2. Len(b.keys) = t.upto[a] - t.from[a]
  BY LeafFacts
<1>3. b.keys[i] = t.items[t.from[a] + i]
  BY LeafFacts
<1>4. n = t.from[a] + i - 1 /\ Before(t, b, i + 1) = t.from[a] + (i + 1) - 1
  BY <1>1 DEF Before
<1> HIDE DEF n, b
<1>5. i \in Nat /\ 1 <= i /\ i <= Len(b.keys)
  BY <1>1 DEF b
<1>6. LET f == t.from[a]
      IN  /\ f + i - 1 \in Nat /\ (f + i - 1) + 1 \in 1..Len(t.items)
          /\ f + (i + 1) - 1 = (f + i - 1) + 1 /\ (f + i - 1) + 1 = f + i
  BY <1>1, <1>2, <1>5, InLeaf
<1>7. n \in Nat /\ n + 1 \in 1..Len(t.items) /\ Before(t, b, i + 1) = n + 1
      /\ n + 1 = t.from[a] + i
  BY <1>4, <1>6
<1>8. b.keys[i] = t.items[n + 1]
  BY <1>3, <1>7
<1> QED
  BY <1>7, <1>8 DEF n, b

\* A child begins with the next of the tree's items, and all of the child's
\* items come before what follows it.
LEMMA ChildItem ==
  ASSUME NEW t, Written(vol, t), NEW a \in DOMAIN t.from, vol.tree[a].level # 0,
         NEW i \in 1..Len(vol.tree[a].keys)
  PROVE  LET b == vol.tree[a]
             c == b.ptrs[i]
             n == Before(t, b, i)
             m == Before(t, b, i + 1)
         IN  /\ c \in DOMAIN t.from /\ vol.tree[c].level = b.level - 1
             /\ n = t.from[c] /\ m = t.upto[c]
             /\ n \in Nat /\ m \in Nat /\ n < m /\ m <= Len(t.items)
             /\ b.keys[i] = t.items[n + 1]
             /\ i < Len(b.keys) => b.keys[i + 1] = t.items[m + 1] /\ m + 1 <= Len(t.items)
<1> DEFINE b == vol.tree[a]
           c == b.ptrs[i]
           n == Before(t, b, i)
           m == Before(t, b, i + 1)
<1>1. /\ b.addr = a /\ Len(b.keys) \in Nat /\ Len(t.items) \in Nat
  BY BlockFacts
<1>2. /\ c \in DOMAIN t.from /\ vol.tree[c].level = b.level - 1
      /\ t.from[c] < t.upto[c] /\ b.keys[i] = t.items[t.from[c] + 1]
  BY SMTT(40), ChildFacts
<1>3. t.from[c] \in Nat /\ t.upto[c] \in Nat /\ t.upto[c] <= Len(t.items)
  BY <1>2, BlockFacts
<1>4. i \in Nat /\ 1 <= i /\ i <= Len(b.keys)
  BY <1>1
<1>5. n = t.from[c]
  BY <1>4 DEF Before
<1>6. CASE i = Len(b.keys)
  <2>1. ~(i + 1 <= Len(b.keys))
    BY <1>4, <1>6
  <2>2. m = t.upto[a]
    BY <1>1, <2>1 DEF Before
  <2>3. t.upto[b.ptrs[Len(b.keys)]] = t.upto[a]
    BY ChildFacts
  <2>4. m = t.upto[c]
    BY <1>6, <2>2, <2>3
  <2> HIDE DEF b, c, n, m
  <2>5. ~(i < Len(b.keys))
    BY <1>4, <1>6
  <2>6. n \in Nat /\ m \in Nat /\ n < m /\ m <= Len(t.items) /\ b.keys[i] = t.items[n + 1]
    BY <1>2, <1>3, <1>5, <2>4
  <2> QED
    BY <1>2, <1>5, <2>4, <2>5, <2>6 DEF b, c, n, m
<1>7. CASE i # Len(b.keys)
  <2> DEFINE k == i + 1
             d == b.ptrs[k]
  <2>1. k \in 1..Len(b.keys) /\ k # 1 /\ k - 1 = i /\ k <= Len(b.keys)
    BY SMTT(40), <1>1, <1>4, <1>7
  <2> HIDE DEF k
  <2>2. /\ d \in DOMAIN t.from /\ t.from[d] = t.upto[b.ptrs[k - 1]] /\ t.from[d] < t.upto[d]
        /\ b.keys[k] = t.items[t.from[d] + 1]
    BY SMTT(40), <2>1, ChildFacts
  <2>3. t.upto[d] <= Len(t.items) /\ t.upto[d] \in Nat
    BY <2>2, BlockFacts
  <2>4. Before(t, b, k) = t.from[d]
    BY <2>1 DEF Before
  <2>5. m = t.upto[c] /\ m = t.from[d]
    BY SMTT(40), <2>1, <2>2, <2>4 DEF k
  <2>6. b.keys[i + 1] = t.items[m + 1]
    BY <2>2, <2>5 DEF k
  <2> HIDE DEF b, c, n, m, d
  <2>7. m + 1 <= Len(t.items)
    BY <1>1, <1>3, <2>2, <2>3, <2>5
  <2> QED
    BY <1>1, <1>2, <1>3, <1>4, <1>5, <2>5, <2>6, <2>7 DEF b, c, n, m
<1> QED
  BY <1>6, <1>7

\* Past its last item, all of a block's items are behind.
LEMMA BeforeEnd ==
  ASSUME NEW t, Written(vol, t), NEW a \in DOMAIN t.from
  PROVE  Before(t, vol.tree[a], Len(vol.tree[a].keys) + 1) = t.upto[a]
<1> DEFINE b == vol.tree[a]
<1>1. /\ b.addr = a /\ Len(b.keys) \in Nat /\ t.from[a] \in Nat /\ t.upto[a] \in Nat
  BY BlockFacts
<1>2. CASE b.level = 0
  <2>1. Len(b.keys) = t.upto[a] - t.from[a]
    BY <1>2, LeafFacts
  <2> QED
    BY <1>1, <1>2, <2>1 DEF Before
<1>3. CASE b.level # 0
  BY <1>1, <1>3 DEF Before
<1> QED
  BY <1>2, <1>3

-----------------------------------------------------------------------------
(* What has been shown *)

\* The items of a tree are numbers that ascend.
LEMMA ItemFacts ==
  ASSUME NEW t, Written(vol, t)
  PROVE  /\ Len(t.items) \in Nat /\ DOMAIN t.items = 1..Len(t.items)
         /\ \A i \in 1..Len(t.items) : t.items[i] \in Nat /\ t.items[i] <= MaxKey
         /\ \A i, j \in 1..Len(t.items) : i < j => t.items[i] < t.items[j]
<1>1. t.items \in Seq(0..MaxKey)
      /\ \A i, j \in 1..Len(t.items) : i < j => t.items[i] < t.items[j]
  BY DEF Written
<1>2. Len(t.items) \in Nat /\ DOMAIN t.items = 1..Len(t.items)
      /\ \A i \in 1..Len(t.items) : t.items[i] \in 0..MaxKey
  BY <1>1, ElementOfSeq, LenProperties
<1>3. MaxKey \in Nat
  BY WalkAssumption
<1> QED
  BY <1>1, <1>2, <1>3

\* What may be shown of a tree's first items.
First(t, n) == {k \in {t.items[i] : i \in 1..n} : range[1] <= k /\ k <= range[2]}

\* Items below the range need not be shown.
LEMMA SeenMore ==
  ASSUME NEW t, Written(vol, t), NEW n \in Nat, NEW m \in Nat, n <= m, m <= Len(t.items),
         range[1] \in Nat, m # 0 => t.items[m] < range[1], ShownUpTo(t, n)
  PROVE  ShownUpTo(t, m)
<1>1. ASSUME NEW i \in 1..m PROVE ~(range[1] <= t.items[i])
  <2>1. i \in 1..Len(t.items) /\ m \in 1..Len(t.items) /\ Len(t.items) \in Nat
    BY ItemFacts
  <2>2. i = m \/ t.items[i] < t.items[m]
    BY <2>1, ItemFacts
  <2>3. t.items[i] \in Nat /\ t.items[m] \in Nat /\ t.items[m] < range[1]
    BY <2>1, ItemFacts
  <2> QED
    BY <2>2, <2>3
<1>2. First(t, n) = {} /\ First(t, m) = {}
  BY <1>1 DEF First
<1> QED
  BY <1>2 DEF ShownUpTo, First

\* The next item, if it is in the range, is shown after those before it.
LEMMA SeenKey ==
  ASSUME NEW t, Written(vol, t), NEW n \in Nat, n + 1 \in 1..Len(t.items),
         out \in Seq(Nat), Ascends, ShownUpTo(t, n), NEW k, k = t.items[n + 1],
         range[1] <= k, k <= range[2], out' = Append(out, k), range' = range
  PROVE  out' \in Seq(Nat) /\ Ascends' /\ ShownUpTo(t, n + 1)'
<1> DEFINE l == Len(out)
<1>1. k \in Nat /\ Len(t.items) \in Nat
  BY ItemFacts
<1>2. /\ out' \in Seq(Nat) /\ l \in Nat /\ DOMAIN out = 1..l /\ DOMAIN out' = 1..(l + 1)
      /\ \A i \in 1..l : out'[i] = out[i] /\ out[i] \in Nat
      /\ out'[l + 1] = k
  BY <1>1
<1>3. ASSUME NEW i \in 1..l PROVE out[i] < k
  <2>1. out[i] \in Range(out)
    BY <1>2 DEF Range
  <2>2. PICK j \in 1..n : out[i] = t.items[j]
    BY <2>1 DEF ShownUpTo
  <2>3. j \in 1..Len(t.items) /\ j < n + 1
    BY <1>1
  <2> QED
    BY <2>2, <2>3, ItemFacts
<1> HIDE DEF l
<1>4. Ascends'
  <2> SUFFICES ASSUME NEW i \in 1..(l + 1), NEW j \in 1..(l + 1), i < j
               PROVE  out'[i] < out'[j]
    BY <1>2 DEF Ascends
  <2>1. CASE j = l + 1
    <3>1. i \in 1..l
      BY <1>2, <2>1
    <3> QED
      BY <1>2, <1>3, <2>1, <3>1
  <2>2. CASE j # l + 1
    <3>1. i \in 1..l /\ j \in 1..l
      BY <1>2, <2>2
    <3>2. out[i] < out[j]
      BY <1>2, <3>1 DEF Ascends
    <3> QED
      BY <1>2, <3>1, <3>2
  <2> QED
    BY <2>1, <2>2
<1>5. Range(out') = Range(out) \cup {k}
  <2>1. \A i \in 1..(l + 1) : i \in 1..l \/ i = l + 1
    BY <1>2
  <2>2. \A i \in 1..l : i \in 1..(l + 1)
    BY <1>2
  <2>3. l + 1 \in 1..(l + 1)
    BY <1>2
  <2> HIDE DEF l
  <2> QED
    BY <1>2, <2>1, <2>2, <2>3 DEF Range
<1>6. First(t, n + 1) = First(t, n) \cup {k}
  <2>1. \A i : i \in 1..(n + 1) <=> i \in 1..n \/ i = n + 1
    OBVIOUS
  <2> QED
    BY <2>1 DEF First
<1>7. Range(out) = First(t, n)
  BY DEF ShownUpTo, First
<1>8. ShownUpTo(t, n + 1)'
  BY <1>5, <1>6, <1>7 DEF ShownUpTo, First
<1> QED
  BY <1>2, <1>4, <1>8

\* Nothing that is left is in the range.
LEMMA SeenAll ==
  ASSUME NEW t, Written(vol, t), NEW n \in Nat, n <= Len(t.items), ShownUpTo(t, n),
         range[2] \in Nat, n = Len(t.items) \/ t.items[n + 1] > range[2]
  PROVE  InRange(t) \subseteq Range(out)
<1> SUFFICES ASSUME NEW k \in InRange(t) PROVE k \in Range(out)
  OBVIOUS
<1>1. PICK i \in 1..Len(t.items) : k = t.items[i]
  BY ItemFacts DEF InRange, Range
<1>2. range[1] <= k /\ k <= range[2]
  BY DEF InRange
<1>3. Len(t.items) \in Nat /\ t.items[i] \in Nat
  BY ItemFacts
<1>4. i \in 1..n
  <2>1. SUFFICES ASSUME n < i PROVE FALSE
    BY <1>3
  <2>2. n + 1 \in 1..Len(t.items) /\ (n + 1 < i \/ n + 1 = i)
    BY <1>3, <2>1
  <2>3. t.items[n + 1] \in Nat /\ (n + 1 = i \/ t.items[n + 1] < t.items[i])
    BY <2>2, ItemFacts
  <2>4. t.items[n + 1] > range[2]
    BY <1>3, <2>2
  <2> QED
    BY <1>1, <1>2, <1>3, <2>3, <2>4
<1> QED
  BY <1>1, <1>2, <1>4 DEF ShownUpTo

\* What has been shown on the way is in the range, and nothing before it is left
\* out.
LEMMA SeenOrder ==
  ASSUME NEW t, Written(vol, t), NEW n \in Nat, n <= Len(t.items), ShownUpTo(t, n)
  PROVE  \A i \in DOMAIN out : /\ out[i] \in InRange(t)
                               /\ \A k \in InRange(t) : k < out[i] => k \in Range(out)
<1> SUFFICES ASSUME NEW i \in DOMAIN out
             PROVE  /\ out[i] \in InRange(t)
                    /\ \A k \in InRange(t) : k < out[i] => k \in Range(out)
  OBVIOUS
<1>1. out[i] \in Range(out)
  BY DEF Range
<1>2. PICK j \in 1..n : out[i] = t.items[j]
  BY <1>1 DEF ShownUpTo
<1>3. range[1] <= out[i] /\ out[i] <= range[2]
  BY <1>1 DEF ShownUpTo
<1>4. Len(t.items) \in Nat /\ j \in 1..Len(t.items)
  BY ItemFacts
<1>5. out[i] \in InRange(t)
  BY <1>2, <1>3, <1>4, ItemFacts DEF InRange, Range
<1>6. ASSUME NEW k \in InRange(t), k < out[i] PROVE k \in Range(out)
  <2>1. PICK h \in 1..Len(t.items) : k = t.items[h]
    BY ItemFacts DEF InRange, Range
  <2>2. t.items[h] \in Nat /\ t.items[j] \in Nat /\ t.items[h] < t.items[j]
    BY <1>2, <1>4, <1>6, <2>1, ItemFacts
  <2>3. j < h => t.items[j] < t.items[h]
    BY <1>4, ItemFacts
  <2>4. h \in 1..n
    BY <1>4, <2>2, <2>3
  <2>5. range[1] <= k /\ k <= range[2]
    BY DEF InRange
  <2> QED
    BY <2>1, <2>4, <2>5 DEF ShownUpTo
<1> QED
  BY <1>5, <1>6

-----------------------------------------------------------------------------
(* Where the walk is *)

Stack == frames \in Seq(Frames)

LEMMA TopFacts ==
  ASSUME NEW t, OnTree(t), Stack, frames # <<>>
  PROVE  LET n == Len(frames)
         IN  /\ n \in Nat /\ n \in 1..n /\ n >= 1 /\ Top = frames[n]
             /\ InTree(t, Top)
             /\ Top.node.level + n = vol.tree[t.root].level + 1
<1>1. Len(frames) \in Nat /\ Len(frames) \in 1..Len(frames) /\ Len(frames) >= 1
  BY DEF Stack
<1> QED
  BY <1>1 DEF OnTree, Top, Last

\* The walk is somewhere in the tree's items.
LEMMA ReachedFacts ==
  ASSUME NEW t, Written(vol, t), OnTree(t), Stack
  PROVE  Reached(t) \in Nat /\ Reached(t) <= Len(t.items)
<1>1. CASE want # None
  <2>1. want[1] \in DOMAIN t.from /\ Reached(t) = t.from[want[1]]
    BY <1>1 DEF OnTree, Reached
  <2>2. \A a \in DOMAIN t.from : /\ t.from[a] \in Nat /\ t.upto[a] \in Nat
                                 /\ t.from[a] <= t.upto[a] /\ t.upto[a] <= Len(t.items)
                                 /\ Len(t.items) \in Nat
    BY BlockFacts
  <2> QED
    BY <2>1, <2>2
<1>2. CASE want = None
  <2>1. frames # <<>> /\ Reached(t) = Before(t, Top.node, Top.next)
    BY <1>2 DEF OnTree, Reached
  <2>2. InTree(t, Top)
    BY <2>1, TopFacts
  <2>3. PICK a \in DOMAIN t.from : Top.node = vol.tree[a]
    BY <2>2 DEF InTree
  <2>4. PICK i \in 1..(Len(vol.tree[a].keys) + 1) : i = Top.next
    BY <2>2, <2>3 DEF InTree
  <2>5. /\ Len(vol.tree[a].keys) \in Nat /\ t.upto[a] \in Nat /\ t.upto[a] <= Len(t.items)
        /\ Len(t.items) \in Nat
    BY BlockFacts
  <2>6. CASE i = Len(vol.tree[a].keys) + 1
    BY <2>1, <2>3, <2>4, <2>5, <2>6, BeforeEnd
  <2>7. CASE i \in 1..Len(vol.tree[a].keys)
    <3> DEFINE m == Before(t, vol.tree[a], i)
    <3>1. Reached(t) = m
      BY <2>1, <2>3, <2>4
    <3>2. CASE vol.tree[a].level = 0
      <4>1. m \in Nat /\ m + 1 \in 1..Len(t.items)
        BY <2>7, <3>2, LeafItem
      <4> HIDE DEF m
      <4> QED
        BY <2>5, <3>1, <4>1
    <3>3. CASE vol.tree[a].level # 0
      <4> DEFINE h == Before(t, vol.tree[a], i + 1)
      <4>1. m \in Nat /\ h \in Nat /\ m < h /\ h <= Len(t.items)
        BY <2>7, <3>3, ChildItem
      <4> HIDE DEF m, h
      <4> QED
        BY <2>5, <3>1, <4>1
    <3> QED
      BY <3>2, <3>3
  <2> QED
    BY <2>4, <2>5, <2>6, <2>7
<1> QED
  BY <1>1, <1>2

\* A walk begins at the root, with nothing behind it.
LEMMA Begun ==
  ASSUME vol \in Volumes, NEW t, Written(vol, t), UNCHANGED vol, frames' = <<>>, want' = <<t.root, None>>,
         out' = <<>>
  PROVE  OnTree(t)' /\ Ascends' /\ ShownUpTo(t, Reached(t))' /\ out' \in Seq(Nat)
<1>1. t.root \in DOMAIN t.from /\ t.from[t.root] = 0 /\ t.root \in DOMAIN vol.tree
  BY DEF Written
<1>2. want' # None /\ want'[1] = t.root /\ want'[2] = None
  BY <1>1, NoneIsNoWant
<1>3. OnTree(t)'
  BY <1>1, <1>2 DEF OnTree
<1>4. Reached(t)' = 0
  BY <1>1, <1>2 DEF Reached
<1>5. ShownUpTo(t, 0)'
  BY DEF ShownUpTo, Range
<1> QED
  BY SMTT(40), <1>3, <1>4, <1>5 DEF Ascends, ShownUpTo


\* One level down is one frame further.
LEMMA OneLower ==
  ASSUME NEW x \in Nat, NEW y \in Nat, NEW n \in Nat, x + n = y + 1
  PROVE  (x - 1) + (n + 1) = y + 1
OBVIOUS

\* The block that was wanted is entered at its first item.
LEMMA Arrived ==
  ASSUME NEW t, Written(vol, t), OnTree(t), Stack, UNCHANGED vol, want # None, want' = None,
         frames' = Append(frames, [node |-> vol.tree[want[1]], next |-> 1])
  PROVE  OnTree(t)' /\ Reached(t)' = Reached(t)
<1> DEFINE a == want[1]
           b == vol.tree[a]
           f == [node |-> b, next |-> 1]
           n == Len(frames)
<1>1. a \in DOMAIN t.from /\ t.root \in DOMAIN t.from
  BY DEF OnTree, Written
<1>2. b.addr = a /\ Len(b.keys) \in Nat
  BY <1>1, BlockFacts
<1>3. f.node = b /\ f.next = 1
  OBVIOUS
<1>4. InTree(t, f)
  BY <1>1, <1>2 DEF InTree
<1> HIDE DEF f
<1>5. /\ n \in Nat /\ Len(frames') = n + 1 /\ frames' # <<>>
      /\ \A j \in 1..n : frames'[j] = frames[j]
      /\ frames'[n + 1] = f
  BY DEF Stack, f
<1>6. Top' = f
  BY <1>5 DEF Top, Last
<1>7. b.level + (n + 1) = vol.tree[t.root].level + 1
  <2>1. \A c \in DOMAIN t.from : vol.tree[c].level \in Nat
    BY BlockFacts
  <2>2. CASE frames = <<>>
    BY <1>1, <2>1, <2>2 DEF OnTree
  <2>3. CASE frames # <<>>
    <3> DEFINE g == frames[n]
    <3>1. InTree(t, g) /\ g.node.level + n = vol.tree[t.root].level + 1 /\ n \in Nat
      BY <2>3, TopFacts DEF Top, Last
    <3>2. Below(g, a)
      BY <2>3 DEF OnTree
    <3>3. PICK c \in DOMAIN t.from : g.node = vol.tree[c]
      BY <3>1 DEF InTree
    <3>4. vol.tree[c].level # 0 /\ g.next - 1 \in 1..Len(vol.tree[c].keys)
      <4>1. g.next \in 1..(Len(vol.tree[c].keys) + 1) /\ vol.tree[c].level > 0 /\ g.next > 1
        BY <3>1, <3>2, <3>3 DEF InTree, Below
      <4>2. Len(vol.tree[c].keys) \in Nat /\ vol.tree[c].level \in Nat
        BY BlockFacts
      <4> QED
        BY SMTT(40), <4>1, <4>2
    <3>5. PICK i \in 1..Len(vol.tree[c].keys) : i = g.next - 1
      BY <3>4
    <3>6. a = vol.tree[c].ptrs[i]
      BY <3>2, <3>3, <3>5 DEF Below
    <3>7. b.level = vol.tree[c].level - 1
      BY <3>4, <3>6, ChildFacts
    <3>8. vol.tree[c].level \in Nat /\ vol.tree[t.root].level \in Nat
      BY <1>1, <2>1
    <3>9. vol.tree[c].level + n = vol.tree[t.root].level + 1 /\ n \in Nat
      BY <3>1, <3>3
    <3> HIDE DEF b, n, g
    <3>10. (vol.tree[c].level - 1) + (n + 1) = vol.tree[t.root].level + 1
      BY <3>8, <3>9, OneLower
    <3> QED
      BY <3>7, <3>10, Zenon
  <2> QED
    BY <2>2, <2>3
<1>8. ASSUME NEW j \in 1..(n + 1)
      PROVE  InTree(t, frames'[j]) /\ frames'[j].node.level + j = vol.tree[t.root].level + 1
  <2>1. CASE j = n + 1
    BY <1>3, <1>4, <1>5, <1>7, <2>1
  <2>2. CASE j \in 1..n
    BY <1>5, <2>2 DEF OnTree
  <2> QED
    BY <1>5, <2>1, <2>2
<1>9. ASSUME NEW j \in 1..n PROVE Below(frames'[j], frames'[j + 1].node.addr)
  <2>1. CASE j = n
    <3>1. frames # <<>> /\ Below(frames[n], a)
      BY <1>5, <2>1 DEF OnTree
    <3> QED
      BY <1>2, <1>3, <1>5, <2>1, <3>1
  <2>2. CASE j # n
    <3>1. j \in 1..(n - 1) /\ j + 1 \in 1..n
      BY <1>5, <2>2
    <3> QED
      BY <1>5, <3>1 DEF OnTree
  <2> QED
    BY <2>1, <2>2
<1>10. frames'[1].node.addr = t.root
  <2>1. CASE frames = <<>>
    BY <1>2, <1>3, <1>5, <2>1 DEF OnTree
  <2>2. CASE frames # <<>>
    <3>1. 1 \in 1..n
      BY <2>2, <1>5 DEF Stack
    <3> QED
      BY <1>5, <2>2, <3>1 DEF OnTree
  <2> QED
    BY <2>1, <2>2
<1>11. OnTree(t)'
  <2>1. 1..(Len(frames') - 1) = 1..n
    BY <1>5
  <2>2. (\A j \in 1..Len(frames) :
           InTree(t, frames[j]) /\ frames[j].node.level + j = vol.tree[t.root].level + 1)'
    BY <1>5, <1>8 DEF InTree
  <2> HIDE DEF n
  <2> QED
    BY <1>5, <1>9, <1>10, <2>1, <2>2 DEF OnTree, Below
<1>12. Reached(t)' = Before(t, b, 1)
  BY <1>3, <1>6 DEF Reached, Before
<1>13. Before(t, b, 1) = t.from[a]
  BY <1>1, BeforeFirst
<1> QED
  BY SMTT(40), <1>11, <1>12, <1>13 DEF Reached


\* The innermost frame goes on to its next item; what is wanted is then nothing,
\* or the child it was at.
LEMMA AdvancedFrames ==
  ASSUME Stack, frames # <<>>, frames' = Advance
  PROVE  LET n == Len(frames)
         IN  /\ Len(frames') = n /\ n \in Nat /\ n \in 1..n /\ n >= 1 /\ frames' # <<>>
             /\ \A j \in 1..n : frames'[j].node = frames[j].node
             /\ \A j \in 1..n : j # n => frames'[j] = frames[j]
             /\ frames'[n].next = frames[n].next + 1
<1> DEFINE n == Len(frames)
<1>0. /\ n \in Nat /\ n \in 1..n /\ n >= 1 /\ DOMAIN frames = 1..n
      /\ frames[n] \in Frames
  BY DEF Stack
<1>1. /\ n \in Nat /\ n \in 1..n /\ n >= 1 /\ DOMAIN frames = 1..n
      /\ frames[n] \in [node : Blocks, next : Nat]
  BY <1>0 DEF Frames
<1>2. frames' = [j \in 1..n |-> IF j = n THEN [frames[n] EXCEPT !.next = @ + 1] ELSE frames[j]]
  BY <1>1 DEF Advance
<1>3. DOMAIN frames' = 1..n /\ Len(frames') = n
  BY <1>1, <1>2
<1>4. frames'[n] = [frames[n] EXCEPT !.next = @ + 1]
  BY <1>1, <1>2
<1> HIDE DEF n
<1>5. frames'[n].node = frames[n].node /\ frames'[n].next = frames[n].next + 1
  BY <1>1, <1>4
<1>6. \A j \in 1..n : j # n => frames'[j] = frames[j]
  BY <1>2
<1>7. \A j \in 1..n : frames'[j].node = frames[j].node
  BY <1>5, <1>6
<1>8. frames' # <<>>
  BY <1>1, <1>3
<1> QED
  BY <1>1, <1>3, <1>5, <1>6, <1>7, <1>8 DEF n

LEMMA MovedOn ==
  ASSUME NEW t, Written(vol, t), OnTree(t), Stack, UNCHANGED vol, want = None,
         Top.next <= Len(Top.node.keys), frames' = Advance,
         \/ want' = None
         \/ /\ Top.node.level > 0 /\ want' # None
            /\ want'[1] = Top.node.ptrs[Top.next] /\ want'[2] = Top.node.level - 1
  PROVE  /\ OnTree(t)'
         /\ want' = None => Reached(t)' = Before(t, Top.node, Top.next + 1)
<1> DEFINE n == Len(frames)
<1>0. frames # <<>>
  BY DEF OnTree
<1>1. /\ Len(frames') = n /\ n \in Nat /\ n \in 1..n /\ n >= 1 /\ frames' # <<>>
      /\ \A j \in 1..n : frames'[j].node = frames[j].node
      /\ \A j \in 1..n : j # n => frames'[j] = frames[j]
      /\ frames'[n].next = frames[n].next + 1
  BY <1>0, AdvancedFrames
<1>2. Top = frames[n] /\ Top' = frames'[n]
  BY <1>1 DEF Top, Last
<1>3. /\ InTree(t, Top) /\ Top.next \in 1..Len(Top.node.keys)
      /\ (Top.node.level # 0 => Top.node.ptrs[Top.next] \in DOMAIN t.from)
  <2>1. InTree(t, Top)
    BY <1>0, TopFacts
  <2>2. PICK a \in DOMAIN t.from : Top.node = vol.tree[a]
    BY <2>1 DEF InTree
  <2>3. Len(vol.tree[a].keys) \in Nat
    BY BlockFacts
  <2>4. Top.next \in 1..(Len(vol.tree[a].keys) + 1)
    BY <2>1, <2>2 DEF InTree
  <2>5. Top.next \in 1..Len(Top.node.keys)
    BY <2>2, <2>3, <2>4
  <2>6. PICK i \in 1..Len(vol.tree[a].keys) : i = Top.next
    BY SMTT(40), <2>2, <2>5
  <2>7. ASSUME Top.node.level # 0 PROVE vol.tree[a].ptrs[i] \in DOMAIN t.from
    <3>1. vol.tree[a].level # 0
      BY <2>2, <2>7
    <3> QED
      BY <3>1, ChildFacts
  <2> QED
    BY <2>1, <2>2, <2>5, <2>6, <2>7
<1> HIDE DEF n
<1>4. ASSUME NEW j \in 1..n
      PROVE  InTree(t, frames'[j]) /\ frames'[j].node.level + j = vol.tree[t.root].level + 1
  <2>1. InTree(t, frames[j]) /\ frames[j].node.level + j = vol.tree[t.root].level + 1
    BY DEF OnTree, n
  <2>2. frames'[j].node = frames[j].node
    BY <1>1
  <2>3. frames'[j].next \in 1..(Len(frames'[j].node.keys) + 1)
    <3>1. CASE j = n
      <4>1. Len(Top.node.keys) \in Nat
        <5>1. PICK a \in DOMAIN t.from : Top.node = vol.tree[a]
          BY <1>3 DEF InTree
        <5> QED
          BY <5>1, BlockFacts
      <4> QED
        BY <1>1, <1>2, <1>3, <3>1, <4>1
    <3>2. CASE j # n
      BY <1>1, <2>1, <3>2 DEF InTree
    <3> QED
      BY <3>1, <3>2
  <2> QED
    BY <2>1, <2>2, <2>3 DEF InTree
<1>5. ASSUME NEW j \in 1..(n - 1) PROVE Below(frames'[j], frames'[j + 1].node.addr)
  <2>1. j \in 1..n /\ j # n /\ j + 1 \in 1..n
    BY <1>1
  <2>2. frames'[j] = frames[j] /\ frames'[j + 1].node = frames[j + 1].node
    BY <1>1, <2>1
  <2> QED
    BY <2>2 DEF OnTree, n
<1>6. frames'[1].node.addr = t.root
  BY <1>0, <1>1 DEF OnTree
<1>7. CASE want' = None
  <2>1. Reached(t)' = Before(t, Top.node, Top.next + 1)
    BY <1>1, <1>2, <1>7 DEF Reached
  <2>2. (\A j \in 1..Len(frames) :
           InTree(t, frames[j]) /\ frames[j].node.level + j = vol.tree[t.root].level + 1)'
    BY <1>1, <1>4 DEF InTree
  <2>3. OnTree(t)'
    BY <1>1, <1>5, <1>6, <1>7, <2>2 DEF OnTree, Below
  <2> QED
    BY <2>1, <2>3
<1>8. CASE want' # None
  <2>1. Top.node.level > 0 /\ want'[1] = Top.node.ptrs[Top.next] /\ want'[2] = Top.node.level - 1
    BY <1>8
  <2>2. (\A j \in 1..Len(frames) :
           InTree(t, frames[j]) /\ frames[j].node.level + j = vol.tree[t.root].level + 1)'
    BY <1>1, <1>4 DEF InTree
  <2>3. want'[1] \in DOMAIN t.from
    BY <1>3, <2>1
  <2>4. Below(frames'[n], want'[1]) /\ want'[2] = frames'[n].node.level - 1
    <3>1. frames'[n].node = Top.node /\ frames'[n].next = Top.next + 1
      BY <1>1, <1>2
    <3>2. Top.next + 1 > 1 /\ (Top.next + 1) - 1 = Top.next
      BY <1>3
    <3> QED
      BY <2>1, <3>1, <3>2 DEF Below
  <2>5. OnTree(t)'
    BY <1>1, <1>5, <1>6, <1>8, <2>2, <2>3, <2>4 DEF OnTree, Below
  <2> QED
    BY <1>8, <2>5
<1> QED
  BY <1>7, <1>8

\* A block that is done gives way to its parent, which has it behind.
LEMMA WentBack ==
  ASSUME NEW t, Written(vol, t), OnTree(t), Stack, UNCHANGED <<vol, want>>, want = None,
         Top.next > Len(Top.node.keys), Len(frames) # 1, frames' = Front(frames)
  PROVE  OnTree(t)' /\ Reached(t)' = Reached(t)
<1> DEFINE n == Len(frames)
           g == frames[n - 1]
<1>0. frames # <<>>
  BY DEF OnTree
<1>1. /\ n \in Nat /\ n - 1 \in 1..n /\ n - 1 \in 1..(n - 1) /\ (n - 1) + 1 = n
      /\ Len(frames') = n - 1 /\ frames' # <<>> /\ Top' = g /\ Top = frames[n]
      /\ \A j \in 1..(n - 1) : j \in 1..n /\ frames'[j] = frames[j]
  <2>1. n \in Nat /\ n # 0 /\ n # 1 /\ frames \in Seq(Frames)
    BY <1>0 DEF Stack
  <2>2. frames' = SubSeq(frames, 1, n - 1)
    BY DEF Front
  <2> HIDE DEF n
  <2>3. n - 1 \in 1..n /\ n - 1 \in 1..(n - 1) /\ (n - 1) + 1 = n /\ n - 1 \in Nat
    BY <2>1
  <2>4. \A j \in 1..(n - 1) : j \in 1..n
    BY <2>1
  <2>5. Len(frames') = n - 1 /\ \A j \in 1..(n - 1) : frames'[j] = frames[j]
    BY <2>1, <2>2, <2>3 DEF n
  <2>6. frames' # <<>>
    <3>1. Len(<<>>) = 0
      BY EmptySeq
    <3> QED
      BY <2>1, <2>5, <3>1
  <2>7. Top' = g /\ Top = frames[n]
    BY <2>5, <2>3 DEF Top, Last, n
  <2> QED
    BY <2>1, <2>3, <2>4, <2>5, <2>6, <2>7
<1>2. /\ InTree(t, Top) /\ InTree(t, g) /\ Below(g, Top.node.addr)
  <2>1. InTree(t, frames[n]) /\ InTree(t, frames[n - 1])
    <3>1. n - 1 \in 1..n /\ n \in 1..n
      BY <1>1
    <3> QED
      BY <3>1 DEF OnTree
  <2>2. Below(frames[n - 1], frames[(n - 1) + 1].node.addr)
    BY <1>1 DEF OnTree
  <2> QED
    BY <1>1, <2>1, <2>2
<1>3. PICK a \in DOMAIN t.from : Top.node = vol.tree[a] /\ a = Top.node.addr
  BY <1>2 DEF InTree
<1>4. Reached(t) = t.upto[a]
  <2>1. Len(vol.tree[a].keys) \in Nat
    BY BlockFacts
  <2>2. Top.next = Len(vol.tree[a].keys) + 1
    BY SMTT(40), <1>2, <1>3, <2>1 DEF InTree
  <2> QED
    BY <1>3, <2>2, BeforeEnd DEF Reached
<1>5. Reached(t)' = t.upto[a]
  <2>1. PICK c \in DOMAIN t.from : g.node = vol.tree[c]
    BY <1>2 DEF InTree
  <2>2. Len(vol.tree[c].keys) \in Nat /\ vol.tree[c].level \in Nat
    BY BlockFacts
  <2>3. /\ g.next \in 1..(Len(vol.tree[c].keys) + 1) /\ g.next > 1 /\ vol.tree[c].level > 0
        /\ a = vol.tree[c].ptrs[g.next - 1]
    BY <1>2, <1>3, <2>1 DEF InTree, Below
  <2>4. g.next - 1 \in 1..Len(vol.tree[c].keys) /\ (g.next - 1) + 1 = g.next
        /\ vol.tree[c].level # 0
    BY <2>2, <2>3
  <2>5. PICK i \in 1..Len(vol.tree[c].keys) : i = g.next - 1
    BY <2>4
  <2>6. Before(t, vol.tree[c], i + 1) = t.upto[vol.tree[c].ptrs[i]]
    BY <2>4, ChildItem
  <2>7. Reached(t)' = Before(t, g.node, g.next)
    BY <1>1 DEF Reached
  <2> QED
    BY <2>1, <2>3, <2>4, <2>5, <2>6, <2>7
<1> HIDE DEF n, g
<1>6. (\A j \in 1..Len(frames) :
         InTree(t, frames[j]) /\ frames[j].node.level + j = vol.tree[t.root].level + 1)'
  BY <1>1 DEF OnTree, InTree, n
<1>7. (\A j \in 1..(Len(frames) - 1) : Below(frames[j], frames[j + 1].node.addr))'
  <2> SUFFICES ASSUME NEW j \in 1..(n - 2)
               PROVE  Below(frames'[j], frames'[j + 1].node.addr)
    BY <1>1 DEF Below
  <2>1. j \in 1..(n - 1) /\ j + 1 \in 1..(n - 1)
    BY <1>1
  <2> QED
    BY <1>1, <2>1 DEF OnTree, n
<1>8. frames'[1].node.addr = t.root
  <2>1. 1 \in 1..(n - 1)
    BY <1>1
  <2> QED
    BY <1>0, <1>1, <2>1 DEF OnTree
<1> QED
  BY <1>1, <1>4, <1>5, <1>6, <1>7, <1>8 DEF OnTree

-----------------------------------------------------------------------------
(* Opening a sound volume *)

Good == vol \in Volumes /\ vol.kind = "sound"

\* The order that has no infinite descent.
Less == OpToRel(<, Nat)

\* Of some naturals there is a least, and a greatest if they are bounded.
LEMMA LeastOf ==
  ASSUME NEW S \in SUBSET Nat, S # {}
  PROVE  \E n \in S : \A m \in S : n <= m
<1>1. IsWellFoundedOn(Less, Nat)
  BY NatLessThanWellFounded DEF Less
<1>2. PICK n \in S : \A m \in S : ~(<<m, n>> \in Less)
  BY <1>1, WFMin
<1>3. Less = {ss \in Nat \X Nat : ss[1] < ss[2]}
  BY Zenon DEF Less, OpToRel
<1>4. \A m, k \in Nat : <<m, k>> \in Less <=> m < k
  BY <1>3
<1>5. n \in Nat /\ \A m \in S : m \in Nat /\ ~(m < n)
  BY <1>2, <1>4
<1>6. \A m \in S : n <= m
  BY <1>5
<1> QED
  BY <1>6

LEMMA GreatestOf ==
  ASSUME NEW S \in SUBSET Nat, S # {}, NEW b \in Nat, \A n \in S : n <= b
  PROVE  Greatest(S) \in S
<1> DEFINE R == {b - n : n \in S}
<1>1. R \in SUBSET Nat /\ R # {}
  <2>1. \A n \in S : b - n \in Nat
    OBVIOUS
  <2> QED
    BY <2>1
<1>2. PICK r \in R : \A m \in R : r <= m
  BY <1>1, LeastOf
<1>3. PICK n \in S : r = b - n
  OBVIOUS
<1>4. ASSUME NEW m \in S PROVE m <= n
  <2>1. b - m \in R /\ m \in Nat /\ n \in Nat
    OBVIOUS
  <2>2. b - n <= b - m
    BY <1>2, <1>3, <2>1
  <2> QED
    BY <2>1, <2>2
<1> QED
  BY <1>4 DEF Greatest

\* Every chunk of a list is in the map it joins, or another of the same start.
Joins(map, list) ==
  \A i \in DOMAIN list : /\ list[i].start \in DOMAIN map
                         /\ \E j \in DOMAIN list : /\ list[j].start = list[i].start
                                                   /\ map[list[i].start] = list[j]
Chunks(list) == \A i \in DOMAIN list : HasStripes(list[i])

LEMMA Joined ==
  ASSUME NEW map, Maps(map), NEW C, NEW list \in Seq(C), Chunks(list)
  PROVE  Maps(WithChunks(map, list)) /\ Joins(WithChunks(map, list), list)
<1> DEFINE new == WithChunks(map, list)
           of(s) == {i \in DOMAIN list : list[i].start = s}
           starts == {c.start : c \in Range(list)}
<1>1. DOMAIN list = 1..Len(list) /\ Len(list) \in Nat
  OBVIOUS
<1>2. /\ DOMAIN new = DOMAIN map \cup starts
      /\ \A s \in DOMAIN new : new[s] = IF of(s) = {} THEN map[s] ELSE list[Greatest(of(s))]
  BY DEF WithChunks
<1>3. ASSUME NEW s, of(s) # {} PROVE Greatest(of(s)) \in of(s)
  <2>1. of(s) \in SUBSET Nat /\ \A i \in of(s) : i <= Len(list)
    BY <1>1
  <2> HIDE DEF of
  <2> QED
    BY <1>1, <1>3, <2>1, GreatestOf
<1> HIDE DEF new
<1>4. ASSUME NEW i \in DOMAIN list PROVE list[i].start \in starts /\ i \in of(list[i].start)
  BY DEF Range
<1>5. ASSUME NEW s \in starts PROVE of(s) # {}
  BY <1>4 DEF Range
<1>6. ASSUME NEW s \in DOMAIN new PROVE s \in Nat /\ DOMAIN new[s].stripes \subseteq Nat
  <2>1. CASE of(s) = {}
    <3>1. s \in DOMAIN map /\ new[s] = map[s]
      BY <1>2, <1>5, <2>1
    <3> QED
      BY <3>1 DEF Maps
  <2>2. CASE of(s) # {}
    <3>1. PICK i \in DOMAIN list : list[i].start = s /\ new[s] = list[i]
      BY <1>2, <1>3, <2>2
    <3> QED
      BY <3>1 DEF HasStripes, Chunks
  <2> QED
    BY <2>1, <2>2
<1>7. ASSUME NEW i \in DOMAIN list
      PROVE  /\ list[i].start \in DOMAIN new
             /\ \E j \in DOMAIN list : /\ list[j].start = list[i].start
                                       /\ new[list[i].start] = list[j]
  <2>1. list[i].start \in DOMAIN new /\ of(list[i].start) # {}
    BY <1>2, <1>4
  <2>2. Greatest(of(list[i].start)) \in of(list[i].start)
    BY <1>3, <2>1
  <2> QED
    BY <1>2, <2>1, <2>2
<1> QED
  BY <1>6, <1>7 DEF new, Maps, Joins

LEMMA PathFacts ==
  ASSUME vol \in Volumes
  PROVE  /\ Len(vol.paths) \in Nat /\ Len(vol.paths) # 0
         /\ DOMAIN vol.paths = 1..Len(vol.paths)
         /\ \A i \in 1..Len(vol.paths) :
              /\ vol.paths[i] \in Range(vol.paths)
              /\ vol.supers[vol.paths[i]] # None =>
                   LET super == vol.supers[vol.paths[i]]
                   IN  /\ super.generation \in Nat
                       /\ super.sys \in Seq(Range(super.sys))
                       /\ \A c \in Range(super.sys) : HasStripes(c)
<1>1. vol.paths \in Seq(Range(vol.paths)) /\ vol.paths # <<>>
  BY VolumesAssumption
<1>2. /\ Len(vol.paths) \in Nat /\ Len(vol.paths) # 0
      /\ DOMAIN vol.paths = 1..Len(vol.paths)
      /\ \A i \in 1..Len(vol.paths) : vol.paths[i] \in Range(vol.paths)
  BY <1>1
<1>3. ASSUME NEW i \in 1..Len(vol.paths), vol.supers[vol.paths[i]] # None
      PROVE  LET super == vol.supers[vol.paths[i]]
             IN  /\ super.generation \in Nat
                 /\ super.sys \in Seq(Range(super.sys))
                 /\ \A c \in Range(super.sys) : HasStripes(c)
  BY SMTT(40), <1>2, <1>3, VolumesAssumption
<1> QED
  BY <1>2, <1>3

\* The superblock that is believed is one of the newest, and what it says of a
\* sound volume is so.
LEMMA SoundFacts ==
  ASSUME Good, OfFirst(Len(vol.paths))
  PROVE  /\ Written(vol, vol.chunkTree) /\ Written(vol, vol.fsTree)
         /\ sb.chunk_root = vol.chunkTree.root /\ sb.root = vol.fsTree.root
         /\ \A b \in Blocks : /\ b.addr \in DOMAIN vol.tree
                              /\ sb.sums => b.sum
                              /\ ~b.crowded
                              => b = vol.tree[b.addr]
         /\ \A i \in DOMAIN vol.paths :
              vol.supers[vol.paths[i]].generation <= sb.generation
<1>1. DOMAIN vol.paths = 1..Len(vol.paths)
  BY PathFacts DEF Good
<1>2. /\ \A i \in DOMAIN vol.paths : vol.supers[vol.paths[i]].generation <= sb.generation
      /\ \E i \in DOMAIN vol.paths : sb = vol.supers[vol.paths[i]]
  BY <1>1 DEF OfFirst
<1>3. sb \in Newest(vol)
  BY <1>2 DEF Newest
<1>4. /\ Written(vol, vol.chunkTree) /\ Written(vol, vol.fsTree)
      /\ sb.chunk_root = vol.chunkTree.root /\ sb.root = vol.fsTree.root
      /\ \A p \in DOMAIN vol.blocks :
           LET b == vol.blocks[p]
           IN  /\ b # None /\ b.addr \in DOMAIN vol.tree
               /\ (sb.sums => b.sum) /\ ~b.crowded
               => b = vol.tree[b.addr]
  BY <1>3, SoundAssumption DEF Good
<1> QED
  BY <1>2, <1>4 DEF Blocks

LEMMA OpenDeviceSound ==
  ASSUME Good, SoundInv, OpenDevice
  PROVE  SoundInv'
<1>1. vol' = vol /\ stage = "devices" /\ Starting /\ UNCHANGED <<nodes, found, res>>
  BY DEF OpenDevice, SoundInv, Good
<1>2. CASE Fail
  BY <1>2 DEF Fail, SoundInv
<1>3. CASE ~Fail
  <2> DEFINE path == Head(given)
             super == vol.supers[path]
             N == Len(vol.paths)
  <2>1. /\ given # <<>> /\ super # None /\ given' = Tail(given) /\ stage' = "devices"
        /\ sb' = IF sb = None \/ super.generation > sb.generation THEN super ELSE sb
    BY <1>1, <1>3 DEF OpenDevice, Parses, Newer
  <2>2. PICK n \in 0..N : Opening(n)
    BY <1>1 DEF Starting
  <2>3. N \in Nat /\ given \in Seq(Range(vol.paths)) /\ Len(given) = N - n
        /\ \A i \in 1..Len(given) : given[i] = vol.paths[n + i]
    BY <2>2, PathFacts DEF Opening, Good
  <2>4. n + 1 \in 1..N /\ n + 1 \in 0..N /\ path = vol.paths[n + 1]
    <3>1. Len(given) \in Nat /\ Len(given) # 0 /\ path = given[1]
      BY <2>1, <2>3
    <3>2. 1 \in 1..Len(given)
      BY <3>1
    <3> QED
      BY <2>3, <3>1, <3>2
  <2>5. /\ given' \in Seq(Range(vol.paths)) /\ Len(given') = N - (n + 1)
        /\ \A i \in 1..Len(given') : given'[i] = vol.paths[(n + 1) + i]
    <3>1. /\ given' \in Seq(Range(vol.paths)) /\ Len(given') = Len(given) - 1
          /\ \A i \in 1..Len(given') : given'[i] = given[i + 1]
      BY <2>1, <2>3
    <3>2. \A i \in 1..Len(given') : i + 1 \in 1..Len(given) /\ n + (i + 1) = (n + 1) + i
      BY <2>3, <3>1
    <3> QED
      BY <2>3, <3>1, <3>2
  <2>6. super.generation \in Nat
    BY <2>1, <2>4, PathFacts DEF Good
  <2>7. OfFirst(n + 1)'
    <3>1. CASE n = 0
      <4>1. sb = None /\ 1..(n + 1) = {n + 1} /\ n + 1 \in 1..(n + 1)
        BY <2>2, <3>1 DEF Opening
      <4>2. sb' = super
        BY <2>1, <4>1
      <4> QED
        BY <1>1, <2>1, <2>4, <2>6, <4>1, <4>2 DEF OfFirst
    <3>2. CASE n # 0
      <4>1. OfFirst(n)
        BY <2>2, <3>2 DEF Opening
      <4>2. PICK h \in 1..n : sb = vol.supers[vol.paths[h]]
        BY <4>1 DEF OfFirst
      <4>3. h \in 1..N
        BY <2>3
      <4>4. sb # None /\ sb.generation \in Nat
        BY <4>1, <4>2, <4>3, PathFacts DEF Good, OfFirst
      <4>5. \A i \in 1..n : /\ vol.supers[vol.paths[i]] # None
                            /\ vol.supers[vol.paths[i]].generation \in Nat
                            /\ vol.supers[vol.paths[i]].generation <= sb.generation
        <5> SUFFICES ASSUME NEW i \in 1..n
                     PROVE  /\ vol.supers[vol.paths[i]] # None
                            /\ vol.supers[vol.paths[i]].generation \in Nat
                            /\ vol.supers[vol.paths[i]].generation <= sb.generation
          OBVIOUS
        <5>1. i \in 1..N
          BY <2>3
        <5> QED
          BY <4>1, <5>1, PathFacts DEF Good, OfFirst
      <4>6. sb' # None /\ sb'.generation \in Nat /\ sb.generation <= sb'.generation
            /\ super.generation <= sb'.generation /\ sb' \in {super, sb}
        BY <2>1, <2>6, <4>4
      <4>7. \A i \in 1..(n + 1) : i \in 1..n \/ i = n + 1
        BY <2>2
      <4>8. \A i \in 1..(n + 1) : /\ vol.supers[vol.paths[i]] # None
                                  /\ vol.supers[vol.paths[i]].generation <= sb'.generation
        <5> SUFFICES ASSUME NEW i \in 1..(n + 1)
                     PROVE  /\ vol.supers[vol.paths[i]] # None
                            /\ vol.supers[vol.paths[i]].generation <= sb'.generation
          OBVIOUS
        <5>1. CASE i \in 1..n
          BY <4>4, <4>5, <4>6, <5>1
        <5>2. CASE i = n + 1
          BY <2>1, <2>4, <4>6, <5>2
        <5> QED
          BY <4>7, <5>1, <5>2
      <4>9. \E i \in 1..(n + 1) : sb' = vol.supers[vol.paths[i]]
        <5>1. h \in 1..(n + 1) /\ n + 1 \in 1..(n + 1)
          BY <2>2
        <5> QED
          BY <2>4, <4>2, <4>6, <5>1
      <4> QED
        BY <1>1, <4>6, <4>8, <4>9 DEF OfFirst
    <3> QED
      BY <3>1, <3>2
  <2>8. Opening(n + 1)'
    BY <1>1, <2>2, <2>5, <2>7 DEF Opening
  <2>9. Starting'
    BY <1>1, <2>4, <2>8 DEF Starting
  <2> QED
    BY <2>1, <2>9 DEF SoundInv
<1> QED
  BY <1>2, <1>3

LEMMA BootstrapSound ==
  ASSUME Good, SoundInv, Bootstrap
  PROVE  SoundInv'
<1>1. /\ vol' = vol /\ stage = "devices" /\ Starting /\ given = <<>>
      /\ UNCHANGED <<nodes, found>>
  BY DEF Bootstrap, SoundInv, Good
<1>2. CASE Fail
  BY <1>2 DEF Fail, SoundInv
<1>3. CASE ~Fail
  <2>1. /\ chunks' = WithChunks(Empty, sb.sys) /\ stage' = "chunks" /\ sb' = sb
        /\ StartWalk(sb.chunk_root, <<0, MaxKey>>)
    BY <1>3 DEF Bootstrap
  <2>2. OfFirst(Len(vol.paths))
    <3>1. PICK n \in 0..Len(vol.paths) : Opening(n)
      BY <1>1 DEF Starting
    <3>2. Len(vol.paths) \in Nat /\ Len(vol.paths) # 0
      BY PathFacts DEF Good
    <3>3. Len(given) = 0 /\ Len(given) = Len(vol.paths) - n
      BY <1>1, <3>1 DEF Opening
    <3>4. n = Len(vol.paths) /\ n > 0
      BY SMTT(40), <3>2, <3>3
    <3> QED
      BY <3>1, <3>4 DEF Opening
  <2>3. OfFirst(Len(vol.paths))'
    BY <1>1, <2>1, <2>2 DEF OfFirst
  <2>4. Mapped'
    <3>1. PICK i \in 1..Len(vol.paths) : sb = vol.supers[vol.paths[i]]
      BY <2>2 DEF OfFirst
    <3>2. sb.sys \in Seq(Range(sb.sys)) /\ \A c \in Range(sb.sys) : HasStripes(c)
      BY <2>2, <3>1, PathFacts DEF OfFirst, Good
    <3>3. Chunks(sb.sys)
      BY <3>2 DEF Range, Chunks
    <3>4. Maps(Empty)
      BY DEF Empty, Maps
    <3>5. Maps(WithChunks(Empty, sb.sys))
      BY <3>2, <3>3, <3>4, Joined
    <3> QED
      BY <2>1, <3>5 DEF Mapped
  <2>5. OnItsWay'
    <3>1. PICK t : t = vol.chunkTree
      OBVIOUS
    <3>2. Written(vol, t) /\ sb.chunk_root = t.root
      BY <2>2, <3>1, SoundFacts
    <3>3. OnTree(t)' /\ Ascends' /\ ShownUpTo(t, Reached(t))' /\ out' \in Seq(Nat)
      BY <1>1, <2>1, <3>2, Begun DEF StartWalk, Good
    <3>4. Walked' = t
      BY <1>1, <2>1, <3>1 DEF Walked
    <3>5. range' = <<0, MaxKey>> /\ res' = "running" /\ MaxKey \in Nat
      BY <2>1, WalkAssumption DEF StartWalk
    <3>6. DOMAIN nodes' = {}
      BY <1>1 DEF Starting, Empty
    <3> QED
      BY <3>3, <3>4, <3>5, <3>6 DEF OnItsWay
  <2>6. Gathering'
    <3>1. range' = <<0, MaxKey>> /\ stopped' = FALSE /\ res' = "running" /\ out' = <<>>
      BY <2>1 DEF StartWalk
    <3>2. found' = <<>>
      BY <1>1 DEF Starting
    <3>3. Range(out') = {}
      BY <3>1 DEF Range
    <3> QED
      BY <3>1, <3>2, <3>3 DEF Gathering
  <2> QED
    BY <2>1, <2>3, <2>4, <2>5, <2>6 DEF SoundInv
<1> QED
  BY <1>2, <1>3

\* When the walk of the chunk tree is over, every chunk has been found.
LEMMA AllFound ==
  ASSUME Good, OfFirst(Len(vol.paths)), Gathering, Shows(vol.chunkTree),
         res \in {"true", "false"}
  PROVE  \A k \in DOMAIN vol.chunkItems : vol.chunkItems[k] \in Range(found)
<1> SUFFICES ASSUME NEW k \in DOMAIN vol.chunkItems PROVE vol.chunkItems[k] \in Range(found)
  OBVIOUS
<1>1. Written(vol, vol.chunkTree)
  BY SoundFacts
<1>2. k \in Range(vol.chunkTree.items)
  BY SoundAssumption DEF Good
<1>3. PICK i \in 1..Len(vol.chunkTree.items) : k = vol.chunkTree.items[i]
  BY <1>1, <1>2, ItemFacts DEF Range
<1>4. k \in Nat /\ k <= MaxKey
  BY <1>1, <1>3, ItemFacts
<1>5. range[1] = 0 /\ range[2] = MaxKey /\ ~stopped
  BY DEF Gathering
<1>6. k \in InRange(vol.chunkTree)
  BY <1>2, <1>4, <1>5 DEF InRange
<1>7. k \in Range(out)
  BY <1>5, <1>6 DEF Shows
<1> QED
  BY <1>7 DEF Gathering

LEMMA EndOpenSound ==
  ASSUME Inv, Good, SoundInv, EndOpen
  PROVE  SoundInv'
<1>1. /\ vol' = vol /\ stage = "chunks" /\ res # "running" /\ res' = "none" /\ out' = <<>>
      /\ UNCHANGED <<nodes, found, range>>
  BY DEF EndOpen
<1>2. OfFirst(Len(vol.paths)) /\ Mapped /\ OnItsWay /\ Gathering
  BY <1>1 DEF SoundInv, Good
<1>3. CASE Fail
  BY <1>3 DEF Fail, SoundInv
<1>4. CASE ~Fail
  <2>1. /\ chunks' = WithChunks(chunks, found) /\ stage' = "ready" /\ sb' = sb
        /\ res # "error"
    BY <1>4 DEF EndOpen
  <2>2. OfFirst(Len(vol.paths))'
    BY <1>1, <1>2, <2>1 DEF OfFirst
  <2>3. found \in Seq(Items) /\ \A i \in DOMAIN found : HasStripes(found[i]) /\ found[i] \in Items
    <3>1. found \in Seq(Items)
      BY <1>2 DEF Gathering
    <3>2. \A i \in DOMAIN found : found[i] \in Items
      BY <3>1
    <3>3. \A c \in Items : HasStripes(c)
      BY VolumesAssumption DEF Items, Good
    <3> QED
      BY <3>1, <3>2, <3>3
  <2>4. Maps(chunks') /\ Joins(chunks', found)
    <3>1. Maps(chunks) /\ Chunks(found) /\ found \in Seq(Items)
      BY <1>2, <2>3 DEF Mapped, Chunks
    <3>2. Maps(WithChunks(chunks, found)) /\ Joins(WithChunks(chunks, found), found)
      BY <3>1, Joined
    <3> QED
      BY <2>1, <3>2
  <2>5. Shows(vol.chunkTree) /\ res \in {"true", "false"}
    <3>1. Shows(Walked) /\ Walked = vol.chunkTree
      BY <1>1, <1>2 DEF OnItsWay, Walked
    <3>2. res \in {"none", "running", "true", "false", "error"} /\ res # "none"
      BY <1>2 DEF Inv, TypeOK, Gathering
    <3> QED
      BY <1>1, <2>1, <3>1, <3>2
  <2>6. Gathered'
    <3> SUFFICES ASSUME NEW k \in DOMAIN vol.chunkItems
                 PROVE  LET c == vol.chunkItems[k]
                        IN  c.start \in DOMAIN chunks' /\ chunks'[c.start] = c
      BY <1>1 DEF Gathered
    <3>1. PICK i \in DOMAIN found : found[i] = vol.chunkItems[k]
      BY <1>2, <2>5, AllFound DEF Range
    <3>2. PICK j \in DOMAIN found : /\ found[j].start = found[i].start
                                    /\ chunks'[found[i].start] = found[j]
      BY <2>4 DEF Joins
    <3>3. PICK m \in DOMAIN vol.chunkItems : found[j] = vol.chunkItems[m]
      BY <2>3 DEF Items
    <3>4. k = m
      BY <3>1, <3>2, <3>3, SoundAssumption DEF Good
    <3> QED
      BY <2>4, <3>1, <3>2, <3>3, <3>4 DEF Joins
  <2>7. OnItsWay'
    <3>1. out' \in Seq(Nat) /\ Range(out') = {} /\ DOMAIN out' = {}
      BY <1>1 DEF Range
    <3>2. Shows(vol.fsTree)'
      BY <1>1, <3>1 DEF Shows
    <3>3. Walked' = vol'.fsTree
      BY <2>1 DEF Walked
    <3>4. \A a \in DOMAIN nodes' : nodes'[a] = vol'.tree[a]
      BY <1>1, <1>2 DEF OnItsWay
    <3>5. range'[1] \in Nat /\ range'[2] \in Nat /\ res' # "running"
      BY <1>1, <1>2 DEF OnItsWay
    <3>6. Shows(Walked)'
      BY <3>2, <3>3 DEF Shows, InRange
    <3> QED
      BY <3>1, <3>4, <3>5, <3>6 DEF OnItsWay
  <2>8. FailsOnlyWhenLost'
    BY <1>1 DEF FailsOnlyWhenLost
  <2>9. Mapped'
    BY <2>4 DEF Mapped
  <2> QED
    BY <2>1, <2>2, <2>6, <2>7, <2>8, <2>9 DEF SoundInv
<1> QED
  BY <1>3, <1>4

-----------------------------------------------------------------------------
(* Walking a sound volume *)

\* What a step of a walk leaves to show.
LEMMA WalkStep ==
  ASSUME Good, SoundInv, UNCHANGED <<vol, sb, chunks, stage>>, stage \in {"chunks", "ready"},
         OnItsWay', stage = "chunks" => Gathering', stage = "ready" => FailsOnlyWhenLost'
  PROVE  SoundInv'
<1>1. OfFirst(Len(vol.paths)) /\ Mapped /\ (stage = "ready" => Gathered)
  BY DEF SoundInv, Good
<1>2. OfFirst(Len(vol.paths))'
  BY <1>1 DEF OfFirst
<1>3. Mapped'
  BY <1>1 DEF Mapped
<1>4. stage = "ready" => Gathered'
  BY <1>1 DEF Gathered
<1> QED
  BY <1>2, <1>3, <1>4 DEF SoundInv

\* The walk that goes on.
LEMMA StillOnItsWay ==
  ASSUME NEW t, Walked' = t, res' = "running", range'[1] \in Nat, range'[2] \in Nat,
         out' \in Seq(Nat), OnTree(t)', Ascends', ShownUpTo(t, Reached(t))',
         \A a \in DOMAIN nodes' : nodes'[a] = vol'.tree[a]
  PROVE  OnItsWay'
<1>1. OnTree(Walked)' /\ ShownUpTo(Walked, Reached(Walked))'
  BY DEF OnTree, InTree, ShownUpTo, Reached, Before
<1> QED
  BY <1>1 DEF OnItsWay

\* The walk that is over.
LEMMA Over ==
  ASSUME NEW t, Walked' = t, res' # "running", range'[1] \in Nat, range'[2] \in Nat,
         out' \in Seq(Nat), Shows(t)',
         \A a \in DOMAIN nodes' : nodes'[a] = vol'.tree[a]
  PROVE  OnItsWay'
<1>1. Shows(Walked)'
  BY DEF Shows, InRange
<1> QED
  BY <1>1 DEF OnItsWay

LEMMA WalkSound ==
  ASSUME Good, SoundInv, Walk
  PROVE  SoundInv'
<1>1. /\ UNCHANGED <<vol, sb, chunks, stage, nodes>> /\ stage = "ready"
      /\ OfFirst(Len(vol.paths)) /\ OnItsWay
  BY DEF Walk, openVars, SoundInv, Good
<1>2. PICK r \in Ranges : StartWalk(sb.root, r)
  BY DEF Walk
<1>3. PICK t : t = vol.fsTree
  OBVIOUS
<1>4. Written(vol, t) /\ sb.root = t.root
  BY <1>1, <1>3, SoundFacts
<1>5. OnTree(t)' /\ Ascends' /\ ShownUpTo(t, Reached(t))' /\ out' \in Seq(Nat)
  BY <1>1, <1>2, <1>4, Begun DEF StartWalk, Good
<1>6. Walked' = t
  BY <1>1, <1>3 DEF Walked
<1>7. range' = r /\ r[1] \in Nat /\ r[2] \in Nat /\ res' = "running"
  BY <1>2, WalkAssumption DEF StartWalk
<1>8. OnItsWay'
  BY <1>1, <1>5, <1>6, <1>7, StillOnItsWay DEF OnItsWay
<1>9. FailsOnlyWhenLost'
  BY <1>7 DEF FailsOnlyWhenLost
<1> QED
  BY <1>1, <1>8, <1>9, WalkStep

\* The tree that is walked was written so.
LEMMA WalkedFacts ==
  ASSUME Good, SoundInv, stage \in {"chunks", "ready"}
  PROVE  Written(vol, Walked) /\ OnItsWay
<1>1. OfFirst(Len(vol.paths)) /\ OnItsWay
  BY DEF SoundInv, Good
<1>2. Walked \in {vol.chunkTree, vol.fsTree}
  BY DEF Walked
<1>3. Written(vol, vol.chunkTree) /\ Written(vol, vol.fsTree)
  BY <1>1, SoundFacts
<1> QED
  BY <1>1, <1>2, <1>3

\* A walk runs only then.
LEMMA WhenRunning ==
  ASSUME Good, SoundInv, res = "running", Inv
  PROVE  stage \in {"chunks", "ready", "failed"}
<1>1. stage # "devices"
  BY DEF SoundInv, Starting, Good
<1> QED
  BY <1>1 DEF Inv, TypeOK

\* The copies of a block differ in their stripes, which are numbered.
LEMMA CopyFacts ==
  ASSUME Mapped, NEW logical \in Nat
  PROVE  \A p, q \in Mirrors(chunks, devs, logical, NodeSize) :
           p[3] \in Nat /\ (p[3] = q[3] => p = q)
<1> DEFINE starts == {s \in DOMAIN chunks : s <= logical}
           start  == Greatest(starts)
           chunk  == chunks[start]
           numbers == {i \in DOMAIN chunk.stripes : chunk.stripes[i][1] \in DOMAIN devs}
           copy(i) == <<devs[chunk.stripes[i][1]],
                        Word(chunk.stripes[i][2] + (logical - start)), i>>
           copies == Mirrors(chunks, devs, logical, NodeSize)
<1>1. CASE copies = {}
  BY <1>1
<1>2. CASE copies # {}
  <2>1. starts # {} /\ copies = {copy(i) : i \in numbers}
    BY <1>2 DEF Mirrors
  <2>2. start \in starts
    <3>1. starts \in SUBSET Nat /\ \A s \in starts : s <= logical
      BY DEF Mapped, Maps
    <3> HIDE DEF starts
    <3> QED
      BY <2>1, <3>1, GreatestOf
  <2>3. DOMAIN chunk.stripes \subseteq Nat
    BY <2>2 DEF Mapped, Maps
  <2> HIDE DEF copies, chunk, start
  <2>4. \A i \in numbers : i \in Nat /\ copy(i)[3] = i
    BY <2>3
  <2> SUFFICES ASSUME NEW p \in copies, NEW q \in copies
               PROVE  p[3] \in Nat /\ (p[3] = q[3] => p = q)
    BY DEF copies
  <2>5. PICK i \in numbers : p = copy(i)
    BY <2>1
  <2>6. PICK j \in numbers : q = copy(j)
    BY <2>1
  <2> HIDE DEF copy, numbers
  <2>7. p[3] = i /\ q[3] = j /\ i \in Nat
    BY <2>4, <2>5, <2>6
  <2> QED
    BY <2>5, <2>6, <2>7
<1> QED
  BY <1>1, <1>2

\* The first of some copies comes before the others.
LEMMA FirstIsFirst ==
  ASSUME NEW C, C # {}, \A c \in C : c[3] \in Nat
  PROVE  \A d \in C : FirstOf(C)[3] <= d[3]
<1> DEFINE N == {c[3] : c \in C}
<1>1. N \in SUBSET Nat /\ N # {}
  OBVIOUS
<1>2. PICK n \in N : \A m \in N : n <= m
  BY <1>1, LeastOf
<1>3. PICK c \in C : n = c[3]
  OBVIOUS
<1>4. \A d \in C : c[3] <= d[3]
  BY <1>2, <1>3
<1> QED
  BY <1>4 DEF FirstOf

\* A read that ends at no copy, or at one that claims too many items, has no
\* whole copy before it.
LEMMA LostRead ==
  ASSUME Good, Mapped, NEW t, Written(vol, t), NEW logical \in DOMAIN t.from,
         NEW failing \in Failing(logical),
         \/ Usable(logical, failing) = {}
         \/ \E copy \in Usable(logical, failing) : /\ copy = FirstOf(Usable(logical, failing))
                                                   /\ BlockAt(copy).crowded
  PROVE  ~Whole(logical)
<1> DEFINE places == Mirrors(chunks, devs, logical, NodeSize)
           usable == Usable(logical, failing)
           b == vol.tree[logical]
<1>1. logical \in Nat /\ b # None /\ b.addr = logical /\ b.sum /\ ~b.crowded
  <2>1. logical \in DOMAIN vol.tree
    BY DEF Written
  <2>2. logical \in Nat
    BY <2>1, VolumesAssumption DEF Good
  <2> QED
    BY SMTT(40), <2>2 DEF Written
<1>2. usable \subseteq places /\ \A p \in places : p[1] \notin vol.weak => p \notin failing
  BY DEF Usable, Failing
<1>3. \A p, q \in places : p[3] \in Nat /\ (p[3] = q[3] => p = q)
  BY <1>1, CopyFacts
<1> SUFFICES ASSUME Whole(logical) PROVE FALSE
  OBVIOUS
<1>4. PICK p \in places : /\ p[1] \notin vol.weak /\ BlockAt(p) = b
                          /\ \A r \in places : r[3] < p[3] /\ BlockAt(r) # None
                                                 => ~BlockAt(r).crowded
  BY DEF Whole
<1>5. p \in usable
  BY <1>1, <1>2, <1>4 DEF Usable, Accepted
<1>6. PICK copy \in usable : copy = FirstOf(usable) /\ BlockAt(copy).crowded
  BY <1>5
<1>7. BlockAt(copy) # None
  BY <1>6 DEF Usable, Accepted
<1> HIDE DEF usable, places, b
<1>8. copy[3] <= p[3]
  <2>1. usable # {} /\ \A c \in usable : c[3] \in Nat
    BY <1>2, <1>3, <1>5
  <2> QED
    BY <1>5, <1>6, <2>1, FirstIsFirst
<1>9. copy[3] # p[3]
  BY <1>1, <1>2, <1>3, <1>4, <1>6
<1>10. copy[3] \in Nat /\ p[3] \in Nat /\ copy \in places
  BY <1>2, <1>3
<1>11. copy[3] < p[3]
  BY <1>8, <1>9, <1>10
<1> QED
  BY <1>4, <1>6, <1>7, <1>10, <1>11

LEMMA FewerThan ==
  ASSUME NEW x \in Nat, x > 0, NEW y \in Nat, NEW n \in Nat, NEW m \in Nat, y <= m,
         x + n = y + 1
  PROVE  ~(n > m)
OBVIOUS

\* On the tree the limit of the depth is not reached, and a child has the level
\* it must have.
LEMMA NeverTooDeep ==
  ASSUME NEW t, Written(vol, t), OnTree(t), Stack, want # None
  PROVE  ~TooDeep /\ LevelFits(vol.tree[want[1]], want[2])
<1>1. MaxDepth \in Nat
  BY SMTT(40), WalkAssumption
<1>2. want[1] \in DOMAIN t.from /\ t.root \in DOMAIN t.from
  BY DEF OnTree, Written
<1>3. CASE frames = <<>>
  <2>1. Len(frames) = 0
    BY <1>3, EmptySeq
  <2>2. want[2] = None
    BY <1>3 DEF OnTree
  <2> QED
    BY <1>1, <2>1, <2>2 DEF TooDeep, LevelFits
<1>4. CASE frames # <<>>
  <2> DEFINE n == Len(frames)
  <2>1. /\ n \in Nat /\ n \in 1..n /\ InTree(t, frames[n])
        /\ frames[n].node.level + n = vol.tree[t.root].level + 1
    BY <1>4, TopFacts DEF Top, Last
  <2>2. Below(frames[n], want[1]) /\ want[2] = frames[n].node.level - 1
    BY <1>4 DEF OnTree
  <2>3. PICK c \in DOMAIN t.from : frames[n].node = vol.tree[c]
    BY <2>1 DEF InTree
  <2>4. /\ Len(vol.tree[c].keys) \in Nat /\ vol.tree[c].level \in Nat
        /\ vol.tree[t.root].level \in Nat /\ vol.tree[t.root].level <= MaxDepth
    BY <1>2, BlockFacts
  <2>5. /\ frames[n].next \in 1..(Len(vol.tree[c].keys) + 1) /\ frames[n].next > 1
        /\ vol.tree[c].level > 0 /\ want[1] = vol.tree[c].ptrs[frames[n].next - 1]
    BY <2>1, <2>2, <2>3 DEF InTree, Below
  <2>6. frames[n].next - 1 \in 1..Len(vol.tree[c].keys) /\ vol.tree[c].level # 0
    BY SMTT(40), <2>4, <2>5
  <2>7. PICK i \in 1..Len(vol.tree[c].keys) : i = frames[n].next - 1
    BY <2>6
  <2>8. vol.tree[vol.tree[c].ptrs[i]].level = vol.tree[c].level - 1
    BY <2>6, ChildFacts
  <2>9. LevelFits(vol.tree[want[1]], want[2])
    BY <2>2, <2>3, <2>5, <2>7, <2>8 DEF LevelFits
  <2>10. ~(n > MaxDepth)
    <3>1. vol.tree[c].level + n = vol.tree[t.root].level + 1
      BY <2>1, <2>3
    <3> HIDE DEF n
    <3>2. n \in Nat
      BY <2>1
    <3> QED
      BY <1>1, <2>4, <2>5, <3>1, <3>2, FewerThan
  <2> QED
    BY <2>9, <2>10 DEF TooDeep
<1> QED
  BY <1>3, <1>4

\* What has been shown so far shows the tree, if the walk ends here.
LEMMA EndShows ==
  ASSUME NEW t, Written(vol, t), Stack, OnTree(t), Ascends, ShownUpTo(t, Reached(t)),
         UNCHANGED <<out, range>>,
         \/ res' \notin {"true", "false"} 
         \/ InRange(t) \subseteq Range(out)
  PROVE  Shows(t)'
<1>1. PICK n : n = Reached(t)
  OBVIOUS
<1>2. n \in Nat /\ n <= Len(t.items) /\ ShownUpTo(t, n)
  BY <1>1, ReachedFacts
<1>3. \A i \in DOMAIN out : /\ out[i] \in InRange(t)
                            /\ \A k \in InRange(t) : k < out[i] => k \in Range(out)
  BY <1>2, SeenOrder
<1> QED
  BY <1>3 DEF Shows, Ascends, InRange

LEMMA ReadNodeSound ==
  ASSUME Inv, Good, SoundInv, ReadNode
  PROVE  SoundInv'
<1>1. /\ UNCHANGED <<vol, sb, chunks, devs, stage, found, range, out, stopped>>
      /\ res = "running" /\ want # None
  BY DEF ReadNode, openVars
<1>2. CASE stage = "failed"
  BY <1>1, <1>2 DEF SoundInv
<1>3. CASE stage \in {"chunks", "ready"}
  <2>1. PICK t : t = Walked
    OBVIOUS
  <2>2. /\ Written(vol, t) /\ OnItsWay /\ Walked' = t
        /\ OnTree(t) /\ Ascends /\ ShownUpTo(t, Reached(t))
    BY <1>1, <1>3, <2>1, WalkedFacts DEF OnItsWay, Walked
  <2>3. Stack /\ Kept
    BY DEF Inv, Falling, Stack
  <2>4. /\ out' \in Seq(Nat) /\ range'[1] \in Nat /\ range'[2] \in Nat
        /\ \A a \in DOMAIN nodes : nodes[a] = vol.tree[a]
    BY <1>1, <2>2 DEF OnItsWay
  <2>5. ~TooDeep /\ LevelFits(vol.tree[want[1]], want[2])
    BY <1>1, <2>2, <2>3, NeverTooDeep
  <2>6. stage = "chunks" => Gathering
    BY DEF SoundInv, Good
  <2>7. want[1] \in DOMAIN t.from /\ Mapped /\ OfFirst(Len(vol.paths))
    BY <1>1, <1>3, <2>2 DEF OnTree, SoundInv, Good
  <2>8. ASSUME EndWalk("error"), UNCHANGED nodes, ~Whole(want[1])
        PROVE  SoundInv'
    <3>1. res' = "error" /\ want' = want
      BY <2>8 DEF EndWalk
    <3>2. Shows(t)'
      BY <1>1, <2>2, <2>3, <3>1, EndShows
    <3>3. OnItsWay'
      BY <1>1, <2>2, <2>4, <2>8, <3>1, <3>2, Over
    <3>4. stage = "chunks" => Gathering'
      BY <1>1, <2>6, <3>1 DEF Gathering, Items
    <3>5. FailsOnlyWhenLost'
      <4>1. ~Whole(want[1])'
        BY <1>1, <2>8, <3>1 DEF Whole, BlockAt
      <4> QED
        BY <4>1 DEF FailsOnlyWhenLost
    <3> QED
      BY <1>1, <1>3, <3>3, <3>4, <3>5, WalkStep
  <2>9. ASSUME Enter(vol.tree[want[1]]), \A a \in DOMAIN nodes' : nodes'[a] = vol.tree[a]
        PROVE  SoundInv'
    <3>1. /\ frames' = Append(frames, [node |-> vol.tree[want[1]], next |-> 1])
          /\ want' = None /\ res' = res
      BY <2>5, <2>9 DEF Enter
    <3>2. OnTree(t)' /\ Reached(t)' = Reached(t)
      BY <1>1, <2>2, <2>3, <3>1, Arrived
    <3>3. Ascends' /\ ShownUpTo(t, Reached(t))'
      BY <1>1, <2>2, <3>2 DEF Ascends, ShownUpTo
    <3>4. OnItsWay'
      BY <1>1, <2>2, <2>4, <2>9, <3>1, <3>2, <3>3, StillOnItsWay
    <3>5. stage = "chunks" => Gathering'
      BY <1>1, <2>6, <3>1 DEF Gathering, Items
    <3>6. FailsOnlyWhenLost'
      BY <1>1, <3>1 DEF FailsOnlyWhenLost
    <3> QED
      BY <1>1, <1>3, <3>4, <3>5, <3>6, WalkStep
  <2>10. CASE want[1] \in DOMAIN nodes
    <3>1. Enter(nodes[want[1]]) /\ UNCHANGED nodes
      BY <2>5, <2>10 DEF ReadNode
    <3>2. nodes[want[1]] = vol.tree[want[1]]
      BY <2>4, <2>10
    <3> QED
      BY <2>4, <2>9, <3>1, <3>2
  <2>11. CASE want[1] \notin DOMAIN nodes
    <3>1. PICK failing \in Failing(want[1]) :
            \/ Usable(want[1], failing) = {} /\ EndWalk("error") /\ UNCHANGED nodes
            \/ \E copy \in Usable(want[1], failing) :
                 /\ copy = FirstOf(Usable(want[1], failing))
                 /\ EndRead(want[1], BlockAt(copy))
      BY <2>5, <2>11 DEF ReadNode
    <3>2. CASE Usable(want[1], failing) = {} /\ EndWalk("error") /\ UNCHANGED nodes
      <4>1. ~Whole(want[1])
        BY <2>2, <2>7, <3>2, LostRead
      <4> QED
        BY <2>8, <3>2, <4>1
    <3>3. ASSUME NEW copy \in Usable(want[1], failing),
                 copy = FirstOf(Usable(want[1], failing)), EndRead(want[1], BlockAt(copy))
          PROVE  SoundInv'
      <4> DEFINE b == BlockAt(copy)
      <4>1. b \in Blocks /\ b.addr = want[1] /\ (sb.sums => b.sum)
        BY AcceptedIsBlock DEF Usable, Accepted
      <4>2. CASE b.crowded
        <5>1. ~Whole(want[1])
          BY <2>2, <2>7, <3>3, <4>2, LostRead
        <5>2. EndWalk("error") /\ UNCHANGED nodes
          BY <3>3, <4>2 DEF EndRead
        <5> QED
          BY <2>8, <5>1, <5>2
      <4>3. CASE ~b.crowded
        <5>1. want[1] \in DOMAIN vol.tree
          BY <2>2, <2>7 DEF Written
        <5>2. b = vol.tree[want[1]]
          BY <2>7, <4>1, <4>3, <5>1, SoundFacts
        <5>3. nodes' = Cached(want[1], b) /\ Enter(b)
          BY <3>3, <4>3 DEF EndRead
        <5> HIDE DEF b
        <5>4. \A a \in DOMAIN nodes' : nodes'[a] = vol.tree[a]
          <6> DEFINE old == IF Cardinality(DOMAIN nodes) >= CacheMax THEN Empty ELSE nodes
          <6>1. nodes' = Put(old, want[1], b)
            BY <5>3 DEF Cached
          <6>2. \A a \in DOMAIN old : old[a] = vol.tree[a]
            <7>1. DOMAIN Empty = {}
              BY DEF Empty
            <7> QED
              BY <2>4, <7>1
          <6> HIDE DEF old
          <6> QED
            BY <5>2, <6>1, <6>2 DEF Put
        <5> QED
          BY SMTT(40), <2>9, <5>2, <5>3, <5>4
      <4> QED
        BY <4>2, <4>3
    <3> QED
      BY <3>1, <3>2, <3>3
  <2> QED
    BY <2>10, <2>11
<1> QED
  BY <1>1, <1>2, <1>3, WhenRunning

\* The same of the next state.
Ordered(t) ==
  \A i \in DOMAIN out : /\ out[i] \in InRange(t)
                        /\ \A k \in InRange(t) : k < out[i] => k \in Range(out)
Orders ==
  \A t : \A n \in Nat : Written(vol, t) /\ n <= Len(t.items) /\ ShownUpTo(t, n) => Ordered(t)

LEMMA OrdersNext == Orders'
<1>1. Orders
  BY SeenOrder DEF Orders, Ordered
<1> QED
  BY <1>1, PTL

\* Where an item step finds the walk.
LEMMA Here ==
  ASSUME Inv, Good, SoundInv, AtItem, stage \in {"chunks", "ready"}, NEW t, t = Walked
  PROVE  /\ Written(vol, t) /\ OnTree(t) /\ Ascends /\ ShownUpTo(t, Reached(t)) /\ Stack
         /\ out \in Seq(Nat) /\ range[1] \in Nat /\ range[2] \in Nat
         /\ \A a \in DOMAIN nodes : nodes[a] = vol.tree[a]
         /\ \E a \in DOMAIN t.from : \E i \in 1..Len(vol.tree[a].keys) :
              /\ Top.node = vol.tree[a] /\ Top.next = i
              /\ Reached(t) = Before(t, vol.tree[a], i)
              /\ vol.tree[a].garbled = {}
<1>1. res = "running" /\ want = None /\ Top.next <= Len(Top.node.keys)
  BY DEF AtItem, InNode
<1>2. /\ Written(vol, t) /\ OnTree(t) /\ Ascends /\ ShownUpTo(t, Reached(t)) /\ Stack
      /\ out \in Seq(Nat) /\ range[1] \in Nat /\ range[2] \in Nat
      /\ \A a \in DOMAIN nodes : nodes[a] = vol.tree[a]
  BY <1>1, WalkedFacts DEF OnItsWay, Inv, Falling, Stack
<1>3. frames # <<>> /\ Reached(t) = Before(t, Top.node, Top.next)
  BY <1>1, <1>2 DEF OnTree, Reached
<1>4. InTree(t, Top)
  BY <1>2, <1>3, TopFacts
<1>5. PICK a \in DOMAIN t.from : Top.node = vol.tree[a]
  BY <1>4 DEF InTree
<1>6. Len(vol.tree[a].keys) \in Nat /\ Top.next \in 1..(Len(vol.tree[a].keys) + 1)
  BY SMTT(40), <1>2, <1>4, <1>5, BlockFacts DEF InTree
<1>7. Top.next \in 1..Len(vol.tree[a].keys)
  BY <1>1, <1>5, <1>6
<1>8. vol.tree[a].garbled = {}
  BY <1>2 DEF Written
<1> QED
  BY <1>2, <1>3, <1>5, <1>7, <1>8

\* An item step that ends the walk, or that goes on.
LEMMA ItemEnds ==
  ASSUME Good, SoundInv, stage \in {"chunks", "ready"}, want = None,
         UNCHANGED <<vol, sb, chunks, stage, nodes, range>>,
         NEW t, t = Walked, out' \in Seq(Nat), Shows(t)',
         range[1] \in Nat, range[2] \in Nat, \A a \in DOMAIN nodes : nodes[a] = vol.tree[a],
         NEW r \in {"true", "false", "error"}, EndWalk(r), stage = "chunks" => Gathering'
  PROVE  SoundInv'
<1>1. res' = r /\ want' = None
  BY DEF EndWalk
<1>2. Walked' = t
  BY DEF Walked
<1>3. OnItsWay'
  BY <1>1, <1>2, Over
<1>4. FailsOnlyWhenLost'
  BY <1>1 DEF FailsOnlyWhenLost
<1> QED
  BY <1>3, <1>4, WalkStep

LEMMA ItemGoesOn ==
  ASSUME Good, SoundInv, stage \in {"chunks", "ready"}, res = "running", UNCHANGED res,
         UNCHANGED <<vol, sb, chunks, stage, nodes, range>>,
         NEW t, t = Walked, out' \in Seq(Nat), OnTree(t)', Ascends', ShownUpTo(t, Reached(t))',
         range[1] \in Nat, range[2] \in Nat, \A a \in DOMAIN nodes : nodes[a] = vol.tree[a],
         stage = "chunks" => Gathering'
  PROVE  SoundInv'
<1>1. Walked' = t
  BY DEF Walked
<1>2. OnItsWay'
  BY <1>1, StillOnItsWay
<1>3. FailsOnlyWhenLost'
  BY DEF FailsOnlyWhenLost
<1> QED
  BY <1>2, <1>3, WalkStep

\* What has been gathered stays so where nothing is shown.
LEMMA GatheringStays ==
  ASSUME Good, SoundInv, stage = "chunks", UNCHANGED <<vol, range, stopped, found, out>>,
         res' # "none", res # "error"
  PROVE  Gathering'
<1>1. Gathering
  BY DEF SoundInv, Good
<1>2. Items' = Items
  BY DEF Items
<1> QED
  BY <1>1, <1>2 DEF Gathering

LEMMA VisitItemSound ==
  ASSUME Inv, Good, SoundInv, VisitItem
  PROVE  SoundInv'
<1>1. /\ UNCHANGED <<vol, sb, chunks, stage, nodes, range>> /\ AtItem
      /\ res = "running" /\ want = None
  BY DEF VisitItem, openVars, AtItem, InNode
<1>2. CASE stage = "failed"
  BY <1>1, <1>2 DEF SoundInv
<1>3. CASE stage \in {"chunks", "ready"}
  <2>1. PICK t : t = Walked
    OBVIOUS
  <2>2. /\ Written(vol, t) /\ OnTree(t) /\ Ascends /\ ShownUpTo(t, Reached(t)) /\ Stack
        /\ out \in Seq(Nat) /\ range[1] \in Nat /\ range[2] \in Nat
        /\ \A a \in DOMAIN nodes : nodes[a] = vol.tree[a]
        /\ \E a \in DOMAIN t.from : \E i \in 1..Len(vol.tree[a].keys) :
             /\ Top.node = vol.tree[a] /\ Top.next = i
             /\ Reached(t) = Before(t, vol.tree[a], i)
             /\ vol.tree[a].garbled = {}
    BY <1>1, <1>3, <2>1, Here
  <2>0. PICK a \in DOMAIN t.from : \E i \in 1..Len(vol.tree[a].keys) :
          /\ Top.node = vol.tree[a] /\ Top.next = i
          /\ Reached(t) = Before(t, vol.tree[a], i)
          /\ vol.tree[a].garbled = {}
    BY <2>2
  <2>3. PICK i \in 1..Len(vol.tree[a].keys) :
          /\ Top.node = vol.tree[a] /\ Top.next = i
          /\ Reached(t) = Before(t, vol.tree[a], i)
          /\ vol.tree[a].garbled = {}
    BY <2>0
  <2>4. PICK n : n = Reached(t)
    OBVIOUS
  <2>5. vol.tree[a].level = 0 /\ ~Garbled(Top.next)
    BY <2>3 DEF VisitItem, Garbled
  <2>6. /\ n \in Nat /\ n + 1 \in 1..Len(t.items) /\ Key = t.items[n + 1]
        /\ Before(t, Top.node, Top.next + 1) = n + 1
    BY <2>2, <2>3, <2>4, <2>5, LeafItem DEF Key
  <2>7. n <= Len(t.items) /\ n + 1 <= Len(t.items) /\ Key \in Nat /\ n + 1 \in Nat
    BY <2>2, <2>6, ItemFacts
  <2>8. ASSUME frames' = Advance, UNCHANGED want
        PROVE  OnTree(t)' /\ Reached(t)' = n + 1
    BY <1>1, <2>2, <2>6, <2>8, MovedOn DEF AtItem
  <2>9. CASE Key < range[1]
    <3>1. frames' = Advance /\ UNCHANGED <<want, res, found, out, stopped>>
      BY <2>5, <2>7, <2>9, <2>2 DEF VisitItem
    <3>2. OnTree(t)' /\ Reached(t)' = n + 1
      BY <2>8, <3>1
    <3>3. ShownUpTo(t, n + 1)
      <4>1. n <= n + 1 /\ ShownUpTo(t, n)
        BY <2>2, <2>4, <2>6
      <4> QED
        BY <2>2, <2>6, <2>7, <2>9, <4>1, SeenMore
    <3>4. Ascends' /\ ShownUpTo(t, Reached(t))' /\ out' \in Seq(Nat)
      BY <1>1, <2>2, <3>1, <3>2, <3>3 DEF Ascends, ShownUpTo
    <3>5. stage = "chunks" => Gathering'
      BY <1>1, <3>1, GatheringStays
    <3> QED
      BY <1>1, <1>3, <2>1, <2>2, <3>1, <3>2, <3>4, <3>5, ItemGoesOn
  <2>10. CASE Key >= range[1] /\ Past
    <3>1. EndWalk("false") /\ UNCHANGED <<found, out, stopped>>
      BY <2>2, <2>5, <2>7, <2>10 DEF VisitItem
    <3>2. InRange(t) \subseteq Range(out)
      BY <2>2, <2>4, <2>6, <2>7, <2>10, SeenAll DEF Past
    <3>3. Shows(t)'
      BY <1>1, <2>2, <3>1, <3>2, EndShows
    <3>4. stage = "chunks" => Gathering'
      BY <1>1, <3>1, GatheringStays DEF EndWalk
    <3> QED
      BY <1>1, <1>3, <2>1, <2>2, <3>1, <3>3, <3>4, ItemEnds
  <2>11. CASE Key >= range[1] /\ ~Past
    <3>1. Shown /\ out' = Append(out, Key)
      BY <2>2, <2>5, <2>7, <2>11 DEF VisitItem, Shown
    <3>2. out' \in Seq(Nat) /\ Ascends' /\ ShownUpTo(t, n + 1)'
      <4>1. range[1] <= Key /\ Key <= range[2] /\ ShownUpTo(t, n)
        BY <2>2, <2>4, <2>7, <2>11 DEF Past
      <4>2. PICK k : k = Key
        OBVIOUS
      <4> QED
        BY <1>1, <2>2, <2>6, <3>1, <4>1, <4>2, SeenKey
    <3>3. Ordered(t)'
      <4>1. Written(vol, t)'
        <5>1. Written(vol, t) /\ vol' = vol
          BY <1>1, <2>2
        <5> QED
          BY <5>1
      <4> QED
        BY <2>7, <3>2, <4>1, OrdersNext DEF Orders
    <3>4. res' \notin {"true", "false"} \/ stopped' => Shows(t)'
      BY <3>2, <3>3 DEF Shows, Ordered, Ascends
    <3>5. \A k \in Nat : k \in Range(out') => k = Key \/ k \in Range(out)
      <4>1. \A j \in DOMAIN out' : out'[j] = Key \/ (j \in DOMAIN out /\ out'[j] = out[j])
        BY <2>2, <2>7, <3>1
      <4> QED
        BY <4>1 DEF Range
    <3>6. ASSUME frames' = Advance, UNCHANGED <<want, res>>, stage = "chunks" => Gathering'
          PROVE  SoundInv'
      <4>1. OnTree(t)' /\ Reached(t)' = n + 1
        BY <2>8, <3>6
      <4>2. ShownUpTo(t, Reached(t))'
        BY <3>2, <4>1 DEF ShownUpTo
      <4> QED
        BY <1>1, <1>3, <2>1, <2>2, <3>2, <3>6, <4>1, <4>2, ItemGoesOn
    <3>7. CASE stage = "chunks"
      <4>1. Gathering /\ Items' = Items
        BY <1>1, <3>7 DEF SoundInv, Good, Items
      <4>2. \A k \in DOMAIN vol.chunkItems : k \in Nat
        <5> SUFFICES ASSUME NEW k \in DOMAIN vol.chunkItems PROVE k \in Nat
          OBVIOUS
        <5>1. k \in Range(t.items)
          BY <2>1, <3>7, SoundAssumption DEF Good, Walked
        <5> QED
          BY <2>2, <5>1, ItemFacts DEF Range
      <4>3. CASE Key \in DOMAIN vol.chunkItems /\ ChunkParses(vol.chunkItems[Key])
        <5>1. found' = Append(found, vol.chunkItems[Key]) /\ frames' = Advance
              /\ UNCHANGED <<want, res, stopped>>
          BY <3>1, <3>7, <4>3 DEF Shown
        <5>2. found \in Seq(Items) /\ vol.chunkItems[Key] \in Items
          BY <4>1, <4>3 DEF Gathering, Items
        <5>3. found' \in Seq(Items)
          BY <5>1, <5>2
        <5>4. Range(found) \subseteq Range(found') /\ vol.chunkItems[Key] \in Range(found')
          <6>1. /\ \A j \in DOMAIN found : j \in DOMAIN found' /\ found'[j] = found[j]
                /\ Len(found) + 1 \in DOMAIN found' 
                /\ found'[Len(found) + 1] = vol.chunkItems[Key]
            BY <5>1, <5>2
          <6> QED
            BY <6>1 DEF Range
        <5>5. Gathering'
          BY <1>1, <3>5, <4>1, <4>2, <5>1, <5>3, <5>4 DEF Gathering
        <5> QED
          BY <3>6, <5>1, <5>5
      <4>4. CASE Key \in DOMAIN vol.chunkItems /\ ~ChunkParses(vol.chunkItems[Key])
        <5>1. EndWalk("error") /\ UNCHANGED <<found, stopped>>
          BY <3>1, <3>7, <4>4 DEF Shown
        <5>2. res' = "error"
          BY <5>1 DEF EndWalk
        <5>3. Gathering'
          BY <1>1, <4>1, <5>1, <5>2 DEF Gathering
        <5>4. Shows(t)'
          BY <3>4, <5>2
        <5> QED
          BY <1>1, <1>3, <2>1, <2>2, <3>2, <5>1, <5>3, <5>4, ItemEnds
      <4>5. CASE Key \notin DOMAIN vol.chunkItems
        <5>1. UNCHANGED <<found, want, res, stopped>> /\ frames' = Advance
          BY <3>1, <3>7, <4>5 DEF Shown
        <5>2. Gathering'
          BY <1>1, <3>5, <4>1, <4>2, <4>5, <5>1 DEF Gathering
        <5> QED
          BY <3>6, <5>1, <5>2
      <4> QED
        BY <4>3, <4>4, <4>5
    <3>8. CASE stage = "ready"
      <4>1. \/ frames' = Advance /\ UNCHANGED <<want, res, stopped>>
            \/ stopped' = TRUE /\ (EndWalk("false") \/ EndWalk("error"))
        BY <3>1, <3>8 DEF Shown
      <4>2. CASE frames' = Advance /\ UNCHANGED <<want, res, stopped>>
        BY <3>6, <3>8, <4>2
      <4>3. ASSUME NEW r \in {"true", "false", "error"}, stopped' = TRUE, EndWalk(r)
            PROVE  SoundInv'
        <5>1. Shows(t)'
          BY <3>4, <4>3
        <5> QED
          BY <1>1, <1>3, <2>1, <2>2, <3>2, <3>8, <4>3, <5>1, ItemEnds
      <4> QED
        BY <4>1, <4>2, <4>3
    <3> QED
      BY <1>3, <3>7, <3>8
  <2> QED
    BY <2>2, <2>7, <2>9, <2>10, <2>11
<1> QED
  BY <1>1, <1>2, <1>3, WhenRunning

LEMMA DescendSound ==
  ASSUME Inv, Good, SoundInv, Descend
  PROVE  SoundInv'
<1>1. /\ UNCHANGED <<vol, sb, chunks, stage, nodes, range, found, out, stopped>> /\ AtItem
      /\ res = "running" /\ want = None
  BY DEF Descend, openVars, AtItem, InNode
<1>2. CASE stage = "failed"
  BY <1>1, <1>2 DEF SoundInv
<1>3. CASE stage \in {"chunks", "ready"}
  <2>1. PICK t : t = Walked
    OBVIOUS
  <2>2. /\ Written(vol, t) /\ OnTree(t) /\ Ascends /\ ShownUpTo(t, Reached(t)) /\ Stack
        /\ out \in Seq(Nat) /\ range[1] \in Nat /\ range[2] \in Nat
        /\ \A a \in DOMAIN nodes : nodes[a] = vol.tree[a]
        /\ \E a \in DOMAIN t.from : \E i \in 1..Len(vol.tree[a].keys) :
             /\ Top.node = vol.tree[a] /\ Top.next = i
             /\ Reached(t) = Before(t, vol.tree[a], i)
             /\ vol.tree[a].garbled = {}
    BY <1>1, <1>3, <2>1, Here
  <2>3. PICK a \in DOMAIN t.from : \E i \in 1..Len(vol.tree[a].keys) :
          /\ Top.node = vol.tree[a] /\ Top.next = i
          /\ Reached(t) = Before(t, vol.tree[a], i)
          /\ vol.tree[a].garbled = {}
    BY <2>2
  <2>4. PICK i \in 1..Len(vol.tree[a].keys) :
          /\ Top.node = vol.tree[a] /\ Top.next = i
          /\ Reached(t) = Before(t, vol.tree[a], i)
          /\ vol.tree[a].garbled = {}
    BY <2>3
  <2>5. PICK n : n = Reached(t)
    OBVIOUS
  <2>6. PICK m : m = Before(t, vol.tree[a], i + 1)
    OBVIOUS
  <2>7. /\ vol.tree[a].level > 0 /\ ~Garbled(Top.next) /\ ~Garbled(Top.next + 1)
        /\ vol.tree[a].level \in Nat /\ vol.tree[a].level <= MaxDepth
        /\ vol.tree[a].level # 0
    <3>1. vol.tree[a].level \in Nat /\ vol.tree[a].level <= MaxDepth
      BY <2>2, BlockFacts
    <3>2. vol.tree[a].level > 0 /\ ~Garbled(Top.next) /\ ~Garbled(Top.next + 1)
      BY <2>4 DEF Descend, Garbled
    <3> QED
      BY <3>1, <3>2
  <2>8. /\ vol.tree[a].ptrs[i] \in DOMAIN t.from /\ n = t.from[vol.tree[a].ptrs[i]]
        /\ n \in Nat /\ m \in Nat /\ n < m /\ m <= Len(t.items)
        /\ Key = t.items[n + 1]
        /\ i < Len(vol.tree[a].keys) =>
             vol.tree[a].keys[i + 1] = t.items[m + 1] /\ m + 1 <= Len(t.items)
    <3> DEFINE b == vol.tree[a]
               p == Before(t, b, i)
               q == Before(t, b, i + 1)
    <3>1. /\ b.ptrs[i] \in DOMAIN t.from /\ p = t.from[b.ptrs[i]]
          /\ p \in Nat /\ q \in Nat /\ p < q /\ q <= Len(t.items)
          /\ b.keys[i] = t.items[p + 1]
          /\ i < Len(b.keys) => b.keys[i + 1] = t.items[q + 1] /\ q + 1 <= Len(t.items)
      BY SMTT(40), <2>2, <2>7, ChildItem
    <3>2. n = p /\ m = q /\ Key = b.keys[i]
      BY <2>4, <2>5, <2>6 DEF Key
    <3> HIDE DEF p, q, b
    <3>3. b = vol.tree[a]
      BY DEF b
    <3> QED
      BY <3>1, <3>2, <3>3
  <2>9. n <= Len(t.items) /\ Key \in Nat /\ Len(t.items) \in Nat
    <3>1. Len(t.items) \in Nat
      BY <2>2, ItemFacts
    <3>2. n + 1 \in 1..Len(t.items)
      <4>1. n \in Nat /\ m \in Nat /\ n < m /\ m <= Len(t.items)
        BY <2>8
      <4> QED
        BY <3>1, <4>1
    <3>3. t.items[n + 1] \in Nat
      BY <2>2, <3>2, ItemFacts
    <3> QED
      BY <2>8, <3>1, <3>2, <3>3
  <2>10. CASE Past
    <3>1. EndWalk("false")
      BY SMTT(40), <2>7, <2>10 DEF Descend
    <3>2. InRange(t) \subseteq Range(out)
      BY <2>2, <2>5, <2>8, <2>9, <2>10, SeenAll DEF Past
    <3>3. Shows(t)'
      BY <1>1, <2>2, <3>2, EndShows
    <3>4. stage = "chunks" => Gathering'
      BY <1>1, <3>1, GatheringStays DEF EndWalk
    <3>5. out' \in Seq(Nat)
      BY <1>1, <2>2
    <3> QED
      BY <1>1, <1>3, <2>1, <2>2, <3>1, <3>3, <3>4, <3>5, ItemEnds
  <2>11. CASE ~Past
    <3>1. /\ frames' = Advance /\ UNCHANGED res
          /\ want' = IF EndsBelow THEN None
                     ELSE <<Top.node.ptrs[Top.next], Top.node.level - 1>>
      BY <2>7, <2>11 DEF Descend
    <3>2. stage = "chunks" => Gathering'
      BY <1>1, <3>1, GatheringStays
    <3>3. Top.next <= Len(Top.node.keys)
      BY <1>1 DEF AtItem
    <3>4. ASSUME OnTree(t)', ShownUpTo(t, Reached(t)') PROVE SoundInv'
      <4>1. Ascends' /\ ShownUpTo(t, Reached(t))' /\ out' \in Seq(Nat)
        BY <1>1, <2>2, <3>4 DEF Ascends, ShownUpTo
      <4> QED
        BY <1>1, <1>3, <2>1, <2>2, <3>1, <3>2, <3>4, <4>1, ItemGoesOn
    <3>5. CASE EndsBelow
      <4>1. want' = None
        BY <3>1, <3>5
      <4>2. OnTree(t)' /\ Reached(t)' = Before(t, Top.node, Top.next + 1)
        BY <1>1, <2>2, <3>1, <3>3, <4>1, MovedOn
      <4>3. Reached(t)' = m
        BY <2>4, <2>6, <4>2
      <4>4. i < Len(vol.tree[a].keys) /\ vol.tree[a].keys[i + 1] <= range[1]
        BY <2>4, <3>5 DEF EndsBelow
      <4>5. m + 1 \in 1..Len(t.items) /\ m \in 1..Len(t.items) /\ t.items[m + 1] <= range[1]
        BY <2>8, <2>9, <4>4
      <4>6. t.items[m] < t.items[m + 1] /\ t.items[m] \in Nat /\ t.items[m + 1] \in Nat
        BY SMTT(40), <2>2, <2>8, <4>5, ItemFacts
      <4>7. t.items[m] < range[1]
        BY SMTT(40), <2>2, <4>5, <4>6
      <4>8. n <= m
        BY SMTT(40), <2>8
      <4>9. ShownUpTo(t, m)
        BY <2>2, <2>5, <2>8, <4>7, <4>8, SeenMore
      <4> QED
        BY <3>4, <4>2, <4>3, <4>9
    <3>6. CASE ~EndsBelow
      <4>1. /\ want' = <<vol.tree[a].ptrs[i], vol.tree[a].level - 1>>
            /\ want'[1] = vol.tree[a].ptrs[i] /\ want'[2] = vol.tree[a].level - 1
        BY <2>4, <3>1, <3>6
      <4>2. want' # None
        <5>1. vol.tree[a].ptrs[i] \in DOMAIN vol.tree
          BY <2>2, <2>8 DEF Written
        <5>2. vol.tree[a].level - 1 \in 0..MaxDepth
          BY SMTT(40), <2>7, WalkAssumption
        <5> QED
          BY SMTT(40), <4>1, <5>1, <5>2, NoneIsNoWant DEF Good
      <4>3. OnTree(t)'
        BY <1>1, <2>2, <2>4, <2>7, <3>1, <3>3, <4>1, <4>2, MovedOn
      <4>4. Reached(t)' = n
        BY <2>8, <4>1, <4>2 DEF Reached
      <4> QED
        BY <2>2, <2>5, <3>4, <4>3, <4>4
    <3> QED
      BY <3>5, <3>6
  <2> QED
    BY <2>10, <2>11
<1> QED
  BY <1>1, <1>2, <1>3, WhenRunning

LEMMA LeaveNodeSound ==
  ASSUME Inv, Good, SoundInv, LeaveNode
  PROVE  SoundInv'
<1>1. /\ UNCHANGED <<vol, sb, chunks, stage, nodes, range, found, out, stopped>>
      /\ res = "running" /\ want = None /\ Top.next > Len(Top.node.keys)
  BY DEF LeaveNode, openVars, InNode
<1>2. CASE stage = "failed"
  BY <1>1, <1>2 DEF SoundInv
<1>3. CASE stage \in {"chunks", "ready"}
  <2>1. PICK t : t = Walked
    OBVIOUS
  <2>2. /\ Written(vol, t) /\ OnTree(t) /\ Ascends /\ ShownUpTo(t, Reached(t)) /\ Stack
        /\ out \in Seq(Nat) /\ range[1] \in Nat /\ range[2] \in Nat
        /\ \A a \in DOMAIN nodes : nodes[a] = vol.tree[a]
    BY <1>1, <1>3, <2>1, WalkedFacts DEF OnItsWay, Inv, Falling, Stack
  <2>3. CASE Len(frames) = 1
    <3>1. EndWalk("true")
      BY <2>3 DEF LeaveNode
    <3>2. frames # <<>>
      BY SMTT(40), <1>1, <2>2 DEF OnTree
    <3>3. InTree(t, Top) /\ Top.node.addr = t.root /\ t.root \in DOMAIN t.from
      BY <2>2, <2>3, <3>2, TopFacts DEF OnTree, Top, Last, Written
    <3>4. Len(vol.tree[t.root].keys) \in Nat
      BY <2>2, <3>3, BlockFacts
    <3>5. Top.node = vol.tree[t.root] /\ Top.next = Len(vol.tree[t.root].keys) + 1
      BY <1>1, <3>3, <3>4 DEF InTree
    <3>6. Reached(t) = t.upto[t.root] /\ t.upto[t.root] = Len(t.items)
      <4>1. Reached(t) = Before(t, vol.tree[t.root], Len(vol.tree[t.root].keys) + 1)
        BY <1>1, <3>5 DEF Reached
      <4>2. Before(t, vol.tree[t.root], Len(vol.tree[t.root].keys) + 1) = t.upto[t.root]
        BY <2>2, <3>3, BeforeEnd
      <4>3. t.upto[t.root] = Len(t.items)
        BY <2>2 DEF Written
      <4> QED
        BY <4>1, <4>2, <4>3
    <3>7. Len(t.items) \in Nat
      BY <2>2, ItemFacts
    <3>8. InRange(t) \subseteq Range(out)
      BY <2>2, <3>6, <3>7, SeenAll
    <3>9. Shows(t)'
      BY <1>1, <2>2, <3>8, EndShows
    <3>10. stage = "chunks" => Gathering'
      BY <1>1, <3>1, GatheringStays DEF EndWalk
    <3>11. out' \in Seq(Nat)
      BY <1>1, <2>2
    <3> QED
      BY <1>1, <1>3, <2>1, <2>2, <3>1, <3>9, <3>10, <3>11, ItemEnds
  <2>4. CASE Len(frames) # 1
    <3>1. frames' = Front(frames) /\ UNCHANGED <<want, res>>
      BY <2>4 DEF LeaveNode
    <3>2. OnTree(t)' /\ Reached(t)' = Reached(t)
      BY <1>1, <2>2, <2>4, <3>1, WentBack
    <3>3. Ascends' /\ ShownUpTo(t, Reached(t))' /\ out' \in Seq(Nat)
      BY <1>1, <2>2, <3>2 DEF Ascends, ShownUpTo
    <3>4. stage = "chunks" => Gathering'
      BY <1>1, <3>1, GatheringStays
    <3> QED
      BY <1>1, <1>3, <2>1, <2>2, <3>1, <3>2, <3>3, <3>4, ItemGoesOn
  <2> QED
    BY <2>3, <2>4
<1> QED
  BY <1>1, <1>2, <1>3, WhenRunning

-----------------------------------------------------------------------------
(* What a sound volume shows *)

LEMMA SoundInvariance == Spec => []SoundInv
<1>1. Init => SoundInv
  <2> SUFFICES ASSUME Init, vol.kind = "sound" PROVE Starting /\ stage = "devices"
    BY DEF SoundInv
  <2>1. /\ vol \in Volumes /\ given = vol.paths /\ sb = None /\ nodes = Empty
        /\ found = <<>> /\ res = "none" /\ stage = "devices"
    BY DEF Init
  <2>2. vol.paths \in Seq(Range(vol.paths)) /\ Len(vol.paths) \in Nat
    BY <2>1, PathFacts, VolumesAssumption
  <2>3. Opening(0)
    BY <2>1, <2>2 DEF Opening
  <2>4. 0 \in 0..Len(vol.paths)
    BY <2>2
  <2> QED
    BY <2>1, <2>3, <2>4 DEF Starting
<1>2. Inv /\ SoundInv /\ [Next]_vars => SoundInv'
  <2> SUFFICES ASSUME Inv, SoundInv, [Next]_vars PROVE SoundInv'
    OBVIOUS
  <2>1. vol' = vol
    BY DEF Next, vars, OpenDevice, Bootstrap, EndOpen, Walk, ReadNode, VisitItem, Descend,
           LeaveNode
  <2>2. CASE vol.kind # "sound"
    BY <2>1, <2>2 DEF SoundInv
  <2>3. CASE vol.kind = "sound" /\ Next
    <3>1. Good
      BY <2>3 DEF Inv, Good
    <3> QED
      BY <2>3, <3>1, OpenDeviceSound, BootstrapSound, EndOpenSound, WalkSound, ReadNodeSound,
         VisitItemSound, DescendSound, LeaveNodeSound DEF Next
  <2>4. CASE UNCHANGED vars
    <3>1. /\ vol' = vol /\ given' = given /\ devs' = devs /\ sb' = sb /\ chunks' = chunks
          /\ found' = found /\ nodes' = nodes /\ stage' = stage /\ frames' = frames
          /\ want' = want /\ range' = range /\ out' = out /\ stopped' = stopped /\ res' = res
      BY <2>4 DEF vars
    <3>2. (Starting' <=> Starting) /\ (Gathered' <=> Gathered) /\ (Mapped' <=> Mapped)
      BY <3>1 DEF Starting, Opening, OfFirst, Gathered, Mapped
    <3>3. OfFirst(Len(vol.paths))' <=> OfFirst(Len(vol.paths))
      BY <3>1 DEF OfFirst
    <3>4. Gathering' <=> Gathering
      BY <3>1 DEF Gathering, Items
    <3>5. FailsOnlyWhenLost' <=> FailsOnlyWhenLost
      BY <3>1 DEF FailsOnlyWhenLost, Whole, BlockAt
    <3>6. OnItsWay' <=> OnItsWay
      BY <3>1 DEF OnItsWay, Walked, OnTree, InTree, ShownUpTo, Reached, Top, Ascends, Shows,
                  InRange
    <3> QED
      BY <3>1, <3>2, <3>3, <3>4, <3>5, <3>6 DEF SoundInv
  <2> QED
    BY <2>2, <2>3, <2>4
<1> QED
  BY <1>1, <1>2, Invariance, PTL DEF Spec

\* Every walk over a sound volume shows the items of its range in order, each
\* once and none left out, and all of them when it ends by itself without an
\* error: for every tree, however many blocks and levels it has, every size of
\* the cache, and whichever copies are damaged or fail to read (walk_node, fs.rs
\* 268).
THEOREM WalkShowsTheTree == Spec => []ShowsTheTree
<1>1. Inv /\ SoundInv => ShowsTheTree
  <2> SUFFICES ASSUME Inv, SoundInv, stage = "ready", vol.kind = "sound"
               PROVE  Shows(vol.fsTree)
    BY DEF ShowsTheTree
  <2>1. PICK t : t = Walked
    OBVIOUS
  <2>2. Good /\ t = vol.fsTree
    BY <2>1 DEF Inv, Good, Walked
  <2>3. Written(vol, t) /\ OnItsWay
    BY <2>1, <2>2, WalkedFacts
  <2>4. CASE res # "running"
    BY <2>1, <2>2, <2>3, <2>4 DEF OnItsWay
  <2>5. CASE res = "running"
    <3>1. OnTree(t) /\ Ascends /\ ShownUpTo(t, Reached(t)) /\ Stack
      BY <2>1, <2>3, <2>5 DEF OnItsWay, Inv, Falling, Stack
    <3>2. PICK n : n = Reached(t)
      OBVIOUS
    <3>3. n \in Nat /\ n <= Len(t.items)
      BY <2>3, <3>1, <3>2, ReachedFacts
    <3>4. \A i \in DOMAIN out : /\ out[i] \in InRange(t)
                                /\ \A k \in InRange(t) : k < out[i] => k \in Range(out)
      BY <2>3, <3>1, <3>2, <3>3, SeenOrder
    <3> QED
      BY <2>2, <2>5, <3>1, <3>4 DEF Shows, Ascends
  <2> QED
    BY <2>4, <2>5
<1> QED
  BY <1>1, Invariance, SoundInvariance, PTL

\* A walk over a sound volume fails at a block only if no copy of it is whole on
\* a device that reads (read_node, fs.rs 214), whatever the chunk map.
THEOREM LostBeforeFailure == Spec => []FailsOnlyWhenLost
<1>1. SoundInv => FailsOnlyWhenLost
  BY DEF SoundInv, FailsOnlyWhenLost
<1> QED
  BY <1>1, SoundInvariance, PTL

\* Whatever the order the devices are given in, open believes the newest of
\* their superblocks and knows every chunk of its chunk tree (Fs::open).
THEOREM NewestIsOpened == Spec => []OpensTheNewest
<1>1. Inv /\ SoundInv => OpensTheNewest
  <2> SUFFICES ASSUME Inv, SoundInv, stage = "ready", vol.kind = "sound"
               PROVE  /\ \A i \in DOMAIN vol.paths :
                           vol.supers[vol.paths[i]].generation <= sb.generation
                      /\ Gathered
    BY DEF OpensTheNewest, Gathered
  <2>1. Good /\ OfFirst(Len(vol.paths)) /\ Gathered
    BY DEF SoundInv, Good, Inv
  <2> QED
    BY <2>1, SoundFacts
<1> QED
  BY <1>1, Invariance, SoundInvariance, PTL
=============================================================================
