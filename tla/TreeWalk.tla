------------------------------ MODULE TreeWalk ------------------------------
(***************************************************************************)
(* Opening a filesystem and walking its trees: Fs::open, Fs::read_node     *)
(* with its mirrors and its cache, and Fs::walk_node of fs.rs.  The        *)
(* recursion is a stack of frames: a node, and the next of its items.      *)
(*                                                                         *)
(* A volume is what is on the devices.  Each path has a superblock or      *)
(* none; a place, a path and a physical address, has a tree block or what  *)
(* is no block.  A block's sum says whether its checksum is right and      *)
(* garbled names the items whose offsets point out of it.  Keys are        *)
(* numbers; what the chunk tree's items say is in chunkItems.  A path in   *)
(* weak may fail to read at any time.  What was written last is in tree,   *)
(* the blocks, and in chunkTree and fsTree: the root of a tree, its items' *)
(* keys in order, and, for each of its blocks, how many of the items come  *)
(* before those below it and how many up to their end.  kind says how the  *)
(* copies differ from it: "sound" when each is that block or one that the  *)
(* checks of read_node can tell from it, "stale" when some are older       *)
(* blocks, "corrupt" when the tree itself is wrong.                        *)
(***************************************************************************)
EXTENDS ChunkMap, SequencesExt

CONSTANTS
  Volumes,       \* the volumes that may be given
  Ranges,        \* the ranges of keys that are walked, pairs <<min, max>>
  NodeSize,      \* the superblock's nodesize
  MaxKey,        \* the greatest key
  MaxDepth,      \* walk_node's depth limit; 8 in the code
  CacheMax,      \* the cache's limit; 8192 in the code
  MaxWalks,      \* bounds the walks after the open
  None           \* no superblock, no block, no chunk, nothing wanted

ASSUME WalkAssumption ==
  /\ {NodeSize, CacheMax} \subseteq Nat \ {0}
  /\ {MaxKey, MaxDepth, MaxWalks} \subseteq Nat
  /\ None \notin Nat
  /\ \A r \in Ranges : {r[1], r[2]} \subseteq Nat

(* A level is a byte of the block.                                         *)
ASSUME LevelsAssumption ==
  \A v \in Volumes : \A p \in DOMAIN v.blocks :
    v.blocks[p] # None => v.blocks[p].level \in Nat

(* A path is given; addresses are numbers, and chunks have a sequence of   *)
(* stripes.                                                                *)
HasStripes(chunk) == chunk.start \in Nat /\ DOMAIN chunk.stripes \subseteq Nat
ASSUME VolumesAssumption ==
  \A v \in Volumes :
    /\ DOMAIN v.tree \subseteq Nat
    /\ v.paths \in Seq(Range(v.paths)) /\ v.paths # <<>>
    /\ \A i \in DOMAIN v.paths :
         LET super == v.supers[v.paths[i]]
         IN  super # None => /\ super.generation \in Nat
                             /\ super.sys \in Seq(Range(super.sys))
                             /\ \A c \in Range(super.sys) : HasStripes(c)
    /\ \A k \in DOMAIN v.chunkItems : HasStripes(v.chunkItems[k])

(* What is wanted, an address and a level or none, is something.           *)
ASSUME NoneIsNoWant ==
  \A v \in Volumes : \A a \in DOMAIN v.tree : \A level \in (0..MaxDepth) \cup {None} :
    <<a, level>> # None

(* A tree as it is written: the items of a leaf are its part of the tree's *)
(* items, and those of any other block its children's, in order, each      *)
(* under the key it begins with and one level below.                       *)
Written(v, t) ==
  /\ t.items \in Seq(0..MaxKey)
  /\ \A i, j \in 1..Len(t.items) : i < j => t.items[i] < t.items[j]
  /\ t.root \in DOMAIN t.from /\ DOMAIN t.from \subseteq DOMAIN v.tree
  /\ t.from[t.root] = 0 /\ t.upto[t.root] = Len(t.items)
  /\ \A a \in DOMAIN t.from :
       LET b == v.tree[a]
       IN  /\ b # None /\ b.addr = a /\ b.sum /\ ~b.crowded /\ b.garbled = {}
           /\ b.level \in 0..MaxDepth
           /\ b.keys \in Seq(0..MaxKey)
           /\ t.from[a] \in Nat /\ t.upto[a] \in t.from[a]..Len(t.items)
           /\ b.level = 0 =>
                /\ Len(b.keys) = t.upto[a] - t.from[a]
                /\ \A i \in 1..Len(b.keys) : b.keys[i] = t.items[t.from[a] + i]
           /\ b.level > 0 =>
                /\ Len(b.keys) > 0
                /\ \A i \in 1..Len(b.keys) :
                     LET c == b.ptrs[i]
                     IN  /\ c \in DOMAIN t.from
                         /\ v.tree[c].level = b.level - 1
                         /\ t.from[c] < t.upto[c]
                         /\ b.keys[i] = t.items[t.from[c] + 1]
                         /\ t.from[c] = IF i = 1 THEN t.from[a] ELSE t.upto[b.ptrs[i - 1]]
                /\ t.upto[b.ptrs[Len(b.keys)]] = t.upto[a]

(* The superblocks of the last generation among those that are given.      *)
Newest(v) ==
  {v.supers[v.paths[i]] : i \in {i \in DOMAIN v.paths :
     \A j \in DOMAIN v.paths :
       v.supers[v.paths[j]].generation <= v.supers[v.paths[i]].generation}}

(* What it is for a volume to be sound.                                    *)
ASSUME SoundAssumption ==
  \A v \in Volumes : v.kind = "sound" =>
    /\ Written(v, v.chunkTree) /\ Written(v, v.fsTree)
    /\ \A super \in Newest(v) :
         /\ super.chunk_root = v.chunkTree.root /\ super.root = v.fsTree.root
         /\ \A p \in DOMAIN v.blocks :
              LET b == v.blocks[p]
              IN  /\ b # None /\ b.addr \in DOMAIN v.tree
                  /\ (super.sums => b.sum) /\ ~b.crowded
                  => b = v.tree[b.addr]
    /\ \A k \in DOMAIN v.chunkItems : k \in Range(v.chunkTree.items)
    /\ \A k, m \in DOMAIN v.chunkItems :
         v.chunkItems[k].start = v.chunkItems[m].start => k = m

VARIABLES
  vol,           \* the volume
  given,         \* the paths still to open
  devs,          \* devid -> path
  sb,            \* the superblock that is believed
  chunks,        \* the chunk map
  found,         \* the chunks the walk of the chunk tree has found
  nodes,         \* the cache: logical address -> block
  stage,         \* "devices", "chunks", "ready" or "failed"
  frames,        \* walk_node's calls: a node and its next item, innermost last
  want,          \* the block to be read next: its address and expected level
  range,         \* the walk's min and max
  out,           \* the keys the visitor has been shown
  stopped,       \* whether the visitor has stopped the walk
  res,           \* the walk: "none", "running", "true", "false" or "error"
  walks          \* how many walks there have been since the open

openVars == <<given, devs, sb, chunks, stage>>
vars == <<vol, given, devs, sb, chunks, found, nodes, stage, frames, want,
          range, out, stopped, res, walks>>

Empty == [a \in {} |-> None]

(* The map with one more entry, which replaces one of the same key.        *)
Put(f, key, value) ==
  [k \in DOMAIN f \cup {key} |-> IF k = key THEN value ELSE f[k]]

-----------------------------------------------------------------------------
(* Fs::open: the devices' superblocks, the system chunks, the chunk tree.  *)

Fail == stage' = "failed" /\ UNCHANGED <<given, devs, sb, chunks>>

(* A walk from a root over the keys of r.                                  *)
StartWalk(root, r) ==
  /\ want' = <<root, None>>
  /\ range' = r
  /\ frames' = <<>>
  /\ out' = <<>>
  /\ stopped' = FALSE
  /\ res' = "running"

\* A mutation: the last device's superblock is believed.
LastWins(super) == TRUE

Newer(super) == sb = None \/ super.generation > sb.generation

(* Superblock::parse: its magic, its checksum where that is crc32c, and    *)
(* the bounds of its sizes.                                                *)
Parses(super) ==
  /\ super # None /\ super.magic
  /\ super.sums => super.sum
  /\ super.sizes

(* Chunk::parse: a chunk has a stripe.                                     *)
ChunkParses(chunk) == chunk.stripes # <<>>

OpenDevice ==
  /\ stage = "devices" /\ given # <<>>
  /\ LET path  == Head(given)
         super == vol.supers[path]
     IN  \/ /\ ~Parses(super) \/ path \in vol.weak
            /\ Fail
         \/ /\ Parses(super)
            /\ IF sb # None /\ super.fsid # sb.fsid
               THEN Fail
               ELSE /\ given' = Tail(given)
                    /\ devs' = Put(devs, super.devid, path)
                    /\ sb' = IF Newer(super) THEN super ELSE sb
                    /\ UNCHANGED <<chunks, stage>>
  /\ UNCHANGED <<vol, found, nodes, frames, want, range, out, stopped, res, walks>>

(* Chunks in order, later ones replacing earlier ones of the same start.   *)
WithChunks(map, list) ==
  LET of(s) == {i \in DOMAIN list : list[i].start = s}
  IN  [s \in DOMAIN map \cup {c.start : c \in Range(list)} |->
         IF of(s) = {} THEN map[s] ELSE list[Greatest(of(s))]]

Bootstrap ==
  /\ stage = "devices" /\ given = <<>>
  /\ IF sb.refused \/ \E i \in DOMAIN sb.sys : ~ChunkParses(sb.sys[i])
     THEN Fail /\ UNCHANGED <<frames, want, range, out, stopped, res>>
     ELSE /\ chunks' = WithChunks(Empty, sb.sys)
          /\ stage' = "chunks"
          /\ StartWalk(sb.chunk_root, <<0, MaxKey>>)
          /\ UNCHANGED <<given, devs, sb>>
  /\ UNCHANGED <<vol, found, nodes, walks>>

(* The chunk tree has been walked; what it said joins the system chunks.   *)
EndOpen ==
  /\ stage = "chunks" /\ res # "running"
  /\ IF res = "error" THEN Fail
     ELSE /\ chunks' = WithChunks(chunks, found)
          /\ stage' = "ready"
          /\ UNCHANGED <<given, devs, sb>>
  /\ res' = "none"
  /\ out' = <<>>
  /\ UNCHANGED <<vol, found, nodes, frames, want, range, stopped, walks>>

-----------------------------------------------------------------------------
(* Fs::walk and Fs::read_node.                                             *)

Walk ==
  /\ stage = "ready" /\ res # "running" /\ walks < MaxWalks
  /\ walks' = walks + 1
  /\ \E r \in Ranges : StartWalk(sb.root, r)
  /\ UNCHANGED <<vol, openVars, found, nodes>>

EndWalk(result) ==
  /\ res' = result
  /\ frames' = <<>>
  /\ want' = IF result = "error" THEN want ELSE None

(* What read_node makes of one copy: it is passed over, it ends the read,  *)
(* or it is the node.                                                      *)
BlockAt(copy) ==
  LET place == <<copy[1], copy[2]>>
  IN  IF place \in DOMAIN vol.blocks THEN vol.blocks[place] ELSE None

Accepted(block, logical) ==
  /\ block # None
  /\ block.addr = logical
  /\ sb.sums => block.sum

\* A mutation: only the first copy is tried.
FirstOnly(logical, failing) ==
  LET places == Mirrors(chunks, devs, logical, NodeSize)
  IN  {p \in places \ failing : p = FirstOf(places) /\ Accepted(BlockAt(p), logical)}

(* The copies the read may end at, given those that fail to read.          *)
Usable(logical, failing) ==
  {p \in Mirrors(chunks, devs, logical, NodeSize) \ failing : Accepted(BlockAt(p), logical)}

(* What may fail to read, each time anew.                                  *)
Failing(logical) ==
  SUBSET {p \in Mirrors(chunks, devs, logical, NodeSize) : p[1] \in vol.weak}

(* The cache is emptied when it is full.                                   *)
Cached(logical, block) ==
  Put(IF Cardinality(DOMAIN nodes) >= CacheMax THEN Empty ELSE nodes, logical, block)

TooDeep == Len(frames) > MaxDepth

\* A mutation: a child of any level is taken.
AnyLevel(block, level) == TRUE

(* The level a child must have; the root may have any.                     *)
LevelFits(block, level) == level = None \/ block.level = level

Enter(block) ==
  IF LevelFits(block, want[2])
  THEN /\ frames' = Append(frames, [node |-> block, next |-> 1])
       /\ want' = None
       /\ UNCHANGED res
  ELSE EndWalk("error")

(* A block that claims too many items ends the read; any other is kept.     *)
EndRead(logical, block) ==
  IF block.crowded
  THEN EndWalk("error") /\ UNCHANGED nodes
  ELSE nodes' = Cached(logical, block) /\ Enter(block)

ReadNode ==
  /\ res = "running" /\ want # None
  /\ IF TooDeep
     THEN EndWalk("error") /\ UNCHANGED nodes
     ELSE LET logical == want[1]
          IN  IF logical \in DOMAIN nodes
              THEN Enter(nodes[logical]) /\ UNCHANGED nodes
              ELSE \E failing \in Failing(logical) :
                     LET usable == Usable(logical, failing)
                     IN  \/ usable = {} /\ EndWalk("error") /\ UNCHANGED nodes
                         \/ \E copy \in usable :
                              /\ copy = FirstOf(usable)
                              /\ EndRead(logical, BlockAt(copy))
  /\ UNCHANGED <<vol, openVars, found, range, out, stopped, walks>>

-----------------------------------------------------------------------------
(* walk_node over the innermost node.                                      *)

Top == Last(frames)
Advance == [frames EXCEPT ![Len(frames)].next = @ + 1]
InNode == res = "running" /\ want = None
AtItem == InNode /\ Top.next <= Len(Top.node.keys)
Key == Top.node.keys[Top.next]

(* The item's key, or its data, lies outside of the block.                 *)
Garbled(i) == i \in Top.node.garbled

Past == Key > range[2]

\* A mutation: a child is left out for beginning before the range.
BeginsBelow == Key < range[1]

(* A child is left out if its right neighbour begins at or before the      *)
(* range.                                                                  *)
EndsBelow == /\ Top.next < Len(Top.node.keys)
             /\ Top.node.keys[Top.next + 1] <= range[1]

(* The visitor goes on, stops the walk or fails.  The one of open collects *)
(* chunks and fails on a chunk that does not parse.                        *)
Shown ==
  /\ out' = Append(out, Key)
  /\ IF stage = "chunks" /\ Key \in DOMAIN vol.chunkItems
     THEN LET chunk == vol.chunkItems[Key]
          IN  IF ChunkParses(chunk)
              THEN /\ found' = Append(found, chunk)
                   /\ frames' = Advance
                   /\ UNCHANGED <<want, res, stopped>>
              ELSE EndWalk("error") /\ UNCHANGED <<found, stopped>>
     ELSE /\ UNCHANGED found
          /\ \/ /\ frames' = Advance
                /\ UNCHANGED <<want, res, stopped>>
             \/ /\ stage = "ready"
                /\ stopped' = TRUE
                /\ EndWalk("false") \/ EndWalk("error")

VisitItem ==
  /\ AtItem /\ Top.node.level = 0
  /\ IF Garbled(Top.next)
     THEN EndWalk("error") /\ UNCHANGED <<found, out, stopped>>
     ELSE \/ /\ Key < range[1]
             /\ frames' = Advance
             /\ UNCHANGED <<want, res, found, out, stopped>>
          \/ /\ Key >= range[1] /\ Past
             /\ EndWalk("false")
             /\ UNCHANGED <<found, out, stopped>>
          \/ /\ Key >= range[1] /\ ~Past
             /\ Shown
  /\ UNCHANGED <<vol, openVars, nodes, range, walks>>

(* The pointers: the one at hand, and the next for the key it begins with. *)
Descend ==
  /\ AtItem /\ Top.node.level > 0
  /\ \/ /\ Garbled(Top.next)
        /\ EndWalk("error")
     \/ /\ ~Garbled(Top.next) /\ Past
        /\ EndWalk("false")
     \/ /\ ~Garbled(Top.next) /\ ~Past /\ Garbled(Top.next + 1)
        /\ EndWalk("error")
     \/ /\ ~Garbled(Top.next) /\ ~Past /\ ~Garbled(Top.next + 1)
        /\ frames' = Advance
        /\ want' = IF EndsBelow THEN None
                   ELSE <<Top.node.ptrs[Top.next], Top.node.level - 1>>
        /\ UNCHANGED res
  /\ UNCHANGED <<vol, openVars, found, nodes, range, out, stopped, walks>>

(* Every item of the node is done: back to its parent, or out.             *)
LeaveNode ==
  /\ InNode /\ Top.next > Len(Top.node.keys)
  /\ IF Len(frames) = 1
     THEN EndWalk("true")
     ELSE frames' = Front(frames) /\ UNCHANGED <<want, res>>
  /\ UNCHANGED <<vol, openVars, found, nodes, range, out, stopped, walks>>

-----------------------------------------------------------------------------
(* What holds.                                                             *)

(* The types; the stack is no deeper than the limit allows, whatever the   *)
(* levels on disk say, and the cache no larger than its own.               *)
TypeOK ==
  /\ stage \in {"devices", "chunks", "ready", "failed"}
  /\ res \in {"none", "running", "true", "false", "error"}
  /\ stopped \in BOOLEAN
  /\ walks \in 0..MaxWalks
  /\ Len(frames) <= MaxDepth + 1
  /\ Cardinality(DOMAIN nodes) <= CacheMax

(* walk visits "every item with min <= key <= max in order" (fs.rs 268):   *)
(* whatever copies are damaged or fail to read, and whatever the cache has *)
(* kept or dropped in the middle of the walk, the visitor has seen the     *)
(* first of the range's items in their order, each once and none left out, *)
(* and all of them when the walk ends by itself without an error.          *)
InRange(t) == {k \in Range(t.items) : range[1] <= k /\ k <= range[2]}

Shows(t) ==
  /\ \A i, j \in DOMAIN out : i < j => out[i] < out[j]
  /\ \A i \in DOMAIN out : /\ out[i] \in InRange(t)
                            /\ \A k \in InRange(t) : k < out[i] => k \in Range(out)
  /\ res \in {"true", "false"} /\ ~stopped => InRange(t) \subseteq Range(out)

ShowsTheTree == stage = "ready" /\ walks > 0 /\ vol.kind = "sound" => Shows(vol.fsTree)

(* A walk over a sound tree fails at a block only if no copy of it is      *)
(* whole on a device that reads, or if a copy that claims too many items   *)
(* comes before it: a bad sector or a bad checksum in one copy "is exactly *)
(* what the other copy is there for" (fs.rs 214).                          *)
Whole(logical) ==
  LET places == Mirrors(chunks, devs, logical, NodeSize)
  IN  \E p \in places :
        /\ p[1] \notin vol.weak
        /\ BlockAt(p) = vol.tree[logical]
        /\ \A r \in places : r[3] < p[3] /\ BlockAt(r) # None => ~BlockAt(r).crowded

FailsOnlyWhenLost ==
  stage = "ready" /\ vol.kind = "sound" /\ res = "error" /\ want # None
    => ~Whole(want[1])

(* "A node must sit lower than its parent. Without this a node pointing at *)
(* itself (or at an ancestor) would be walked until the depth cap" (fs.rs  *)
(* 285): no node is entered again below itself.                            *)
NoLoopEntered ==
  \A i, j \in DOMAIN frames : i < j => frames[i].node.addr # frames[j].node.addr

(* open believes the newest of the superblocks it was given, and then      *)
(* knows every chunk of that superblock's chunk tree.                      *)
OpensTheNewest ==
  stage = "ready" /\ vol.kind = "sound" =>
    /\ \A i \in DOMAIN vol.paths :
         vol.supers[vol.paths[i]].generation <= sb.generation
    /\ \A k \in DOMAIN vol.chunkItems :
         LET c == vol.chunkItems[k]
         IN  c.start \in DOMAIN chunks /\ chunks[c.start] = c

-----------------------------------------------------------------------------
Init ==
  /\ vol \in Volumes
  /\ given = vol.paths
  /\ devs = Empty /\ chunks = Empty /\ nodes = Empty
  /\ sb = None
  /\ found = <<>>
  /\ stage = "devices"
  /\ frames = <<>> /\ want = None /\ range = <<0, 0>>
  /\ out = <<>> /\ stopped = FALSE
  /\ res = "none"
  /\ walks = 0

Next ==
  \/ OpenDevice \/ Bootstrap \/ EndOpen
  \/ Walk \/ ReadNode \/ VisitItem \/ Descend \/ LeaveNode

Spec == Init /\ [][Next]_vars
=============================================================================
