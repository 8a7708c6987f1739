----------------------------- MODULE MCTreeWalk -----------------------------
(* Volumes on two devices, sound, stale and corrupt, for TreeWalk. *)
EXTENDS TreeWalk

CONSTANTS d1, d2

\* Every logical address has a copy at the same address of d1 and one behind it
\* on d2.
Place(d, a) == IF d = d1 THEN <<d1, a>> ELSE <<d2, a + 12>>

Block(a, level, keys, ptrs) ==
  [addr |-> a, level |-> level, keys |-> keys, ptrs |-> ptrs, sum |-> TRUE,
   crowded |-> FALSE, garbled |-> {}]

Chunk(start, length, stripes) ==
  [start |-> start, length |-> length, striped |-> FALSE, stripes |-> stripes]

System == Chunk(0, 1, <<<<1, 0>>, <<2, 12>>>>)
Metadata == Chunk(1, 9, <<<<2, 13>>, <<1, 1>>>>)

Tree ==
  [a \in {0, 2, 3, 4, 5, 6, 7} |->
     CASE a = 0 -> Block(0, 0, <<0, 1>>, <<>>)
       [] a = 2 -> Block(2, 2, <<1, 7>>, <<3, 4>>)
       [] a = 3 -> Block(3, 1, <<1, 4>>, <<5, 6>>)
       [] a = 4 -> Block(4, 1, <<7>>, <<7>>)
       [] a = 5 -> Block(5, 0, <<1, 3>>, <<>>)
       [] a = 6 -> Block(6, 0, <<4, 6>>, <<>>)
       [] a = 7 -> Block(7, 0, <<7>>, <<>>)]

ChunkTree ==
  [root |-> 0, items |-> <<0, 1>>, from |-> [a \in {0} |-> 0], upto |-> [a \in {0} |-> 2]]

FsTree ==
  [root |-> 2, items |-> <<1, 3, 4, 6, 7>>,
   from |-> [a \in 2..7 |-> CASE a \in {2, 3, 5} -> 0 [] a = 6 -> 2 [] a \in {4, 7} -> 4],
   upto |-> [a \in 2..7 |-> CASE a = 5 -> 2 [] a \in {3, 6} -> 4 [] a \in {2, 4, 7} -> 5]]

Super(devid) ==
  [magic |-> TRUE, sum |-> TRUE, sizes |-> TRUE, devid |-> devid, fsid |-> 1, generation |-> 8, refused |-> FALSE,
   sums |-> TRUE, root |-> 2, chunk_root |-> 0, sys |-> <<System>>]

\* The first device missed the last write.
Supers == [d \in {d1, d2} |-> IF d = d1 THEN [Super(1) EXCEPT !.generation = 7]
                                        ELSE Super(2)]

Places(tree) == {Place(d, a) : d \in {d1, d2}, a \in DOMAIN tree}

\* Both devices hold the tree, but for the copies that differ.
OnDisk(tree, differ) ==
  LET at(p) == CHOOSE a \in DOMAIN tree : p \in {Place(d1, a), Place(d2, a)}
  IN  [p \in Places(tree) |->
         IF p \in DOMAIN differ THEN differ[p] ELSE tree[at(p)]]

Volume(kind, tree, differ) ==
  [kind |-> kind, paths |-> <<d2, d1>>, supers |-> Supers, weak |-> {},
   tree |-> tree, chunkTree |-> ChunkTree, fsTree |-> FsTree,
   blocks |-> OnDisk(tree, differ), chunkItems |-> Put(Put(Empty, 0, System), 1, Metadata)]

\* What a copy of the block at a can be instead of it.
Damaged(a) ==
  {Tree[a], None, [Tree[a] EXCEPT !.sum = FALSE, !.keys = <<2>>, !.ptrs = <<7>>],
   [Tree[a] EXCEPT !.addr = 9, !.keys = <<2>>], [Tree[a] EXCEPT !.crowded = TRUE]}

With(places, choice) == [p \in places |-> choice[p]]

TwoCopies(a) == {[p \in {Place(d1, a), Place(d2, a)} |-> IF p[1] = d1 THEN x ELSE y] :
                   x, y \in Damaged(a)}

SoundVolumes ==
  {Volume("sound", Tree, dif) : dif \in UNION {TwoCopies(a) : a \in {0, 2, 3, 6}}}
    \cup {[Volume("sound", Tree, dif) EXCEPT !.weak = {d}, !.paths = paths] :
            dif \in TwoCopies(6), d \in {d2}, paths \in {<<d1>>, <<d1, d2>>}}
    \cup {[Volume("sound", Tree, Empty) EXCEPT !.paths = <<d2>>]}

\* The key 6 was written last, as was its pointer's generation; d2 missed it.
StaleVolumes ==
  {Volume("stale", Tree, Put(Empty, Place(d, 6), Block(6, 0, <<4, 5>>, <<>>))) :
     d \in {d1, d2}}

CorruptTree(a, block) == Volume("corrupt", [Tree EXCEPT ![a] = block], Empty)

CorruptVolumes ==
  {CorruptTree(2, Block(2, l, <<1, 7>>, ps)) :
     l \in {1, 2, 3}, ps \in {<<2, 4>>, <<3, 2>>, <<3, 11>>}}
    \cup {CorruptTree(3, Block(3, l, ks, ps)) :
            l \in {1, 2}, ks \in {<<1, 4>>, <<6, 1>>}, ps \in {<<2, 3>>, <<5, 4>>}}
    \cup {CorruptTree(3, [Tree[3] EXCEPT !.garbled = {i}]) : i \in {1, 2}}
    \cup {CorruptTree(6, [Tree[6] EXCEPT !.garbled = {2}])}
    \cup {CorruptTree(3, Block(3, 1, <<>>, <<>>)), CorruptTree(6, Block(6, 0, <<6, 2>>, <<>>))}
    \cup {CorruptTree(0, Block(0, 0, <<1>>, <<>>))}
    \cup {[Volume("corrupt", Tree, Empty) EXCEPT !.supers = s] :
            s \in {[Supers EXCEPT ![d1] = None], [Supers EXCEPT ![d1].fsid = 2],
                   [Supers EXCEPT ![d2].refused = TRUE],
                   [Supers EXCEPT ![d2].sys = <<Chunk(0, 1, <<>>)>>],
                   [Supers EXCEPT ![d1].sum = FALSE],
                   [Supers EXCEPT ![d1].generation = 9, ![d1].root = 3,
                                  ![d1].sums = FALSE],
                   [Supers EXCEPT ![d1].devid = 2]}}
    \cup {[Volume("corrupt", Tree, Empty) EXCEPT !.chunkItems[1] = c] :
            c \in {Chunk(1, 9, <<>>), Chunk(1, 5, <<<<1, 1>>>>), Chunk(1, 9, <<<<3, 0>>>>),
                   [Metadata EXCEPT !.striped = TRUE]}}

\* A tree with more levels than the limit allows.
Deep == [Volume("corrupt", [a \in DOMAIN Tree \cup {8} |->
                  IF a = 8 THEN Block(8, 3, <<1>>, <<2>>) ELSE Tree[a]], Empty)
           EXCEPT !.supers[d2].root = 8]

MCVolumes == SoundVolumes \cup StaleVolumes \cup CorruptVolumes \cup {Deep}

MCRanges == {<<0, 8>>, <<0, 3>>, <<4, 6>>, <<3, 4>>, <<5, 5>>, <<6, 7>>, <<7, 8>>, <<4, 4>>}
=============================================================================
