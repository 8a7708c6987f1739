------------------------------ MODULE MCQueries ------------------------------
(* Filesystems with nested subvolumes and snapshots, sound and corrupt, for   *)
(* Queries.  The names 1 and 2 hash alike.  4 is 1 and 2 with a backslash     *)
(* between them, and 5 has bytes that are printed like 3.                     *)
EXTENDS Queries, TLC

MCHash == [n \in 1..5 |-> IF n = 3 THEN 1 ELSE 0]
MCParts == [n \in 1..5 |-> IF n = 4 THEN <<1, 2>> ELSE IF n = 5 THEN <<3>> ELSE <<n>>]

File(name, obj) == [name |-> name, obj |-> obj, ftype |-> "file", subvol |-> FALSE]
Dir(name, obj) == [File(name, obj) EXCEPT !.ftype = "dir"]
Link(name, obj) == [File(name, obj) EXCEPT !.ftype = "symlink"]
Sub(name, id) == [name |-> name, obj |-> id, ftype |-> "dir", subvol |-> TRUE]

\* A tree from the entries of its directories, in the order they were made, as
\* the kernel writes it: each entry is in both kinds of item.
MakeTree(index) ==
  LET children == {<<d, i>> : d \in DOMAIN index, i \in 1..4}
      real == {c \in children : c[2] \in DOMAIN index[c[1]]}
      at(c) == index[c[1]][c[2]]
      inodes == {at(c).obj : c \in {c \in real : ~at(c).subvol}} \cup {256}
      of(ino) == {c \in real : ~at(c).subvol /\ at(c).obj = ino}
  IN  [index  |-> index,
       items  |-> [k \in {<<c[1], Hash[at(c).name]>> : c \in real} |->
                     SelectSeq(index[k[1]], LAMBDA e : Hash[e.name] = k[2])],
       inodes |-> [i \in inodes |->
                     IF i = 256 THEN "dir" ELSE at(CHOOSE c \in of(i) : TRUE).ftype],
       refs   |-> [i \in {i \in inodes : of(i) # {}} |->
                     LET c == CHOOSE c \in of(i) : TRUE
                     IN  <<[parent |-> c[1], name |-> at(c).name]>>],
       broken |-> {}]

Root(id, root, snapshot) ==
  [id |-> id, root |-> root, dirid |-> 256, snapshot |-> snapshot]
Ref(child, parent, dirid, name) ==
  [child |-> child, parent |-> parent, dirid |-> dirid, name |-> name]

\* 300 lies in a directory of 5 and holds 290, which was moved there, and 302;
\* 301 is a snapshot of 300, and 303 one of 301, in which 290 and 302 are
\* placeholders.
Top == MakeTree([d \in {256, 257, 258} |->
         CASE d = 256 -> <<Dir(1, 257), File(2, 259), Sub(3, 301)>>
           [] d = 257 -> <<Sub(2, 300), Dir(1, 258), Link(3, 260)>>
           [] d = 258 -> <<File(3, 259), Sub(1, 303)>>])
Nested == MakeTree([d \in {256, 257} |->
         CASE d = 256 -> <<Sub(1, 302), Dir(2, 257)>>
           [] d = 257 -> <<File(1, 258), Sub(2, 290)>>])
Small == MakeTree([d \in {256} |-> <<File(2, 257)>>])
Bare == MakeTree([d \in {256} |-> <<>>])

Trees == [r \in {1, 2, 3, 4} |->
            CASE r = 1 -> Top [] r = 2 -> Nested [] r = 3 -> Small [] r = 4 -> Bare]

Sound1 ==
  [kind  |-> "sound", trees |-> Trees, lost |-> {},
   roots |-> <<Root(5, 1, FALSE), Root(290, 3, FALSE), Root(300, 2, FALSE),
               Root(301, 2, TRUE), Root(302, 4, FALSE), Root(303, 2, TRUE)>>,
   refs  |-> {<<5, 300>>, <<5, 301>>, <<5, 303>>, <<300, 290>>, <<300, 302>>},
   backrefs |-> <<Ref(290, 300, 257, 2), Ref(300, 5, 257, 2), Ref(301, 5, 256, 3),
                  Ref(302, 300, 256, 1), Ref(303, 5, 258, 1)>>,
   depth |-> <<5, 256>> :> 0 @@ <<5, 257>> :> 1 @@ <<5, 258>> :> 2 @@
             <<300, 256>> :> 2 @@ <<300, 257>> :> 3 @@ <<290, 256>> :> 4 @@
             <<302, 256>> :> 3 @@ <<301, 256>> :> 1 @@ <<301, 257>> :> 2 @@
             <<303, 256>> :> 3 @@ <<303, 257>> :> 4]

\* 302 was deleted; its tree is not yet gone.
Sound2 ==
  [Sound1 EXCEPT !.refs = @ \ {<<300, 302>>},
     !.backrefs = SelectSeq(@, LAMBDA b : b.child # 302)]

\* Names that do not keep when they are printed, of files, directories and
\* subvolumes; 1 and 2 are the path that 4 is taken for.
Sound3 ==
  [Sound1 EXCEPT
     !.trees[1] = MakeTree([d \in {256, 257, 258} |->
         CASE d = 256 -> <<Dir(1, 257), File(4, 259), Sub(3, 301)>>
           [] d = 257 -> <<Sub(2, 300), Dir(4, 258), Link(5, 260), File(3, 261)>>
           [] d = 258 -> <<File(3, 259), Sub(1, 303)>>]),
     !.trees[2] = MakeTree([d \in {256, 257} |->
         CASE d = 256 -> <<Sub(5, 302), Dir(2, 257)>>
           [] d = 257 -> <<File(5, 258), Sub(2, 290)>>]),
     !.backrefs = <<Ref(290, 300, 257, 2), Ref(300, 5, 257, 2), Ref(301, 5, 256, 3),
                    Ref(302, 300, 256, 5), Ref(303, 5, 258, 1)>>]

Corrupt == [Sound1 EXCEPT !.kind = "corrupt"]
WithTop(index) == [Corrupt EXCEPT !.trees[1] = MakeTree(index)]
Other == Top.index

CorruptFilesystems ==
  { WithTop([Other EXCEPT ![258] = <<Dir(3, 256), Dir(1, 258)>>]),   \* loops
    WithTop([Other EXCEPT ![258] = <<Sub(1, 300), Dir(2, 257)>>]),
    WithTop([Other EXCEPT ![256] = <<Dir(1, 257), Dir(2, 257), Dir(3, 999)>>]),
    WithTop([Other EXCEPT ![258] = <<Sub(3, 5)>>]),
    [Corrupt EXCEPT !.trees[1].broken = {258}],
    [Corrupt EXCEPT !.trees[1].broken = {257}],
    [Corrupt EXCEPT !.trees[2].broken = {256}],
    [Corrupt EXCEPT !.lost = {303}],
    [WithTop([Other EXCEPT ![256] = <<Dir(1, 257), Dir(2, 257), Sub(3, 301)>>])
       EXCEPT !.lost = {300}],
    [WithTop([Other EXCEPT ![256] = <<Dir(1, 257), Dir(2, 257)>>])
       EXCEPT !.trees[1].broken = {257}],
    [Corrupt EXCEPT !.trees[1].refs[257] = <<[parent |-> 258, name |-> 1]>>],
    [Corrupt EXCEPT !.trees[1].refs[258] = <<[parent |-> 999, name |-> 1]>>],
    [Corrupt EXCEPT !.roots = Tail(@)],                              \* no tree 5
    [Corrupt EXCEPT !.roots = SubSeq(@, 1, 2)],
    [Corrupt EXCEPT !.roots = SubSeq(@, 1, 1)],
    [Corrupt EXCEPT !.roots[2] = Root(300, 9, TRUE)],                \* two of one id
    [Corrupt EXCEPT !.refs = @ \cup {<<300, 5>>, <<301, 300>>}],
    [Corrupt EXCEPT !.backrefs[2] = Ref(300, 290, 256, 1)],          \* parents in a loop
    [Corrupt EXCEPT !.backrefs[2] = Ref(300, 777, 256, 1)],
    [Corrupt EXCEPT !.trees[1].index[258] = <<>>] }

MCFilesystems == {Sound1, Sound2, Sound3} \cup CorruptFilesystems

MCStarts == {<<>>, <<1>>, <<Up>>, <<1, 1, Up>>, <<1, 2>>, <<1, 3>>, <<3, 2>>, <<2>>,
             <<2, 1>>, <<1, 2, 1, Up, 2>>}

MCWishes ==
  {[max_depth |-> m, one_subvolume |-> FALSE, no_snapshots |-> s,
    types |-> {"dir", "file", "symlink"}, names |-> 1..5] : m \in {0, 2, 9}, s \in BOOLEAN}
    \cup {[max_depth |-> 9, one_subvolume |-> o, no_snapshots |-> FALSE,
           types |-> t, names |-> {1, 3}] : o \in BOOLEAN, t \in {{"file"}, {"dir", "symlink"}}}
=============================================================================
