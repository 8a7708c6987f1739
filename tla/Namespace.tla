------------------------------ MODULE Namespace ------------------------------
(***************************************************************************)
(* Names, inodes and subvolumes: the queries of fs.rs that read one item   *)
(* or the items of one directory, over a filesystem's trees.  What the     *)
(* walks under them do is in TreeWalk; here a walk over the items of an    *)
(* inode in a tree's broken set fails, and any other returns them.         *)
(*                                                                         *)
(* The root tree is roots, the ROOT_ITEMs in key order; refs, the pairs of *)
(* a parent's and a child's id that have a ROOT_REF; and backrefs, the     *)
(* ROOT_BACKREFs in key order.  A ROOT_ITEM points to one of trees, which  *)
(* has the types of its inodes, its DIR_ITEMs by directory and hash, its   *)
(* DIR_INDEX items and its INODE_REFs by inode.  The ROOT_ITEMs of the     *)
(* subvolumes in lost cannot be read once is_snapshot comes to them.  Of a *)
(* filesystem that is sound, depth tells how far below the top each        *)
(* directory lies; no query looks at it.                                   *)
(*                                                                         *)
(* A name is a number for its bytes, and ".." is Up.  A path is a sequence *)
(* of these: a text that resolve is given is one as it comes apart, at "/" *)
(* and "\", without the parts that are empty or ".".                       *)
(***************************************************************************)
EXTENDS Integers, Sequences, FiniteSets, SequencesExt

CONSTANTS
  Hash,        \* name_hash, a function on names
  Parts,       \* what resolve takes each name apart to after it was printed
  Up,          \* ".."
  MaxClimb,    \* path_in_tree's limit on parents; 4096 in the code
  Error,       \* a query that failed
  None         \* a query that found nothing

(* The names that are UTF-8 and hold no separator come back as they are.   *)
Plain == {n \in DOMAIN Hash : Parts[n] = <<n>>}

ASSUME NamespaceAssumption ==
  /\ DOMAIN Hash \subseteq Nat \ {0}
  /\ Up \notin DOMAIN Hash
  /\ Parts \in [DOMAIN Hash -> Seq(Plain \cup {Up})]
  /\ MaxClimb \in Nat

VARIABLE fs

FS_TREE_OBJECTID == 5
Loc(tree, ino) == [tree |-> tree, ino |-> ino]
Placeholder == Loc(0, 0)
is_placeholder(loc) == loc.tree = 0

(* Fs::tree takes the last of a subvolume's ROOT_ITEMs.                    *)
RootItems(id) == {i \in DOMAIN fs.roots : fs.roots[i].id = id}
RootItem(id) == fs.roots[Max(RootItems(id))]
HasTree(id) == RootItems(id) # {} /\ RootItem(id).root \in DOMAIN fs.trees
RootOf(id) == Loc(id, RootItem(id).dirid)
Tree(id) == fs.trees[RootItem(id).root]
Reads(loc) == HasTree(loc.tree) /\ loc.ino \notin Tree(loc.tree).broken

(* What is_snapshot says, unless its walk fails.                           *)
CannotTell(id) == id \in fs.lost
is_snapshot(id) == RootItems(id) # {} /\ RootItem(id).snapshot

(* The type an inode has, which for a placeholder is made up.              *)
inode(loc) ==
  IF is_placeholder(loc) THEN "dir"
  ELSE IF Reads(loc) /\ loc.ino \in DOMAIN Tree(loc.tree).inodes
       THEN Tree(loc.tree).inodes[loc.ino]
       ELSE Error

-----------------------------------------------------------------------------
\* A mutation: a nested subvolume is entered from every snapshot of its parent.
LinkedAnywhere(tree, child) == TRUE

(* A ROOT_REF ties the child to this very tree.                            *)
Linked(tree, child) == <<tree, child>> \in fs.refs

(* An entry of a subvolume leads to the subvolume's root if it is linked,  *)
(* and to an empty directory if not.                                       *)
entry(dir, e) ==
  IF ~e.subvol
  THEN [name |-> e.name, loc |-> Loc(dir.tree, e.obj), ftype |-> e.ftype, subvol |-> FALSE]
  ELSE IF Linked(dir.tree, e.obj) /\ ~HasTree(e.obj) THEN Error
  ELSE [name |-> e.name, ftype |-> "dir", subvol |-> TRUE,
        loc |-> IF Linked(dir.tree, e.obj) THEN RootOf(e.obj) ELSE Placeholder]

\* A mutation: the first of the entries that share a hash is taken.
FirstOfHash(entries, name) == DOMAIN entries

(* A DIR_ITEM holds an entry for each name of its hash.                    *)
OfName(entries, name) == {i \in DOMAIN entries : entries[i].name = name}

lookup(dir, name) ==
  LET items == Tree(dir.tree).items
      key   == <<dir.ino, Hash[name]>>
      named == OfName(items[key], name)
  IN  IF is_placeholder(dir) THEN None
      ELSE IF ~Reads(dir) THEN Error
      ELSE IF key \notin DOMAIN items THEN None
      ELSE IF named = {} THEN None
      ELSE entry(dir, items[key][Min(named)])

(* What sort_by and sort_by_key do: those of one key stay in their order.  *)
Sorted(seq, key) ==
  LET upTo(i) == {j \in DOMAIN seq : key[j] < key[i] \/ (key[j] = key[i] /\ j <= i)}
  IN  [k \in DOMAIN seq |-> seq[CHOOSE i \in DOMAIN seq : Cardinality(upTo(i)) = k]]

ByName(entries) == Sorted(entries, [i \in DOMAIN entries |-> entries[i].name])

(* Every entry of a directory, sorted by name; one that fails fails all.   *)
readdir(dir) ==
  LET index == Tree(dir.tree).index
      all   == IF dir.ino \in DOMAIN index
               THEN [i \in DOMAIN index[dir.ino] |-> entry(dir, index[dir.ino][i])]
               ELSE <<>>
  IN  IF is_placeholder(dir) THEN <<>>
      ELSE IF ~Reads(dir) \/ Error \in Range(all) THEN Error
      ELSE ByName(all)

-----------------------------------------------------------------------------
(* Fs::resolve: the directories from the top-level root to where the path  *)
(* has come, or why it came no further.                                    *)
Above(stack) == IF Len(stack) > 1 THEN Front(stack) ELSE stack

Step(stack, part) ==
  LET dir   == Last(stack)
      found == lookup(dir, part)
  IN  IF stack \in {Error, None} THEN stack
      ELSE IF part = Up THEN Above(stack)
      ELSE IF ~is_placeholder(dir) /\ inode(dir) # "dir" THEN Error
      ELSE IF found \in {Error, None} THEN found
      ELSE Append(stack, found.loc)

Walked(path) ==
  LET top == IF HasTree(FS_TREE_OBJECTID) THEN <<RootOf(FS_TREE_OBJECTID)>> ELSE Error
      walk[n \in 0..Len(path)] == IF n = 0 THEN top ELSE Step(walk[n - 1], path[n])
  IN  walk[Len(path)]

resolve(path) ==
  LET walked == Walked(path)
  IN  IF walked \in {Error, None} THEN walked ELSE Last(walked)

(* A path whose names were printed, lossily and with "/" between them, and *)
(* given to resolve.                                                       *)
GivenBack(path) ==
  FlattenSeq([i \in DOMAIN path |-> IF path[i] = Up THEN <<Up>> ELSE Parts[path[i]]])

Kept(path) == \A i \in DOMAIN path : path[i] \in Plain \cup {Up}

-----------------------------------------------------------------------------
(* Fs::path_in_tree: the names from the tree's root down to an inode, by   *)
(* its first INODE_REF and its parents'.                                   *)
path_in_tree(id, ino) ==
  LET top  == RootOf(id).ino
      refs == Tree(id).refs
      climb[n \in 0..MaxClimb] ==
        IF n = 0 THEN [at |-> ino, names |-> <<>>]
        ELSE LET here == climb[n - 1]
             IN  IF here = Error \/ here.at = top THEN here
                 ELSE IF ~Reads(Loc(id, here.at)) \/ here.at \notin DOMAIN refs THEN Error
                 ELSE [at    |-> refs[here.at][1].parent,
                       names |-> <<refs[here.at][1].name>> \o here.names]
      end  == climb[MaxClimb]
  IN  IF ~HasTree(id) \/ end = Error \/ end.at # top THEN Error ELSE end.names

-----------------------------------------------------------------------------
(* A filesystem as the kernel writes it.                                   *)

Ftypes == {"dir", "file", "symlink"}
Stored == [name : DOMAIN Hash, obj : Nat, ftype : Ftypes, subvol : BOOLEAN]
Roots(f) == [id : Nat \ {0}, root : DOMAIN f.trees, dirid : Nat, snapshot : BOOLEAN]
BackrefItems == [child : Nat, parent : Nat, dirid : Nat, name : DOMAIN Hash]

Entries(t, d) == IF d \in DOMAIN t.index THEN Range(t.index[d]) ELSE {}
Hashed(t, d, h) == IF <<d, h>> \in DOMAIN t.items THEN Range(t.items[<<d, h>>]) ELSE {}

(* A name is once in its directory, in a DIR_INDEX item and in the         *)
(* DIR_ITEM of its hash.  A directory has one parent, which its INODE_REF  *)
(* names.                                                                  *)
SoundTree(t) ==
  /\ t.broken = {}
  /\ DOMAIN t.inodes \subseteq Nat
  /\ \A key \in DOMAIN t.items : t.items[key] \in Seq(Stored)
  /\ \A d \in DOMAIN t.index :
       /\ d \in DOMAIN t.inodes /\ t.inodes[d] = "dir"
       /\ t.index[d] \in Seq(Stored)
       /\ \A i, j \in DOMAIN t.index[d] : t.index[d][i].name = t.index[d][j].name => i = j
  /\ \A d \in DOMAIN t.inodes, n \in DOMAIN Hash :
       {e \in Entries(t, d) : e.name = n} = {e \in Hashed(t, d, Hash[n]) : e.name = n}
  /\ \A d \in DOMAIN t.index : \A e \in Entries(t, d) :
       ~e.subvol =>
         /\ e.obj \in DOMAIN t.inodes /\ t.inodes[e.obj] = e.ftype
         /\ e.ftype = "dir" => /\ e.obj \in DOMAIN t.refs
                               /\ t.refs[e.obj][1] = [parent |-> d, name |-> e.name]

(* The entry of a directory that its INODE_REF names is there.             *)
SoundParent(t, d) ==
  \E e \in Entries(t, t.refs[d][1].parent) :
    ~e.subvol /\ e.obj = d /\ e.name = t.refs[d][1].name

(* The trees are tied together by ROOT_REFs and ROOT_BACKREFs, which agree *)
(* with the one entry that each subvolume has, all of them below tree 5.   *)
SoundLinks(f) ==
  /\ f.backrefs \in Seq(BackrefItems)
  /\ \A i, j \in DOMAIN f.backrefs : f.backrefs[i].child = f.backrefs[j].child => i = j
  /\ \A r \in Range(f.roots) : \A d \in DOMAIN f.trees[r.root].index :
       \A e \in Entries(f.trees[r.root], d) :
         e.subvol /\ <<r.id, e.obj>> \in f.refs =>
           [child |-> e.obj, parent |-> r.id, dirid |-> d, name |-> e.name] \in Range(f.backrefs)
  /\ \A b \in Range(f.backrefs) :
       /\ b.child >= 256 /\ <<b.parent, b.child>> \in f.refs
       /\ \E r \in Range(f.roots) : r.id = b.child
       /\ \E r \in Range(f.roots) : r.id = b.parent /\
            \E e \in Entries(f.trees[r.root], b.dirid) :
              e.subvol /\ e.obj = b.child /\ e.name = b.name
       /\ b.parent # FS_TREE_OBJECTID => \E c \in Range(f.backrefs) : c.child = b.parent

(* Directories form no loop: each lies one deeper than the one it is in.   *)
SoundDepths(f) ==
  /\ \A r \in Range(f.roots) :
       LET t == f.trees[r.root]
       IN  /\ \A d \in {i \in DOMAIN t.inodes : t.inodes[i] = "dir"} :
                /\ <<r.id, d>> \in DOMAIN f.depth
                /\ f.depth[<<r.id, d>>] \in Nat
                /\ f.depth[<<r.id, d>>] >= f.depth[<<r.id, r.dirid>>]
           /\ \A d \in DOMAIN t.index : \A e \in Entries(t, d) :
                ~e.subvol /\ e.ftype = "dir" =>
                  f.depth[<<r.id, e.obj>>] = f.depth[<<r.id, d>>] + 1
  /\ \A r \in Range(f.roots), b \in Range(f.backrefs) :
       r.id = b.child => f.depth[<<r.id, r.dirid>>] = f.depth[<<b.parent, b.dirid>>] + 1

IsSound(f) ==
  /\ f.lost = {}
  /\ f.roots \in Seq(Roots(f))
  /\ \A i, j \in DOMAIN f.roots : f.roots[i].id = f.roots[j].id => i = j
  /\ \E r \in Range(f.roots) : r.id = FS_TREE_OBJECTID
  /\ \A r \in Range(f.roots) :
       LET t == f.trees[r.root]
       IN  /\ SoundTree(t)
           /\ r.dirid \in DOMAIN t.inodes /\ t.inodes[r.dirid] = "dir"
           /\ \A d \in DOMAIN t.index \ {r.dirid} : SoundParent(t, d)
  /\ SoundLinks(f)
  /\ SoundDepths(f)
=============================================================================
