------------------------------- MODULE Queries -------------------------------
(***************************************************************************)
(* The two commands that combine many queries: `subvols`, which lists the  *)
(* subvolumes with their paths (Fs::subvols), and `find` (main.rs).        *)
(*                                                                         *)
(* find's recursion is a stack of directories, each with the entries that  *)
(* are left of it; call is a call of find that is about to be made.  The   *)
(* paths hold the names themselves; GivenBack is what their text leads to. *)
(***************************************************************************)
EXTENDS Namespace

CONSTANTS
  Filesystems,     \* the filesystems that may be given
  Starts,          \* the paths find may be given
  Wishes,          \* the options find may be given
  MAX_FIND_DEPTH   \* 256 in the code

Paths == Seq(DOMAIN Hash \cup {Up})
Locs == [tree : Nat, ino : Nat]
Shown == [name : DOMAIN Hash, loc : Locs, ftype : Ftypes, subvol : BOOLEAN]

ASSUME QueriesAssumption ==
  /\ MAX_FIND_DEPTH \in Nat
  /\ \A path \in Starts : path \in Paths /\ Kept(path)
  /\ \A w \in Wishes : w.max_depth \in Nat /\ w # None

(* What failed or was not found is no answer.                              *)
ASSUME MarkersAssumption ==
  \A m \in {Error, None} :
    /\ m \notin Locs /\ m \notin Seq(Locs)
    /\ m \notin Shown /\ m \notin Seq(Shown)
    /\ m \notin [dir : Locs, path : Paths]
    /\ m \notin Paths /\ m \notin [at : Nat, names : Paths]

(* Corrupt or not, a directory's items come as entries of this form.       *)
ASSUME StoredAssumption ==
  \A f \in Filesystems : \A t \in DOMAIN f.trees : \A d \in DOMAIN f.trees[t].index :
    f.trees[t].index[d] \in Seq(Stored)

ASSUME SoundAssumption == \A f \in Filesystems : f.kind = "sound" => IsSound(f)

VARIABLES
  pc,          \* "start", "find", "subvols" or "done"
  q,           \* find: the options
  start,       \* find: the path it was given
  stack,       \* find: the calls that have read their directory, outermost first
  call,        \* find: the call to be made: a directory and its path
  seen,        \* find: the HashSet of the same name
  out,         \* find: the paths printed; subvols: the subvolumes
  warnings,    \* find: the paths a child's error was printed for
  paths,       \* subvols: the paths that are known, by id
  pending,     \* subvols: the items that are left of this pass
  next,        \* subvols: the items for the next pass
  before,      \* subvols: how many items this pass began with
  failed       \* whether the command ended with an error

findVars == <<q, start, stack, call, seen, warnings>>
subvolVars == <<paths, pending, next, before>>
vars == <<fs, pc, q, start, stack, call, seen, out, warnings, paths, pending,
          next, before, failed>>

-----------------------------------------------------------------------------
(* find *)

BeginFind ==
  /\ pc = "start"
  /\ start' \in Starts
  /\ q' \in Wishes
  /\ LET dir == resolve(start')
     IN  IF dir \in {Error, None}
         THEN /\ pc' = "done" /\ failed' = TRUE
              /\ UNCHANGED call
         ELSE /\ pc' = "find"
              /\ call' = [dir |-> dir, path |-> start']
              /\ UNCHANGED failed
  /\ UNCHANGED <<fs, stack, seen, out, warnings, subvolVars>>

(* The call at path returns: to main, or to the loop it was made in, which *)
(* prints an error and goes on.                                            *)
Return(above, path, error) ==
  /\ stack' = above
  /\ call' = None
  /\ IF above = <<>>
     THEN /\ pc' = "done"
          /\ failed' = error
          /\ UNCHANGED warnings
     ELSE /\ warnings' = IF error THEN Append(warnings, path) ELSE warnings
          /\ UNCHANGED <<pc, failed>>

AtLimit == Len(stack) >= q.max_depth \/ Len(stack) >= MAX_FIND_DEPTH

EnterDirectory ==
  /\ pc = "find" /\ call # None
  /\ LET entries == readdir(call.dir)
     IN  IF AtLimit THEN Return(stack, call.path, FALSE) /\ UNCHANGED seen
         ELSE IF call.dir \in seen THEN Return(stack, call.path, TRUE) /\ UNCHANGED seen
         ELSE /\ seen' = seen \cup {call.dir}
              /\ IF entries = Error THEN Return(stack, call.path, TRUE)
                 ELSE /\ stack' = Append(stack, [dir |-> call.dir, path |-> call.path,
                                                 left |-> entries])
                      /\ call' = None
                      /\ UNCHANGED <<pc, warnings, failed>>
  /\ UNCHANGED <<fs, q, start, out, subvolVars>>

Kind(e) == IF e.ftype \in {"dir", "symlink"} THEN e.ftype ELSE "file"
Matches(e) == Kind(e) \in q.types /\ e.name \in q.names

(* The options leave out a subvolume that is really there.                 *)
Skips(e) ==
  /\ e.subvol /\ ~is_placeholder(e.loc)
  /\ q.one_subvolume \/ (q.no_snapshots /\ is_snapshot(e.loc.tree))

(* They ask is_snapshot, which fails.                                      *)
Fails(e) ==
  /\ e.subvol /\ ~is_placeholder(e.loc)
  /\ ~q.one_subvolume /\ q.no_snapshots /\ CannotTell(e.loc.tree)

(* The entry is printed, and entered if it is a directory; or the loop is  *)
(* left with an error, and its directory with it, which stays in the set.  *)
NextEntry ==
  /\ pc = "find" /\ call = None /\ Last(stack).left # <<>>
  /\ LET frame == Last(stack)
         e     == Head(frame.left)
         path  == Append(frame.path, e.name)
     IN  /\ out' = IF Matches(e) THEN Append(out, path) ELSE out
         /\ IF Fails(e) THEN Return(Front(stack), frame.path, TRUE)
            ELSE /\ stack' = [stack EXCEPT ![Len(stack)].left = Tail(@)]
                 /\ call' = IF Kind(e) = "dir" /\ ~Skips(e)
                            THEN [dir |-> e.loc, path |-> path] ELSE None
                 /\ UNCHANGED <<pc, warnings, failed>>
  /\ UNCHANGED <<fs, q, start, seen, subvolVars>>

\* A mutation: a directory that is done stays in the set.
StaysSeen(dir) == seen

Unseen(dir) == seen \ {dir}

LeaveDirectory ==
  /\ pc = "find" /\ call = None /\ Last(stack).left = <<>>
  /\ seen' = Unseen(Last(stack).dir)
  /\ Return(Front(stack), Last(stack).path, FALSE)
  /\ UNCHANGED <<fs, q, start, out, subvolVars>>

-----------------------------------------------------------------------------
(* subvols *)

(* The ROOT_ITEMs of subvolumes, the first of each, in key order.          *)
Items ==
  LET firsts == {i \in DOMAIN fs.roots :
                   /\ fs.roots[i].id >= 256
                   /\ i = 1 \/ fs.roots[i - 1].id # fs.roots[i].id}
  IN  [k \in 1..Cardinality(firsts) |->
         fs.roots[CHOOSE i \in firsts : Cardinality({j \in firsts : j <= i}) = k]]

Backrefs(child) == {i \in DOMAIN fs.backrefs : fs.backrefs[i].child = child}

BeginSubvols ==
  /\ pc = "start"
  /\ pc' = IF Items = <<>> THEN "done" ELSE "subvols"
  /\ paths' = [id \in {FS_TREE_OBJECTID} |-> <<>>]
  /\ pending' = Items
  /\ before' = Len(Items)
  /\ UNCHANGED <<fs, findVars, out, next, failed>>

\* A mutation: the directory the subvolume lies in is left out.
PathWithoutDir(parent, dir, name) == Append(parent, name)

PathOf(parent, dir, name) == Append(parent \o dir, name)

(* One subvolume, by its last ROOT_BACKREF: it has lost its parent, or     *)
(* waits for its parent's path, or gets its own.  One whose directory      *)
(* cannot be found fails them all.                                         *)
NextSubvol ==
  /\ pc = "subvols" /\ pending # <<>>
  /\ pending' = Tail(pending)
  /\ LET item == Head(pending)
         refs == Backrefs(item.id)
         ref  == fs.backrefs[Max(refs)]
         dir  == path_in_tree(ref.parent, ref.dirid)
         path == PathOf(paths[ref.parent], dir, ref.name)
     IN  IF refs = {} THEN UNCHANGED <<pc, paths, next, out, failed>>
         ELSE IF ref.parent \notin DOMAIN paths
              THEN next' = Append(next, item) /\ UNCHANGED <<pc, paths, out, failed>>
         ELSE IF dir = Error
              THEN /\ pc' = "done" /\ failed' = TRUE
                   /\ out' = <<>>
                   /\ UNCHANGED <<paths, next>>
         ELSE /\ paths' = [id \in DOMAIN paths \cup {item.id} |->
                             IF id = item.id THEN path ELSE paths[id]]
              /\ out' = Append(out, [id |-> item.id, path |-> path])
              /\ UNCHANGED <<pc, next, failed>>
  /\ UNCHANGED <<fs, findVars, before>>

\* A mutation: passes go on while any subvolume waits.
NoneLeft == next = <<>>

(* A pass in which every item had to wait is the last.                     *)
NoProgress == next = <<>> \/ Len(next) = before

NextPass ==
  /\ pc = "subvols" /\ pending = <<>>
  /\ IF NoProgress
     THEN /\ pc' = "done"
          /\ out' = Sorted(out, [i \in DOMAIN out |-> out[i].id])
          /\ UNCHANGED <<pending, before>>
     ELSE /\ pending' = next
          /\ before' = Len(next)
          /\ UNCHANGED <<pc, out>>
  /\ next' = <<>>
  /\ UNCHANGED <<fs, findVars, paths, failed>>

-----------------------------------------------------------------------------
(* What holds.                                                             *)

Found == pc = "done" /\ q # None /\ ~failed
Listed == pc = "done" /\ q = None /\ ~failed
Sound == fs.kind = "sound"

(* What find should print, told by resolve alone: the paths of these names *)
(* that resolve, within the depth, of the kinds and names that were asked  *)
(* for, and not below a subvolume that the options leave out.              *)
EntryAt(path) == lookup(resolve(Front(path)), Last(path))

Wanted(names) ==
  LET deep == IF q.max_depth < MAX_FIND_DEPTH THEN q.max_depth ELSE MAX_FIND_DEPTH
      below == UNION {[1..n -> names] : n \in 1..deep}
  IN  {start \o p : p \in {p \in below :
         /\ resolve(start \o p) \notin {Error, None}
         /\ Matches(EntryAt(start \o p))
         /\ \A n \in 1..Len(p) - 1 : ~Skips(EntryAt(start \o SubSeq(p, 1, n)))}}

(* find goes through DIR_INDEX items from directory to directory; lookup   *)
(* goes through DIR_ITEMs, where names that hash alike share one.  In a    *)
(* sound filesystem the two agree: find prints each path that lookup leads *)
(* along name by name, and each once.  Of these the ones whose names keep  *)
(* in printing are, as printed, just the paths that resolve (`ls`, `cat`   *)
(* and `cp` take those); of the others' texts nothing is said.             *)
FindsWhatResolves ==
  Found /\ Sound =>
    /\ Range(out) = Wanted(DOMAIN Hash) /\ Len(out) = Cardinality(Range(out))
    /\ {GivenBack(path) : path \in {path \in Range(out) : Kept(path)}} = Wanted(Plain)

(* "Inside a snapshot, a nested subvolume is only a placeholder" (fs.rs    *)
(* 409): however subvolumes, snapshots and their snapshots nest, no        *)
(* directory is reached by two paths.                                      *)
EachDirectoryOnce ==
  Found /\ Sound =>
    \A i, j \in DOMAIN out :
      LET a == resolve(out[i])
          b == resolve(out[j])
      IN  i # j /\ a = b => inode(a) # "dir" \/ is_placeholder(a)

(* The names that `subvols` puts together for a subvolume lead to its      *)
(* root, also for one that was moved below one of a higher id, and so does *)
(* the text it prints, if they keep in printing; and every subvolume that  *)
(* has a parent is listed.                                                 *)
SubvolsResolve ==
  Listed /\ Sound =>
    /\ \A i \in DOMAIN out :
         LET path == out[i].path
         IN  /\ resolve(path) = RootOf(out[i].id)
             /\ Kept(path) => resolve(GivenBack(path)) = RootOf(out[i].id)
    /\ {out[i].id : i \in DOMAIN out} =
         {i \in {fs.roots[k].id : k \in DOMAIN fs.roots} : Backrefs(i) # {}}

(* "directory loops back to one of its own parents" (main.rs 283) is said  *)
(* of every directory that is open, and else only of one that an error was *)
(* said of before: its reading failed, or an entry of it was a subvolume   *)
(* of which is_snapshot failed.                                            *)
SeenAreOpen ==
  LET open == {stack[i].dir : i \in DOMAIN stack}
  IN  /\ open \subseteq seen
      /\ \A d \in seen \ open :
           readdir(d) = Error \/ \E e \in Range(readdir(d)) : Fails(e)

(* Neither command runs for ever, whatever loops the directories, the      *)
(* parents of inodes or the parents of subvolumes form: each is one loop   *)
(* of one thread, which fairness only says goes on.                        *)
Terminates == <>(pc = "done")

-----------------------------------------------------------------------------
Init ==
  /\ fs \in Filesystems
  /\ pc = "start"
  /\ q = None /\ start = <<>> /\ call = None
  /\ stack = <<>> /\ seen = {} /\ out = <<>> /\ warnings = <<>>
  /\ paths = <<>> /\ pending = <<>> /\ next = <<>> /\ before = 0
  /\ failed = FALSE

Next ==
  \/ BeginFind \/ EnterDirectory \/ NextEntry \/ LeaveDirectory
  \/ BeginSubvols \/ NextSubvol \/ NextPass

Spec == Init /\ [][Next]_vars
FairSpec == Spec /\ WF_vars(Next)
=============================================================================
