-------------------------------- MODULE Copier --------------------------------
(***************************************************************************)
(* `cp`: Copier copies a file or a tree out of the filesystem onto the     *)
(* host, and main turns the result into an exit code.                      *)
(*                                                                         *)
(* The recursion of copy_dir is the variable stack.  A name is a sequence  *)
(* of tokens, so that the suffixes the copier adds are tokens; a path is a *)
(* sequence of names that begins with the destination.  The host is keyed  *)
(* by path the way its file system compares names.  A counter of the       *)
(* report is the set of what it has counted.  The process may be killed    *)
(* after any step, so what a property says of the host holds then too.     *)
(***************************************************************************)
EXTENDS Integers, Sequences, Functions

CONSTANTS
    Sources,    \* filesystems to copy from
    Options,    \* what the command line may ask for
    Priors,     \* what the host may hold before
    HostName,   \* host_name, for the names the sources use
    Rank,       \* where these names come when raw names are sorted
    Lower,      \* to_lowercase, for the tokens names are made of
    CodeFolds,  \* cfg!(windows)
    HostFolds,  \* the host's file system ignores case
    Tilde,      \* bound: the tokens ~1, ~2, ... that renaming can need
    Partial,    \* the token .btrfs-peek-partial
    Dest,       \* the destination's name
    MaxDepth,   \* MAX_DEPTH
    Theirs,     \* "not written by this copy"
    Links,      \* places a symlink on the host may lead to, as the host keys them
    Elsewhere,  \* the other place one may lead to: no part of what host records
    ReadErrors  \* why a read of the source can fail: "other", and "broken_pipe" if
                \* it goes through the helper's pipe, whose service may go away

Tokens == DOMAIN Lower
Names == Seq(Tokens)
Paths == Seq(Names)

ASSUME MaxDepthAssumption == MaxDepth \in Nat
ASSUME TokensAssumption ==
    /\ Lower \in [Tokens -> Tokens]
    /\ Partial \in Tokens /\ Lower[Partial] = Partial
    /\ Tilde \in Seq(Tokens)
    /\ Dest \in Names
    /\ \A n \in DOMAIN HostName : HostName[n] \in Names
\* Every name is one host_name is given; every directory's entries are of this
\* filesystem, in the order readdir sorts them in.
ASSUME SourcesAssumption ==
    \A s \in Sources :
        /\ s.root \in DOMAIN s.kind
        /\ s.name \in DOMAIN HostName
        /\ \A l \in DOMAIN s.kind :
             /\ s.kind[l] \in {"dir", "file", "symlink", "special"}
             /\ s.kind[l] = "dir" =>
                  /\ s.entries[l] \in Seq(Range(s.entries[l]))
                  /\ \A e \in Range(s.entries[l]) :
                       e.loc \in DOMAIN s.kind /\ e.name \in DOMAIN HostName
                  /\ \A m, n \in DOMAIN s.entries[l] :
                       m < n => Rank[s.entries[l][m].name] <= Rank[s.entries[l][n].name]
\* What is on the host before is whole.
ASSUME PriorsAssumption ==
    \A h \in Priors : \A k \in DOMAIN h :
        /\ h[k].kind \in {"dir", "file", "symlink"}
        /\ h[k] = [kind |-> h[k].kind, of |-> Theirs, whole |-> TRUE]
ASSUME FoldsAssumption == CodeFolds \in BOOLEAN /\ HostFolds \in BOOLEAN
ASSUME LinksAssumption == Links \subseteq Paths /\ Elsewhere \notin Paths
ASSUME ReadErrorsAssumption == ReadErrors \subseteq {"other", "broken_pipe"}

VARIABLES
    src,        \* the filesystem, with the path to copy as its root
    opts,       \* the options
    host,       \* the host's objects, by path
    stack,      \* the directories being copied, outermost first
    ancestors,  \* Copier::ancestors
    cur,        \* the arguments of the call being made: loc and dest
    out,        \* write_file's file: where on the host it is
    through,    \* history: the places written to because a symlink led there
    report,     \* Copier::report
    pc,
    exit        \* the process's exit code

vars == <<src, opts, host, stack, ancestors, cur, out, through, report, pc, exit>>

Lowered(name) == [k \in DOMAIN name |-> Lower[name[k]]]

\* A mutation: case is not folded.
unfolded(name) == name
fold(name) == IF CodeFolds THEN Lowered(name) ELSE name
\* How the host's file system tells paths apart.
Key(path) == [k \in DOMAIN path |-> IF HostFolds THEN Lowered(path[k]) ELSE path[k]]

Exists(path) == Key(path) \in DOMAIN host
At(path) == host[Key(path)]
PutAt(place, object) ==
    [k \in DOMAIN host \cup {place} |-> IF k = place THEN object ELSE host[k]]
Put(path, object) == PutAt(Key(path), object)
Without(path) == [k \in DOMAIN host \ {Key(path)} |-> host[k]]
Is(path, kind) == Exists(path) /\ At(path).kind = kind
Object(kind, loc) == [kind |-> kind, of |-> loc, whole |-> TRUE]
Unfinished(loc) == [kind |-> "file", of |-> loc, whole |-> FALSE]

Front(s) == SubSeq(s, 1, Len(s) - 1)
Top == stack[Len(stack)]

\* The entry being copied: its directory's place on the host, and its index.
EntryIn(frames) ==
    IF frames = <<>> THEN [dir |-> <<>>, n |-> 1]
                     ELSE [dir |-> frames[Len(frames)].dest, n |-> frames[Len(frames)].next]

\* A mutation: the file is written where it is to end up.
TempInPlace(dest) == dest

\* The sibling a file is first written to.
Temp(dest) == [dest EXCEPT ![Len(dest)] = Append(dest[Len(dest)], Partial)]

\* What the loop that renames an entry tries: name, name~1, name~2, ...
Candidate(name, n) == IF n = 0 THEN name ELSE Append(name, Tilde[n])
Free(name, taken) == {n \in 0..Len(Tilde) : fold(Candidate(name, n)) \notin taken}

\* The first that is free.
Chosen(name, taken) ==
    Candidate(name, CHOOSE n \in Free(name, taken) : \A m \in Free(name, taken) : n <= m)

Init ==
    /\ src \in Sources
    /\ opts \in Options
    /\ host \in Priors
    /\ stack = <<>>
    /\ ancestors = {}
    /\ cur = [loc |-> src.root, dest |-> <<Dest>>]
    /\ out = Elsewhere
    /\ through = {}
    /\ report = [copied |-> {}, excluded |-> {}, failures |-> {}, skipped |-> {},
                 manifest |-> {}]
    /\ pc = "copy"
    /\ exit = -1

-----------------------------------------------------------------------------
(* How calls return *)

\* A mutation: an entry is passed over.
AdvancedTwice(frames) == [frames EXCEPT ![Len(frames)].next = @ + 2]

\* The innermost loop goes on to its next entry.
Advanced(frames) == [frames EXCEPT ![Len(frames)].next = @ + 1]

\* A mutation: the failure is only warned about.
WithWarning(r, entry) == r
WithFailure(r, entry) == [r EXCEPT !.failures = @ \cup {entry}]

\* The call for one entry returned Err: the loop of the directory it is in counts
\* a failure and goes on.  Without such a loop the error reaches main, which
\* takes a broken pipe for the reader of its own output going away.
Failed(frames, err, r) ==
    IF frames = <<>>
      THEN /\ pc' = "exited"
           /\ exit' = IF err = "broken_pipe" THEN 0 ELSE 1
           /\ report' = r
           /\ stack' = frames
      ELSE /\ pc' = "entry"
           /\ report' = WithFailure(r, EntryIn(frames))
           /\ stack' = Advanced(frames)
           /\ UNCHANGED exit

\* It returned Ok.
Succeeded(frames, r) ==
    /\ report' = r
    /\ IF frames = <<>>
         THEN /\ pc' = "exited"
              /\ exit' = IF r.failures = {} THEN 0 ELSE 5
              /\ stack' = frames
         ELSE /\ pc' = "entry"
              /\ stack' = Advanced(frames)
              /\ UNCHANGED exit

\* What is being copied.
Item == [entry |-> EntryIn(stack), loc |-> cur.loc, dest |-> cur.dest]
\* The report with the item counted as copied, or only warned about, ...
Counted == [report EXCEPT !.copied = @ \cup {Item}]
Warned == [report EXCEPT !.skipped = @ \cup {Item}]
\* ... and recorded in the manifest, if there is one.
Recorded(r) == IF opts.manifest THEN [r EXCEPT !.manifest = @ \cup {EntryIn(stack)}] ELSE r

-----------------------------------------------------------------------------
(* Directories *)

\* is_dir of the destination, which follows a symlink.
DestIsDir(into) == IF Is(<<Dest>>, "symlink") THEN into \in BOOLEAN ELSE into = Is(<<Dest>>, "dir")

\* copy
Copy ==
    /\ pc = "copy"
    /\ \/ /\ src.kind[src.root] = "dir"
          /\ pc' = "dir"
          /\ UNCHANGED <<stack, cur, report, exit>>
       \/ /\ src.kind[src.root] # "dir"
          /\ pc' = "leaf"
          /\ \/ DestIsDir(TRUE) /\ cur' = [cur EXCEPT !.dest = <<Dest, HostName[src.name]>>]
             \/ DestIsDir(FALSE) /\ UNCHANGED cur
          /\ UNCHANGED <<stack, report, exit>>
       \/ \E err \in ReadErrors : Failed(<<>>, err, report) /\ UNCHANGED cur
    /\ UNCHANGED <<src, opts, host, ancestors, out, through>>

\* create_dir_all, through no symlink and over no file.
MakeDir(path) ==
    /\ ~Exists(path) \/ Is(path, "dir")
    /\ host' = IF Exists(path) THEN host ELSE Put(path, Object("dir", cur.loc))

\* A mutation: the loop check is left out.
RefusesDeep == Len(stack) > MaxDepth

\* copy_dir's own checks.
Refuses == Len(stack) > MaxDepth \/ cur.loc \in ancestors

\* copy_dir, up to its loop.  It may be refused, the host may not make the
\* directory, and after that, with the directory counted, the manifest or
\* readdir may fail.
CopyDir ==
    /\ pc = "dir"
    /\ \/ Failed(stack, "other", report) /\ UNCHANGED <<host, ancestors>>
       \/ /\ ~Refuses
          /\ MakeDir(cur.dest)
          /\ \E err \in ReadErrors, r \in {Counted, Recorded(Counted)} : Failed(stack, err, r)
          /\ UNCHANGED ancestors
       \/ /\ ~Refuses
          /\ MakeDir(cur.dest)
          /\ report' = Recorded(Counted)
          /\ stack' = Append(stack, [dir |-> cur.loc, dest |-> cur.dest, next |-> 1, taken |-> {}])
          /\ ancestors' = ancestors \cup {cur.loc}
          /\ pc' = "entry"
          /\ UNCHANGED exit
    /\ UNCHANGED <<src, opts, cur, out, through>>

Entry == src.entries[Top.dir][Top.next]
InLoop == pc = "entry" /\ Top.next <= Len(src.entries[Top.dir])
Excluded == Entry.name \in opts.exclude
\* Tilde's bound.
Nameable == Free(HostName[Entry.name], Top.taken) # {}

\* copy_entry's `skip`.
Skipped ==
    /\ Entry.subvol
    /\ \/ opts.one_subvolume /\ src.tree[Entry.loc] # src.tree[Top.dir]
       \/ opts.no_snapshots /\ src.tree[Entry.loc] \in src.snapshots

\* The frames once the entry's name on the host is taken.
Naming == [stack EXCEPT ![Len(stack)].taken = @ \cup {fold(Chosen(HostName[Entry.name], Top.taken))}]

\* A mutation: the loop does not move on.
ExcludeStays ==
    /\ InLoop
    /\ Excluded
    /\ UNCHANGED vars

ExcludeEntry ==
    /\ InLoop
    /\ Excluded
    /\ Succeeded(stack, [report EXCEPT !.excluded = @ \cup {EntryIn(stack)}])
    /\ UNCHANGED <<src, opts, host, ancestors, cur, out, through>>

SkipEntry ==
    /\ InLoop
    /\ ~Excluded
    /\ Nameable
    /\ Skipped
    /\ Succeeded(Naming, [report EXCEPT !.excluded = @ \cup {EntryIn(stack)}])
    /\ UNCHANGED <<src, opts, host, ancestors, cur, out, through>>

\* copy_entry goes on to copy_dir or copy_leaf, unless reading the inode, or what
\* says whether it is a snapshot, fails.
CopyEntry ==
    /\ InLoop
    /\ ~Excluded
    /\ Nameable
    /\ \/ /\ ~Skipped
          /\ cur' = [loc |-> Entry.loc,
                     dest |-> Append(Top.dest, Chosen(HostName[Entry.name], Top.taken))]
          /\ stack' = Naming
          /\ pc' = IF src.kind[Entry.loc] = "dir" THEN "dir" ELSE "leaf"
          /\ UNCHANGED <<report, exit>>
       \/ Failed(Naming, "other", report) /\ UNCHANGED cur
    /\ UNCHANGED <<src, opts, host, ancestors, out, through>>

\* A mutation: the directory stays among the ancestors.
StillAncestors == ancestors
LessTop == ancestors \ {Top.dir}

\* The loop is over; copy_dir takes the directory off the ancestors.
FinishDir ==
    /\ pc = "entry"
    /\ Top.next > Len(src.entries[Top.dir])
    /\ ancestors' = LessTop
    /\ Succeeded(Front(stack), report)
    /\ UNCHANGED <<src, opts, host, cur, out, through>>

-----------------------------------------------------------------------------
(* Everything else: copy_leaf *)

\* A mutation: --force is not asked for.
ReplacesAny == ~Is(cur.dest, "dir")

\* What is in the way may go: with --force, and never a directory.
Replaces == opts.force /\ ~Is(cur.dest, "dir")

CopyLeaf ==
    /\ pc = "leaf"
    /\ \/ /\ Exists(cur.dest) => Replaces
          /\ host' = Without(cur.dest)
          /\ pc' = src.kind[cur.loc]
          /\ UNCHANGED <<stack, report, exit>>
       \/ \E err \in ReadErrors : Failed(stack, err, report) /\ UNCHANGED host
    /\ UNCHANGED <<src, opts, ancestors, cur, out, through>>

\* A symlink the host does not let us make is only a warning, and a line of the
\* manifest if there is one.
CopySymlink ==
    /\ pc = "symlink"
    /\ \/ /\ ~Exists(cur.dest)
          /\ host' = Put(cur.dest, Object("symlink", cur.loc))
          /\ Succeeded(stack, Recorded(Counted))
       \/ /\ Succeeded(stack, Recorded(Warned))
          /\ UNCHANGED host
       \/ \E err \in ReadErrors : Failed(stack, err, report) /\ UNCHANGED host
    /\ UNCHANGED <<src, opts, ancestors, cur, out, through>>

\* A device, a socket, a fifo.
CopySpecial ==
    /\ pc = "special"
    /\ Succeeded(stack, Warned)
    /\ UNCHANGED <<src, opts, host, ancestors, cur, out, through>>

\* write_file failed: its file goes, if it can be removed.
FileFails ==
    \E err \in ReadErrors :
        /\ host' \in IF Is(Temp(cur.dest), "dir") THEN {host} ELSE {host, Without(Temp(cur.dest))}
        /\ Failed(stack, err, report)

\* Where a symlink may lead so that a file can be opened there: to a file, to none
\* yet in a directory that is there, or out of what host records.
LeadsTo(place) ==
    \/ place = Elsewhere
    \/ /\ place \in Links
       /\ IF place \in DOMAIN host
            THEN host[place].kind = "file"
            ELSE /\ Front(place) \in DOMAIN host
                 /\ host[Front(place)].kind = "dir"

\* File::create makes the file, or truncates the one that is there, or the one that
\* a symlink there leads to.
CreateFile ==
    /\ pc = "file"
    /\ \/ /\ \/ /\ ~Is(Temp(cur.dest), "dir") /\ ~Is(Temp(cur.dest), "symlink")
                /\ out' = Key(Temp(cur.dest))
                /\ UNCHANGED through
             \/ /\ Is(Temp(cur.dest), "symlink")
                /\ \E place \in Links \cup {Elsewhere} : LeadsTo(place) /\ out' = place
                /\ through' = through \cup {out'}
          /\ host' = IF out' = Elsewhere THEN host ELSE PutAt(out', Unfinished(cur.loc))
          /\ pc' = "write"
          /\ UNCHANGED <<stack, report, exit>>
       \/ FileFails /\ UNCHANGED <<out, through>>
    /\ UNCHANGED <<src, opts, ancestors, cur>>

\* read_range into the file, set_len, set_permissions and sync_all.
WriteFile ==
    /\ pc = "write"
    /\ \/ /\ host' = IF out = Elsewhere THEN host ELSE PutAt(out, Object("file", cur.loc))
          /\ pc' = "rename"
          /\ UNCHANGED <<stack, report, exit>>
       \/ FileFails
    /\ UNCHANGED <<src, opts, ancestors, cur, out, through>>

\* The finished file moves into place and is counted; the manifest may still
\* fail.  If it cannot move it stays under its temporary name.
RenameFile ==
    /\ pc = "rename"
    /\ \/ /\ host' = [k \in (DOMAIN host \cup {Key(cur.dest)}) \ {Key(Temp(cur.dest))} |->
                        IF k = Key(cur.dest) THEN At(Temp(cur.dest)) ELSE host[k]]
          /\ \/ Succeeded(stack, Recorded(Counted))
             \/ \E err \in ReadErrors : opts.manifest /\ Failed(stack, err, Counted)
       \/ Failed(stack, "other", report) /\ UNCHANGED host
    /\ UNCHANGED <<src, opts, ancestors, cur, out, through>>

Exited == pc = "exited" /\ UNCHANGED vars

Step ==
    \/ Copy \/ CopyDir
    \/ ExcludeEntry \/ SkipEntry \/ CopyEntry \/ FinishDir
    \/ CopyLeaf \/ CopySymlink \/ CopySpecial \/ CreateFile \/ WriteFile \/ RenameFile

Next == Step \/ Exited

Spec == Init /\ [][Next]_vars

\* The copy runs on until it exits; no outcome of a step is assumed.
FairSpec == Spec /\ WF_vars(Step)

-----------------------------------------------------------------------------
(* Properties *)

Locs == DOMAIN src.kind
IsTemp(path) == path[Len(path)][Len(path[Len(path)])] = Partial

TypeOK ==
    /\ \A k \in DOMAIN host :
         host[k] \in [kind : {"dir", "file", "symlink"}, of : Locs \cup {Theirs}, whole : BOOLEAN]
    /\ \A j \in 1..Len(stack) :
         /\ stack[j].dir \in Locs
         /\ stack[j].next \in 1..(Len(src.entries[stack[j].dir]) + 1)
    /\ ancestors \subseteq Locs
    /\ cur.loc \in Locs
    /\ pc \in {"copy", "dir", "entry", "leaf", "symlink", "special", "file", "write", "rename",
              "exited"}
    /\ exit \in {-1, 0, 1, 5}

\* A file that is not finished is only ever under a temporary name, so that no
\* kill, failed read or failed rename leaves a short file that looks whole; but where
\* a symlink stood under the temporary name, it is what that led to.
PartialIsMarked == \A k \in DOMAIN host : ~host[k].whole => IsTemp(k) \/ k \in through

\* copy_dir_inner's comment: "keep every entry, renamed if it must be".  What the
\* report counts as copied is on the host, at its own place, until the end, unless a
\* symlink under a temporary name was written through, which moves the symlink.
KeepsEveryEntry ==
    through = {} =>
        \A c \in report.copied :
            /\ Exists(c.dest)
            /\ IF src.kind[c.loc] = "dir" THEN Is(c.dest, "dir")
                                          ELSE At(c.dest) = Object(src.kind[c.loc], c.loc)

\* The hosts and sources for which that is so: the copier folds names if the host
\* does, and no name it makes on the host is one for a temporary file.
Clear(name) == name # <<>> /\ Lower[name[Len(name)]] # Partial
NamesAreClear ==
    /\ HostFolds => CodeFolds
    /\ \A n \in 1..Len(Tilde) : Lower[Tilde[n]] # Partial
    /\ \A s \in Sources :
         /\ Clear(HostName[s.name])
         /\ \A l \in DOMAIN s.kind : s.kind[l] = "dir" =>
              \A e \in Range(s.entries[l]) : Clear(HostName[e.name])

\* Without --force nothing that was on the host is replaced, removed or written to,
\* except what an earlier copy left under a temporary name and what a symlink that
\* stood under one led to.
KeepsTheirs ==
    [][\A k \in DOMAIN host :
         ~opts.force /\ host[k].of = Theirs /\ ~IsTemp(k) /\ k \notin through'
             => k \in DOMAIN host' /\ host'[k] = host[k]]_vars

\* The README: "A partial copy never exits 0".  A copy that exits 0 has copied, or
\* excluded, or warned about, the root and each entry of every directory it made.
PartialNeverExitsZero ==
    exit = 0 =>
        LET seen == {c.entry : c \in report.copied \cup report.skipped} \cup report.excluded
        IN  /\ [dir |-> <<>>, n |-> 1] \in seen
            /\ \A c \in report.copied :
                 src.kind[c.loc] = "dir" =>
                     \A n \in 1..Len(src.entries[c.loc]) : [dir |-> c.dest, n |-> n] \in seen

\* The loop check looks at exactly the directories being copied, whatever failed
\* before: none that is still open is missed, and none that is closed (a second
\* entry for the same directory) is taken for a loop.
AncestorsAreStack ==
    /\ ancestors = {stack[j].dir : j \in 1..Len(stack)}
    /\ \A j, k \in 1..Len(stack) : j # k => stack[j].dir # stack[k].dir

\* A directory that contains itself is not copied into itself, nor is anything
\* nested deeper than MAX_DEPTH.
NeverIntoItself ==
    \A c, d \in report.copied :
        /\ src.kind[c.loc] = "dir" => Len(c.dest) <= MaxDepth + 1
        /\ Len(c.dest) < Len(d.dest) /\ SubSeq(d.dest, 1, Len(c.dest)) = c.dest
               => c.loc # d.loc

\* A copy ends, also of a filesystem whose directories form a loop.
Terminates == <>(pc = "exited")

=============================================================================
