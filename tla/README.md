# btrfs-peek in TLA+

Specifications of btrfs-peek, checked with TLC and in part proved with TLAPS.
Line numbers refer to the files under `src/`.

## The system

btrfs-peek reads a btrfs filesystem from user space and never writes to it. It
is one sequential program per command, except on Windows, where a service (the
helper) reads partitions for an account that may not, and updates itself.

| Part | State it keeps | Operations | Interacts with |
|---|---|---|---|
| Helper service and updater (`helper/windows/updater.rs`, `helper/windows.rs`, `helper/update.rs`) | the install folder's files, the statics `INSTALLED`, `ACTIVE`, `WAITING`, one thread per session and one checker | check, fetch, verify, swap, record, restart, clean up, stop | the service manager (restart on failure), the release server, the sessions |
| Wire protocol (`helper.rs`) | per session: the open file, the position in the byte stream | handshake, OPEN, READ, UPDATE, hang-up | client `Session` on one end of a pipe, `serve_client` on the other |
| Helper client (`helper/windows.rs`) | a connection under a mutex | connect with retry, check the server's pid, wait for a restart | the service manager, the protocol |
| Install, uninstall, status (`helper/windows.rs`) | the service's registration, the folder | remove, copy, create, start, probe | the service manager |
| Filesystem: open, mirrors, node cache (`fs.rs`, `disk.rs`) | chunk map, devices, cache of tree blocks | open, read_logical, read_node | device reads |
| Filesystem: trees (`fs.rs`) | cache of tree roots | walk, get, tree, inode, entry, lookup, readdir, resolve, subvols | node cache |
| Filesystem: file data (`fs.rs`) | the last decompressed extent | read_range, compressed_extent, read_to_vec | trees, mirrors, decompression, a sink |
| Decompression (`decompress.rs`) | none | zlib, zstd, lzo framing, size check | file data |
| Device (`dev.rs`) | an open file or a helper connection | aligned read with short reads | helper client |
| Copy (`copy.rs`) | directories being copied, names taken, report, the host's files | copy_dir, copy_entry, copy_leaf, write_file, manifest | the filesystem, the host, main's exit code |
| Find, scan, output (`main.rs`, `scan.rs`) | find's path of open directories | one query each | the filesystem |

What is hard here:

* **the updater**: a check by a client, the daily check, sessions that come and
  go, a stop, a crash and a restart meet in every order around a swap of two
  renames;
* **the copy**: every one of many steps may fail, the process may be killed
  between any two, names may collide only after rewriting, and the result is
  judged by one exit code;
* **file data**: arithmetic at both ends of every range, with extent items that
  may be corrupt;
* **corruption everywhere else**: loops in trees and directories, mirrors that
  disagree, caches keyed by part of what they depend on;
* **the protocol**: framing that must stay in step through refused requests.

What makes each part correct:

* updater: nothing but a whole, verified, newer build is ever run; a program
  always survives; what is reported as installed is; an installed update is run;
* copy: nothing partial looks whole, nothing counted as copied is lost, nothing
  of the user's is touched without `--force`, and a partial copy does not exit 0;
* file data: the bytes delivered are the file's, all of them, without a panic;
* trees and caches: what a walk visits is what the newest valid blocks hold, and
  it ends; protocol: request and reply stay paired; device: exactly the bytes asked for.

## What is modelled

Eleven specifications, in five groups. Each has its operations as actions (or,
where the code is a function of what is on disk, as operators), and nothing of a
handler is left to a separate action that the model may skip.

### The service and its updates: HelperService (with HelperServiceInv)

One action per step of `check_for_update`, `install` and `swap` for each thread
(the checker and any set of sessions), since the process can end between any
two. `pc[t]` is where a thread is; `lock` is the mutex of `INSTALLED`; `exe`,
`new` and `old` are the three paths of the install folder; `image` is where the
file of the running image has gone. A build is its version number, and `Junk`
any other bytes. A signature is the version its comment announces and the bytes
it signs; the release key signs a build with its own version. The release
server may answer anything at each fetch, which includes a release that changes
between the signature and the exe. The service manager is three external
actions: it launches what is at the exe's path after a failure
(`restart_on_failure`), on a manual start, and it stops the service at any time.
Sessions are modelled as far as the updater sees them: not yet counted
(`accepted`), counted (`serving`), asking for an update, hanging up before the
reply.

### Talking to it: HelperProtocol (implementing HelperCalls), HelperPipe

`HelperProtocol` is one session: `Session` at one end, `serve_client` at the
other, and between them two streams of fields (an op code, an offset, a length, a
path; a header, a payload). Each end reads the field it expects next, so a
message that was refused half-read would leave the streams out of step, and that
is what `InStep` looks for. The two ends may be of different builds: `speaks`
and `knows` are the protocol of one and the operations of the other, and their
limits are separate constants. Either end can go away at any time, with part of
its last message written.

`HelperCalls` is what the session promises: one call at a time, decided at most
once, answered by that decision or lost with the service. `HelperProtocol`
implements it under `Promise == INSTANCE HelperCalls WITH ...`, whose mapping
takes `ended` to the service's thread being closed; `answer` is a history
variable of the detailed specification.

`HelperPipe` is how a session comes about: `serve_pipe`'s loop over instances of
the named pipe (`next` and `cur` are its two variables), `connect_to` with its
waiting and its check of the server's process, `probe`, `Remote::open` and
`update()`, while the service ends and is started again on the same or a newer
build, and another program takes the pipe's name whenever nothing holds it. The
check is in its parts: a pipe keeps the pid its server had when it made it
(`server`), `service_pid()` is asked for when the client compares, and a pid is
given to another process once the one that had it has ended. Of the service's own
pid that holds once the service manager knows of the end, since it has a handle to
the process.

### Installing it: HelperInstall

`install`, `uninstall` and `remove_service` step by step against the service
manager's entry (state, marked for deletion, configured), the processes of the
old and the new service, the file in the install folder and the pipe. Any call
may fail (`MaxFaults` of them in a command), the command may be ended at any
step, and another program may hold the service open. What the code does not look at,
the model lets happen: the first wait of `remove_service` may end while the service
runs, and the deletion of a service that could not be configured may fail, which is
remembered in the history variable `half`.

### The filesystem: ChunkMap, TreeWalk, Namespace, Queries

`ChunkMap` is `mirrors`: which copies of a logical address can be tried, with
the width of `u64` kept. `TreeWalk` is `open` (superblocks, system chunks, the
walk of the chunk tree), `read_node` with its mirrors and its cache, and
`walk_node` with the recursion as a stack of frames, one action per item. A
volume may be *sound* (copies are damaged, missing or unreadable, but what is
accepted is right), *stale* (a copy is an older block) or *corrupt* (the tree
itself is wrong). What was written is in the volume too: for the chunk tree and
the tree that is walked, the root, the items' keys in order, and for each block
which of the items lie below it (`Written` says how the blocks follow from that).

`Namespace` has the queries over what walks return: `lookup`, `readdir`, `entry`
with its placeholders, `resolve`, `inode`, `is_snapshot`, `path_in_tree`. They
are functions of the filesystem, so they are operators. A name is a number that
stands for its bytes. What is printed of a name is lossy and joined by `/`, and
`resolve` takes a path apart at `/` and at `\`: the constant `Parts` says what each
name becomes on that way, `Plain` are the names that come back as they are, and
`GivenBack` is the path that the text of another leads along. A tree whose items
cannot be read is in `broken`; a subvolume whose ROOT_ITEM can no longer be read
when `is_snapshot` looks for it is in `lost`. `Queries` has the two
commands that combine many of them: `find` as a stack of open directories with
its set `seen`, and `subvols` pass by pass. `IsSound` says what a filesystem is
that the kernel wrote: names once in their directory and under their hash, one
parent for each directory and each subvolume, all below the top. That its
directories form no loop is said by `depth`, which no query looks at.

### File data: DeviceRead, Decompress, ExtentRead, ReadRange

`DeviceRead` is `read_logical` over `Device::read`: widening to aligned
boundaries, parts of at most `MAX_IO`, short and interrupted calls, the next copy
after an error. `Decompress` is `decode`, `stream`, `finish` and the framing of
`lzo`: a segment is named by where it begins and what it decodes to. `ExtentRead`
composes the two as `compressed_extent` does.

`ReadRange` is `Fs::read_range` as a loop over the extent items of a file:
skipping, clipping, filling gaps with zeros, opening an extent of each kind, and
emitting its pieces. A byte is named by where it comes from, so that equality of
what reached the sink with the reference `FileByte` is equality of contents.
Address arithmetic keeps the width of `u64`, wrapping or saturating where the
code does. The items include every kind of corruption that `Extent::parse` lets
through; the cache `last` starts in any state an earlier read may have left.
Here an extent is read and decoded as a whole; how, is in `ExtentRead`.

### Copying out: Copier

`cp`: the recursion of `copy_dir` as a stack of frames, each with its position
and the names taken; `cur` is the argument of the call being made; the host is
a function from paths to objects, keyed the way its file system compares names
(`HostFolds`), apart from how the code folds them (`CodeFolds`). A name is a
sequence of tokens, so that `~1` and `.btrfs-peek-partial` can be appended and
can also occur in a source name. Counters of the report are the sets of what was
counted. Every step that can fail may fail; `Failed` and `Succeeded` are what
the caller does then, up to main's exit code. `ReadErrors` says whether the
source is read through the helper, whose pipe can break. Modification times,
permissions and the wording of warnings are left out. Entries come in the order
`readdir` sorts raw names in (`Rank`). `File::create` follows a symlink that stands
under the temporary name: the file is then written where that leads (`out`), which is
a place of the host (`Links`) or one outside of what is recorded (`Elsewhere`), and
the history variable `through` keeps these places.

## What is checked

| Run | Bounds | Shows |
|---|---|---|
| `service` | 2 sessions and the checker, 3 releases | `TypeOK`, `ExeNeverOlder`, `SomeBuildSurvives`, `InstalledIsOnDisk`, `ActiveCounts`, `RestartRunsNewer`, `UpdateTakesEffect`: whatever meets around a swap, a program always survives, only whole and newer builds are run, and an installed update is run in the end |
| `protocol` | 4 calls, 8 paths, 2 protocols, a service with and one without UPDATE, a client whose limits are larger than the service's | `InStep`, `KeepsPromise`, `NeitherWaits`: neither end reads a message from its middle; the streams implement `HelperCalls`; neither end waits for what the other will not send |
| `pipe` | 2 clients, the service started 3 times, 2 pids, 2 builds | `NameHeld`, `TrustsOnlyService`, `HandsOver`: no other program can slip in between instances, none serves a pipe that a client goes on with, and a connected client gets a thread |
| `install` | 2 builds (symmetric), 3 services created, 2 failing calls in each command | `SuccessIsTrue`, `NoHalfService`: what the commands report is so, and what they leave behind can run |
| `tree` | 2 devices, trees of 7 blocks and 3 levels, depth limit 2, a cache of 3 blocks, 2 walks over 8 ranges | `ShowsTheTree`, `FailsOnlyWhenLost`, `NoLoopEntered`, `OpensTheNewest` |
| `names` | 23 filesystems with up to 6 subvolumes and 5 names, of which some hash alike and 2 do not keep in printing, 10 start paths, 10 sets of options, find's limit at 4 | `FindsWhatResolves`, `EachDirectoryOnce`, `SubvolsResolve`, `SeenAreOpen`, `Terminates` |
| `data` | addresses of 6 bits, alignment 4, `MAX_IO` 5, sectors of 8 bytes, frames of up to 3 segments, 1 interrupted call | `ReturnsTheBytes`, `FailsOnlyWhenLost`, `DecodesWhole`, `NeverPanics` |
| `read_range` | files of up to 2 extents of any kind, u64 of 4 bits, pieces of 2 bytes | `OutputCorrect`, `CompleteWhenDone`, `NeverPanics`, `Terminates` |
| `copy` | 5 filesystems of up to 6 inodes, 8 hosts, 3 command lines, MAX_DEPTH of 2 | `TypeOK`, `PartialIsMarked`, `KeepsEveryEntry`, `PartialNeverExitsZero`, `AncestorsAreStack`, `NeverIntoItself`, `KeepsTheirs`, `Terminates` |
| `copy_pipe`, `copy_clash`, `data_wrap` | | the findings below |

Why the bounds are enough:

* `service`: two sessions and the checker are the fewest threads of which one
  swaps, one is in a session and one races it for the mutex, and a third release
  is needed for an update after an update. The safety part is proved for every
  number of both.
* `protocol`: a session needs its start, an open, a call that is refused and one
  after it that shows whether the ends are still in step. Lengths matter only
  against the limits, so one below, at and above each is enough; proved for all.
* `pipe`: one client that takes an instance while another asks for the next; three
  starts give a server that is not the one compared, twice, and two pids one that is
  used again, by the service and by the other program. Safety is proved for all.
* `install`: an old service, the new one, and a third after a failed command; two
  failing calls are a failed step and a failed clean-up.
* `tree`: the cache is smaller than the tree, so it empties in the middle of a
  walk whose frames still hold its blocks; the depth limit is that of the tree, and
  one volume is deeper; each kind of damage is on the first, the second or both
  copies, at the root of the chunk tree, an inner node and a leaf.
* `names`: the filesystems have what can make `find`, `resolve` and `subvols`
  disagree: names of one hash, a subvolume moved below one of a higher id, a
  snapshot of a snapshot, placeholders, a name with a backslash in it that is also
  a path, a name that is not UTF-8, and one kind of corruption each.
* `data`: a part (5) that is no multiple of the alignment (4), devices that end on
  and off a boundary, chunks of one and of two copies; segments that end at every
  distance from a sector's end, so that a header is cut, skipped or just fits.
* `read_range`: two extents give every overlap, gap and order of neighbours; a range
  of 16 values and pieces of 2 bytes give odd remainders and wrapping at the end of
  `u64`; corrupt items differ from a valid one in each field the code looks at.
* `copy`: each filesystem is made for one hazard (colliding names, rewritten names,
  loops and double links, subvolumes and depth, a single file) and each host for one
  thing that can be in the way.

Fairness. `HelperService`: a started service gets through its start-up and its
threads keep running (the operating system schedules them); a fetch ends
(`--max-time`); the daily sleep ends; the failure action is carried out. Nothing
is assumed of clients, of a stop or of a manual start, so a session may stay for
ever and the hour's limit is what ends the wait. `HelperProtocol`: a thread that
has something to read reads it, on both ends (`WF_vars(ClientReads)`,
`WF_vars(Serve)`); calls, deaths and half-written requests may come or not.
`HelperPipe`: the service's loop goes on. `ReadRange`, `Copier` and `Queries` run
in one thread, so weak fairness of their steps says only that the program runs
on; no outcome of a step is assumed. The other specifications state none.

Deadlock is checked where the system runs on. The runs `protocol`, `tree`,
`names`, `data`, `read_range`, `copy` and their variants end when their one
session, walk, read or command has.

### Where the code and its words part

Three runs each find a promise of a document or a comment that the code does not
keep. They are in `PROJECT.json` under `findings`, with the lines.

| Run | Finding |
|---|---|
| `copy_pipe` | A copy whose read fails because the helper went away exits 0: `main` takes any broken pipe for that of its output (`main.rs:603`). |
| `copy_clash` | An entry that gets the name of another's temporary file, and is copied before it, is destroyed and counted as copied (`copy.rs:293`). Names are sorted raw and rewritten after that, so a control character before `.btrfs-peek-partial` comes before another control character alone. |
| `data_wrap` | A read whose end lies past the greatest address counts as inside the last chunk, and bytes from somewhere else are returned as the file's (`fs.rs:184`). The wrap needs a release build and a corrupt item near `u64::MAX`. |

Others that were met in modelling and that no run is spent on:

* A STOP between `swap`'s two renames (`updater.rs:199`) leaves nothing at the
  exe's path, although "ending them mid-read loses nothing" (`windows.rs:660`).
  The build is whole at `OLD`, which is what `SomeBuildSurvives` says.
* `restart_when_idle` reads `ACTIVE` and then exits (`updater.rs:216`): a session
  that begins in between is cut off, where the README says that it "waits until no
  client is reading" (`README.md:85`).
* A check that ended before an update was installed can write its outcome over the
  update's (`updater.rs:91`, outside the mutex), and `status` prints it.
* Whether an item that claims another size for a compressed extent is refused
  depends on what the cache holds (`fs.rs:541`, by address alone).
* A host that ignores case without being Windows is not folded for
  (`copy.rs:192`), so `--force` there replaces one entry by another, against
  "keep every entry, renamed if it must be" (`copy.rs:176`).
* A symlink the host refuses is said to be "recorded in the manifest", also
  without `--manifest` (`copy.rs:275`).
* A client that connects while the service is restarting finds no pipe, and
  `Remote::open` takes that for "no helper is installed" (`windows.rs:818`, `845`).
* `remove_service` ignores whether its first wait ended with the service stopped
  (`windows.rs:262`) and deletes one that runs. The second wait catches what follows:
  `SuccessIsTrue` holds.
* `create_service` ignores whether the deletion of a service that it could not
  configure worked (`windows.rs:329`). If it did not, a service without its privileges
  and failure actions stays, and can be started, against "half a service is worse than
  none" (`windows.rs:328`). `NoHalfService` exempts just that.
* `File::create` follows a symlink that stands under the temporary name
  (`copy.rs:311`), whether it was there before or was copied from an entry of that name:
  what it leads to is truncated and written, also without `--force`, and also outside
  the destination, where the README says that `cp` cannot write (`README.md:137`).
  The rename then moves the symlink. `KeepsTheirs` and `PartialIsMarked` exempt just
  the places in `through`; `KeepsEveryEntry` is about copies that wrote through none.
* The text that `find` and `subvols` print of a name is lossy (`main.rs:285`,
  `fs.rs:751`, `fs.rs:785`), and `resolve` also takes it apart at `\` (`fs.rs:487`). A
  path with a name that is not UTF-8 or holds a `\` does not lead back to what was
  found, and may lead to something else. `FindsWhatResolves` and `SubvolsResolve` say
  of such paths only that their names, byte for byte, lead there.
* `find` leaves its loop by `?` when `is_snapshot` fails (`main.rs:303`), past
  `seen.remove` (`main.rs:310`), and likewise when `readdir` fails. A second path to the
  directory is then said to loop back to "one of its own parents" (`main.rs:282`).
* An lzo extent is decoded up to the size its item declares (`decompress.rs:160`).
  Segments that are left over are dropped without a word, where the module promises
  that anything but the declared size is reported (`decompress.rs:3`).
* A mirror that missed writes holds older blocks with the right address and
  checksum; `read_node` compares no generation (`fs.rs:244`), so a walk may show
  them. The run `tree` has such volumes; nothing promises otherwise.
* `NoLoopEntered` rests on the copies of one address having one level. Two accepted
  copies of different levels could be entered below one another, once per level,
  so such a walk still ends.

## What is proved

TLAPS checks these for every value of the constants, under the named assumptions
in the modules (finite sessions, distinct markers, items and blocks as they are
parsed, words of any width).

* **HelperService_proof**. `TypeCorrect`, `ActiveIsCorrect`, `ExeCorrect`,
  `BuildSurvives`, `InstalledCorrect`, `RestartCorrect` and `NeverOlder`. The
  safety properties are not inductive alone: that the exe's path holds a newer
  build after `rename(new, exe)` depends on `new` being the verified body, which
  depends on nobody else writing it, which depends on the mutex. `Inv` in
  `HelperServiceInv` says so in twelve named parts: who holds the mutex, that a
  process that is not up has no threads, where the running image is, that
  nothing is swapped twice in one run, and what a thread has established at each
  step of the swap. `ActiveCounts` is proved from cardinalities, so for any
  number of sessions.
  The module goes on with `HelperPipe`: `PipeTypes`, `NameIsHeld` and
  `OnlyServiceTrusted`, for any clients, pids and any number of starts (`PipeInv`): an
  instance exists at each step of the loop, and no client goes on with a pipe of the
  other program. For that a pipe the other program still serves has its pid, which is
  not the service's while the service runs; once either has ended, the pid is free, but
  then the pipe is closed or `service_pid` has no answer.
* **HelperProtocol_proof**. `SessionImplementsCalls`: the refinement, so that every
  step of the two streams is a step of `HelperCalls` or none. `StaysInStep` from the
  same invariant, which says what is in the streams at each point: nothing while no
  call is made (`Quiet`), exactly the request of the call that is not yet decided
  (`Undecided`), exactly the answer's unread rest once it is (`Decided`), or, of a
  service that is gone, a beginning of either. A client that dies may leave a request
  half-written, and the invariant then asks nothing of what no one will read.
* **HelperInstall_proof**. `SuccessHolds` and `ServiceIsWhole` (and `TypeCorrect`), for
  any number of services, failing calls, ended commands and waits that end early.
  `SuccessIsTrue` needs that
  every process runs the file that is installed (`Running`), which holds since the
  file is written only while nothing runs; `NoHalfService` needs where a command has
  come (`Progress`): the file is touched only while there is no service.
* **TreeWalk_proof**. On every volume, `TypeCorrect`: the recursion and the cache stay
  within their limits; and `NoLoops`: no walk enters a node again below itself,
  assuming that the copies of one address agree on their level. The invariant is that
  levels fall along the whole stack and from it to the block wanted next (`Falling`),
  and that what is cached was read from a device (`Kept`).
  On sound volumes, for trees of any shape, any number of copies and devices and any
  size of the cache: `WalkShowsTheTree` (the visitor is shown the items of the range
  in order, each once, none left out, and all when the walk ends by itself),
  `LostBeforeFailure` (a block is given up only if no copy of it is whole) and
  `NewestIsOpened` (the newest superblock is believed, and every chunk of its chunk
  tree is known). `SoundInv` holds them together: walks are right because the root
  comes from the newest superblock and what is accepted is the block that was written;
  the chunks are complete because the walk of the chunk tree, which is one of those
  walks, shows all of it. Of a walk, `OnItsWay` says that the frames are a path down
  from the root and that the visitor was shown just those of the first *n* items that
  are in the range, where *n* is told by the innermost frame or the block that is
  wanted (`Reached`). Going down or back up leaves *n*; a child that is left out adds
  its items, all of which are below the range since its right neighbour begins at or
  below the start. No induction over the tree is needed: *n* is in the volume, as
  where each block's items begin and end.
* **ReadRange_proof**. `OutputIsCorrect`, `DoneIsComplete` and `PanicFree`. The
  invariant says that what was delivered ends exactly at `pos` (at `at` inside an
  extent), and that no extent the loop has passed reaches into what is still
  wanted. `PanicFree` needs no assumption that the items make sense: clipping by
  the length of the inline data is enough, also when `off + len` wraps.
* **ExtentRead_proof**. `BytesReturned`, `LostBeforeError`, `IntactDecodes` and
  `PanicFree`. `ReadInv` says that the buffer
  begins at the aligned offset of the copy that is being read and that the copy is one
  that can be tried; that a chunk holding the whole read then maps the address there is
  proved from `Mirrors` by comparing the greatest start below it. `DecodeInv` says that a
  frame past its header is no longer than what was read, which is why no slice leaves it.
  `LostBeforeError` (a read fails only if no copy lies whole on a device that does not
  fail) needs that a copy which is no longer to be tried was lost (`TriedInv`).
  `IntactDecodes` is for frames laid out as the kernel does, any number of segments in
  sectors of any size (`LaidOut`: a segment's header is never cut by a sector's end):
  the decoder stands at the header of the next segment, with all before it decoded
  (`IntactInv`), so the padding it skips is the padding that was written. Of every
  other frame it says what the decoder may leave: a sector of zeros is never filled in,
  and segments are left over only once the declared bytes are there (`AllOrEnough`).
* **Copier_proof**. `TypeCorrect`, `UnfinishedIsMarked`, `TheirsAreKept`,
  `LoopCheckIsExact`, `PartialCopyIsNotZero`, `NotIntoItself` and `EveryEntryIsKept`.
  Three invariants, the second and
  third resting on the first: `Shape` (every open directory is at one of its entries
  while a call for that entry is under way), `Hosted` (a leaf's place stays free, and
  its temporary sibling is there, until the rename; the host never takes a file's
  temporary path for its final one, however it folds names) and `Accounted`
  (while nothing has failed, every entry a loop has passed, and the entry through
  which each open directory was reached, is in the report). `PartialCopyIsNotZero`
  assumes that no read fails with a broken pipe, and `copy_pipe` shows why: with
  one it does not hold. Names may fold and collide in any way.
  `NotIntoItself` and `EveryEntryIsKept` rest on where things lie (`Placed`): of two
  things that were copied, one lies in the other on the host just if it does in the
  filesystem, since a loop's names are apart and its frame holds every name it gave
  out; the first needs nothing else, the loop check being exact. The second adds that
  what was counted as copied is on the host and that no later step takes its place
  (`Kept`). It assumes `NamesAreClear`: the code folds names if the host does, and no name
  looks like a temporary file's. Without the second it is false, which is what
  `copy_clash` shows. It is about copies that wrote through no symlink.
* **Queries_proof**. `LoopsAreLoops`, of every filesystem: that leaving a directory
  takes no open one out of the set `seen` needs that no directory is open twice
  (`Framed`), which is what the set itself ensures. A directory stays in it only by
  the two ways out that skip `seen.remove`.
  Of every sound filesystem, whatever names share a hash, however deep its directories
  are and however subvolumes and snapshots nest: `FindAgreesWithResolve`,
  `DirectoriesOnce` and `SubvolPathsResolve`. They rest on three facts. A path's walk is
  its parent's with one step more (`WalkedStep`), so `resolve` can be followed name by
  name. `readdir`, from the DIR_INDEX items, lists just what `lookup` finds in the
  DIR_ITEMs (`Directory`). A directory has one parent and lies one deeper
  (`OneParent`, `ChildDepth`), so no two paths lead to it (`OnePath`).
  `find`'s invariant is `SearchInv`: the paths printed are the wanted ones, each once,
  without those that are still to come, which are the ones below an entry that is left
  in some frame (`Left`) or below the directory about to be entered (`Coming`). Names
  that keep in printing are a part of that: such a path is its own text's
  (`GivenBackKept`), and the printed paths of such names are the wanted ones of such
  names (`WantedPlain`). Reading
  a directory, taking an entry, refusing one and returning each leave that equation as
  it is; at the end nothing is to come. The depths show on the way that a sound
  filesystem never meets the loop check (`NotOpen`).
  `subvols`' invariant is `ListInv`: the paths known so far resolve to their roots
  (`Known`), the list has just those (`Told`), no subvolume is lost between the passes,
  and if a pass has found nothing to do so far, none of the parents of those that wait
  is known (`Waiting`). So a pass without progress leaves nobody: of those that would
  be left the one that lies highest has a parent that is known (`Stuck`).

Only model-checked:

* liveness, which is out of the prover's reach: `UpdateTakesEffect`, `NeitherWaits`,
  `HandsOver` and `Terminates`.

Every safety property that a passing run checks is proved. The induction theorems of the
library cannot be used, as they take an operator as a parameter. Where a proof needs
induction, over the names of a path, the parents of an inode or the depth of a
directory, it takes the least number for which the claim fails: `Least` in
`Queries_proof` has that from the order of the natural numbers being well-founded.

The assumptions the theorems use are on what is given, and TLC evaluates each on the
instances: what the parsers let through (`LevelsAssumption`, `VolumesAssumption`,
`StoredAssumption`, the items and blocks of `ReadRange` and `ExtentRead`), what it is
to be written as the kernel writes (`SoundAssumption` of `TreeWalk` and of `Queries`,
`IntactAssumption`; stale and corrupt volumes, looping filesystems and spoilt frames
are exempt from them, and the theorems that do not mention soundness cover those too),
the order in which entries come (`SourcesAssumption`), and that markers such as `None`
and `Error` are no values of another kind (`MarkersAssumption`).

## Not modelled, and why

* Where the fields of the on-disk structures lie: it is straight-line reading of fixed
  offsets with checked bounds. The modules start from what is parsed, and what is
  refused, corrupt values included. The log tree is not read by the program.
* zlib, zstd, lzokay, minisign, crc32c and globset are libraries: they are what the
  code assumes of them.
* `Device::open` of a file is one call; its helper's side is in `HelperPipe`.
* `helper status`, the SID of the current user, the folder of the programs and the
  privileges of the service: each is a query of the system whose answer is printed or
  passed on. The Windows calls are modelled by their outcome where the code looks at it.
* Argument parsing, formatting, the commands that print what one query returns
  (`info`, `ls`, `stat`, `cat`), `default_subvol` and `scan`'s single pass over the
  devices keep no state between steps.
* Modification times of copied files and the wording of messages.
* After `report(SERVICE_STOPPED)` the process runs on for a moment before `exit(0)`;
  `HelperService` ends it at once. `HelperInstall`, where it matters, does not.

What a continuation would add first: the composition of `HelperPipe` with
`HelperService`'s steps of a swap, which the two now share only through the build
that a start runs.
