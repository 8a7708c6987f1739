------------------------------ MODULE ReadRange ------------------------------
(***************************************************************************)
(* Fs::read_range: one file's extents, streamed to a sink.                 *)
(*                                                                         *)
(* A byte is named by where it comes from, so that two bytes are equal     *)
(* only if they are the same byte of the same place: a disk address, an    *)
(* index into a decompressed extent, an index into an inline extent, or    *)
(* zero.  What the sink received is the sequence out; pieces only matter   *)
(* as the units in which a read can fail.                                  *)
(***************************************************************************)
EXTENDS Integers, Sequences

CONSTANTS
    U64,       \* u64::MAX, scaled down
    Chunk,     \* the most one Piece::Data carries (1 << 20 bytes)
    NodeSize,  \* the superblock's nodesize
    PlainLen,  \* for each compressed extent on disk, the bytes it holds, in whole sectors
    Lzo,       \* those of them that are lzo frames
    Layouts,   \* the files: an inode's size and its extent items
    Ranges,    \* the [start, end) a caller asks for
    None       \* an empty cache

ASSUME U64Assumption == U64 \in Nat
ASSUME ChunkAssumption == Chunk \in Nat \ {0}

\* The items of one inode as Extent::parse yields them, in the tree's order.
\* off and len are the file range; the rest depends on the kind.
\*   hole    preallocated, or Regular with disk_bytenr 0
\*   plain   uncompressed: the bytes from disk address addr on
\*   comp    compressed: from index offset of the decompressed extent bytenr,
\*           which the item says has ram bytes
\*   inline  the n bytes in the leaf (decompressed if need be), which the item
\*           says are ram; whole is FALSE if they do not decompress
Item ==
    [off : 0..U64, len : 0..U64, kind : {"hole"}]
        \cup [off : 0..U64, len : 0..U64, kind : {"plain"}, addr : Nat]
        \cup [off : 0..U64, len : 0..U64, kind : {"comp"}, bytenr : DOMAIN PlainLen,
              ram : 0..U64, offset : 0..U64]
        \cup [off : 0..U64, len : 0..U64, kind : {"inline"}, ram : 0..U64, n : 0..U64,
              whole : BOOLEAN]

ASSUME PlainLenAssumption ==
    /\ \A b \in DOMAIN PlainLen : PlainLen[b] \in 0..U64
    /\ Lzo \subseteq DOMAIN PlainLen
ASSUME LayoutsAssumption ==
    \A f \in Layouts :
        /\ f.size \in 0..U64
        /\ f.exts \in Seq(Item)
ASSUME RangesAssumption ==
    \A r \in Ranges : r.start \in 0..U64 /\ r.end \in 0..U64

VARIABLES
    file,   \* the inode and its extents, as the tree has them
    start,  \* the first byte wanted
    end,    \* the first byte not wanted, at most the file's size
    i,      \* the extent read_range's loop is at
    pos,    \* the first byte not yet emitted, as the loop keeps it
    at,     \* the first byte not yet emitted inside emit
    to,     \* where emit stops
    out,    \* what the sink has received
    last,   \* Fs::last_extent: the compressed extent decoded last, and to how many bytes
    pc

want == <<file, start, end>>
vars == <<want, i, pos, at, to, out, last, pc>>

Lesser(a, b) == IF a <= b THEN a ELSE b
Greater(a, b) == IF a >= b THEN a ELSE b
Saturating(n) == Lesser(n, U64)
\* A sum of two u64s wraps at most once.
Wrapping(n) == IF n <= U64 THEN n ELSE n - (U64 + 1)

Zero == <<"zero">>
Zeros(n) == [k \in 1..n |-> Zero]

ext == file.exts[i]

\* A mutation: the size an inline item claims is believed.
ClaimedEnd(e) == Saturating(e.off + e.len)

\* Where emit's data ends: an inline extent ends with its bytes.
DataEnd(e) == IF e.kind = "inline" THEN Wrapping(e.off + e.n) ELSE Saturating(e.off + e.len)

\* Byte k of an extent's file range.
ByteAt(e, k) ==
    CASE e.kind = "plain" -> <<"disk", e.addr + k>>
      [] e.kind = "comp" -> <<"extent", e.bytenr, Wrapping(e.offset + k)>>
      [] e.kind = "inline" -> <<"inline", e.off, k>>
      [] e.kind = "hole" -> Zero

\* A mutation: the callback is not told how far into the extent it starts.
BytesFromOffset(e, from, n) == [k \in 1..n |-> ByteAt(e, k - 1)]

\* The bytes from a file position on, as emit's callback reads them.
Bytes(e, from, n) == [k \in 1..n |-> ByteAt(e, from - e.off + k - 1)]

\* What a compressed extent may have been decoded to: as many bytes as it holds
\* (up to the padding of its last sector; sizes here are whole sectors), or the
\* first of them if it is an lzo frame, of which no more are decoded than wanted.
Decodes(b, n) == n = PlainLen[b] \/ (b \in Lzo /\ n < PlainLen[b])
Decoded == {d \in (DOMAIN PlainLen) \X (0..U64) : Decodes(d[1], d[2])}

\* Any file, any range, and a cache left by any earlier read.
Init ==
    /\ file \in Layouts
    /\ \E r \in Ranges : start = r.start /\ end = Lesser(r.end, file.size)
    /\ i = 1
    /\ pos = start
    /\ at = start
    /\ to = start
    /\ out = <<>>
    /\ last \in Decoded \cup {None}
    /\ pc = "next"

-----------------------------------------------------------------------------
Fail == pc' = "failed" /\ UNCHANGED <<want, i, pos, at, to, out, last>>

\* The loop ends; the rest of the range is a hole.
Finished == i <= Len(file.exts) => pos >= end \/ ext.off >= end

\* A mutation: the trailing hole is forgotten.
FinishEarly ==
    /\ pc = "next"
    /\ Finished
    /\ pos' = Greater(pos, end)
    /\ pc' = "done"
    /\ UNCHANGED <<want, i, at, to, out, last>>

Finish ==
    /\ pc = "next"
    /\ Finished
    /\ out' = out \o Zeros(Greater(end - pos, 0))
    /\ pos' = Greater(pos, end)
    /\ pc' = "done"
    /\ UNCHANGED <<want, i, at, to, last>>

AtExtent == pc = "next" /\ ~Finished

\* `if to <= pos { continue; }`
Passed == Saturating(ext.off + ext.len) <= pos

SkipPassed ==
    /\ AtExtent
    /\ Passed
    /\ i' = i + 1
    /\ UNCHANGED <<want, pos, at, to, out, last, pc>>

\* emit's clipping: nothing of the extent is wanted any more.
Clipped == Greater(ext.off, pos) >= Lesser(DataEnd(ext), end)

\* emit, with no data to read: the gap before the extent, and the extent.
EmitHole ==
    /\ AtExtent
    /\ ~Passed
    /\ ext.kind = "hole"
    /\ IF Clipped
         THEN UNCHANGED <<pos, out>>
         ELSE LET upto == Lesser(DataEnd(ext), end) IN
                /\ out' = out \o Zeros(upto - pos)
                /\ pos' = upto
    /\ i' = i + 1
    /\ UNCHANGED <<want, at, to, last, pc>>

\* A mutation: an extent of which nothing is wanted is looked at again.
EmitDataAgain ==
    IF Clipped
      THEN UNCHANGED <<want, i, pos, at, to, out, pc>>
      ELSE /\ out' = out \o Zeros(Greater(ext.off - pos, 0))
           /\ at' = Greater(ext.off, pos)
           /\ to' = Lesser(DataEnd(ext), end)
           /\ pc' = "chunk"
           /\ UNCHANGED <<want, i, pos>>

\* emit, with data: fills the gap before the extent and starts on its pieces.
EmitData ==
    IF Clipped
      THEN i' = i + 1 /\ UNCHANGED <<want, pos, at, to, out, pc>>
      ELSE /\ out' = out \o Zeros(Greater(ext.off - pos, 0))
           /\ at' = Greater(ext.off, pos)
           /\ to' = Lesser(DataEnd(ext), end)
           /\ pc' = "chunk"
           /\ UNCHANGED <<want, i, pos>>

OpenPlain ==
    /\ AtExtent
    /\ ~Passed
    /\ ext.kind = "plain"
    /\ IF ext.addr > U64 THEN Fail ELSE EmitData /\ UNCHANGED last

OpenInline ==
    /\ AtExtent
    /\ ~Passed
    /\ ext.kind = "inline"
    /\ IF ext.ram > NodeSize \/ ~ext.whole THEN Fail ELSE EmitData /\ UNCHANGED last

\* compressed_extent: the cache is asked by disk address alone, and may hold fewer
\* bytes than this item says.  Decoding takes the item's word for the size.
OpenCompressed ==
    /\ AtExtent
    /\ ~Passed
    /\ ext.kind = "comp"
    /\ IF last # None /\ last[1] = ext.bytenr
         THEN EmitData /\ UNCHANGED last
         ELSE IF Decodes(ext.bytenr, ext.ram)
         THEN EmitData /\ last' = <<ext.bytenr, ext.ram>>
         ELSE Fail

\* The piece's bytes exist: what the callbacks check before they slice.
InRange(n) ==
    LET k == at - ext.off IN
      CASE ext.kind = "plain" -> ext.addr + k <= U64
        [] ext.kind = "comp" -> Wrapping(ext.offset + k) + n <= last[2]
        [] ext.kind = "inline" -> k >= 0 /\ k + n <= ext.n

\* One piece.  Out of range is an error, except in the inline callback, whose
\* slice panics.
EmitPiece ==
    /\ pc = "chunk"
    /\ LET n == Lesser(to - at, Chunk) IN
         IF InRange(n)
           THEN /\ out' = out \o Bytes(ext, at, n)
                /\ at' = at + n
                /\ IF at + n < to
                     THEN UNCHANGED <<i, pos, pc>>
                     ELSE pos' = to /\ i' = i + 1 /\ pc' = "next"
                /\ UNCHANGED <<want, to, last>>
           ELSE /\ pc' = IF ext.kind = "inline" THEN "panicked" ELSE "failed"
                /\ UNCHANGED <<want, i, pos, at, to, out, last>>

\* The sink, or the device under read_logical, returned an error.
Abort == pc \in {"next", "chunk"} /\ Fail

\* The call is over.
Over == pc \in {"done", "failed"} /\ UNCHANGED vars

Step ==
    \/ Finish \/ SkipPassed \/ EmitHole
    \/ OpenPlain \/ OpenInline \/ OpenCompressed \/ EmitPiece

Next == Step \/ Abort \/ Over

Spec == Init /\ [][Next]_vars

\* A single-threaded call runs on; nothing has to fail.
FairSpec == Spec /\ WF_vars(Step)

-----------------------------------------------------------------------------
(* Properties *)

\* An extent item that a btrfs file can have: in the tree's order, with inline
\* data no longer than it says, and in agreement with the extents on disk.
WellFormed(f) ==
    /\ \A j \in 1..Len(f.exts) :
         LET e == f.exts[j] IN
           /\ e.kind = "inline" => e.n <= e.ram /\ e.len = e.ram /\ e.off + e.ram <= U64
           /\ e.kind = "comp" => e.ram = PlainLen[e.bytenr] /\ e.offset + e.len <= U64
    /\ \A j, k \in 1..Len(f.exts) : j < k => f.exts[j].off < f.exts[k].off

Covers(e, p) == e.off <= p /\ p < DataEnd(e)
First(j, p) ==
    /\ j \in 1..Len(file.exts)
    /\ Covers(file.exts[j], p)
    /\ \A k \in 1..(j - 1) : ~Covers(file.exts[k], p)

\* The reference: byte p of the file is the byte of the first extent that covers
\* it, and zero where none does.
FileByte(p) ==
    IF \E j \in 1..Len(file.exts) : First(j, p)
      THEN LET j == CHOOSE j \in 1..Len(file.exts) : First(j, p)
           IN  ByteAt(file.exts[j], p - file.exts[j].off)
      ELSE Zero

\* Whatever has reached the sink is, byte for byte and in order, the file from
\* start on: no byte dropped, repeated, or taken from the wrong place, whether
\* the read then ends, fails, or is still going on.
OutputCorrect ==
    WellFormed(file) => \A k \in 1..Len(out) : out[k] = FileByte(start + k - 1)

\* A read that ends without an error has delivered the whole range.
CompleteWhenDone == pc = "done" => Len(out) = Greater(end - start, 0)

\* However corrupt the items, no callback slices past its data (disk.rs:2: "an
\* error, never a panic"), because emit's clipping keeps it inside.
NeverPanics == pc # "panicked"

\* A read comes to an end: every step of the loop makes progress.
Terminates == <>(pc \in {"done", "failed"})

=============================================================================
