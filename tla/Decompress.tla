----------------------------- MODULE Decompress -----------------------------
(***************************************************************************)
(* Decoding an extent: decode, stream, finish and lzo of decompress.rs.    *)
(* zlib and zstd are streams that give some bytes and end, or fail.  An    *)
(* lzo frame is what its header says it is long, and the segments that     *)
(* begin at some of its offsets: a length, and what that many bytes decode *)
(* to.  What was decoded is the sequence of the segments' names.           *)
(***************************************************************************)
EXTENDS Integers, Sequences

CONSTANTS
  Sector,          \* the superblock's sectorsize
  MAX_RAM_BYTES    \* 1 GiB in the code

ASSUME DecompressAssumption == {Sector, MAX_RAM_BYTES} \subseteq Nat \ {0}

VARIABLES
  src,     \* the extent: its algorithm, length, declared size and content
  pos,     \* lzo: the offset in the frame
  plain,   \* the names of the segments decoded
  size,    \* how many bytes have been decoded
  padded,  \* how many zeros were added at the end
  dres     \* "idle", "stream", "lzo", "finish", "ok", "error" or "panic"

decodeVars == <<src, pos, plain, size, padded, dres>>

RoundUp(n) == IF n % Sector = 0 THEN n ELSE n - (n % Sector) + Sector

(* What the extent may decode to.                                          *)
Most == IF src.inline THEN RoundUp(src.ram) ELSE src.ram

(* One byte more is read of a stream than it may have.                     *)
Taken == IF src.decodes > Most THEN Most + 1 ELSE src.decodes

Decode(extent) ==
  /\ dres = "idle"
  /\ src' = extent
  /\ dres' = IF extent.ram > MAX_RAM_BYTES THEN "error"
             ELSE IF extent.algo = "lzo" THEN "lzo"
             ELSE IF extent.algo = "stream" THEN "stream"
             ELSE "error"
  /\ UNCHANGED <<pos, plain, size, padded>>

Stream ==
  /\ dres = "stream"
  /\ IF src.broken
     THEN dres' = "error" /\ UNCHANGED <<plain, size>>
     ELSE /\ dres' = "finish"
          /\ size' = Taken
          /\ plain' = <<"stream">>
  /\ UNCHANGED <<src, pos, padded>>

(* The word at an offset; a header may be cut off by the extent's end.     *)
HasWord(off) == off + 4 <= src.len
LenAt(off) == IF off \in DOMAIN src.segs THEN src.segs[off].len ELSE src.junk

\* A mutation: the frame is believed to be as long as it says.
FitsAsDeclared == src.total >= 4

Fits == src.total >= 4 /\ src.total <= src.len

LzoBegin ==
  /\ dres = "lzo" /\ pos = 0
  /\ IF HasWord(0) /\ Fits
     THEN pos' = 4 /\ UNCHANGED dres
     ELSE dres' = "error" /\ UNCHANGED pos
  /\ UNCHANGED <<src, plain, size, padded>>

LeftInSector == Sector - (pos % Sector)

\* A mutation: padding is looked for one byte too late.
PaddedPosLate == IF LeftInSector < 3 THEN pos + LeftInSector ELSE pos

(* A header never straddles a sector's end.                                *)
PaddedPos == IF LeftInSector < 4 THEN pos + LeftInSector ELSE pos

Overruns(at, len) == len = 0 \/ at + len > src.total

(* What the bytes of a segment decode to: nothing, but at a segment's own  *)
(* place and length.                                                       *)
IsSegment(at, len) == at - 4 \in DOMAIN src.segs /\ src.segs[at - 4].len = len

LzoSegment ==
  /\ dres = "lzo" /\ pos >= 4
  /\ pos < src.total /\ size < src.ram
  /\ LET at  == PaddedPos + 4
         len == LenAt(PaddedPos)
         seg == src.segs[PaddedPos]
     IN  IF PaddedPos > pos /\ PaddedPos >= src.total
         THEN dres' = "finish" /\ UNCHANGED <<pos, plain, size>>
         ELSE IF ~HasWord(PaddedPos) \/ Overruns(at, len)
              THEN dres' = "error" /\ UNCHANGED <<pos, plain, size>>
         ELSE IF at + len > src.len                  \* the slice of src
              THEN dres' = "panic" /\ UNCHANGED <<pos, plain, size>>
         ELSE IF ~IsSegment(at, len) \/ seg.plain > Sector
              THEN dres' = "error" /\ UNCHANGED <<pos, plain, size>>
         ELSE /\ pos' = at + len
              /\ plain' = Append(plain, seg.name)
              /\ size' = size + seg.plain
              /\ UNCHANGED dres
  /\ UNCHANGED <<src, padded>>

LzoEnd ==
  /\ dres = "lzo" /\ pos >= 4
  /\ pos >= src.total \/ size >= src.ram
  /\ dres' = "finish"
  /\ UNCHANGED <<src, pos, plain, size, padded>>

Kept == IF size > src.ram THEN src.ram ELSE size

TooShort == src.ram - Kept >= Sector

(* What was decoded is cut or filled to the size that was declared.        *)
Finish ==
  /\ dres = "finish"
  /\ IF size > Most \/ TooShort
     THEN dres' = "error" /\ UNCHANGED padded
     ELSE /\ dres' = "ok"
          /\ padded' = src.ram - Kept
  /\ UNCHANGED <<src, pos, plain, size>>

DecodeInit ==
  /\ pos = 0 /\ plain = <<>> /\ size = 0 /\ padded = 0
  /\ dres = "idle"

DecodeNext == Stream \/ LzoBegin \/ LzoSegment \/ LzoEnd \/ Finish
=============================================================================
