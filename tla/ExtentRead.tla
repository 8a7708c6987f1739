----------------------------- MODULE ExtentRead -----------------------------
(***************************************************************************)
(* The data of one extent: plain, as read_range reads it piece by piece    *)
(* with read_logical, or compressed, as Fs::compressed_extent reads it     *)
(* whole and decodes it.  (The extent it keeps for the next item is in     *)
(* ReadRange.)                                                             *)
(***************************************************************************)
EXTENDS DeviceRead, Decompress

CONSTANTS
  Cases,         \* disks, each with an extent that an item names on it
  MaxStored      \* the limit on disk_num_bytes; 1 GiB in the code

ASSUME ExtentAssumption == MaxStored \in Nat

(* What is parsed are words and bytes, whatever they say.  No device is as *)
(* long as the address space: a file's length is a signed number.          *)
Words == 0..Space - 1
Fields == {"algo", "inline", "intact", "broken", "len", "total", "junk", "decodes", "ram",
           "segs", "written"}

ASSUME CasesAssumption ==
  \A c \in Cases :
    /\ DOMAIN c.disk.chunks \subseteq Words
    /\ \A s \in DOMAIN c.disk.chunks :
         LET chunk == c.disk.chunks[s]
         IN  /\ chunk.length \in Words
             /\ DOMAIN chunk.stripes \subseteq Nat
             /\ \A i \in DOMAIN chunk.stripes : chunk.stripes[i][2] \in Words
    /\ \A i \in DOMAIN c.disk.devs : c.disk.size[c.disk.devs[i]] \in 0..Space - Align
    /\ c.ext.logical \in Words /\ c.ext.len \in Words
    /\ c.ext.compressed =>
         LET content == c.ext.content
         IN  /\ Fields \subseteq DOMAIN content
             /\ {content.total, content.junk, content.ram, content.decodes} \subseteq Words
             /\ \A at \in DOMAIN content.segs :
                  {content.segs[at].len, content.segs[at].plain} \subseteq Words

(* Where the kernel puts a segment's header: it never straddles a sector.  *)
Header(at) == IF Sector - (at % Sector) < 4 THEN at + Sector - (at % Sector) ELSE at

(* So many bytes fill the extent, but for less than a sector.              *)
Fills(c, n) == n <= (IF c.inline THEN RoundUp(c.ram) ELSE c.ram) /\ c.ram - n < Sector

(* A frame whose segments lie at these places, as the kernel writes it:    *)
(* one behind the other, each but the last with a sector in it.            *)
LaidOut(c, at) ==
  LET n   == Len(c.written)
      seg == [i \in 1..n |-> c.segs[at[i]]]
      end == [i \in 1..n |-> at[i] + 4 + seg[i].len]
  IN  /\ n > 0
      /\ at[1] = Header(4)
      /\ \A i \in 1..n - 1 : at[i + 1] = Header(end[i]) /\ seg[i].plain = Sector
      /\ \A i \in 1..n : /\ seg[i].len > 0 /\ seg[i].name = c.written[i]
                         /\ seg[i].plain \in 0..Sector /\ end[i] <= c.total
      /\ c.total = end[n]
      /\ (n - 1) * Sector < c.ram /\ Fills(c, (n - 1) * Sector + seg[n].plain)

(* An intact extent is one that was written as its item says.              *)
ASSUME IntactAssumption ==
  \A c \in Cases :
    c.ext.compressed /\ c.ext.content.intact =>
      LET content == c.ext.content
      IN  /\ content.written \in Seq({content.written[i] : i \in DOMAIN content.written})
          /\ DOMAIN content.segs \subseteq Nat
          /\ \/ /\ content.algo = "stream" /\ ~content.broken
                /\ Fills(content, content.decodes)
                /\ content.written = <<"stream">>
             \/ /\ content.algo = "lzo" /\ content.total <= c.ext.len
                /\ \E at \in [1..Len(content.written) -> DOMAIN content.segs] :
                     LaidOut(content, at)

ASSUME NoneIsNoCopy ==
  \A c \in Cases :
    None \notin {c.disk.devs[i] : i \in DOMAIN c.disk.devs} \X Words \X Nat

VARIABLE ext     \* the extent that is wanted

vars == <<readVars, decodeVars, ext>>

Implausible(e) == e.compressed /\ (e.content.ram > MAX_RAM_BYTES \/ e.len > MaxStored)

Want ==
  /\ rres = "idle"
  /\ IF Implausible(ext)
     THEN rres' = "error" /\ UNCHANGED <<disk, req, todo, place, buf, interrupts, data>>
     ELSE BeginRead([logical |-> ext.logical, len |-> ext.len])
  /\ UNCHANGED <<decodeVars, ext>>

(* What was read is what the decoder is given.                             *)
DecodeRead ==
  /\ rres = "ok" /\ ext.compressed
  /\ Decode([ext.content EXCEPT !.len = Len(data)])
  /\ UNCHANGED <<readVars, ext>>

Init ==
  /\ ReadInit /\ DecodeInit /\ src = None
  /\ \E c \in Cases : disk = c.disk /\ ext = c.ext

Next ==
  \/ Want
  \/ ReadNext /\ UNCHANGED <<decodeVars, ext>>
  \/ DecodeRead
  \/ DecodeNext /\ UNCHANGED <<readVars, ext>>

Spec == Init /\ [][Next]_vars

-----------------------------------------------------------------------------
(* What holds.                                                             *)

(* Where an addition of the read or of a chunk overflows a word.           *)
PastTheEnd == req.logical + req.len >= Space

Wraps ==
  \/ PastTheEnd
  \/ \E s \in DOMAIN disk.chunks :
       LET chunk == disk.chunks[s]
       IN  \/ s + chunk.length > Space
           \/ \E i \in DOMAIN chunk.stripes : chunk.stripes[i][2] + chunk.length > Space

(* A chunk that holds the whole read maps its address there.              *)
Maps(path, at) ==
  \E s \in DOMAIN disk.chunks :
    LET chunk == disk.chunks[s]
    IN  /\ s <= req.logical /\ req.logical + req.len <= s + chunk.length
        /\ \E i \in DOMAIN chunk.stripes :
             /\ chunk.stripes[i][1] \in DOMAIN disk.devs
             /\ path = disk.devs[chunk.stripes[i][1]]
             /\ at = chunk.stripes[i][2] + (req.logical - s)

(* However a read is widened, cut into parts, answered in smaller ones,    *)
(* interrupted, and begun again on another copy: what it returns are the   *)
(* bytes at the address, all from one copy that a chunk holding the whole  *)
(* read gives, unless an addition overflows.                               *)
ReturnsTheBytes ==
  rres = "ok" /\ req.len > 0 /\ ~Wraps =>
    /\ Len(data) = req.len
    /\ Maps(data[1][1], data[1][2])
    /\ \A i \in DOMAIN data : data[i] = <<data[1][1], data[1][2] + i - 1>>

(* "Corrupt metadata is reported rather than guessed at" (README.md 140):  *)
(* a read that no chunk holds fails, also one whose end lies past u64.     *)
OutsideIsReported == rres = "ok" /\ req.len > 0 => ~PastTheEnd

(* "data reads fall back to the other mirror too" (README.md 153): a read  *)
(* fails only if each of its copies lies on a device that fails or ends.   *)
FailsOnlyWhenLost ==
  rres = "error" /\ req # None =>
    \A p \in Mirrors(disk.chunks, disk.devs, req.logical, req.len) :
      p[1] \in disk.failing \/ p[2] + req.len > disk.size[p[1]]

(* An extent that was written as its item says decodes, to every one of    *)
(* its segments; "a buffer of zeros that looks like data is worse than an  *)
(* error" (decompress.rs 97): no extent, however corrupt, is filled with a *)
(* sector of zeros or more.  A frame is given without segments that it has *)
(* before its end only if the others hold all the bytes the item declares. *)
(* (Then it decodes to more than these, which "means the extent is         *)
(* corrupt", decompress.rs 3; but that is not told.)                       *)
DecodesWhole ==
  /\ src # None /\ src.intact => dres # "error"
  /\ dres = "ok" =>
       /\ padded < Sector
       /\ src.intact => plain = src.written
       /\ src.algo = "lzo" /\ PaddedPos < src.total => size >= src.ram

(* "one bad extent must fail this file, not abort the whole copy"          *)
(* (decompress.rs 177): no frame makes a slice leave the extent.           *)
NeverPanics == dres # "panic"
=============================================================================
