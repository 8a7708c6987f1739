----------------------------- MODULE DeviceRead -----------------------------
(***************************************************************************)
(* Reading file data: Fs::read_logical of fs.rs, which tries the copies of *)
(* an address in turn, and Device::read of dev.rs, which widens a read to  *)
(* aligned boundaries and reads it in parts.                               *)
(*                                                                         *)
(* The byte at offset n of a device is <<path, n>>.  A device has a size;  *)
(* one in failing may fail at any time, after any of the parts.            *)
(***************************************************************************)
EXTENDS ChunkMap

CONSTANTS
  Align,           \* ALIGN; 4096 in the code
  MAX_IO,          \* 4 MiB in the code
  MaxInterrupts,   \* bounds the calls that are interrupted by a signal
  None             \* no copy is being read

ASSUME DeviceAssumption ==
  /\ {Align, MAX_IO} \subseteq Nat \ {0}
  /\ MaxInterrupts \in Nat
  /\ Space % Align = 0

VARIABLES
  disk,         \* the chunk map, the devices and what they hold
  req,          \* the read: a logical address and a length
  todo,         \* the copies that have not been tried
  place,        \* the copy that is being read: a path, an offset, a stripe
  buf,          \* what has been read into the buffer
  interrupts,   \* how many calls were interrupted
  data,         \* what the read returned
  rres          \* the read: "idle", "running", "ok" or "error"

readVars == <<disk, req, todo, place, buf, interrupts, data, rres>>

-----------------------------------------------------------------------------
(* Fs::read_logical.                                                       *)

BeginRead(r) ==
  /\ rres = "idle"
  /\ req' = r
  /\ todo' = Mirrors(disk.chunks, disk.devs, r.logical, r.len)
  /\ rres' = "running"
  /\ UNCHANGED <<disk, place, buf, interrupts, data>>

NextCopy ==
  /\ rres = "running" /\ place = None
  /\ IF todo = {}
     THEN rres' = "error" /\ UNCHANGED <<todo, place, buf>>
     ELSE /\ place' = FirstOf(todo)
          /\ todo' = todo \ {place'}
          /\ buf' = <<>>
          /\ UNCHANGED rres
  /\ UNCHANGED <<disk, req, interrupts, data>>

-----------------------------------------------------------------------------
(* Device::read.                                                           *)

AlignDown(n) == n - (n % Align)

AlignUp(n) == IF n % Align = 0 THEN n ELSE AlignDown(n) + Align

Offset == place[2]
Begin == AlignDown(Offset)
BufLen == Word(Word(AlignUp(Word(Offset + req.len))) - Begin)
Skip == Offset - Begin

Reading == rres = "running" /\ place # None
Unfilled == Len(buf) < BufLen

(* What one read_at asks for, and what a device can give of it.            *)
Part == IF BufLen - Len(buf) < MAX_IO THEN BufLen - Len(buf) ELSE MAX_IO
From == Word(Begin + Len(buf))
There(n) == From + n <= disk.size[place[1]]

ReadPart ==
  /\ Reading /\ Unfilled
  /\ \E n \in 1..Part :
       /\ There(n)
       /\ buf' = buf \o [i \in 1..n |-> <<place[1], From + i - 1>>]
  /\ UNCHANGED <<disk, req, todo, place, interrupts, data, rres>>

Interrupted ==
  /\ Reading /\ Unfilled /\ interrupts < MaxInterrupts
  /\ interrupts' = interrupts + 1
  /\ UNCHANGED <<disk, req, todo, place, buf, data, rres>>

\* A mutation: a part that fails fails the read.
PartFailsRead ==
  /\ Reading /\ Unfilled
  /\ place[1] \in disk.failing
  /\ place' = None
  /\ rres' = "error"
  /\ UNCHANGED <<disk, req, todo, buf, interrupts, data>>

(* The next copy is tried.                                                 *)
PartFails ==
  /\ Reading /\ Unfilled
  /\ place[1] \in disk.failing
  /\ place' = None
  /\ UNCHANGED <<disk, req, todo, buf, interrupts, data, rres>>

(* The buffer need not be full, but the requested bytes must exist.        *)
LongEnough == Len(buf) >= Skip + req.len

(* The loop is over: the buffer is full, or the device has ended.          *)
Ended == ~Unfilled \/ ~There(1)

EndRead ==
  /\ Reading /\ Ended
  /\ place' = None
  /\ IF LongEnough
     THEN /\ data' = SubSeq(buf, Skip + 1, Skip + req.len)
          /\ rres' = "ok"
     ELSE UNCHANGED <<data, rres>>
  /\ UNCHANGED <<disk, req, todo, buf, interrupts>>

ReadInit ==
  /\ req = None /\ todo = {} /\ place = None
  /\ buf = <<>> /\ interrupts = 0 /\ data = <<>>
  /\ rres = "idle"

ReadNext == NextCopy \/ ReadPart \/ Interrupted \/ PartFails \/ EndRead
=============================================================================
