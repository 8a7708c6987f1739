--------------------------- MODULE ExtentRead_proof ---------------------------
(***************************************************************************)
(* What a read returns, and that no frame makes the decoder panic: for     *)
(* every chunk map, alignment, size of a part and device, whatever the     *)
(* device gives at each call.                                              *)
(***************************************************************************)
EXTENDS ExtentRead, SequenceTheorems, WellFoundedInduction, TLAPS

-----------------------------------------------------------------------------
(* Numbers *)

\* The order that has no infinite descent.
Below == OpToRel(<, Nat)

\* Of some naturals there is a least.
LEMMA LeastOf ==
  ASSUME NEW S \in SUBSET Nat, S # {}
  PROVE  \E n \in S : \A m \in S : n <= m
<1>1. IsWellFoundedOn(Below, Nat)
  BY NatLessThanWellFounded DEF Below
<1>2. PICK n \in S : \A m \in S : ~(<<m, n>> \in Below)
  BY <1>1, WFMin
<1>3. Below = {ss \in Nat \X Nat : ss[1] < ss[2]}
  BY Zenon DEF Below, OpToRel
<1>4. \A m, k \in Nat : <<m, k>> \in Below <=> m < k
  BY <1>3
<1>5. n \in Nat /\ \A m \in S : m \in Nat /\ ~(m < n)
  BY <1>2, <1>4
<1>6. \A m \in S : n <= m
  BY <1>5
<1> QED
  BY <1>6

\* Of some naturals below a bound there is a greatest.
LEMMA GreatestOf ==
  ASSUME NEW S \in SUBSET Nat, S # {}, NEW b \in Nat, \A n \in S : n <= b
  PROVE  Greatest(S) \in S
<1> DEFINE R == {b - n : n \in S}
<1>1. R \in SUBSET Nat /\ R # {}
  <2>1. \A n \in S : b - n \in Nat
    OBVIOUS
  <2> QED
    BY <2>1
<1>2. PICK r \in R : \A m \in R : r <= m
  BY <1>1, LeastOf
<1>3. PICK n \in S : r = b - n
  OBVIOUS
<1>4. ASSUME NEW m \in S PROVE m <= n
  <2>1. b - m \in R /\ m \in Nat /\ n \in Nat
    OBVIOUS
  <2>2. b - n <= b - m
    BY <1>2, <1>3, <2>1
  <2> QED
    BY <2>1, <2>2
<1> QED
  BY <1>4 DEF Greatest

\* The first of some copies is one of them.
LEMMA FirstIsOne ==
  ASSUME NEW C, C # {}, \A c \in C : c[3] \in Nat
  PROVE  FirstOf(C) \in C
<1> DEFINE N == {c[3] : c \in C}
<1>1. N \in SUBSET Nat /\ N # {}
  OBVIOUS
<1>2. PICK n \in N : \A m \in N : n <= m
  BY <1>1, LeastOf
<1>3. PICK c \in C : n = c[3]
  OBVIOUS
<1>4. \A d \in C : c[3] <= d[3]
  BY <1>2, <1>3
<1> QED
  BY <1>4 DEF FirstOf

\* A sum that fits in a word is not changed by wrapping it.
LEMMA WordFacts ==
  ASSUME NEW n \in Int
  PROVE  Word(n) \in Words /\ (n \in Words => Word(n) = n)
BY SpaceAssumption DEF Word, Words

LEMMA AlignFacts ==
  ASSUME NEW n \in Nat
  PROVE  AlignDown(n) \in Nat /\ AlignDown(n) <= n
BY DeviceAssumption DEF AlignDown

-----------------------------------------------------------------------------
(* Copies *)

\* The disk is that of a case.
Given == \E c \in Cases : disk = c.disk /\ ext = c.ext

Copies == Mirrors(disk.chunks, disk.devs, req.logical, req.len)

Request == [logical |-> ext.logical, len |-> ext.len]

LEMMA GivenFacts ==
  ASSUME Given
  PROVE  /\ DOMAIN disk.chunks \subseteq Words
         /\ \A s \in DOMAIN disk.chunks :
              /\ disk.chunks[s].length \in Words
              /\ DOMAIN disk.chunks[s].stripes \subseteq Nat
              /\ \A i \in DOMAIN disk.chunks[s].stripes :
                   disk.chunks[s].stripes[i][2] \in Words
         /\ \A i \in DOMAIN disk.devs : disk.size[disk.devs[i]] \in 0..Space - Align
         /\ ext.logical \in Words /\ ext.len \in Words
         /\ ext.compressed =>
              /\ Fields \subseteq DOMAIN ext.content
              /\ {ext.content.total, ext.content.junk, ext.content.ram, ext.content.decodes}
                   \subseteq Words
              /\ \A at \in DOMAIN ext.content.segs :
                   ext.content.segs[at].len \in Words /\ ext.content.segs[at].plain \in Words
<1>1. PICK c \in Cases : disk = c.disk /\ ext = c.ext
  BY SMTT(40) DEF Given
<1> QED
  BY <1>1, CasesAssumption

\* What a copy is: a place in a stripe, on a device that was given, of the
\* chunk that holds the whole read.
LEMMA CopyFacts ==
  ASSUME Given, req = Request, NEW p \in Copies
  PROVE  \E s \in DOMAIN disk.chunks : \E i \in DOMAIN disk.chunks[s].stripes :
           /\ s <= req.logical
           /\ Holds(disk.chunks, s, req.logical, req.len)
           /\ disk.chunks[s].stripes[i][1] \in DOMAIN disk.devs
           /\ p = <<disk.devs[disk.chunks[s].stripes[i][1]],
                    Word(disk.chunks[s].stripes[i][2] + (req.logical - s)), i>>
<1> DEFINE starts == {s \in DOMAIN disk.chunks : s <= req.logical}
           start  == Greatest(starts)
<1>1. req.logical \in Nat /\ DOMAIN disk.chunks \subseteq Nat
  BY SMTT(40), GivenFacts, SpaceAssumption DEF Request, Words
<1>2. starts # {} /\ Holds(disk.chunks, start, req.logical, req.len)
  BY DEF Copies, Mirrors
<1>3. start \in starts
  BY SMTT(40), <1>1, <1>2, GreatestOf
<1>4. PICK i \in DOMAIN disk.chunks[start].stripes :
        /\ disk.chunks[start].stripes[i][1] \in DOMAIN disk.devs
        /\ p = <<disk.devs[disk.chunks[start].stripes[i][1]],
                 Word(disk.chunks[start].stripes[i][2] + (req.logical - start)), i>>
  BY DEF Copies, Mirrors
<1> QED
  BY <1>2, <1>3, <1>4

LEMMA CopyTypes ==
  ASSUME Given, req = Request, NEW p \in Copies
  PROVE  p[2] \in Words /\ p[3] \in Nat /\ disk.size[p[1]] \in 0..Space - Align
<1>1. PICK s \in DOMAIN disk.chunks : \E i \in DOMAIN disk.chunks[s].stripes :
        /\ s <= req.logical
        /\ disk.chunks[s].stripes[i][1] \in DOMAIN disk.devs
        /\ p = <<disk.devs[disk.chunks[s].stripes[i][1]],
                 Word(disk.chunks[s].stripes[i][2] + (req.logical - s)), i>>
  BY SMTT(40), CopyFacts
<1>2. PICK i \in DOMAIN disk.chunks[s].stripes :
        /\ disk.chunks[s].stripes[i][1] \in DOMAIN disk.devs
        /\ p = <<disk.devs[disk.chunks[s].stripes[i][1]],
                 Word(disk.chunks[s].stripes[i][2] + (req.logical - s)), i>>
  BY <1>1
<1>3. disk.chunks[s].stripes[i][2] + (req.logical - s) \in Int
  BY SMTT(40), GivenFacts DEF Request, Words
<1> QED
  BY <1>2, <1>3, GivenFacts, WordFacts

\* Where nothing wraps, a copy lies where the chunk maps the address.
LEMMA CopyIsMapped ==
  ASSUME Given, req = Request, ~Wraps, req.len > 0, NEW p \in Copies
  PROVE  Maps(p[1], p[2])
<1>1. PICK s \in DOMAIN disk.chunks : \E i \in DOMAIN disk.chunks[s].stripes :
        /\ s <= req.logical
        /\ Holds(disk.chunks, s, req.logical, req.len)
        /\ disk.chunks[s].stripes[i][1] \in DOMAIN disk.devs
        /\ p = <<disk.devs[disk.chunks[s].stripes[i][1]],
                 Word(disk.chunks[s].stripes[i][2] + (req.logical - s)), i>>
  BY SMTT(40), CopyFacts
<1>2. PICK i \in DOMAIN disk.chunks[s].stripes :
        /\ disk.chunks[s].stripes[i][1] \in DOMAIN disk.devs
        /\ p = <<disk.devs[disk.chunks[s].stripes[i][1]],
                 Word(disk.chunks[s].stripes[i][2] + (req.logical - s)), i>>
  BY <1>1
<1> DEFINE length == disk.chunks[s].length
           phys   == disk.chunks[s].stripes[i][2]
<1>3. /\ s \in Words /\ length \in Words /\ phys \in Words
      /\ req.logical \in Words /\ req.len \in Words
  BY GivenFacts DEF Request
<1>4. s + length <= Space /\ phys + length <= Space /\ req.logical + req.len < Space
  BY <1>3, SpaceAssumption DEF Wraps, PastTheEnd, Words
<1>5. Word(req.logical + req.len) = req.logical + req.len
  <2>1. req.logical + req.len \in Words
    BY <1>3, <1>4, SpaceAssumption DEF Words
  <2> QED
    BY <2>1, WordFacts, SpaceAssumption DEF Words
<1>6. s + length < Space => Word(s + length) = s + length
  <2>1. s + length < Space => s + length \in Words
    BY <1>3, SpaceAssumption DEF Words
  <2> QED
    BY <2>1, WordFacts, SpaceAssumption DEF Words
<1>7. s + length = Space => Word(s + length) = 0
  BY <1>3, SpaceAssumption DEF Word, Words
<1>8. req.logical + req.len <= s + length
  BY <1>1, <1>3, <1>4, <1>5, <1>6, <1>7, SpaceAssumption DEF Holds, Ends, Words
<1>9. phys + (req.logical - s) \in Words
  BY <1>1, <1>3, <1>4, <1>8, SpaceAssumption DEF Words
<1>10. Word(phys + (req.logical - s)) = phys + (req.logical - s)
  BY <1>9, WordFacts, SpaceAssumption DEF Words
<1> QED
  BY <1>1, <1>2, <1>8, <1>10 DEF Maps

-----------------------------------------------------------------------------
(* The read *)

\* What the buffer holds, wherever the loop is.
BufInv ==
  /\ buf \in Seq({place[1]} \X Nat)
  /\ Begin + Len(buf) < Space
  /\ \A i \in 1..Len(buf) : buf[i] = <<place[1], Begin + i - 1>>

\* What was returned: the bytes of one copy.
DataInv ==
  \E p \in Copies :
    /\ data \in Seq({p[1]} \X Nat)
    /\ Len(data) = req.len
    /\ \A i \in 1..req.len : data[i] = <<p[1], p[2] + i - 1>>

ReadInv ==
  /\ Given
  /\ rres \in {"idle", "running", "ok", "error"}
  /\ rres = "idle" => place = None
  /\ rres \in {"running", "ok"} => req = Request
  /\ rres = "running" => todo \subseteq Copies /\ (place # None => place \in Copies)
  /\ Reading => BufInv
  /\ rres = "ok" => DataInv

LEMMA ReadInvImplies == ReadInv => ReturnsTheBytes
<1> SUFFICES ASSUME ReadInv, rres = "ok", req.len > 0, ~Wraps
             PROVE  /\ Len(data) = req.len
                    /\ Maps(data[1][1], data[1][2])
                    /\ \A i \in DOMAIN data : data[i] = <<data[1][1], data[1][2] + i - 1>>
  BY DEF ReturnsTheBytes
<1>1. PICK p \in Copies :
        /\ data \in Seq({p[1]} \X Nat)
        /\ Len(data) = req.len
        /\ \A i \in 1..req.len : data[i] = <<p[1], p[2] + i - 1>>
  BY DEF ReadInv, DataInv
<1>2. Given /\ req = Request
  BY DEF ReadInv
<1>3. p[2] \in Nat /\ req.len \in Nat
  BY <1>2, CopyTypes, GivenFacts, SpaceAssumption DEF Request, Words
<1>4. data[1] = <<p[1], p[2]>>
  BY <1>1, <1>3
<1>5. Maps(p[1], p[2])
  BY <1>2, CopyIsMapped
<1>6. DOMAIN data = 1..req.len
  BY <1>1
<1> QED
  BY <1>1, <1>4, <1>5, <1>6

\* The copy that is being read, and the numbers of the widened read.
LEMMA ReadingFacts ==
  ASSUME ReadInv, Reading
  PROVE  /\ Given /\ req = Request /\ place \in Copies /\ BufInv
         /\ Offset \in Words /\ Offset \in Nat /\ req.len \in Nat
         /\ Begin \in Nat /\ Begin <= Offset
         /\ disk.size[place[1]] \in 0..Space - Align /\ disk.size[place[1]] \in Words
         /\ BufLen \in Nat
<1>1. Given /\ req = Request /\ place \in Copies /\ BufInv
  BY DEF ReadInv, Reading
<1>2. /\ Offset \in Words /\ disk.size[place[1]] \in 0..Space - Align
      /\ disk.size[place[1]] \in Words
  <2>1. Offset \in Words /\ disk.size[place[1]] \in 0..Space - Align
    BY <1>1, CopyTypes DEF Offset
  <2> QED
    BY <2>1, SpaceAssumption, DeviceAssumption DEF Words
<1>3. Offset \in Nat /\ req.len \in Nat
  BY <1>1, <1>2, GivenFacts, SpaceAssumption DEF Words, Request
<1>4. Begin \in Nat /\ Begin <= Offset
  BY <1>3, AlignFacts DEF Begin
<1>5. Word(Offset + req.len) \in Nat
  BY <1>3, WordFacts, SpaceAssumption DEF Words
<1>6. AlignUp(Word(Offset + req.len)) \in Int
  BY <1>5, AlignFacts, DeviceAssumption DEF AlignUp
<1>7. Word(AlignUp(Word(Offset + req.len))) \in Int
  BY <1>6, WordFacts, SpaceAssumption DEF Words
<1>8. BufLen \in Nat
  BY <1>4, <1>7, WordFacts, SpaceAssumption DEF BufLen, Words
<1> QED
  BY <1>1, <1>2, <1>3, <1>4, <1>8

LEMMA NextCopyKeeps == ReadInv /\ NextCopy /\ UNCHANGED ext => ReadInv'
<1> SUFFICES ASSUME ReadInv, NextCopy, UNCHANGED ext PROVE ReadInv'
  OBVIOUS
<1>1. rres = "running" /\ place = None /\ UNCHANGED <<disk, req, ext, data>>
  BY DEF NextCopy
<1>2. Given' /\ Request' = Request /\ Copies' = Copies
  BY <1>1 DEF ReadInv, Given, Request, Copies
<1>3. CASE todo = {}
  BY <1>1, <1>2, <1>3 DEF NextCopy, ReadInv, Reading
<1>4. CASE todo # {}
  <2>1. /\ place' = FirstOf(todo) /\ todo' \subseteq todo /\ buf' = <<>> /\ rres' = rres
    BY <1>4 DEF NextCopy
  <2>2. todo \subseteq Copies /\ Given /\ req = Request
    BY <1>1 DEF ReadInv
  <2>3. \A c \in todo : c[3] \in Nat
    BY <2>2, CopyTypes
  <2>4. place' \in Copies
    BY <1>4, <2>1, <2>2, <2>3, FirstIsOne
  <2>5. place'[2] \in Words
    BY <2>2, <2>4, CopyTypes
  <2>6. AlignDown(place'[2]) \in Nat /\ AlignDown(place'[2]) < Space
    <3>1. place'[2] \in Nat /\ place'[2] < Space
      BY <2>5, SpaceAssumption DEF Words
    <3> QED
      BY <3>1, AlignFacts, SpaceAssumption
  <2>7. BufInv'
    BY <2>1, <2>6 DEF BufInv, Begin, Offset
  <2> QED
    BY <1>1, <1>2, <2>1, <2>2, <2>4, <2>7 DEF ReadInv, Reading
<1> QED
  BY <1>3, <1>4

\* A part continues the buffer where it ended, since it lies on the device.
LEMMA ReadPartKeeps == ReadInv /\ ReadPart /\ UNCHANGED ext => ReadInv'
<1> SUFFICES ASSUME ReadInv, ReadPart, UNCHANGED ext PROVE ReadInv'
  OBVIOUS
<1>1. Reading /\ UNCHANGED <<disk, req, todo, place, data, rres, ext>>
  BY DEF ReadPart
<1>2. PICK n \in 1..Part :
        There(n) /\ buf' = buf \o [i \in 1..n |-> <<place[1], From + i - 1>>]
  BY DEF ReadPart
<1>3. /\ BufInv /\ Begin \in Nat /\ BufLen \in Nat
      /\ disk.size[place[1]] \in Words
  BY <1>1, ReadingFacts
<1>4. Len(buf) \in Nat
  BY <1>3 DEF BufInv
<1>5. n \in Nat
  BY <1>3, <1>4, DeviceAssumption DEF Part
<1>6. From = Begin + Len(buf)
  <2>1. Begin + Len(buf) \in Words
    BY <1>3, <1>4, SpaceAssumption DEF BufInv, Words
  <2> QED
    BY <2>1, WordFacts, SpaceAssumption DEF From, Words
<1>7. Begin + Len(buf) + n < Space
  BY <1>2, <1>3, <1>4, <1>5, <1>6, SpaceAssumption DEF There, Words
<1> DEFINE part == [i \in 1..n |-> <<place[1], From + i - 1>>]
           S    == {place[1]} \X Nat
<1>8. part \in Seq(S) /\ Len(part) = n
  <2>1. \A i \in 1..n : From + i - 1 \in Nat
    BY <1>3, <1>4, <1>5, <1>6
  <2>2. part \in [1..n -> S]
    BY <2>1
  <2> QED
    BY <1>5, <2>2
<1>9. buf \in Seq(S)
  BY <1>3 DEF BufInv
<1>10. /\ buf' \in Seq(S) /\ Len(buf') = Len(buf) + n
       /\ \A i \in 1..Len(buf) + n :
            buf'[i] = IF i <= Len(buf) THEN buf[i] ELSE part[i - Len(buf)]
  BY <1>2, <1>8, <1>9, ConcatProperties
<1>11. \A i \in 1..Len(buf') : buf'[i] = <<place[1], Begin + i - 1>>
  <2> SUFFICES ASSUME NEW i \in 1..Len(buf) + n
               PROVE  buf'[i] = <<place[1], Begin + i - 1>>
    BY <1>10
  <2>1. CASE i <= Len(buf)
    <3>1. i \in 1..Len(buf)
      BY <1>4, <1>5, <2>1
    <3>2. buf'[i] = buf[i]
      BY <1>10, <2>1
    <3> QED
      BY <1>3, <3>1, <3>2 DEF BufInv
  <2>2. CASE i > Len(buf)
    <3>1. i - Len(buf) \in 1..n
      BY <1>4, <1>5, <2>2
    <3>2. buf'[i] = part[i - Len(buf)]
      <4>1. ~(i <= Len(buf))
        BY <1>4, <1>5, <2>2
      <4> HIDE DEF part
      <4> QED
        BY <1>10, <4>1
    <3>3. part[i - Len(buf)] = <<place[1], From + (i - Len(buf)) - 1>>
      BY <3>1
    <3>4. From + (i - Len(buf)) - 1 = Begin + i - 1
      BY <1>3, <1>4, <1>5, <1>6
    <3> QED
      BY <3>2, <3>3, <3>4
  <2> QED
    BY <1>4, <1>5, <2>1, <2>2
<1>12. BufInv'
  BY <1>1, <1>3, <1>4, <1>5, <1>7, <1>10, <1>11 DEF BufInv, Begin, Offset
<1> QED
  BY <1>1, <1>12 DEF ReadInv, Given, Request, Copies, Reading

\* A slice of a sequence, item by item.
LEMMA Slice ==
  ASSUME NEW S, NEW s, NEW k \in Nat, NEW n \in Nat,
         \A i \in (k + 1)..(k + n) : s[i] \in S
  PROVE  /\ SubSeq(s, k + 1, k + n) \in Seq(S)
         /\ Len(SubSeq(s, k + 1, k + n)) = n
         /\ \A i \in 1..n : SubSeq(s, k + 1, k + n)[i] = s[k + i]
<1> DEFINE m == k + 1
           e == k + n
<1>1. m \in Int /\ e \in Int /\ e - m + 1 = n /\ (m <= e <=> n > 0)
      /\ \A i \in 1..n : m + i - 1 = k + i
  OBVIOUS
<1>2. \A i \in m..e : s[i] \in S
  OBVIOUS
<1> HIDE DEF m, e
<1>3. /\ SubSeq(s, m, e) \in Seq(S)
      /\ Len(SubSeq(s, m, e)) = IF m <= e THEN e - m + 1 ELSE 0
      /\ \A i \in 1..(e - m + 1) : SubSeq(s, m, e)[i] = s[m + i - 1]
  BY <1>1, <1>2, SubSeqProperties
<1>4. /\ SubSeq(s, m, e) \in Seq(S)
      /\ Len(SubSeq(s, m, e)) = n
      /\ \A i \in 1..n : SubSeq(s, m, e)[i] = s[k + i]
  BY <1>1, <1>3
<1> QED
  BY <1>4 DEF m, e

\* What is cut out of the buffer begins at the address that was asked for.
LEMMA EndReadKeeps == ReadInv /\ EndRead /\ UNCHANGED ext => ReadInv'
<1> SUFFICES ASSUME ReadInv, EndRead, UNCHANGED ext PROVE ReadInv'
  OBVIOUS
<1>1. Reading /\ UNCHANGED <<disk, req, todo, ext>> /\ place' = None
  BY DEF EndRead
<1>2. /\ BufInv /\ place \in Copies /\ req = Request
      /\ Begin \in Nat /\ Offset \in Nat /\ Begin <= Offset /\ req.len \in Nat
  BY <1>1, ReadingFacts
<1>3. Given' /\ Request' = Request /\ Copies' = Copies
  BY <1>1 DEF ReadInv, Given, Request, Copies
<1>4. CASE ~LongEnough
  BY <1>1, <1>3, <1>4 DEF EndRead, ReadInv, Reading
<1>5. CASE LongEnough
  <2>1. data' = SubSeq(buf, Skip + 1, Skip + req.len) /\ rres' = "ok"
    BY <1>5 DEF EndRead
  <2>2. Skip \in Nat /\ Begin + Skip = Offset
    BY <1>2 DEF Skip
  <2>3. Len(buf) \in Nat /\ Skip + req.len <= Len(buf)
    BY <1>2, <1>5, <2>2 DEF BufInv, LongEnough
  <2> DEFINE S == {place[1]} \X Nat
  <2>4. \A i \in (Skip + 1)..(Skip + req.len) :
          buf[i] \in S /\ buf[i] = <<place[1], Begin + i - 1>>
    <3> SUFFICES ASSUME NEW i \in (Skip + 1)..(Skip + req.len)
                 PROVE  buf[i] \in S /\ buf[i] = <<place[1], Begin + i - 1>>
      OBVIOUS
    <3>1. i \in 1..Len(buf)
      BY <1>2, <2>2, <2>3
    <3>2. buf[i] \in S
      BY <1>2, <3>1, ElementOfSeq DEF BufInv
    <3> QED
      BY <1>2, <3>1, <3>2 DEF BufInv
  <2>5. /\ data' \in Seq(S) /\ Len(data') = req.len
        /\ \A i \in 1..req.len : data'[i] = buf[Skip + i]
    <3> HIDE DEF S
    <3>1. \A i \in (Skip + 1)..(Skip + req.len) : buf[i] \in S
      BY <2>4
    <3> QED
      BY <1>2, <2>1, <2>2, <3>1, Slice
  <2>6. Len(data') = req.len
    BY <2>5
  <2>7. \A i \in 1..req.len : data'[i] = <<place[1], place[2] + i - 1>>
    <3> SUFFICES ASSUME NEW i \in 1..req.len
                 PROVE  data'[i] = <<place[1], place[2] + i - 1>>
      OBVIOUS
    <3>1. Skip + i \in (Skip + 1)..(Skip + req.len)
      BY <1>2, <2>2
    <3>2. data'[i] = buf[Skip + i]
      BY <2>5
    <3>3. buf[Skip + i] = <<place[1], Begin + (Skip + i) - 1>>
      BY <2>4, <3>1
    <3>4. Begin + (Skip + i) - 1 = place[2] + i - 1
      BY <1>2, <2>2 DEF Offset
    <3> QED
      BY <3>2, <3>3, <3>4
  <2>8. DataInv'
    BY <1>1, <1>2, <1>3, <2>5, <2>6, <2>7 DEF DataInv
  <2> QED
    BY <1>1, <1>2, <1>3, <2>1, <2>8 DEF ReadInv, Reading
<1> QED
  BY <1>4, <1>5

LEMMA OthersKeep ==
  ReadInv /\ (Interrupted \/ PartFails) /\ UNCHANGED ext => ReadInv'
<1> SUFFICES ASSUME ReadInv, Interrupted \/ PartFails, UNCHANGED ext PROVE ReadInv'
  OBVIOUS
<1>1. Reading /\ UNCHANGED <<disk, req, todo, buf, data, rres, ext>>
  BY DEF Interrupted, PartFails
<1>2. Given' /\ Request' = Request /\ Copies' = Copies
  BY <1>1 DEF ReadInv, Given, Request, Copies
<1>3. place' = place \/ place' = None
  BY DEF Interrupted, PartFails
<1>4. CASE place' = place
  <2>1. BufInv'
    BY <1>1, <1>4, ReadingFacts DEF BufInv, Begin, Offset
  <2> QED
    BY <1>1, <1>2, <1>4, <2>1 DEF ReadInv, Reading
<1>5. CASE place' = None
  BY <1>1, <1>2, <1>5 DEF ReadInv, Reading
<1> QED
  BY <1>3, <1>4, <1>5

LEMMA WantKeeps == ReadInv /\ Want => ReadInv'
<1> SUFFICES ASSUME ReadInv, Want PROVE ReadInv'
  OBVIOUS
<1>1. rres = "idle" /\ UNCHANGED <<disk, place, ext>>
  BY DEF Want, BeginRead
<1>2. place' = None /\ Given' /\ Request' = Request
  BY <1>1 DEF ReadInv, Given, Request
<1>3. CASE Implausible(ext)
  BY <1>1, <1>2, <1>3 DEF Want, ReadInv, Reading
<1>4. CASE ~Implausible(ext)
  <2>1. rres' = "running" /\ req' = Request /\ todo' = Copies'
    BY <1>1, <1>4 DEF Want, BeginRead, Request, Copies
  <2> QED
    BY <1>2, <2>1 DEF ReadInv, Reading
<1> QED
  BY <1>3, <1>4

LEMMA ReadStepKeeps == ReadInv /\ [Next]_vars => ReadInv'
<1> SUFFICES ASSUME ReadInv, [Next]_vars PROVE ReadInv'
  OBVIOUS
<1>1. CASE Want
  BY <1>1, WantKeeps
<1>2. CASE ReadNext /\ UNCHANGED <<decodeVars, ext>>
  BY <1>2, NextCopyKeeps, ReadPartKeeps, EndReadKeeps, OthersKeep DEF ReadNext
<1>3. CASE UNCHANGED <<readVars, ext>>
  BY <1>3 DEF ReadInv, readVars, Given, Reading, Request, Copies, BufInv, Begin,
              Offset, DataInv
<1> QED
  BY <1>1, <1>2, <1>3 DEF Next, DecodeRead, vars

-----------------------------------------------------------------------------
(* Copies that are lost *)

\* The device fails, or ends before the read does.
Lost(p) == p[1] \in disk.failing \/ p[2] + req.len > disk.size[p[1]]

\* Each copy is still to be tried, is being tried, or is lost.
TriedInv ==
  /\ rres = "idle" => req = None
  /\ rres \in {"running", "error"} /\ req # None =>
       /\ req = Request
       /\ \A p \in Copies : p \in todo \/ (place # None /\ p = place) \/ Lost(p)
  /\ rres = "error" /\ req # None => todo = {} /\ place = None

LEMMA TriedInvImplies == TriedInv => FailsOnlyWhenLost
BY DEF TriedInv, FailsOnlyWhenLost, Lost, Copies

LEMMA CopyIsNotNone ==
  ASSUME Given, req = Request, NEW p \in Copies
  PROVE  p # None
<1>1. PICK s \in DOMAIN disk.chunks : \E i \in DOMAIN disk.chunks[s].stripes :
        /\ s <= req.logical
        /\ disk.chunks[s].stripes[i][1] \in DOMAIN disk.devs
        /\ p = <<disk.devs[disk.chunks[s].stripes[i][1]],
                 Word(disk.chunks[s].stripes[i][2] + (req.logical - s)), i>>
  BY CopyFacts
<1>2. PICK i \in DOMAIN disk.chunks[s].stripes :
        /\ disk.chunks[s].stripes[i][1] \in DOMAIN disk.devs
        /\ p = <<disk.devs[disk.chunks[s].stripes[i][1]],
                 Word(disk.chunks[s].stripes[i][2] + (req.logical - s)), i>>
  BY <1>1
<1>3. PICK c \in Cases : disk = c.disk
  BY DEF Given
<1>4. Word(disk.chunks[s].stripes[i][2] + (req.logical - s)) \in Words /\ i \in Nat
  <2>1. disk.chunks[s].stripes[i][2] + (req.logical - s) \in Int /\ i \in Nat
    BY GivenFacts DEF Request, Words
  <2> QED
    BY <2>1, WordFacts
<1>5. p \in {c.disk.devs[j] : j \in DOMAIN c.disk.devs} \X Words \X Nat
  BY <1>2, <1>3, <1>4
<1> QED
  BY <1>5, NoneIsNoCopy

\* On a device that holds what was asked for, the widened read is no shorter.
LEMMA WidenedHolds ==
  ASSUME ReadInv, Reading, Offset + req.len <= disk.size[place[1]]
  PROVE  BufLen >= Skip + req.len
<1> DEFINE e == Offset + req.len
<1>1. /\ Offset \in Nat /\ req.len \in Nat /\ Begin \in Nat /\ Begin <= Offset
      /\ Align \in Nat \ {0} /\ Space \in Nat \ {0} /\ e \in Nat /\ e <= Space - Align
  BY ReadingFacts, DeviceAssumption, SpaceAssumption
<1>2. Word(e) = e
  BY <1>1, WordFacts DEF Words
<1>3. AlignUp(e) \in Nat /\ e <= AlignUp(e) /\ AlignUp(e) < e + Align
  <2>1. e % Align \in 0..Align - 1
    BY <1>1
  <2> HIDE DEF e
  <2> QED
    BY <1>1, <2>1 DEF AlignUp, AlignDown
<1> HIDE DEF e
<1>4. Word(AlignUp(e)) = AlignUp(e)
  BY <1>1, <1>3, WordFacts DEF Words
<1>5. AlignUp(e) - Begin \in Words
  BY <1>1, <1>3 DEF Words, e
<1>6. Word(AlignUp(e) - Begin) = AlignUp(e) - Begin
  BY <1>1, <1>3, <1>5, WordFacts
<1>7. BufLen = AlignUp(e) - Begin
  BY <1>2, <1>4, <1>6 DEF BufLen, e
<1> QED
  BY <1>1, <1>3, <1>7 DEF Skip, e

\* A copy that was read to the end of the loop and is too short is lost.
LEMMA TooShortIsLost ==
  ASSUME ReadInv, Reading, Ended, ~LongEnough
  PROVE  place[2] + req.len > disk.size[place[1]]
<1> SUFFICES ASSUME Offset + req.len <= disk.size[place[1]] PROVE FALSE
  <2>1. Offset + req.len \in Nat /\ disk.size[place[1]] \in Nat
    BY ReadingFacts, SpaceAssumption DEF Words
  <2> QED
    BY <2>1 DEF Offset
<1>1. /\ Offset \in Nat /\ req.len \in Nat /\ Begin \in Nat /\ Begin <= Offset
      /\ disk.size[place[1]] \in Nat /\ Len(buf) \in Nat /\ Begin + Len(buf) < Space
      /\ BufLen \in Nat /\ Space \in Nat
  BY ReadingFacts, SpaceAssumption DEF Words, BufInv
<1>2. Len(buf) < BufLen
  BY <1>1, WidenedHolds DEF LongEnough, Skip
<1>3. From = Begin + Len(buf)
  BY <1>1, WordFacts DEF From, Words
<1>4. Begin + Len(buf) + 1 > disk.size[place[1]]
  BY <1>1, <1>2, <1>3 DEF Ended, Unfilled, There
<1> QED
  BY <1>1, <1>4 DEF LongEnough, Skip

LEMMA TriedStepKeeps == ReadInv /\ TriedInv /\ [Next]_vars => TriedInv'
<1> SUFFICES ASSUME ReadInv, TriedInv, [Next]_vars PROVE TriedInv'
  OBVIOUS
<1>1. CASE Want
  <2>1. rres = "idle" /\ req = None /\ UNCHANGED <<disk, ext>>
    BY <1>1 DEF Want, TriedInv, BeginRead
  <2>2. CASE Implausible(ext)
    BY <1>1, <2>1, <2>2 DEF Want, TriedInv
  <2>3. CASE ~Implausible(ext)
    <3>1. rres' = "running" /\ req' = Request' /\ todo' = Copies'
      BY <1>1, <2>1, <2>3 DEF Want, BeginRead, Request, Copies
    <3> QED
      BY <3>1 DEF TriedInv
  <2> QED
    BY <2>2, <2>3
<1>2. CASE ReadNext /\ UNCHANGED <<decodeVars, ext>>
  <2>1. rres = "running" /\ Given /\ req = Request /\ UNCHANGED <<disk, req, ext>>
    BY <1>2 DEF ReadNext, NextCopy, ReadPart, Interrupted, PartFails, EndRead, Reading,
                ReadInv
  <2>2. Request' = Request /\ Copies' = Copies /\ \A p : Lost(p)' = Lost(p)
    BY <2>1 DEF Request, Copies, Lost
  <2>3. SUFFICES ASSUME req # None
                 PROVE  /\ rres' = "ok" \/ \A p \in Copies :
                              p \in todo' \/ (place' # None /\ p = place') \/ Lost(p)
                        /\ rres' # "idle" /\ (rres' = "error" => todo' = {} /\ place' = None)
    <3>1. CASE req = None
      <4>1. rres' # "idle"
        BY <1>2, <2>1 DEF ReadNext, NextCopy, ReadPart, Interrupted, PartFails, EndRead
      <4> QED
        BY <2>1, <3>1, <4>1 DEF TriedInv
    <3> QED
      BY <2>1, <2>2, <3>1 DEF TriedInv
  <2>4. \A p \in Copies : p \in todo \/ (place # None /\ p = place) \/ Lost(p)
    BY <2>1, <2>3 DEF TriedInv
  <2>5. CASE NextCopy
    <3>1. CASE todo = {}
      BY <2>1, <2>4, <2>5, <3>1 DEF NextCopy
    <3>2. CASE todo # {}
      <4>1. /\ place = None /\ place' = FirstOf(todo) /\ todo' = todo \ {place'}
            /\ rres' = rres
        BY <2>5, <3>2 DEF NextCopy
      <4>2. todo \subseteq Copies
        BY <2>1 DEF ReadInv
      <4>3. \A c \in todo : c[3] \in Nat
        BY <2>1, <4>2, CopyTypes
      <4>4. place' \in Copies
        BY <3>2, <4>1, <4>2, <4>3, FirstIsOne
      <4>5. place' # None
        BY <2>1, <4>4, CopyIsNotNone
      <4> QED
        BY <2>1, <2>4, <4>1, <4>5
    <3> QED
      BY <3>1, <3>2
  <2>6. CASE ReadPart \/ Interrupted
    BY <2>1, <2>4, <2>6 DEF ReadPart, Interrupted
  <2>7. CASE PartFails
    BY <2>1, <2>4, <2>7 DEF PartFails, Lost
  <2>8. CASE EndRead
    <3>1. CASE LongEnough
      <4>1. rres' = "ok"
        BY <2>8, <3>1 DEF EndRead
      <4> QED
        BY <4>1
    <3>2. CASE ~LongEnough
      <4>1. Lost(place) /\ place' = None /\ rres' = rres /\ todo' = todo
        BY <2>8, <3>2, TooShortIsLost DEF EndRead, Lost
      <4> QED
        BY <2>1, <2>4, <4>1
    <3> QED
      BY <3>1, <3>2
  <2> QED
    BY <1>2, <2>5, <2>6, <2>7, <2>8 DEF ReadNext
<1>3. CASE UNCHANGED <<readVars, ext>>
  BY <1>3 DEF TriedInv, readVars, Request, Copies, Lost
<1> QED
  BY <1>1, <1>2, <1>3 DEF Next, DecodeRead, vars

-----------------------------------------------------------------------------
(* The decoder *)

\* What the decoder was given: what was read, under the words of its header.
SrcInv ==
  /\ ext.compressed /\ ~Implausible(ext)
  /\ src.len = ext.len
  /\ \A f \in Fields \ {"len"} : src[f] = ext.content[f]

\* A frame has no more segments, or as many bytes as are wanted.
AllOrEnough == src.algo = "lzo" /\ PaddedPos < src.total => size >= src.ram

\* Past its header, a frame is no longer than what was read; what was decoded
\* has a size, and less than a sector is added to it once it is all or enough.
DecodeInv ==
  /\ rres \in {"running", "ok"} => ~Implausible(ext)
  /\ pos \in Nat /\ size \in Nat
  /\ dres = "idle" => pos = 0 /\ size = 0 /\ plain = <<>> /\ src = None
  /\ dres # "idle" => SrcInv
  /\ dres = "lzo" /\ pos >= 4 => src.total <= src.len
  /\ dres = "stream" => src.algo = "stream"
  /\ dres \in {"finish", "ok"} => AllOrEnough
  /\ dres = "ok" => padded < Sector
  /\ dres # "panic"

LEMMA SrcFacts ==
  ASSUME Given, SrcInv
  PROVE  /\ src.len \in Nat /\ src.total \in Nat /\ src.junk \in Nat
         /\ src.ram \in Nat /\ src.decodes \in Nat /\ src.ram <= MAX_RAM_BYTES
         /\ \A at \in DOMAIN src.segs : src.segs[at].len \in Nat /\ src.segs[at].plain \in Nat
<1>1. /\ ext.content.total \in Nat /\ ext.content.junk \in Nat /\ ext.len \in Nat
      /\ ext.content.ram \in Nat /\ ext.content.decodes \in Nat
      /\ \A at \in DOMAIN ext.content.segs :
           ext.content.segs[at].len \in Nat /\ ext.content.segs[at].plain \in Nat
  BY GivenFacts, SpaceAssumption DEF Words, SrcInv
<1>2. /\ src.total = ext.content.total /\ src.junk = ext.content.junk
      /\ src.ram = ext.content.ram /\ src.decodes = ext.content.decodes
      /\ src.segs = ext.content.segs /\ src.len = ext.len
  BY DEF SrcInv, Fields
<1>3. ext.content.ram <= MAX_RAM_BYTES
  BY <1>1, DecompressAssumption DEF SrcInv, Implausible
<1> QED
  BY <1>1, <1>2, <1>3

LEMMA DecodeReadKeeps == ReadInv /\ DecodeInv /\ DecodeRead => DecodeInv'
<1> SUFFICES ASSUME ReadInv, DecodeInv, DecodeRead PROVE DecodeInv'
  OBVIOUS
<1>1. /\ dres = "idle" /\ rres = "ok" /\ ext.compressed
      /\ src' = [ext.content EXCEPT !.len = Len(data)]
      /\ dres' \in {"error", "lzo", "stream"} /\ pos' = pos
      /\ size' = size /\ rres' = rres /\ ext' = ext
  BY DEF DecodeRead, Decode, readVars
<1>2. Given /\ req = Request /\ DataInv
  BY <1>1 DEF ReadInv
<1>3. Len(data) = ext.len
  BY <1>2 DEF DataInv, Request
<1>4. Fields \subseteq DOMAIN ext.content
  BY <1>1, <1>2, GivenFacts
<1>5. src'.len = ext.len /\ \A f \in Fields \ {"len"} : src'[f] = ext.content[f]
  BY <1>1, <1>3, <1>4 DEF Fields
<1>6. SrcInv'
  BY <1>1, <1>5 DEF SrcInv, DecodeInv, Implausible
<1>7. dres' = "stream" => src'.algo = "stream"
  BY <1>1, <1>4 DEF DecodeRead, Decode, Fields
<1> QED
  BY <1>1, <1>6, <1>7 DEF DecodeInv

LEMMA PaddedPosFacts ==
  ASSUME pos \in Nat
  PROVE  PaddedPos \in Nat /\ PaddedPos >= pos
BY DecompressAssumption DEF PaddedPos, LeftInSector

LEMMA LzoSegmentKeeps ==
  ReadInv /\ DecodeInv /\ LzoSegment /\ UNCHANGED <<readVars, ext>> => DecodeInv'
<1> SUFFICES ASSUME ReadInv, DecodeInv, LzoSegment, UNCHANGED <<readVars, ext>>
             PROVE  DecodeInv'
  OBVIOUS
<1> DEFINE at  == PaddedPos + 4
           len == LenAt(PaddedPos)
<1>1. /\ dres = "lzo" /\ pos >= 4 /\ src' = src /\ rres' = rres /\ ext' = ext
      /\ pos \in Nat /\ SrcInv /\ src.total <= src.len /\ size \in Nat
  BY DEF LzoSegment, DecodeInv, readVars
<1>2. /\ src.len \in Nat /\ src.total \in Nat /\ src.junk \in Nat
      /\ \A a \in DOMAIN src.segs : src.segs[a].len \in Nat /\ src.segs[a].plain \in Nat
  BY <1>1, SrcFacts DEF ReadInv
<1>3. at \in Nat /\ len \in Nat /\ PaddedPos \in Nat
  BY <1>1, <1>2, PaddedPosFacts DEF LenAt
<1>4. Overruns(at, len) \/ at + len <= src.len
  BY <1>1, <1>2, <1>3 DEF Overruns
<1>5. \/ dres' \in {"finish", "error"} /\ pos' = pos /\ size' = size
      \/ /\ dres' = dres /\ pos' = at + len /\ IsSegment(at, len)
         /\ size' = size + src.segs[PaddedPos].plain
  BY <1>1, <1>2, <1>3, <1>4 DEF LzoSegment
<1>6. IsSegment(at, len) => PaddedPos \in DOMAIN src.segs
  BY <1>3 DEF IsSegment
<1>7. size' \in Nat
  BY <1>1, <1>2, <1>5, <1>6
<1>8. SrcInv'
  BY <1>1 DEF SrcInv, Implausible
<1>9. dres' = "finish" => PaddedPos' >= src'.total
  <2>1. dres' = "finish" => PaddedPos >= src.total /\ pos' = pos /\ src' = src
    BY <1>1 DEF LzoSegment
  <2> QED
    BY <2>1 DEF PaddedPos, LeftInSector
<1>10. PaddedPos' >= src'.total => AllOrEnough'
  <2> SUFFICES ASSUME PaddedPos' >= src'.total PROVE ~(PaddedPos' < src'.total)
    BY DEF AllOrEnough
  <2>1. pos' \in Nat /\ src'.total \in Nat
    <3> HIDE DEF at, len
    <3> QED
      BY <1>1, <1>2, <1>3, <1>5
  <2>2. PaddedPos' \in Nat
    BY <2>1, DecompressAssumption DEF PaddedPos, LeftInSector
  <2> QED
    BY <2>1, <2>2
<1> HIDE DEF at, len
<1> QED
  BY <1>1, <1>3, <1>5, <1>7, <1>8, <1>9, <1>10 DEF DecodeInv

LEMMA MostFacts ==
  ASSUME Given, SrcInv
  PROVE  Most \in Nat /\ Taken \in Nat
<1>1. src.ram \in Nat /\ src.decodes \in Nat
  BY SrcFacts
<1>2. RoundUp(src.ram) \in Nat
  BY <1>1, DecompressAssumption DEF RoundUp
<1> QED
  BY <1>1, <1>2 DEF Most, Taken

LEMMA DecodeNextKeeps ==
  ReadInv /\ DecodeInv /\ DecodeNext /\ UNCHANGED <<readVars, ext>> => DecodeInv'
<1> SUFFICES ASSUME ReadInv, DecodeInv, DecodeNext, UNCHANGED <<readVars, ext>>
             PROVE  DecodeInv'
  OBVIOUS
<1>1. CASE LzoSegment
  BY <1>1, LzoSegmentKeeps
<1>2. dres # "idle" /\ src' = src /\ rres' = rres /\ ext' = ext
  BY DEF DecodeNext, LzoSegment, LzoBegin, Stream, LzoEnd, Finish, readVars
<1>3. SrcInv /\ Given /\ SrcInv'
  BY <1>2 DEF DecodeInv, ReadInv, SrcInv, Implausible
<1>4. CASE LzoBegin
  <2>1. /\ dres = "lzo" /\ size' = size
        /\ \/ Fits /\ pos' = 4 /\ dres' = dres
           \/ dres' = "error" /\ pos' = pos
    BY <1>4 DEF LzoBegin
  <2> QED
    BY <1>2, <1>3, <2>1 DEF DecodeInv, Fits
<1>5. CASE Stream \/ LzoEnd
  <2>1. pos' = pos /\ dres' \in {"error", "finish"} /\ size' \in {size, Taken}
    BY <1>5 DEF Stream, LzoEnd
  <2>2. size' \in Nat
    BY <1>3, <2>1, MostFacts DEF DecodeInv
  <2>3. AllOrEnough'
    <3>1. CASE Stream
      BY <1>2, <3>1 DEF Stream, DecodeInv, AllOrEnough
    <3>2. CASE LzoEnd
      <4>1. PaddedPos >= pos /\ PaddedPos \in Nat /\ pos \in Nat /\ src.total \in Nat
        BY <1>3, PaddedPosFacts, SrcFacts DEF DecodeInv
      <4>2. PaddedPos' = PaddedPos /\ size' = size
        BY <2>1, <3>2 DEF LzoEnd, PaddedPos, LeftInSector
      <4>3. pos >= src.total \/ size >= src.ram
        BY <3>2 DEF LzoEnd
      <4> QED
        BY <1>2, <4>1, <4>2, <4>3 DEF AllOrEnough
    <3> QED
      BY <1>5, <3>1, <3>2
  <2> QED
    BY <1>2, <1>3, <2>1, <2>2, <2>3 DEF DecodeInv
<1>6. CASE Finish
  <2>1. /\ pos' = pos /\ size' = size
        /\ dres' = "error" \/ (dres' = "ok" /\ ~TooShort /\ padded' = src.ram - Kept)
    BY <1>6 DEF Finish
  <2>2. src.ram \in Nat /\ size \in Nat /\ Sector \in Nat
    BY <1>3, SrcFacts, DecompressAssumption DEF DecodeInv
  <2>3. ~TooShort => src.ram - Kept < Sector
    BY <2>2 DEF TooShort, Kept
  <2>4. AllOrEnough'
    <3>1. PaddedPos' = PaddedPos
      BY <2>1 DEF PaddedPos, LeftInSector
    <3>2. dres = "finish"
      BY <1>6 DEF Finish
    <3> QED
      BY <1>2, <2>1, <3>1, <3>2 DEF AllOrEnough, DecodeInv
  <2> QED
    BY <1>2, <1>3, <2>1, <2>3, <2>4 DEF DecodeInv
<1> QED
  BY <1>1, <1>4, <1>5, <1>6 DEF DecodeNext

LEMMA DecodeStepKeeps == ReadInv /\ DecodeInv /\ [Next]_vars => DecodeInv'
<1> SUFFICES ASSUME ReadInv, DecodeInv, [Next]_vars PROVE DecodeInv'
  OBVIOUS
<1>1. CASE DecodeRead
  BY <1>1, DecodeReadKeeps
<1>2. CASE DecodeNext /\ UNCHANGED <<readVars, ext>>
  BY <1>2, DecodeNextKeeps
<1>3. CASE UNCHANGED <<decodeVars, ext>> /\ (Want \/ ReadNext \/ UNCHANGED readVars)
  <2>1. ~Implausible(ext) \/ rres' \notin {"running", "ok"}
    BY <1>3 DEF DecodeInv, Want, BeginRead, ReadNext, NextCopy, ReadPart, Interrupted,
                PartFails, EndRead, Reading, readVars
  <2> QED
    BY <1>3, <2>1 DEF decodeVars, DecodeInv, SrcInv, Implausible, AllOrEnough,
                      PaddedPos, LeftInSector
<1> QED
  BY <1>1, <1>2, <1>3 DEF Next, Want, vars

-----------------------------------------------------------------------------
(* Extents that were written as their item says *)

Layouts == [1..Len(src.written) -> DOMAIN src.segs]

\* Where the decoder is after k segments of a frame that is laid out so.
After(at, k) ==
  /\ plain = SubSeq(src.written, 1, k)
  /\ size = IF k < Len(src.written) THEN k * Sector
            ELSE (k - 1) * Sector + src.segs[at[k]].plain
  /\ pos = 4 \/ (pos = 0 /\ dres = "lzo") \/ k > 0
  /\ k > 0 => pos = at[k] + 4 + src.segs[at[k]].len

AsWritten ==
  /\ src.written \in Seq({src.written[i] : i \in DOMAIN src.written})
  /\ DOMAIN src.segs \subseteq Nat
  /\ \/ /\ src.algo = "stream" /\ ~src.broken /\ Fills(src, src.decodes)
        /\ src.written = <<"stream">>
     \/ /\ src.algo = "lzo" /\ src.total <= src.len
        /\ \E at \in Layouts : LaidOut(src, at)

IntactInv ==
  dres # "idle" /\ src.intact =>
    /\ AsWritten
    /\ \/ dres = "stream" /\ src.algo = "stream"
       \/ /\ dres = "lzo" /\ src.algo = "lzo"
          /\ \E at \in Layouts : /\ LaidOut(src, at)
                                 /\ \E k \in 0..Len(src.written) : After(at, k)
       \/ dres = "finish" /\ Fills(src, size) /\ plain = src.written
       \/ dres = "ok" /\ plain = src.written

LEMMA IntactInvImplies == DecodeInv /\ IntactInv => DecodesWhole
BY DEF DecodeInv, AllOrEnough, IntactInv, DecodesWhole

LEMMA AsWrittenFacts == Given /\ SrcInv /\ src.intact => AsWritten
<1> SUFFICES ASSUME Given, SrcInv, src.intact PROVE AsWritten
  OBVIOUS
<1>1. PICK c \in Cases : ext = c.ext
  BY DEF Given
<1> DEFINE content == ext.content
<1>2. ext.compressed /\ content.intact
  BY DEF SrcInv, Fields
<1>3. /\ content.written \in Seq({content.written[i] : i \in DOMAIN content.written})
      /\ DOMAIN content.segs \subseteq Nat
      /\ \/ /\ content.algo = "stream" /\ ~content.broken
            /\ Fills(content, content.decodes)
            /\ content.written = <<"stream">>
         \/ /\ content.algo = "lzo" /\ content.total <= ext.len
            /\ \E at \in [1..Len(content.written) -> DOMAIN content.segs] :
                 LaidOut(content, at)
  BY <1>1, <1>2, IntactAssumption, Zenon
<1>4. /\ src.total = content.total /\ src.ram = content.ram /\ src.algo = content.algo
      /\ src.decodes = content.decodes /\ src.segs = content.segs /\ src.len = ext.len
      /\ src.written = content.written /\ src.inline = content.inline
      /\ src.broken = content.broken
  BY DEF SrcInv, Fields
<1> HIDE DEF content
<1>5. \A n : Fills(src, n) <=> Fills(content, n)
  BY <1>4 DEF Fills
<1>6. ASSUME NEW at, LaidOut(content, at)
      PROVE  LaidOut(src, at)
  <2> DEFINE n     == Len(content.written)
             seg   == [i \in 1..n |-> content.segs[at[i]]]
             end   == [i \in 1..n |-> at[i] + 4 + seg[i].len]
             seg_s == [i \in 1..Len(src.written) |-> src.segs[at[i]]]
             end_s == [i \in 1..Len(src.written) |-> at[i] + 4 + seg_s[i].len]
  <2>1. seg_s = seg
    BY <1>4
  <2>2. end_s = end
    BY SMTT(40), <1>4, <2>1
  <2>3. /\ n > 0
        /\ at[1] = Header(4)
        /\ \A i \in 1..n - 1 : at[i + 1] = Header(end[i]) /\ seg[i].plain = Sector
        /\ \A i \in 1..n : /\ seg[i].len > 0 /\ seg[i].name = content.written[i]
                           /\ seg[i].plain \in 0..Sector /\ end[i] <= content.total
        /\ content.total = end[n]
        /\ (n - 1) * Sector < content.ram
        /\ Fills(content, (n - 1) * Sector + seg[n].plain)
    BY <1>6 DEF LaidOut
  <2> HIDE DEF seg, end, seg_s, end_s
  <2>4. Fills(src, (n - 1) * Sector + seg[n].plain)
    BY <1>5, <2>3
  <2>5. LaidOut(src, at) <=>
          /\ Len(src.written) > 0
          /\ at[1] = Header(4)
          /\ \A i \in 1..Len(src.written) - 1 :
               at[i + 1] = Header(end_s[i]) /\ seg_s[i].plain = Sector
          /\ \A i \in 1..Len(src.written) :
               /\ seg_s[i].len > 0 /\ seg_s[i].name = src.written[i]
               /\ seg_s[i].plain \in 0..Sector /\ end_s[i] <= src.total
          /\ src.total = end_s[Len(src.written)]
          /\ (Len(src.written) - 1) * Sector < src.ram
          /\ Fills(src, (Len(src.written) - 1) * Sector + seg_s[Len(src.written)].plain)
    BY Zenon DEF LaidOut, seg_s, end_s
  <2> QED
    BY <1>4, <2>1, <2>2, <2>3, <2>4, <2>5
<1> QED
  BY <1>3, <1>4, <1>5, <1>6 DEF AsWritten, Layouts

\* Where the i-th segment ends.
EndOf(at, i) == at[i] + 4 + src.segs[at[i]].len

\* The layout, segment by segment.
LEMMA LayoutFacts ==
  ASSUME Given, SrcInv, AsWritten, NEW at \in Layouts, LaidOut(src, at)
  PROVE  LET n == Len(src.written)
         IN  /\ n \in Nat /\ n > 0 /\ Sector \in Nat \ {0}
             /\ \A i \in 1..n :
                  /\ at[i] \in Nat /\ at[i] \in DOMAIN src.segs
                  /\ src.segs[at[i]].len \in Nat /\ src.segs[at[i]].len > 0
                  /\ src.segs[at[i]].name = src.written[i]
                  /\ src.segs[at[i]].plain \in 0..Sector
                  /\ EndOf(at, i) <= src.total
             /\ at[1] = Header(4)
             /\ \A i \in 1..n - 1 : at[i + 1] = Header(EndOf(at, i)) /\ src.segs[at[i]].plain = Sector
             /\ src.total = EndOf(at, n)
             /\ (n - 1) * Sector < src.ram
             /\ Fills(src, (n - 1) * Sector + src.segs[at[n]].plain)
<1> DEFINE n == Len(src.written)
           seg == [i \in 1..n |-> src.segs[at[i]]]
           ends == [i \in 1..n |-> at[i] + 4 + seg[i].len]
<1>1. n \in Nat /\ Sector \in Nat \ {0}
  BY SMTT(40), DecompressAssumption DEF AsWritten
<1>2. /\ n > 0
      /\ at[1] = Header(4)
      /\ \A i \in 1..n - 1 : at[i + 1] = Header(ends[i]) /\ seg[i].plain = Sector
      /\ \A i \in 1..n : /\ seg[i].len > 0 /\ seg[i].name = src.written[i]
                         /\ seg[i].plain \in 0..Sector /\ ends[i] <= src.total
      /\ src.total = ends[n]
      /\ (n - 1) * Sector < src.ram /\ Fills(src, (n - 1) * Sector + seg[n].plain)
  BY DEF LaidOut
<1>3. \A i \in 1..n : seg[i] = src.segs[at[i]] /\ ends[i] = EndOf(at, i)
  BY DEF EndOf
<1>4. \A i \in 1..n : at[i] \in DOMAIN src.segs /\ at[i] \in Nat /\ src.segs[at[i]].len \in Nat
  BY SrcFacts DEF Layouts, AsWritten
<1>p. n > 0
  BY Zenon, <1>2
<1> HIDE DEF n, seg, ends
<1>5. n \in 1..n /\ \A i \in 1..n - 1 : i \in 1..n
  BY ONLY <1>1, <1>p
<1>6. \A i \in 1..n : /\ src.segs[at[i]].len > 0
                      /\ src.segs[at[i]].name = src.written[i]
                      /\ src.segs[at[i]].plain \in 0..Sector
                      /\ EndOf(at, i) <= src.total
  BY <1>2, <1>3
<1>7. \A i \in 1..n - 1 : at[i + 1] = Header(EndOf(at, i)) /\ src.segs[at[i]].plain = Sector
  BY <1>2, <1>3, <1>5
<1>8. src.total = EndOf(at, n) /\ Fills(src, (n - 1) * Sector + src.segs[at[n]].plain)
  BY <1>2, <1>3, <1>5
<1> QED
  BY <1>1, <1>2, <1>4, <1>6, <1>7, <1>8 DEF n

LEMMA Multiples ==
  ASSUME NEW a \in Nat, NEW b \in Nat, NEW s \in Nat
  PROVE  a * s \in Nat /\ b * s \in Nat /\ (a <= b => a * s <= b * s)
OBVIOUS

\* A frame that is laid out is taken as such, before and after each segment.
LEMMA LzoTakes ==
  ASSUME ReadInv, DecodeInv, IntactInv, dres = "lzo", src.intact, NEW at \in Layouts,
         LaidOut(src, at), NEW k \in 0..Len(src.written), After(at, k), DecodeNext
  PROVE  \/ dres' = "lzo" /\ \E m \in 0..Len(src.written) : After(at, m)'
         \/ dres' = "finish" /\ Fills(src, size') /\ plain' = src.written
<1> DEFINE n == Len(src.written)
<1>1. Given /\ SrcInv /\ AsWritten /\ pos \in Nat
  BY DEF ReadInv, DecodeInv, IntactInv
<1>2. /\ n \in Nat /\ n > 0 /\ Sector \in Nat \ {0}
      /\ \A i \in 1..n :
           /\ at[i] \in Nat /\ at[i] \in DOMAIN src.segs
           /\ src.segs[at[i]].len \in Nat /\ src.segs[at[i]].len > 0
           /\ src.segs[at[i]].name = src.written[i]
           /\ src.segs[at[i]].plain \in 0..Sector
           /\ EndOf(at, i) <= src.total
      /\ at[1] = Header(4)
      /\ \A i \in 1..n - 1 :
           at[i + 1] = Header(EndOf(at, i)) /\ src.segs[at[i]].plain = Sector
      /\ src.total = EndOf(at, n)
      /\ (n - 1) * Sector < src.ram
      /\ Fills(src, (n - 1) * Sector + src.segs[at[n]].plain)
  BY <1>1, LayoutFacts
<1>3. src' = src /\ n \in 1..n /\ 1 \in 1..n
  BY <1>2 DEF DecodeNext, Stream, LzoBegin, LzoSegment, LzoEnd, Finish
<1>4. /\ src.len \in Nat /\ src.total \in Nat /\ src.ram \in Nat /\ src.total <= src.len
      /\ src.total >= 4
  <2>1. src.len \in Nat /\ src.total \in Nat /\ src.ram \in Nat
    BY <1>1, SrcFacts
  <2>2. src.algo = "lzo"
    BY DEF IntactInv
  <2>3. src.total <= src.len
    BY <1>1, <2>2 DEF AsWritten
  <2>4. at[n] \in Nat /\ src.segs[at[n]].len \in Nat
    BY <1>2, <1>3
  <2>5. src.total = at[n] + 4 + src.segs[at[n]].len
    BY <1>2 DEF EndOf
  <2> HIDE DEF n
  <2> QED
    BY <2>1, <2>3, <2>4, <2>5
<1>5. k \in Nat /\ k <= n /\ src.written \in Seq({src.written[i] : i \in DOMAIN src.written})
  BY <1>1, <1>2 DEF AsWritten
<1>6. CASE pos = 0
  <2>1. k = 0
    BY SMTT(40), <1>2, <1>5, <1>6 DEF After, EndOf
  <2>2. LzoBegin
    BY <1>6 DEF DecodeNext, Stream, LzoSegment, LzoEnd, Finish
  <2>3. HasWord(0) /\ Fits
    BY <1>4 DEF HasWord, Fits
  <2>4. pos' = 4 /\ dres' = dres /\ plain' = plain /\ size' = size
    BY <2>2, <2>3 DEF LzoBegin
  <2>5. After(at, 0)'
    BY <1>2, <1>3, <2>1, <2>4 DEF After
  <2> QED
    BY <1>2, <2>4, <2>5
<1>7. CASE pos # 0 /\ k = n
  <2>1. pos = src.total
    BY <1>2, <1>7 DEF After, EndOf
  <2>2. LzoEnd
    BY <1>4, <1>7, <2>1 DEF DecodeNext, Stream, LzoBegin, LzoSegment, Finish
  <2>3. dres' = "finish" /\ size' = size /\ plain' = plain
    BY <2>2 DEF LzoEnd
  <2>4. plain = src.written
    <3>1. SubSeq(src.written, 1, n) = src.written
      BY <1>2, <1>5
    <3> QED
      BY <1>7, <3>1 DEF After
  <2>5. size = (n - 1) * Sector + src.segs[at[n]].plain
    BY <1>2, <1>7 DEF After
  <2> QED
    BY <1>2, <2>3, <2>4, <2>5
<1>8. CASE pos # 0 /\ k < n
  <2> DEFINE j == k + 1
             seg == src.segs[at[j]]
  <2>1. j \in 1..n /\ size = k * Sector /\ plain = SubSeq(src.written, 1, k)
    BY <1>2, <1>5, <1>8 DEF After
  <2>2. PaddedPos = at[j]
    <3>1. CASE k = 0
      <4>1. pos = 4
        BY <1>8, <3>1 DEF After
      <4> QED
        BY <1>2, <3>1, <4>1 DEF PaddedPos, LeftInSector, Header
    <3>2. CASE k > 0
      <4>1. pos = EndOf(at, k)
        BY <3>2 DEF After, EndOf
      <4>2. k \in 1..n - 1
        BY <1>2, <1>5, <1>8, <3>2
      <4>3. at[k + 1] = Header(EndOf(at, k))
        BY <1>2, <4>2
      <4>4. Header(pos) = PaddedPos
        BY <1>1, <1>2 DEF PaddedPos, LeftInSector, Header
      <4> QED
        BY <4>1, <4>3, <4>4
    <3> QED
      BY <1>5, <3>1, <3>2
  <2>3. /\ at[j] \in Nat /\ at[j] \in DOMAIN src.segs /\ seg.len \in Nat /\ seg.len > 0
        /\ seg.name = src.written[j] /\ seg.plain \in 0..Sector
        /\ at[j] + 4 + seg.len <= src.total
    BY <1>2, <2>1 DEF EndOf
  <2>4. pos >= 4 /\ pos <= at[j] /\ pos < src.total
    <3>1. pos >= 4
      <4>1. CASE k = 0
        BY <1>8, <4>1 DEF After
      <4>2. CASE k > 0
        <5>1. k \in 1..n
          BY <1>5, <4>2
        <5>2. at[k] \in Nat /\ src.segs[at[k]].len \in Nat
          BY <1>2, <5>1
        <5>3. pos = at[k] + 4 + src.segs[at[k]].len
          BY <4>2 DEF After
        <5> QED
          BY <5>2, <5>3
      <4> QED
        BY <1>5, <4>1, <4>2
    <3>2. pos <= PaddedPos
      BY <1>1, <1>2 DEF PaddedPos, LeftInSector
    <3> QED
      BY <1>1, <1>4, <2>2, <2>3, <3>1, <3>2
  <2>5. size < src.ram
    <3>1. k * Sector <= (n - 1) * Sector
      <4>1. k <= n - 1
        BY <1>2, <1>5, <1>8
      <4>2. n - 1 \in Nat /\ Sector \in Nat
        BY <1>2
      <4> HIDE DEF n
      <4> QED
        BY <1>5, <4>1, <4>2, Multiples
    <3>2. k * Sector \in Nat /\ (n - 1) * Sector \in Nat
      <4>1. n - 1 \in Nat /\ Sector \in Nat
        BY <1>2
      <4> HIDE DEF n
      <4> QED
        BY <1>5, <4>1, Multiples
    <3> QED
      BY <1>2, <1>4, <2>1, <3>1, <3>2
  <2>6. LzoSegment
    <3>1. ~LzoEnd
      BY <1>1, <1>4, <2>4, <2>5, SrcFacts DEF LzoEnd, DecodeInv
    <3> QED
      BY <1>8, <3>1 DEF DecodeNext, Stream, LzoBegin, Finish
  <2>7. LenAt(PaddedPos) = seg.len
    BY <2>2, <2>3 DEF LenAt
  <2>8. /\ ~(PaddedPos >= src.total) /\ HasWord(PaddedPos)
        /\ ~Overruns(PaddedPos + 4, seg.len) /\ ~(PaddedPos + 4 + seg.len > src.len)
        /\ IsSegment(PaddedPos + 4, seg.len) /\ ~(seg.plain > Sector)
    <3>1. IsSegment(PaddedPos + 4, seg.len)
      <4>1. (PaddedPos + 4) - 4 = at[j]
        BY <2>2, <2>3
      <4> HIDE DEF j
      <4> QED
        BY <2>3, <4>1 DEF IsSegment
    <3>2. ~(seg.plain > Sector)
      <4> HIDE DEF seg
      <4> QED
        BY <1>2, <2>3
    <3> HIDE DEF seg
    <3>3. HasWord(PaddedPos) /\ ~Overruns(PaddedPos + 4, seg.len)
      BY SMTT(40), <1>4, <2>2, <2>3 DEF HasWord, Overruns
    <3> QED
      BY SMTT(40), <1>4, <2>2, <2>3, <3>1, <3>2, <3>3
  <2>9. /\ pos' = at[j] + 4 + seg.len /\ plain' = Append(plain, seg.name)
        /\ size' = size + seg.plain /\ dres' = dres
    <3> HIDE DEF seg
    <3>1. seg = src.segs[PaddedPos]
      BY <2>2 DEF seg
    <3> QED
      BY <2>2, <2>6, <2>7, <2>8, <3>1 DEF LzoSegment
  <2>10. plain' = SubSeq(src.written, 1, j)
    <3> HIDE DEF seg
    <3>1. Append(SubSeq(src.written, 1, k), src.written[j]) = SubSeq(src.written, 1, j)
      BY <1>2, <1>5, <2>1
    <3> QED
      BY <2>1, <2>3, <2>9, <3>1
  <2>11. size' = IF j < n THEN j * Sector ELSE (j - 1) * Sector + seg.plain
    <3>1. CASE j < n
      <4>1. k = 0 \/ j \in 1..n - 1
        BY <1>2, <1>5, <3>1
      <4>2. j \in 1..n - 1
        BY <1>2, <1>5, <3>1
      <4>3. seg.plain = Sector
        BY <1>2, <4>2
      <4>4. k * Sector + Sector = (k + 1) * Sector
        BY <1>2, <1>5
      <4> QED
        BY <2>1, <2>9, <3>1, <4>3, <4>4
    <3>2. CASE j = n
      <4>1. j - 1 = k
        BY <1>5
      <4> QED
        BY <1>2, <2>1, <2>9, <3>2, <4>1
    <3> QED
      BY <1>2, <2>1, <3>1, <3>2
  <2>12. After(at, j)'
    <3>1. j > 0
      BY <1>5
    <3> QED
      BY <1>3, <2>9, <2>10, <2>11, <3>1 DEF After
  <2> QED
    BY <2>1, <2>9, <2>12
<1> QED
  BY <1>2, <1>5, <1>6, <1>7, <1>8

LEMMA FillsFacts ==
  ASSUME Given, SrcInv, size \in Nat, Fills(src, size)
  PROVE  ~(size > Most) /\ ~TooShort
<1>1. src.ram \in Nat /\ Sector \in Nat \ {0}
  BY SrcFacts, DecompressAssumption
<1>2. Most \in Nat
  BY MostFacts
<1>3. size <= Most /\ src.ram - size < Sector
  BY DEF Fills, Most
<1> QED
  BY <1>1, <1>2, <1>3 DEF TooShort, Kept

LEMMA IntactStepKeeps ==
  ReadInv /\ DecodeInv /\ DecodeInv' /\ IntactInv /\ [Next]_vars => IntactInv'
<1> SUFFICES ASSUME ReadInv, DecodeInv, DecodeInv', IntactInv, [Next]_vars,
                    dres' # "idle", src'.intact
             PROVE  AsWritten' /\ IntactInv'
  BY DEF IntactInv
<1>1. CASE DecodeRead
  <2>1. dres = "idle" /\ UNCHANGED <<readVars, ext, pos, plain, size>>
    BY <1>1 DEF DecodeRead, Decode
  <2>2. Given' /\ SrcInv'
    BY <2>1 DEF ReadInv, DecodeInv, Given, readVars
  <2>3. AsWritten'
    <3>1. (Given /\ SrcInv /\ src.intact => AsWritten)'
      BY AsWrittenFacts, PTL
    <3> QED
      BY <2>2, <3>1
  <2>4. ext.content.ram = src'.ram /\ ext.content.algo = src'.algo
    BY <2>2, <2>1 DEF SrcInv, Fields
  <2>5. ~(ext.content.ram > MAX_RAM_BYTES)
    BY <2>1, <2>2 DEF SrcInv, Implausible
  <2>6. /\ src'.algo = "stream" => dres' = "stream"
        /\ src'.algo = "lzo" => dres' = "lzo"
    <3>1. dres' = IF ext.content.algo = "lzo" THEN "lzo"
                  ELSE IF ext.content.algo = "stream" THEN "stream" ELSE "error"
      <4> DEFINE e == [ext.content EXCEPT !.len = Len(data)]
      <4>1. /\ dres' = IF e.ram > MAX_RAM_BYTES THEN "error"
                       ELSE IF e.algo = "lzo" THEN "lzo"
                       ELSE IF e.algo = "stream" THEN "stream" ELSE "error"
            /\ src' = e
        BY <1>1 DEF DecodeRead, Decode
      <4> HIDE DEF e
      <4> QED
        BY <2>4, <2>5, <4>1
    <3> QED
      BY <2>4, <3>1
  <2>7. pos' = 0 /\ plain' = <<>> /\ size' = 0
    BY <2>1 DEF DecodeInv
  <2>8. CASE src'.algo = "stream"
    BY <2>3, <2>6, <2>8 DEF IntactInv
  <2>9. CASE src'.algo = "lzo"
    <3>1. PICK at \in Layouts' : LaidOut(src', at)
      BY SMTT(40), <2>3, <2>9 DEF AsWritten
    <3>2. Len(src'.written) \in Nat /\ Len(src'.written) > 0
      <4>1. Len(src'.written) \in Nat
        BY <2>3 DEF AsWritten
      <4> QED
        BY <3>1, <4>1 DEF LaidOut
    <3>3. SubSeq(src'.written, 1, 0) = <<>>
      BY <2>3 DEF AsWritten
    <3>4. After(at, 0)'
      BY <2>6, <2>7, <2>9, <3>2, <3>3, DecompressAssumption DEF After
    <3> QED
      BY <2>3, <2>6, <2>9, <3>1, <3>2, <3>4 DEF IntactInv
  <2> QED
    BY <2>3, <2>8, <2>9 DEF AsWritten
<1>2. CASE DecodeNext /\ UNCHANGED <<readVars, ext>>
  <2>1. dres # "idle" /\ src' = src
    BY <1>2 DEF DecodeNext, Stream, LzoBegin, LzoSegment, LzoEnd, Finish
  <2>2. AsWritten /\ AsWritten' /\ Layouts' = Layouts /\ Given /\ SrcInv
    BY <2>1 DEF IntactInv, AsWritten, Layouts, ReadInv, DecodeInv
  <2>3. CASE dres = "stream" /\ src.algo = "stream"
    <3>1. Stream
      BY <1>2, <2>3 DEF DecodeNext, LzoBegin, LzoSegment, LzoEnd, Finish
    <3>2. ~src.broken /\ Fills(src, src.decodes) /\ src.written = <<"stream">>
      BY <2>2, <2>3 DEF AsWritten
    <3>3. dres' = "finish" /\ size' = Taken /\ plain' = src.written
      BY <3>1, <3>2 DEF Stream
    <3>4. Taken = src.decodes
      <4>1. src.decodes \in Nat /\ Most \in Nat
        BY <2>2, SrcFacts, MostFacts
      <4>2. src.decodes <= Most
        BY <3>2 DEF Fills, Most
      <4> QED
        BY <4>1, <4>2 DEF Taken
    <3> QED
      BY <2>1, <2>2, <3>2, <3>3, <3>4 DEF IntactInv
  <2>4. CASE /\ dres = "lzo" /\ src.algo = "lzo"
             /\ \E at \in Layouts : /\ LaidOut(src, at)
                                    /\ \E k \in 0..Len(src.written) : After(at, k)
    <3>1. PICK at \in Layouts : /\ LaidOut(src, at)
                                /\ \E k \in 0..Len(src.written) : After(at, k)
      BY <2>4
    <3>2. \/ dres' = "lzo" /\ \E m \in 0..Len(src.written) : After(at, m)'
          \/ dres' = "finish" /\ Fills(src, size') /\ plain' = src.written
      BY <1>2, <2>1, <2>4, <3>1, LzoTakes
    <3> QED
      BY <2>1, <2>2, <2>4, <3>1, <3>2 DEF IntactInv
  <2>5. CASE dres = "finish" /\ Fills(src, size) /\ plain = src.written
    <3>1. Finish
      BY <1>2, <2>5 DEF DecodeNext, Stream, LzoBegin, LzoSegment, LzoEnd
    <3>2. ~(size > Most \/ TooShort)
      BY <2>2, <2>5, FillsFacts DEF DecodeInv
    <3>3. dres' = "ok" /\ plain' = src.written
      BY <2>5, <3>1, <3>2 DEF Finish
    <3> QED
      BY <2>1, <2>2, <3>3 DEF IntactInv
  <2>6. CASE dres = "ok"
    BY <1>2, <2>6 DEF DecodeNext, Stream, LzoBegin, LzoSegment, LzoEnd, Finish
  <2> QED
    BY <2>1, <2>3, <2>4, <2>5, <2>6 DEF IntactInv
<1>3. CASE UNCHANGED decodeVars
  BY <1>3 DEF decodeVars, IntactInv, AsWritten, Layouts, After
<1> QED
  BY <1>1, <1>2, <1>3 DEF Next, Want, vars

-----------------------------------------------------------------------------
(* The theorems *)

Inv == ReadInv /\ TriedInv /\ DecodeInv /\ IntactInv

LEMMA InitInv == Init => Inv
BY DEF Init, ReadInit, DecodeInit, Inv, ReadInv, TriedInv, DecodeInv, IntactInv, Given,
       Reading

LEMMA Inductive == Spec => []Inv
<1>1. Inv /\ [Next]_vars => Inv'
  BY ReadStepKeeps, TriedStepKeeps, DecodeStepKeeps, IntactStepKeeps DEF Inv
<1> QED
  BY <1>1, InitInv, PTL DEF Spec

(* A read that succeeds returns the bytes at the address, all of them and  *)
(* from one copy (Fs::read_logical, Device::read), wherever no addition    *)
(* overflows a word.                                                       *)
THEOREM BytesReturned == Spec => []ReturnsTheBytes
<1>1. Inv => ReturnsTheBytes
  BY ReadInvImplies DEF Inv
<1> QED
  BY <1>1, Inductive, PTL

(* A read fails only once every copy has been tried, and none of them lies *)
(* whole on a device that does not fail (Fs::read_logical).                *)
THEOREM LostBeforeError == Spec => []FailsOnlyWhenLost
<1>1. Inv => FailsOnlyWhenLost
  BY TriedInvImplies DEF Inv
<1> QED
  BY <1>1, Inductive, PTL

(* An extent that is laid out as the kernel writes it, with any number of  *)
(* segments in sectors of any size, decodes, to every one of its segments; *)
(* no extent, corrupt or not, is filled with a sector of zeros; and of no  *)
(* frame are segments left out before those decoded hold all the bytes     *)
(* that are declared (decompress.rs, lzo, finish).                         *)
THEOREM IntactDecodes == Spec => []DecodesWhole
<1>1. Inv => DecodesWhole
  BY IntactInvImplies DEF Inv
<1> QED
  BY <1>1, Inductive, PTL

(* No lzo frame, whatever its header and its segments say, makes a slice   *)
(* leave what was read (decompress.rs, lzo).                               *)
THEOREM PanicFree == Spec => []NeverPanics
<1>1. Inv => NeverPanics
  BY DEF Inv, DecodeInv, NeverPanics
<1> QED
  BY <1>1, Inductive, PTL
=============================================================================
