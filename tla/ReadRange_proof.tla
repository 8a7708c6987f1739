---------------------------- MODULE ReadRange_proof ----------------------------
(***************************************************************************)
(* read_range delivers the file: for every layout of extents, every range, *)
(* every chunk size and every state of the cache.                          *)
(***************************************************************************)
EXTENDS ReadRange, SequenceTheorems, TLAPS

AllBytes == {Zero} \cup {ByteAt(e, k) : e \in Item, k \in Int}

\* The variables' types, with what the sink received.
TypeInv ==
    /\ file.size \in 0..U64 /\ file.exts \in Seq(Item)
    /\ start \in 0..U64
    /\ end \in 0..U64
    /\ i \in Nat \ {0}
    /\ pos \in 0..U64
    /\ at \in 0..U64
    /\ to \in 0..U64
    /\ out \in Seq(AllBytes)
    /\ last \in Decoded \cup {None}
    /\ pc \in {"next", "chunk", "done", "failed"}

\* What has been delivered is exactly what precedes pos, or at inside emit.
ProgressInv ==
    /\ start <= pos /\ (pos <= start \/ pos <= end)
    /\ pc = "next" => Len(out) = pos - start
    /\ pc = "chunk" =>
         /\ i <= Len(file.exts)
         /\ ext.kind # "hole"
         /\ Len(out) = at - start
         /\ pos <= at /\ ext.off <= at /\ at < to
         /\ to <= end /\ to <= DataEnd(ext)
         /\ to = end \/ to = DataEnd(ext)

\* No extent the loop has passed reaches into what is still wanted.
PassedInv ==
    \A j \in 1..Len(file.exts) :
        j < i => \A p \in pos..(end - 1) : ~Covers(file.exts[j], p)

Inv ==
    /\ TypeInv
    /\ ProgressInv
    /\ WellFormed(file) => PassedInv
    /\ OutputCorrect
    /\ CompleteWhenDone

-----------------------------------------------------------------------------
(* Extents *)

\* What Extent::parse yields: a range in u64, and a known kind.
LEMMA ItemFacts ==
  ASSUME NEW e \in Item
  PROVE  /\ e.off \in 0..U64 /\ e.len \in 0..U64
         /\ e.kind \in {"hole", "plain", "comp", "inline"}
         /\ e.kind = "plain" => e.addr \in Nat
         /\ e.kind = "comp" => e.bytenr \in DOMAIN PlainLen /\ e.ram \in 0..U64 /\ e.offset \in 0..U64
         /\ e.kind = "inline" => e.ram \in 0..U64 /\ e.n \in 0..U64
BY DEF Item

\* Where an extent's data ends is again a u64, wrapped or saturated.
LEMMA DataEndType ==
  ASSUME NEW e \in Item
  PROVE  /\ DataEnd(e) \in 0..U64
         /\ e.kind = "inline" => DataEnd(e) <= e.off + e.n
BY ItemFacts, U64Assumption DEF DataEnd, Wrapping, Saturating, Lesser

\* A byte is that of the first extent that covers it, ...
LEMMA FileByteOfFirst ==
  ASSUME NEW j \in 1..Len(file.exts), NEW p \in Int, First(j, p), file.exts \in Seq(Item)
  PROVE  FileByte(p) = ByteAt(file.exts[j], p - file.exts[j].off)
<1>1. ASSUME NEW k \in 1..Len(file.exts), First(k, p) PROVE k = j
  <2>1. j \in Int /\ k \in Int
    BY LenProperties
  <2>2. ~(k < j)
    BY <1>1, <2>1 DEF First
  <2>3. ~(j < k)
    BY <1>1, <2>1 DEF First
  <2> QED
    BY <2>1, <2>2, <2>3
<1>2. (CHOOSE k \in 1..Len(file.exts) : First(k, p)) = j
  BY <1>1
<1> QED
  BY <1>2 DEF FileByte

\* ... and zero where none does.
LEMMA FileByteOfHole ==
  ASSUME NEW p \in Int, \A j \in 1..Len(file.exts) : ~Covers(file.exts[j], p)
  PROVE  FileByte(p) = Zero
BY DEF FileByte, First

-----------------------------------------------------------------------------
(* What is appended to the sink *)

\* A run of zeros has its length, and nothing but zeros.
LEMMA ZerosFacts ==
  ASSUME NEW n \in Nat
  PROVE  /\ Zeros(n) \in Seq(AllBytes) /\ Len(Zeros(n)) = n
         /\ \A k \in 1..n : Zeros(n)[k] = Zero
BY DEF Zeros, AllBytes

\* What a callback returns has the length asked for, and the extent's bytes.
LEMMA BytesFacts ==
  ASSUME NEW e \in Item, NEW from \in Int, NEW n \in Nat
  PROVE  /\ Bytes(e, from, n) \in Seq(AllBytes) /\ Len(Bytes(e, from, n)) = n
         /\ \A k \in 1..n : Bytes(e, from, n)[k] = ByteAt(e, from - e.off + k - 1)
<1>1. \A k \in 1..n : ByteAt(e, from - e.off + k - 1) \in AllBytes
  BY ItemFacts DEF AllBytes
<1> QED
  BY <1>1 DEF Bytes

\* The sink's length after one more append.
LEMMA AppendedLen ==
  ASSUME TypeInv, NEW more \in Seq(AllBytes), NEW n \in Nat, Len(more) = n, out' = out \o more
  PROVE  /\ Len(out') = Len(out) + n
         /\ out' \in Seq(AllBytes)
BY ConcatProperties DEF TypeInv

\* Appending the right bytes to the right bytes.
LEMMA Extends ==
  ASSUME TypeInv, OutputCorrect, WellFormed(file),
         NEW more \in Seq(AllBytes), out' = out \o more, UNCHANGED want,
         \A k \in 1..Len(more) : more[k] = FileByte(start + Len(out) + k - 1)
  PROVE  \A k \in 1..Len(out') : out'[k] = FileByte(start + k - 1)
<1> TAKE k \in 1..Len(out')
<1>1. Len(out') = Len(out) + Len(more) /\ Len(out) \in Nat /\ Len(more) \in Nat
  BY DEF TypeInv
<1>2. CASE k <= Len(out)
  BY <1>1, <1>2 DEF TypeInv, OutputCorrect
<1>3. CASE k > Len(out)
  <2>1. out'[k] = more[k - Len(out)]
    BY <1>1, <1>3 DEF TypeInv
  <2>2. k - Len(out) \in 1..Len(more)
    BY <1>1, <1>3
  <2>3. start + Len(out) + (k - Len(out)) - 1 = start + k - 1
    BY <1>1 DEF TypeInv
  <2> QED
    BY <2>1, <2>2, <2>3
<1> QED
  BY <1>1, <1>2, <1>3

-----------------------------------------------------------------------------
\* A read that has not begun satisfies the invariant.
LEMMA InvInit == Init => Inv
<1> SUFFICES ASSUME Init PROVE Inv
  OBVIOUS
<1>1. file.size \in 0..U64 /\ file.exts \in Seq(Item)
  BY LayoutsAssumption DEF Init
<1>2. start \in 0..U64 /\ end \in 0..U64
  BY <1>1, RangesAssumption, U64Assumption DEF Init, Lesser
<1>3. out = <<>> /\ i = 1 /\ pc = "next" /\ pos = start /\ at = start /\ to = start
  BY DEF Init
<1>4. TypeInv
  BY <1>1, <1>2, <1>3 DEF Init, TypeInv
<1>5. PassedInv
  BY <1>3 DEF PassedInv
<1>6. ProgressInv /\ OutputCorrect /\ CompleteWhenDone
  BY <1>2, <1>3 DEF ProgressInv, OutputCorrect, CompleteWhenDone
<1> QED
  BY <1>4, <1>5, <1>6 DEF Inv

\* Every extent from the loop's on starts where that one does, or later.
LEMMA Sorted ==
  ASSUME TypeInv, WellFormed(file), NEW j \in 1..Len(file.exts), i <= j
  PROVE  ext.off <= file.exts[j].off
<1>1. i \in 1..Len(file.exts)
  BY DEF TypeInv
<1>2. ext \in Item /\ file.exts[j] \in Item
  BY <1>1 DEF TypeInv, ext
<1>3. CASE i = j
  BY <1>2, <1>3, ItemFacts DEF ext
<1>4. CASE i # j
  <2>1. i < j
    BY <1>1, <1>4 DEF TypeInv
  <2>2. ext.off < file.exts[j].off
    BY <1>1, <2>1 DEF WellFormed, ext
  <2> QED
    BY <1>2, <2>2, ItemFacts
<1> QED
  BY <1>3, <1>4

\* Before the loop's extent, from pos on, there is a hole.
LEMMA GapIsHole ==
  ASSUME TypeInv, WellFormed(file), PassedInv, NEW p \in pos..(end - 1),
         i <= Len(file.exts) => p < ext.off
  PROVE  FileByte(p) = Zero
<1>1. p \in Int
  BY DEF TypeInv
<1>2. ASSUME NEW j \in 1..Len(file.exts) PROVE ~Covers(file.exts[j], p)
  <2>1. CASE j < i
    BY <2>1 DEF PassedInv
  <2>2. CASE i <= j
    <3>1. i <= Len(file.exts)
      BY <2>2 DEF TypeInv
    <3>2. p < ext.off /\ ext.off <= file.exts[j].off
      BY <2>2, <3>1, Sorted
    <3>3. i \in 1..Len(file.exts) /\ ext \in Item /\ file.exts[j] \in Item
      BY <3>1 DEF TypeInv, ext
    <3>4. p < file.exts[j].off
      BY <1>1, <3>2, <3>3, ItemFacts
    <3> QED
      BY <1>1, <3>3, <3>4, ItemFacts DEF Covers
  <2> QED
    BY <2>1, <2>2 DEF TypeInv
<1> QED
  BY <1>1, <1>2, FileByteOfHole

\* Inside the loop's extent, from pos on, the file is that extent.
LEMMA ExtentIsFile ==
  ASSUME TypeInv, WellFormed(file), PassedInv, NEW p \in pos..(end - 1),
         i <= Len(file.exts), ext.off <= p, p < DataEnd(ext)
  PROVE  FileByte(p) = ByteAt(ext, p - ext.off)
<1>1. p \in Int /\ i \in 1..Len(file.exts)
  BY DEF TypeInv
<1>2. First(i, p)
  <2>1. \A k \in 1..(i - 1) : ~Covers(file.exts[k], p)
    BY SMTT(40), <1>1 DEF PassedInv, TypeInv
  <2> QED
    BY <1>1, <2>1 DEF First, Covers, ext
<1> QED
  BY <1>1, <1>2, FileByteOfFirst DEF TypeInv, ext

\* The loop goes on to the next extent when this one has nothing left to give.
LEMMA PassExtent ==
  ASSUME TypeInv, PassedInv, UNCHANGED want, i' = i + 1, pos' \in Nat, pos <= pos',
         \A p \in pos'..(end - 1) : i <= Len(file.exts) => ~Covers(ext, p)
  PROVE  PassedInv'
<1> SUFFICES ASSUME NEW j \in 1..Len(file.exts), j < i + 1, NEW p \in pos'..(end - 1)
             PROVE  ~Covers(file.exts[j], p)
  BY DEF PassedInv, want, Covers, DataEnd
<1>1. CASE j < i
  <2>1. p \in pos..(end - 1)
    BY DEF TypeInv
  <2> QED
    BY <1>1, <2>1 DEF PassedInv
<1>2. CASE j = i
  BY <1>2 DEF ext
<1> QED
  BY <1>1, <1>2 DEF TypeInv

-----------------------------------------------------------------------------
\* The file does not change under the read, nor does what it should deliver.
LEMMA SameFile ==
  ASSUME UNCHANGED want
  PROVE  /\ WellFormed(file)' <=> WellFormed(file)
         /\ \A p : FileByte(p)' = FileByte(p)
BY DEF want, WellFormed, FileByte, First, Covers, DataEnd

\* emit's clipping, when something of the extent is wanted.
LEMMA NotClipped ==
  ASSUME TypeInv, AtExtent, ~Clipped
  PROVE  /\ i \in 1..Len(file.exts) /\ ext \in Item
         /\ pos < end /\ ext.off < end
         /\ Greater(ext.off, pos) \in 0..U64 /\ Lesser(DataEnd(ext), end) \in 0..U64
         /\ Greater(ext.off, pos) < Lesser(DataEnd(ext), end)
         /\ ext.off \in 0..U64 /\ DataEnd(ext) \in 0..U64
<1>1. i \in 1..Len(file.exts) /\ pos < end /\ ~(ext.off >= end)
  BY DEF AtExtent, Finished, TypeInv
<1>2. ext \in Item
  BY <1>1 DEF TypeInv, ext
<1>3. ext.off \in 0..U64 /\ DataEnd(ext) \in 0..U64
  BY <1>2, ItemFacts, DataEndType
<1>4. ext.off < end
  BY <1>1, <1>3 DEF TypeInv
<1> QED
  BY <1>1, <1>2, <1>3, <1>4 DEF Clipped, Greater, Lesser, TypeInv

\* emit's clipping, when nothing of the extent is wanted.
LEMMA ClippedCoversNothing ==
  ASSUME TypeInv, AtExtent, Clipped, NEW p \in pos..(end - 1)
  PROVE  ~Covers(ext, p)
<1>1. i \in 1..Len(file.exts) /\ pos < end /\ ~(ext.off >= end)
  BY DEF AtExtent, Finished, TypeInv
<1>2. ext \in Item
  BY <1>1 DEF TypeInv, ext
<1>3. ext.off \in 0..U64 /\ DataEnd(ext) \in 0..U64
  BY <1>2, ItemFacts, DataEndType
<1>4. ext.off < end
  BY <1>1, <1>3 DEF TypeInv
<1> QED
  BY <1>1, <1>3, <1>4 DEF Clipped, Greater, Lesser, TypeInv, Covers

\* The final emit delivers the trailing hole, and completes the range.
LEMMA FinishStep ==
  ASSUME Inv, Finish
  PROVE  Inv'
<1> DEFINE n == Greater(end - pos, 0)
<1>1. n \in Nat /\ TypeInv /\ ProgressInv /\ pc = "next" /\ Len(out) = pos - start
      /\ Len(out) \in Nat
  BY DEF Inv, Finish, ProgressInv, TypeInv, Greater
<1>2. UNCHANGED <<want, i, at, to, last>> /\ pc' = "done" /\ out' = out \o Zeros(n)
      /\ pos' = Greater(pos, end)
  BY DEF Finish
<1>3. Zeros(n) \in Seq(AllBytes) /\ Len(Zeros(n)) = n /\ \A k \in 1..n : Zeros(n)[k] = Zero
  BY <1>1, ZerosFacts
<1>4. TypeInv'
  BY <1>1, <1>2, <1>3, ConcatProperties DEF TypeInv, Greater, want
<1>5. ProgressInv'
  BY <1>1, <1>2 DEF ProgressInv, TypeInv, Greater, want
<1>6. CompleteWhenDone'
  <2>1. Len(out') = Len(out) + n
    BY <1>1, <1>2, <1>3, AppendedLen
  <2>2. CASE start <= end
    BY <1>1, <1>2, <2>1, <2>2 DEF CompleteWhenDone, TypeInv, Greater, want, ProgressInv
  <2>3. CASE start > end
    BY <1>1, <1>2, <2>1, <2>3 DEF CompleteWhenDone, TypeInv, Greater, want, ProgressInv
  <2> QED
    BY <1>1, <2>2, <2>3 DEF TypeInv
<1>7. ASSUME WellFormed(file) PROVE PassedInv' /\ OutputCorrect'
  <2>1. PassedInv'
    BY <1>1, <1>2, <1>7 DEF Inv, PassedInv, TypeInv, Greater, want, Covers, DataEnd
  <2>2. ASSUME NEW k \in 1..n PROVE FileByte(start + Len(out) + k - 1) = Zero
    <3>1. pos < end /\ start + Len(out) + k - 1 = pos + k - 1 /\ pos + k - 1 \in pos..(end - 1)
      BY <1>1, <2>2 DEF TypeInv, Greater
    <3>2. i <= Len(file.exts) => pos + k - 1 < ext.off
      <4> SUFFICES ASSUME i <= Len(file.exts) PROVE pos + k - 1 < ext.off
        OBVIOUS
      <4>1. i \in 1..Len(file.exts) /\ ext.off >= end
        BY <1>1, <3>1 DEF Finish, Finished, TypeInv
      <4>2. ext \in Item
        BY <1>1, <4>1 DEF TypeInv, ext
      <4> QED
        BY <1>1, <3>1, <4>1, <4>2, ItemFacts DEF TypeInv
    <3> QED
      BY <1>1, <1>7, <3>1, <3>2, GapIsHole DEF Inv
  <2>3. \A k \in 1..Len(out') : out'[k] = FileByte(start + k - 1)
    BY <1>1, <1>2, <1>3, <1>7, <2>2, Extends DEF Inv
  <2> QED
    BY <1>2, <2>1, <2>3, SameFile DEF OutputCorrect, want
<1> QED
  BY <1>2, <1>4, <1>5, <1>6, <1>7, SameFile DEF Inv, OutputCorrect

\* Passing over an extent that ends before pos loses nothing.
LEMMA SkipStep ==
  ASSUME Inv, SkipPassed
  PROVE  Inv'
<1>1. TypeInv /\ ProgressInv /\ i \in 1..Len(file.exts) /\ pc = "next" /\ pos < end
  BY DEF Inv, SkipPassed, AtExtent, Finished, TypeInv
<1>2. UNCHANGED <<want, pos, at, to, out, last, pc>> /\ i' = i + 1
  BY DEF SkipPassed
<1>3. TypeInv' /\ ProgressInv' /\ CompleteWhenDone'
  BY <1>1, <1>2 DEF TypeInv, ProgressInv, CompleteWhenDone, want
<1>4. ASSUME WellFormed(file) PROVE PassedInv'
  <2>1. ext \in Item
    BY <1>1 DEF TypeInv, ext
  <2>2. DataEnd(ext) <= pos
    <3>1. ext.kind = "inline" => ext.n <= ext.ram /\ ext.len = ext.ram /\ ext.off + ext.ram <= U64
      BY <1>1, <1>4 DEF WellFormed, ext
    <3>2. Saturating(ext.off + ext.len) <= pos
      BY DEF SkipPassed, Passed
    <3>3. CASE ext.kind = "inline"
      <4>1. ext.off \in Nat /\ ext.n \in Nat /\ ext.ram \in Nat /\ U64 \in Nat
        BY <2>1, <3>3, ItemFacts, U64Assumption
      <4>2. ext.n <= ext.ram /\ ext.len = ext.ram /\ ext.off + ext.ram <= U64
        BY <3>1, <3>3
      <4>3. DataEnd(ext) = ext.off + ext.n /\ Saturating(ext.off + ext.len) = ext.off + ext.len
        BY <3>3, <4>1, <4>2 DEF DataEnd, Wrapping, Saturating, Lesser
      <4> QED
        BY <1>1, <3>2, <4>1, <4>2, <4>3 DEF TypeInv
    <3>4. CASE ext.kind # "inline"
      BY <3>2, <3>4 DEF DataEnd
    <3> QED
      BY <3>3, <3>4
  <2>3. \A p \in pos..(end - 1) : ~Covers(ext, p)
    BY <1>1, <2>1, <2>2, DataEndType DEF Covers, TypeInv
  <2> QED
    BY <1>1, <1>2, <1>4, <2>3, PassExtent DEF Inv, TypeInv
<1>5. OutputCorrect'
  BY <1>2, SameFile DEF Inv, OutputCorrect, want
<1> QED
  BY <1>2, <1>3, <1>4, <1>5, SameFile DEF Inv

\* A hole's bytes are zeros, and the loop moves past it.
LEMMA HoleStep ==
  ASSUME Inv, EmitHole
  PROVE  Inv'
<1>1. TypeInv /\ ProgressInv /\ i \in 1..Len(file.exts) /\ pc = "next" /\ pos < end
      /\ Len(out) = pos - start /\ Len(out) \in Nat
  BY DEF Inv, EmitHole, AtExtent, Finished, TypeInv, ProgressInv
<1>2. UNCHANGED <<want, at, to, last, pc>> /\ i' = i + 1
  BY DEF EmitHole
<1>3. CASE Clipped
  <2>1. UNCHANGED <<pos, out>>
    BY <1>3 DEF EmitHole
  <2>2. TypeInv' /\ ProgressInv' /\ CompleteWhenDone'
    BY <1>1, <1>2, <2>1 DEF TypeInv, ProgressInv, CompleteWhenDone, want
  <2>3. ASSUME WellFormed(file) PROVE PassedInv'
    BY <1>1, <1>2, <1>3, <2>1, <2>3, ClippedCoversNothing, PassExtent DEF Inv, TypeInv, EmitHole
  <2>4. OutputCorrect'
    BY <1>2, <2>1, SameFile DEF Inv, OutputCorrect, want
  <2> QED
    BY <1>2, <2>2, <2>3, <2>4, SameFile DEF Inv
<1>4. CASE ~Clipped
  <2> DEFINE upto == Lesser(DataEnd(ext), end)
             n == upto - pos
  <2>1. out' = out \o Zeros(n) /\ pos' = upto
    BY <1>4 DEF EmitHole
  <2>2. /\ ext \in Item /\ ext.off < upto /\ pos < upto /\ upto \in 0..U64 /\ upto <= end
        /\ ext.off \in 0..U64 /\ DataEnd(ext) \in 0..U64 /\ upto <= DataEnd(ext)
        /\ upto = end \/ upto = DataEnd(ext)
    BY SMTT(40), <1>1, <1>4, NotClipped DEF EmitHole, Greater, Lesser, TypeInv
  <2>3. n \in Nat
    BY <1>1, <2>2 DEF TypeInv
  <2>4. Zeros(n) \in Seq(AllBytes) /\ Len(Zeros(n)) = n /\ \A k \in 1..n : Zeros(n)[k] = Zero
    BY <2>3, ZerosFacts
  <2>5. TypeInv'
    BY <1>1, <1>2, <2>1, <2>2, <2>4, ConcatProperties DEF TypeInv, want
  <2>6. ProgressInv' /\ CompleteWhenDone'
    <3>1. Len(out') = Len(out) + n
      BY SMTT(40), <1>1, <2>1, <2>3, <2>4 DEF TypeInv
    <3> QED
      BY SMTT(40), <1>1, <1>2, <2>1, <2>2, <3>1 DEF TypeInv, ProgressInv, CompleteWhenDone, want
  <2>7. ASSUME WellFormed(file) PROVE PassedInv' /\ OutputCorrect'
    <3>1. PassedInv'
      <4>1. \A p \in pos'..(end - 1) : ~Covers(ext, p)
        BY <1>1, <2>1, <2>2 DEF Covers, TypeInv
      <4> QED
        BY <1>1, <1>2, <2>1, <2>2, <2>7, <4>1, PassExtent DEF Inv, TypeInv
    <3>2. ASSUME NEW k \in 1..n PROVE FileByte(start + Len(out) + k - 1) = Zero
      <4> DEFINE p == pos + k - 1
      <4>1. start + Len(out) + k - 1 = p /\ p \in pos..(end - 1) /\ p < upto /\ p \in Int
        BY <1>1, <2>2, <2>3 DEF TypeInv
      <4>2. CASE p < ext.off
        BY <1>1, <2>7, <4>1, <4>2, GapIsHole DEF Inv
      <4>3. CASE ext.off <= p
        <5>1. FileByte(p) = ByteAt(ext, p - ext.off)
          BY SMTT(40), <1>1, <2>2, <2>7, <4>1, <4>3, ExtentIsFile DEF Inv, TypeInv
        <5> QED
          BY <4>1, <5>1 DEF EmitHole, ByteAt
      <4> QED
        BY <2>2, <4>1, <4>2, <4>3
    <3>3. \A k \in 1..Len(out') : out'[k] = FileByte(start + k - 1)
      BY <1>1, <1>2, <2>1, <2>4, <2>7, <3>2, Extends DEF Inv
    <3> QED
      BY <1>2, <3>1, <3>3, SameFile DEF OutputCorrect, want
  <2> QED
    BY <1>2, <2>5, <2>6, <2>7, SameFile DEF Inv, OutputCorrect
<1> QED
  BY <1>3, <1>4

\* Opening an extent to read from it: nothing of it is wanted, or the gap before
\* it is filled.
LEMMA OpenStep ==
  ASSUME Inv, AtExtent, ext.kind # "hole", EmitData, last' \in Decoded \cup {None}
  PROVE  Inv'
<1>1. TypeInv /\ ProgressInv /\ i \in 1..Len(file.exts) /\ pc = "next" /\ pos < end
      /\ Len(out) = pos - start /\ Len(out) \in Nat
  BY DEF Inv, AtExtent, Finished, TypeInv, ProgressInv
<1>2. UNCHANGED want
  BY DEF EmitData, want
<1>3. CASE Clipped
  <2>1. UNCHANGED <<want, pos, at, to, out, pc>> /\ i' = i + 1
    BY <1>3 DEF EmitData
  <2>2. TypeInv' /\ ProgressInv' /\ CompleteWhenDone'
    BY <1>1, <2>1 DEF TypeInv, ProgressInv, CompleteWhenDone, want
  <2>3. ASSUME WellFormed(file) PROVE PassedInv'
    BY <1>1, <1>3, <2>1, <2>3, ClippedCoversNothing, PassExtent DEF Inv, TypeInv
  <2>4. OutputCorrect'
    BY <2>1, SameFile DEF Inv, OutputCorrect, want
  <2> QED
    BY <1>2, <2>2, <2>3, <2>4, SameFile DEF Inv
<1>4. CASE ~Clipped
  <2> DEFINE n == Greater(ext.off - pos, 0)
  <2>1. /\ UNCHANGED <<want, i, pos>> /\ out' = out \o Zeros(n) /\ pc' = "chunk"
        /\ at' = Greater(ext.off, pos) /\ to' = Lesser(DataEnd(ext), end)
    BY <1>4 DEF EmitData
  <2>2. /\ ext \in Item /\ ext.off \in 0..U64 /\ DataEnd(ext) \in 0..U64
        /\ at' \in 0..U64 /\ to' \in 0..U64 /\ at' < to'
        /\ pos <= at' /\ ext.off <= at' /\ to' <= end /\ to' <= DataEnd(ext)
        /\ to' = end \/ to' = DataEnd(ext)
        /\ n \in Nat /\ at' = pos + n /\ (n = 0 \/ n = ext.off - pos)
    <3>1. /\ ext \in Item /\ ext.off \in 0..U64 /\ DataEnd(ext) \in 0..U64
          /\ at' \in 0..U64 /\ to' \in 0..U64 /\ at' < to'
      BY <1>1, <1>4, <2>1, NotClipped
    <3>2. pos <= at' /\ ext.off <= at' /\ n \in Nat /\ at' = pos + n
          /\ (n = 0 \/ n = ext.off - pos)
      <4>1. CASE ext.off >= pos
        <5>1. at' = ext.off /\ n = ext.off - pos
          BY <1>1, <2>1, <3>1, <4>1 DEF Greater, TypeInv
        <5>2. pos \in Int /\ ext.off \in Int
          BY <1>1, <3>1 DEF TypeInv
        <5> HIDE DEF n
        <5> QED
          BY <4>1, <5>1, <5>2
      <4>2. CASE ext.off < pos
        <5>1. at' = pos /\ n = 0
          BY <1>1, <2>1, <3>1, <4>2 DEF Greater, TypeInv
        <5> QED
          BY <1>1, <3>1, <4>2, <5>1 DEF TypeInv
      <4> QED
        BY <1>1, <3>1, <4>1, <4>2 DEF TypeInv
    <3>3. to' <= end /\ to' <= DataEnd(ext) /\ (to' = end \/ to' = DataEnd(ext))
      BY <1>1, <2>1, <3>1 DEF Lesser, TypeInv
    <3> QED
      BY <3>1, <3>2, <3>3
  <2> HIDE DEF n
  <2>3. Zeros(n) \in Seq(AllBytes) /\ Len(Zeros(n)) = n /\ \A k \in 1..n : Zeros(n)[k] = Zero
    BY <2>2, ZerosFacts
  <2>4. TypeInv'
    BY <1>1, <2>1, <2>2, <2>3, ConcatProperties DEF TypeInv, want
  <2>5. UNCHANGED ext /\ UNCHANGED DataEnd(ext)
    BY <2>1 DEF ext, want, DataEnd
  <2>6. ProgressInv' /\ CompleteWhenDone'
    <3>1. Len(out') = Len(out) + n
      BY <1>1, <2>1, <2>2, <2>3, AppendedLen
    <3> QED
      BY <1>1, <2>1, <2>2, <2>5, <3>1 DEF TypeInv, ProgressInv, CompleteWhenDone, want
  <2>7. ASSUME WellFormed(file) PROVE PassedInv' /\ OutputCorrect'
    <3>1. PassedInv'
      BY <2>1, <2>7 DEF Inv, PassedInv, want, Covers, DataEnd
    <3>2. ASSUME NEW k \in 1..n PROVE FileByte(start + Len(out) + k - 1) = Zero
      <4>1. start + Len(out) + k - 1 = pos + k - 1 /\ pos + k - 1 \in pos..(end - 1)
            /\ pos + k - 1 < ext.off
        <5>1. n # 0
          BY <2>2, <3>2
        <5>2. n = ext.off - pos
          BY <2>2, <5>1
        <5> QED
          <6>1. start \in Int /\ pos \in Int /\ end \in Int /\ ext.off \in Int /\ k \in 1..n
            BY <1>1, <2>2, <3>2 DEF TypeInv
          <6>2. ext.off < end /\ Len(out) = pos - start
            BY <1>1, <2>2, <6>1 DEF TypeInv
          <6> QED
            BY <5>2, <6>1, <6>2
      <4> QED
        BY <1>1, <2>7, <4>1, GapIsHole DEF Inv
    <3>3. \A k \in 1..Len(out') : out'[k] = FileByte(start + k - 1)
      BY <1>1, <1>2, <2>1, <2>3, <2>7, <3>2, Extends DEF Inv
    <3> QED
      BY <1>2, <3>1, <3>3, SameFile DEF OutputCorrect, want
  <2> QED
    BY <1>2, <2>4, <2>6, <2>7, SameFile DEF Inv, OutputCorrect
<1> QED
  BY <1>3, <1>4

\* emit's clipping keeps every piece inside an inline extent's bytes.
LEMMA InlineInRange ==
  ASSUME Inv, pc = "chunk", ext.kind = "inline"
  PROVE  InRange(Lesser(to - at, Chunk))
<1>1. TypeInv /\ ProgressInv /\ i \in 1..Len(file.exts)
  BY DEF Inv, ProgressInv, TypeInv
<1>2. ext \in Item
  BY <1>1 DEF TypeInv, ext
<1>3. ext.off <= at /\ at < to /\ to <= ext.off + ext.n /\ ext.off \in Int /\ ext.n \in Int
  BY SMTT(40), <1>1, <1>2, ItemFacts, DataEndType DEF ProgressInv, TypeInv
<1> QED
  BY SMTT(40), <1>1, <1>3, ChunkAssumption DEF InRange, Lesser, TypeInv

\* A piece's bytes are the file's next ones.
LEMMA PieceStep ==
  ASSUME Inv, EmitPiece
  PROVE  Inv'
<1> DEFINE n == Lesser(to - at, Chunk)
<1>1. /\ TypeInv /\ ProgressInv /\ i \in 1..Len(file.exts) /\ pc = "chunk" /\ start <= pos
      /\ Len(out) = at - start /\ Len(out) \in Nat /\ ext.kind # "hole"
      /\ pos <= at /\ ext.off <= at /\ at < to /\ to <= end /\ to <= DataEnd(ext)
      /\ to = end \/ to = DataEnd(ext)
  BY DEF Inv, EmitPiece, ProgressInv, TypeInv
<1>2. n \in Nat /\ 0 < n /\ at + n <= to /\ n <= to - at
  BY <1>1, ChunkAssumption DEF Lesser, TypeInv
<1>3. /\ ext \in Item /\ ext.off \in 0..U64 /\ DataEnd(ext) \in 0..U64
  BY <1>1, ItemFacts, DataEndType DEF TypeInv, ext
<1>4. UNCHANGED <<want, to, last>>
  BY DEF EmitPiece
<1>5. CASE ~InRange(n)
  <2>1. pc' = "failed" /\ UNCHANGED <<want, i, pos, at, to, out, last>>
    BY <1>1, <1>5, InlineInRange DEF EmitPiece
  <2>2. TypeInv' /\ ProgressInv' /\ CompleteWhenDone'
    BY <1>1, <2>1 DEF TypeInv, ProgressInv, CompleteWhenDone, want
  <2>3. WellFormed(file) => PassedInv'
    BY <2>1 DEF Inv, PassedInv, want, Covers, DataEnd
  <2> QED
    BY <2>1, <2>2, <2>3, <1>4, SameFile DEF Inv, OutputCorrect, want
<1>6. CASE InRange(n)
  <2>1. /\ out' = out \o Bytes(ext, at, n) /\ at' = at + n
        /\ IF at + n < to
             THEN UNCHANGED <<i, pos, pc>>
             ELSE pos' = to /\ i' = i + 1 /\ pc' = "next"
    BY <1>6 DEF EmitPiece
  <2> HIDE DEF n
  <2>2. \/ at' < to /\ UNCHANGED <<i, pos, pc>>
        \/ at' = to /\ pos' = to /\ i' = i + 1 /\ pc' = "next"
    BY <1>1, <1>2, <2>1 DEF TypeInv
  <2>3. /\ Bytes(ext, at, n) \in Seq(AllBytes) /\ Len(Bytes(ext, at, n)) = n
        /\ \A k \in 1..n : Bytes(ext, at, n)[k] = ByteAt(ext, at - ext.off + k - 1)
    BY <1>1, <1>2, <1>3, BytesFacts DEF TypeInv
  <2>4. Len(out') = Len(out) + n /\ out' \in Seq(AllBytes)
    BY <1>1, <1>2, <2>1, <2>3, AppendedLen
  <2>5. TypeInv'
    <3>1. at' \in 0..U64 /\ i + 1 \in Nat \ {0}
      <4>1. at' = at + n /\ at + n <= to /\ n \in Nat
        BY <1>2, <2>1
      <4>2. at \in 0..U64 /\ to \in 0..U64 /\ i \in Nat
        BY <1>1 DEF TypeInv
      <4> QED
        BY <4>1, <4>2, U64Assumption
    <3> QED
      BY <1>1, <1>4, <2>2, <2>4, <3>1 DEF TypeInv, want
  <2>6. ProgressInv' /\ CompleteWhenDone'
    <3>1. CASE at' < to /\ UNCHANGED <<i, pos, pc>>
      <4>1. UNCHANGED ext /\ UNCHANGED DataEnd(ext)
        BY <1>4, <3>1 DEF ext, want, DataEnd
      <4> QED
        BY <1>1, <1>2, <1>3, <1>4, <2>1, <2>4, <3>1, <4>1
          DEF TypeInv, ProgressInv, CompleteWhenDone, want
    <3>2. CASE at' = to /\ pos' = to /\ i' = i + 1 /\ pc' = "next"
      BY <1>1, <1>2, <1>3, <1>4, <2>1, <2>4, <3>2
        DEF TypeInv, ProgressInv, CompleteWhenDone, want
    <3> QED
      BY <2>2, <3>1, <3>2
  <2>7. ASSUME WellFormed(file) PROVE PassedInv' /\ OutputCorrect'
    <3>1. PassedInv'
      <4>1. CASE UNCHANGED <<i, pos>>
        BY <1>4, <2>7, <4>1 DEF Inv, PassedInv, want, Covers, DataEnd
      <4>2. CASE pos' = to /\ i' = i + 1
        <5>1. \A p \in pos'..(end - 1) : ~Covers(ext, p)
          BY <1>1, <1>3, <4>2 DEF Covers, TypeInv
        <5> QED
          BY <1>1, <1>4, <2>7, <4>2, <5>1, PassExtent DEF Inv, TypeInv
      <4> QED
        BY <2>2, <4>1, <4>2
    <3>2. ASSUME NEW k \in 1..n
          PROVE  Bytes(ext, at, n)[k] = FileByte(start + Len(out) + k - 1)
      <4> DEFINE p == at + k - 1
      <4>1. /\ start + Len(out) + k - 1 = p /\ p \in pos..(end - 1) /\ ext.off <= p
            /\ p < DataEnd(ext) /\ at - ext.off + k - 1 = p - ext.off
        BY SMTT(40), <1>1, <1>2, <1>3 DEF TypeInv
      <4>2. FileByte(p) = ByteAt(ext, p - ext.off)
        BY <1>1, <2>7, <4>1, ExtentIsFile DEF Inv, TypeInv
      <4> QED
        BY <2>3, <4>1, <4>2
    <3>3. \A k \in 1..Len(out') : out'[k] = FileByte(start + k - 1)
      BY <1>1, <1>4, <2>1, <2>3, <2>7, <3>2, Extends DEF Inv
    <3> QED
      BY <1>4, <3>1, <3>3, SameFile DEF OutputCorrect, want
  <2> QED
    BY <1>4, <2>5, <2>6, <2>7, SameFile DEF Inv, OutputCorrect
<1> QED
  BY <1>5, <1>6

\* A read that fails keeps what it delivered.
LEMMA FailStep ==
  ASSUME Inv, Fail
  PROVE  Inv'
<1>1. UNCHANGED <<want, i, pos, at, to, out, last>> /\ pc' = "failed"
  BY DEF Fail
<1>2. TypeInv' /\ ProgressInv' /\ CompleteWhenDone'
  BY <1>1 DEF Inv, TypeInv, ProgressInv, CompleteWhenDone, want
<1>3. WellFormed(file) => PassedInv'
  BY <1>1 DEF Inv, PassedInv, want, Covers, DataEnd
<1> QED
  BY <1>1, <1>2, <1>3, SameFile DEF Inv, OutputCorrect, want

\* Every step of read_range preserves the invariant.
LEMMA InvStep == Inv /\ [Next]_vars => Inv'
<1> SUFFICES ASSUME Inv, [Next]_vars PROVE Inv'
  OBVIOUS
<1>1. CASE Finish
  BY <1>1, FinishStep
<1>2. CASE SkipPassed
  BY <1>2, SkipStep
<1>3. CASE EmitHole
  BY <1>3, HoleStep
<1>4. CASE OpenPlain \/ OpenInline
  BY <1>4, OpenStep, FailStep DEF OpenPlain, OpenInline, Inv, TypeInv
<1>5. CASE OpenCompressed
  <2>1. ext \in Item
    BY <1>5 DEF OpenCompressed, AtExtent, Finished, Inv, TypeInv, ext
  <2>2. last \in Decoded \cup {None} /\ ext.kind # "hole"
    BY <1>5 DEF OpenCompressed, Inv, TypeInv
  <2>3. Decodes(ext.bytenr, ext.ram) => <<ext.bytenr, ext.ram>> \in Decoded
    BY <1>5, <2>1, ItemFacts DEF OpenCompressed, Decoded
  <2> QED
    BY <1>5, <2>1, <2>2, <2>3, OpenStep, FailStep DEF OpenCompressed
<1>6. CASE EmitPiece
  BY <1>6, PieceStep
<1>7. CASE Abort
  BY <1>7, FailStep DEF Abort
<1>8. CASE Over \/ UNCHANGED vars
  <2>1. UNCHANGED vars
    BY <1>8 DEF Over
  <2>2. TypeInv' /\ ProgressInv' /\ CompleteWhenDone'
    BY <2>1 DEF Inv, TypeInv, ProgressInv, CompleteWhenDone, vars, want, ext, DataEnd
  <2>3. WellFormed(file) => PassedInv'
    BY <2>1 DEF Inv, PassedInv, vars, want, Covers, DataEnd
  <2> QED
    BY <2>1, <2>2, <2>3, SameFile DEF Inv, OutputCorrect, vars, want
<1> QED
  BY <1>1, <1>2, <1>3, <1>4, <1>5, <1>6, <1>7, <1>8 DEF Next, Step

\* The invariant holds throughout every read.
LEMMA Invariant == Spec => []Inv
<1> QED
  BY InvInit, InvStep, PTL DEF Spec

\* read_range never gives its sink a wrong byte of a well-formed file, for any
\* extents, range, piece size, cache, and any point at which it fails.
THEOREM OutputIsCorrect == Spec => []OutputCorrect
<1>1. Inv => OutputCorrect
  BY DEF Inv
<1> QED
  BY <1>1, Invariant, PTL

\* read_range never returns Ok before it has delivered its whole range.
THEOREM DoneIsComplete == Spec => []CompleteWhenDone
<1>1. Inv => CompleteWhenDone
  BY DEF Inv
<1> QED
  BY <1>1, Invariant, PTL

\* No extent item, however corrupt, makes read_range's inline callback slice past
\* its data.
THEOREM PanicFree == Spec => []NeverPanics
<1>1. Inv => NeverPanics
  BY DEF Inv, TypeInv, NeverPanics
<1> QED
  BY <1>1, Invariant, PTL

=============================================================================
