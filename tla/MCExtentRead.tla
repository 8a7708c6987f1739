---------------------------- MODULE MCExtentRead ----------------------------
(* Devices that end, fail and mirror each other, and frames of up to three *)
(* segments, for ExtentRead.                                               *)
EXTENDS ExtentRead, SequencesExt

CONSTANTS d1, d2

Chunk(length, stripes) == [length |-> length, striped |-> FALSE, stripes |-> stripes]

\* A chunk of one copy and one of two.
Chunks ==
  [s \in {2, 8} |-> IF s = 2 THEN Chunk(6, <<<<1, 3>>>>)
                    ELSE Chunk(9, <<<<1, 10>>, <<2, 1>>>>)]
Striped == [Chunks EXCEPT ![8].striped = TRUE]

Devs == [i \in {1, 2} |-> IF i = 1 THEN d1 ELSE d2]

Disk(chunks, devs, s1, s2, failing) ==
  [chunks |-> chunks, devs |-> devs, failing |-> failing,
   size |-> [d \in {d1, d2} |-> IF d = d1 THEN s1 ELSE s2]]

Disks ==
  {Disk(Chunks, Devs, s, 10, f) : s \in {9, 14, 19, 24}, f \in {{}, {d1}, {d1, d2}}}
    \cup {Disk(Striped, Devs, 24, 24, {}),
          Disk(Chunks, [i \in {2} |-> d2], 24, 24, {})}

Plain(logical, len) == [compressed |-> FALSE, logical |-> logical, len |-> len]

PlainCases ==
  {[disk |-> d, ext |-> Plain(a, n)] :
     d \in Disks, a \in {0, 2, 5, 8, 11, 15, 62, 63}, n \in {0, 1, 3, 6}}

\* Where a kernel that writes segments of these lengths puts them.
Places(lens) ==
  FoldLeft(LAMBDA f, len : [ends |-> Header(f.ends) + 4 + len,
                            places |-> Append(f.places, Header(f.ends))],
           [ends |-> 4, places |-> <<>>], lens)

\* The frame of such segments; each holds a sector, and the last one `rest` bytes.
Frame(lens, rest, inline) ==
  LET put == Places(lens)
      number(at) == CHOOSE i \in DOMAIN lens : put.places[i] = at
      whole == Sector * (Len(lens) - 1)
  IN  [algo |-> "lzo", inline |-> inline, intact |-> TRUE, broken |-> FALSE,
       len |-> IF inline THEN put.ends ELSE RoundUp(put.ends), total |-> put.ends, junk |-> 0, decodes |-> 0,
       ram |-> IF inline THEN whole + rest ELSE whole + Sector,
       segs |-> [at \in Range(put.places) |->
                   [len |-> lens[number(at)], name |-> number(at),
                    plain |-> IF number(at) = Len(lens) THEN rest ELSE Sector]],
       written |-> [i \in DOMAIN lens |-> i]]

Lens == UNION {[1..n -> {1, 3, 4, 6}] : n \in 1..3}

Frames == {Frame(lens, r, FALSE) : lens \in Lens, r \in {1, Sector}}
            \cup {Frame(<<len>>, r, TRUE) : len \in 1..6, r \in {1, Sector}}

\* What can be wrong with a frame: its length, its end, a segment's length, what
\* it decodes to, what the item says.
Spoilt(f) ==
  {[f EXCEPT !.total = t] : t \in {0, f.total - 1, f.len + 1, f.len + 9}}
    \cup {[f EXCEPT !.segs = [at \in {} |-> 0], !.junk = j] : j \in {0, 2, 60}}
    \cup {[f EXCEPT !.segs[4].len = n] : n \in {0, 2, 30}}
    \cup {[f EXCEPT !.segs[4].plain = n] : n \in {0, Sector + 1}}
    \cup {[f EXCEPT !.ram = n] : n \in {f.ram - Sector, f.ram + Sector, MAX_RAM_BYTES + 1}}
    \cup {[f EXCEPT !.total = f.len + 9, !.segs[4].len = f.len]}
    \cup {[f EXCEPT !.algo = "other"]}

Streams ==
  {[algo |-> "stream", inline |-> i, broken |-> b, len |-> 5, total |-> 0, junk |-> 0,
    decodes |-> n, ram |-> r, segs |-> <<>>, written |-> <<"stream">>,
    intact |-> ~b /\ IF i THEN n \in {r, Sector} /\ r <= Sector ELSE n \in r - Sector + 1..r] :
     i, b \in BOOLEAN, n \in 0..17, r \in {3, 8, 16}}

Contents ==
  Frames \cup Streams
    \cup UNION {{[s EXCEPT !.intact = FALSE] : s \in Spoilt(f)} :
                 f \in {Frame(lens, 5, FALSE) : lens \in Lens}}

\* They lie where the last chunk has room for them.
Big == Disk([s \in {20} |-> Chunk(40, <<<<1, 0>>>>)], Devs, 44, 0, {})

MCCases ==
  PlainCases
    \cup {[disk |-> Big, ext |-> [compressed |-> TRUE, logical |-> 20, len |-> c.len,
                                 content |-> c]] : c \in Contents}
    \cup {[disk |-> Big, ext |-> [compressed |-> TRUE, logical |-> 20, len |-> 41,
                                 content |-> CHOOSE c \in Streams : TRUE]]}
=============================================================================
