------------------------------ MODULE ChunkMap ------------------------------
(***************************************************************************)
(* How a logical address becomes places on devices: Fs::mirrors of fs.rs.  *)
(* A chunk map is a function from a chunk's start to the rest of it: its   *)
(* length, whether its profile stripes, and its stripes as pairs of a      *)
(* device id and a physical address.  Addresses are words: a release build *)
(* wraps where an addition overflows.                                      *)
(***************************************************************************)
EXTENDS Integers, Sequences, FiniteSets

CONSTANT Space                     \* how many addresses there are; 2^64 in the code

ASSUME SpaceAssumption == Space \in Nat \ {0}

Word(n) == n % Space

Greatest(S) == CHOOSE n \in S : \A m \in S : m <= n

\* A mutation: only where the read begins is compared.
EndsAfter(chunks, start) == Word(start + chunks[start].length) + 1

(* The chunk with the greatest start at or below the address is the only   *)
(* one that is asked whether it holds the whole read.                      *)
Ends(chunks, start) == Word(start + chunks[start].length)

Holds(chunks, start, logical, len) ==
  Word(logical + len) <= Ends(chunks, start)

(* The copies that can be tried: the path, the physical address, and which *)
(* stripe it is.  None is an error, whether no chunk maps the address, the *)
(* chunk is striped over devices, or its devices were not given.           *)
Mirrors(chunks, devs, logical, len) ==
  LET starts == {s \in DOMAIN chunks : s <= logical}
      start  == Greatest(starts)
      chunk  == chunks[start]
      given  == {i \in DOMAIN chunk.stripes : chunk.stripes[i][1] \in DOMAIN devs}
  IN  IF \/ starts = {}
         \/ ~Holds(chunks, start, logical, len)
         \/ chunk.striped /\ Len(chunk.stripes) > 1
      THEN {}
      ELSE {<<devs[chunk.stripes[i][1]],
              Word(chunk.stripes[i][2] + (logical - start)), i>> : i \in given}

(* They are tried in the stripes' order.                                   *)
FirstOf(copies) == CHOOSE c \in copies : \A d \in copies : c[3] <= d[3]
=============================================================================
