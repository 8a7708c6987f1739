---------------------------- MODULE Queries_proof ----------------------------
(***************************************************************************)
(* Proofs of what Queries says of find and of subvols, for every           *)
(* filesystem that is given.                                               *)
(*                                                                         *)
(* The parts build on each other: sorting; resolve as a walk of one step   *)
(* per name; what a sound filesystem gives lookup and readdir; paths that  *)
(* resolve; the one parent of a directory; then find, whose invariant      *)
(* SearchInv says that it has printed just the paths that are wanted and   *)
(* not still to come; and subvols, whose invariant ListInv says that the   *)
(* paths known so far resolve, and that nobody who waits has a parent that *)
(* is known.  Inductions over the length of a path or the depth of a       *)
(* directory take the least number that fails (Least).                     *)
(***************************************************************************)
EXTENDS Queries, SequenceTheorems, FiniteSetTheorems, FunctionTheorems,
        WellFoundedInduction, TLAPS

\* The order of the natural numbers, as a relation.
Less == OpToRel(<, Nat)

\* Every set of numbers that is not empty has a least one.
LEMMA Least ==
  ASSUME NEW S \in SUBSET Nat, S # {}
  PROVE  \E n \in S : \A m \in S : n <= m
<1>1. IsWellFoundedOn(Less, Nat)
  BY NatLessThanWellFounded DEF Less
<1>2. PICK n \in S : \A m \in S : ~(<<m, n>> \in Less)
  BY <1>1, WFMin
<1>3. \A m \in S : ~(m < n)
  BY <1>2, Zenon DEF Less, OpToRel
<1> QED
  BY <1>3

-----------------------------------------------------------------------------
(* Sorting.                                                                *)

\* R orders S, as <= orders numbers.
Orders(R, S) ==
  /\ \A i \in S : <<i, i>> \in R
  /\ \A i, j \in S : <<i, j>> \in R \/ <<j, i>> \in R
  /\ \A i, j \in S : <<i, j>> \in R /\ <<j, i>> \in R => i = j
  /\ \A i, j, k \in S : <<i, j>> \in R /\ <<j, k>> \in R => <<i, k>> \in R

\* How many elements are before the one at hand, itself included.
Place(S, R) == [i \in S |-> Cardinality({j \in S : <<j, i>> \in R})]

\* In a finite set that is ordered each element has a place of its own, and each
\* place an element.
LEMMA Places ==
  ASSUME NEW S, IsFiniteSet(S), NEW R, Orders(R, S)
  PROVE  /\ Cardinality(S) \in Nat
         /\ \A i \in S : Place(S, R)[i] \in 1..Cardinality(S)
         /\ \A i, j \in S : Place(S, R)[i] = Place(S, R)[j] => i = j
         /\ \A k \in 1..Cardinality(S) : \E i \in S : Place(S, R)[i] = k
<1> USE DEF Orders
<1> DEFINE D(i) == {j \in S : <<j, i>> \in R}
           place == Place(S, R)
           n == Cardinality(S)
<1>1. n \in Nat
  BY FS_CardinalityType
<1>2. \A i \in S : IsFiniteSet(D(i)) /\ Cardinality(D(i)) \in Nat /\ Cardinality(D(i)) <= n
  <2> TAKE i \in S
  <2>1. D(i) \in SUBSET S
    OBVIOUS
  <2> QED
    BY <2>1, FS_Subset, FS_CardinalityType
<1>3. \A i \in S : Cardinality(D(i)) # 0
  <2> TAKE i \in S
  <2>1. i \in D(i)
    OBVIOUS
  <2> QED
    BY <1>2, <2>1, FS_EmptySet
<1>4. \A i \in S : place[i] = Cardinality(D(i)) /\ place[i] \in 1..n
  <2> TAKE i \in S
  <2>1. place[i] = Cardinality(D(i))
    BY DEF Place
  <2> HIDE DEF D, n, place
  <2> QED
    BY <1>1, <1>2, <1>3, <2>1
<1>5. \A i, j \in S : <<i, j>> \in R /\ i # j => place[i] < place[j]
  <2> SUFFICES ASSUME NEW i \in S, NEW j \in S, <<i, j>> \in R, i # j
               PROVE  place[i] < place[j]
    OBVIOUS
  <2>1. D(i) \in SUBSET (D(j) \ {j})
    OBVIOUS
  <2>2. j \in D(j)
    OBVIOUS
  <2> HIDE DEF D, n, place
  <2>3. IsFiniteSet(D(j) \ {j}) /\ Cardinality(D(j) \ {j}) = Cardinality(D(j)) - 1
    BY <1>2, <2>2, FS_RemoveElement
  <2>4. Cardinality(D(i)) <= Cardinality(D(j)) - 1
    BY <2>1, <2>3, FS_Subset
  <2> QED
    BY <1>2, <1>4, <2>4
<1>6. \A i, j \in S : place[i] = place[j] => i = j
  <2> HIDE DEF n, D, place
  <2> SUFFICES ASSUME NEW i \in S, NEW j \in S, i # j PROVE place[i] # place[j]
    OBVIOUS
  <2>1. place[i] < place[j] \/ place[j] < place[i]
    BY <1>5
  <2> QED
    BY <1>4, <2>1
<1>7. \A k \in 1..n : \E i \in S : place[i] = k
  <2>1. place \in [S -> 1..n]
    BY <1>4 DEF Place
  <2> HIDE DEF place
  <2>2. place \in Injection(S, 1..n)
    BY <1>6, <2>1, Fun_IsInj
  <2>3. IsFiniteSet(1..n) /\ Cardinality(1..n) = n
    BY <1>1, FS_Interval
  <2>4. place \in Surjection(S, 1..n)
    BY <2>2, <2>3, FS_Injection
  <2> HIDE DEF n
  <2>5. \A k \in 1..n : \E i \in S : place[i] = k
    BY ONLY <2>4, Fun_SurjectionProperties
  <2> QED
    BY <2>5
<1> QED
  BY <1>1, <1>4, <1>6, <1>7

\* r holds the values of s, each at one place.
Permutes(r, s) ==
  /\ Len(r) = Len(s)
  /\ \A k \in DOMAIN s : \E i \in DOMAIN s : r[k] = s[i]
  /\ \A i \in DOMAIN s : \E k \in DOMAIN s : r[k] = s[i]
  /\ (\A i, j \in DOMAIN s : s[i] = s[j] => i = j) =>
       \A i, j \in DOMAIN s : r[i] = r[j] => i = j

\* Sorting a sequence moves each of its values to one place.
LEMMA SortedPermutes ==
  ASSUME NEW T, NEW s \in Seq(T), NEW key, \A i \in DOMAIN s : key[i] \in Int
  PROVE  Sorted(s, key) \in Seq(T) /\ Permutes(Sorted(s, key), s)
<1> DEFINE S == DOMAIN s
           upTo(i) == {j \in S : key[j] < key[i] \/ (key[j] = key[i] /\ j <= i)}
           R == {p \in S \X S : key[p[1]] < key[p[2]] \/ (key[p[1]] = key[p[2]] /\ p[1] <= p[2])}
           place == Place(S, R)
           n == Len(s)
           at(k) == CHOOSE i \in S : Cardinality(upTo(i)) = k
<1>1. n \in Nat /\ S = 1..n /\ S \subseteq Int
  OBVIOUS
<1>2. IsFiniteSet(S) /\ Cardinality(S) = n
  <2>1. IsFiniteSet(1..n) /\ Cardinality(1..n) = n
    <3> HIDE DEF n, S
    <3> QED
      BY <1>1, FS_Interval
  <2> QED
    BY <1>1, <2>1
<1>3. \A i, j \in S : <<i, j>> \in R <=> (key[i] < key[j] \/ (key[i] = key[j] /\ i <= j))
  BY Zenon
<1>4. \A i \in S : upTo(i) = {j \in S : <<j, i>> \in R}
  BY <1>3
<1>5. Orders(R, S)
  <2> HIDE DEF R
  <2> QED
    BY SMTT(40), <1>1, <1>3 DEF Orders
<1> HIDE DEF R
<1>6. /\ \A i \in S : place[i] \in 1..n
      /\ \A i, j \in S : place[i] = place[j] => i = j
      /\ \A k \in 1..n : \E i \in S : place[i] = k
  <2>1. /\ \A i \in S : place[i] \in 1..Cardinality(S)
        /\ \A i, j \in S : place[i] = place[j] => i = j
        /\ \A k \in 1..Cardinality(S) : \E i \in S : place[i] = k
    <3> HIDE DEF S
    <3> QED
      BY <1>2, <1>5, Places
  <2> QED
    BY <1>2, <2>1
<1>7. \A i \in S : Cardinality(upTo(i)) = place[i]
  BY <1>4 DEF Place
<1> HIDE DEF place, upTo
<1>8. \A k \in S : at(k) \in S /\ place[at(k)] = k
  <2> TAKE k \in S
  <2>1. PICK i \in S : place[i] = k
    BY <1>1, <1>6
  <2>2. i \in S /\ Cardinality(upTo(i)) = k
    BY <1>7, <2>1
  <2>3. at(k) \in S /\ Cardinality(upTo(at(k))) = k
    BY <2>2, Zenon
  <2> QED
    BY <1>7, <2>3
<1>9. Sorted(s, key) = [k \in S |-> s[at(k)]]
  BY Zenon DEF Sorted, upTo
<1> HIDE DEF at
<1>10. \A i \in S : at(place[i]) = i /\ place[i] \in S
  BY <1>1, <1>6, <1>8
<1>11. Sorted(s, key) = [k \in 1..n |-> s[at(k)]] /\ \A k \in 1..n : s[at(k)] \in T
  BY <1>1, <1>8, <1>9
<1>12. Sorted(s, key) \in Seq(T) /\ Len(Sorted(s, key)) = n
  <2> DEFINE g == [k \in 1..n |-> s[at(k)]]
  <2>1. \A k \in 1..n : g[k] \in T
    BY <1>11
  <2>2. g \in [1..n -> T]
    BY <1>11
  <2>3. g \in Seq(T)
    BY <1>1, <2>2
  <2>4. Len(g) = n
    BY <1>1, <2>3
  <2> QED
    BY <1>11, <2>3, <2>4
<1>13. \A k \in S : Sorted(s, key)[k] = s[at(k)]
  BY <1>9
<1>14. ASSUME \A i, j \in S : s[i] = s[j] => i = j, NEW i \in S, NEW j \in S,
              Sorted(s, key)[i] = Sorted(s, key)[j]
       PROVE  i = j
  <2>1. at(i) = at(j)
    BY <1>8, <1>13, <1>14
  <2> QED
    BY <1>8, <2>1
<1>15. /\ \A k \in S : \E i \in S : Sorted(s, key)[k] = s[i]
       /\ \A i \in S : \E k \in S : Sorted(s, key)[k] = s[i]
  <2>1. ASSUME NEW i \in S PROVE \E k \in S : Sorted(s, key)[k] = s[i]
    BY <1>10, <1>13
  <2>2. ASSUME NEW k \in S PROVE \E i \in S : Sorted(s, key)[k] = s[i]
    BY <1>8, <1>13
  <2> QED
    BY <2>1, <2>2
<1>16. (\A i, j \in S : s[i] = s[j] => i = j) =>
         \A i, j \in S : Sorted(s, key)[i] = Sorted(s, key)[j] => i = j
  BY <1>14
<1> HIDE DEF n
<1> QED
  BY <1>12, <1>15, <1>16, Zenon DEF Permutes, n

-----------------------------------------------------------------------------
(* resolve, step by step.                                                  *)

\* Where every walk begins: the root of the top-level subvolume (fs.rs, resolve).
Top == IF HasTree(FS_TREE_OBJECTID) THEN <<RootOf(FS_TREE_OBJECTID)>> ELSE Error

\* w is the walk along the first n names of path.
IsWalk(w, path, n) ==
  w = [k \in 0..n |-> IF k = 0 THEN Top ELSE Step(w[k - 1], path[k])]

\* A walk goes on by one step at each name.
LEMMA WalkFacts ==
  ASSUME NEW w, NEW path, NEW n \in Nat, IsWalk(w, path, n)
  PROVE  w[0] = Top /\ \A k \in 1..n : w[k] = Step(w[k - 1], path[k])
<1>1. \A k \in 0..n : w[k] = IF k = 0 THEN Top ELSE Step(w[k - 1], path[k])
  BY Zenon DEF IsWalk
<1> QED
  BY <1>1

\* Every path has a walk of every length.
LEMMA WalkExists ==
  ASSUME NEW path
  PROVE  \A n \in Nat : \E w : IsWalk(w, path, n)
<1> DEFINE Bad == {n \in Nat : ~ \E w : IsWalk(w, path, n)}
<1> SUFFICES ASSUME Bad # {} PROVE FALSE
  OBVIOUS
<1>1. PICK b \in Bad : \A m \in Bad : b <= m
  BY Least
<1>2. CASE b = 0
  <2> DEFINE w == [k \in 0..0 |-> Top]
  <2>1. \A k \in 0..0 : k = 0
    OBVIOUS
  <2>2. w = [k \in 0..0 |-> IF k = 0 THEN Top ELSE Step(w[k - 1], path[k])]
    BY <2>1
  <2> HIDE DEF w
  <2> QED
    BY <1>1, <1>2, <2>2 DEF IsWalk
<1>3. CASE b # 0
  <2>1. b - 1 \in Nat /\ b - 1 \notin Bad
    BY <1>1, <1>3
  <2>2. PICK w : IsWalk(w, path, b - 1)
    BY <2>1
  <2> DEFINE v == [k \in 0..b |-> IF k = b THEN Step(w[b - 1], path[b]) ELSE w[k]]
  <2>3. \A k \in 0..b : v[k] = IF k = b THEN Step(w[b - 1], path[b]) ELSE w[k]
    OBVIOUS
  <2>4. v = [k \in 0..b |-> v[k]]
    OBVIOUS
  <2> HIDE DEF v
  <2>5. w[0] = Top /\ \A k \in 1..b - 1 : w[k] = Step(w[k - 1], path[k])
    BY <2>1, <2>2, WalkFacts
  <2>6. \A k \in 0..b : v[k] = IF k = 0 THEN Top ELSE Step(v[k - 1], path[k])
    <3> TAKE k \in 0..b
    <3>1. CASE k = 0
      BY <1>3, <2>3, <2>5, <3>1
    <3>2. CASE k # 0
      <4>1. v[k - 1] = w[k - 1]
        BY <1>1, <2>3, <3>2
      <4>2. v[k] = Step(w[k - 1], path[k])
        BY <1>1, <2>3, <2>5, <3>2
      <4> QED
        BY <3>2, <4>1, <4>2
    <3> QED
      BY <3>1, <3>2
  <2>7. IsWalk(v, path, b)
    BY <2>4, <2>6, Zenon DEF IsWalk
  <2> QED
    BY <1>1, <2>7
<1> QED
  BY <1>2, <1>3

\* Two walks agree for as long as their paths do.
LEMMA WalksAgree ==
  ASSUME NEW p, NEW r, NEW m \in Nat, NEW n \in Nat, NEW w, NEW v,
         IsWalk(w, p, m), IsWalk(v, r, n), m <= n, \A k \in 1..m : p[k] = r[k]
  PROVE  w[m] = v[m]
<1> DEFINE Bad == {k \in Nat : k <= m /\ w[k] # v[k]}
<1>1. w[0] = Top /\ \A k \in 1..m : w[k] = Step(w[k - 1], p[k])
  BY WalkFacts
<1>2. v[0] = Top /\ \A k \in 1..n : v[k] = Step(v[k - 1], r[k])
  BY WalkFacts
<1> SUFFICES ASSUME Bad # {} PROVE FALSE
  OBVIOUS
<1>3. PICK b \in Bad : \A k \in Bad : b <= k
  BY Least
<1>4. b # 0 /\ b - 1 \notin Bad /\ b - 1 \in Nat
  BY <1>1, <1>2, <1>3
<1>5. w[b - 1] = v[b - 1] /\ p[b] = r[b]
  BY <1>3, <1>4
<1>6. w[b] = Step(w[b - 1], p[b]) /\ v[b] = Step(v[b - 1], r[b])
  BY <1>1, <1>2, <1>3, <1>4
<1> QED
  BY <1>3, <1>5, <1>6

\* Walked is where the walk along the whole path ends.
LEMMA WalkedIsWalk ==
  ASSUME NEW path, Len(path) \in Nat
  PROVE  \E w : IsWalk(w, path, Len(path)) /\ Walked(path) = w[Len(path)]
<1> DEFINE W == CHOOSE w : IsWalk(w, path, Len(path))
<1>1. IsWalk(W, path, Len(path))
  BY WalkExists, Zenon
<1>2. Walked(path) = W[Len(path)]
  BY Zenon DEF Walked, IsWalk, Top
<1> QED
  BY <1>1, <1>2, Zenon

\* A path's walk is its parent's with one step more.
LEMMA WalkedStep ==
  ASSUME NEW T, NEW path \in Seq(T), NEW x \in T
  PROVE  Walked(Append(path, x)) = Step(Walked(path), x)
<1> DEFINE n == Len(path)
           longer == Append(path, x)
<1>1. n \in Nat /\ Len(longer) = n + 1 /\ longer[n + 1] = x /\ \A k \in 1..n : path[k] = longer[k]
  OBVIOUS
<1> HIDE DEF n, longer
<1>2. PICK w : IsWalk(w, path, n) /\ Walked(path) = w[n]
  BY <1>1, WalkedIsWalk DEF n
<1>3. PICK v : IsWalk(v, longer, n + 1) /\ Walked(longer) = v[n + 1]
  BY <1>1, WalkedIsWalk
<1>4. w[n] = v[n]
  BY <1>1, <1>2, <1>3, WalksAgree
<1>5. v[n + 1] = Step(v[n], longer[n + 1])
  <2>1. n + 1 \in Nat /\ n + 1 \in 1..n + 1 /\ (n + 1) - 1 = n
    BY <1>1
  <2>2. \A k \in 1..n + 1 : v[k] = Step(v[k - 1], longer[k])
    BY <1>3, <2>1, WalkFacts
  <2>3. v[n + 1] = Step(v[(n + 1) - 1], longer[n + 1])
    BY <2>1, <2>2, Zenon
  <2> QED
    BY <2>1, <2>3, Zenon
<1> QED
  BY <1>1, <1>2, <1>3, <1>4, <1>5 DEF longer

\* The empty path ends where walks begin.
LEMMA WalkedEmpty == Walked(<<>>) = Top
<1>1. Len(<<>>) = 0
  OBVIOUS
<1>2. PICK w : IsWalk(w, <<>>, 0) /\ Walked(<<>>) = w[0]
  BY <1>1, WalkedIsWalk
<1> QED
  BY <1>2, WalkFacts

-----------------------------------------------------------------------------
(* What the queries answer depends on the filesystem alone.                *)

\* While the filesystem stays, so do its trees.
LEMMA SameItems ==
  ASSUME fs' = fs
  PROVE  /\ \A id : RootItems(id)' = RootItems(id) /\ RootItem(id)' = RootItem(id)
         /\ \A id : (HasTree(id)' <=> HasTree(id)) /\ Tree(id)' = Tree(id)
         /\ \A id : RootOf(id)' = RootOf(id) /\ (is_snapshot(id)' <=> is_snapshot(id))
         /\ \A id : CannotTell(id)' <=> CannotTell(id)
         /\ \A loc : (Reads(loc)' <=> Reads(loc)) /\ inode(loc)' = inode(loc)
         /\ \A d, e : entry(d, e)' = entry(d, e)
         /\ Top' = Top
<1>1. \A id : RootItems(id)' = RootItems(id) /\ RootItem(id)' = RootItem(id)
  BY DEF RootItems, RootItem
<1>2. /\ \A id : (HasTree(id)' <=> HasTree(id)) /\ Tree(id)' = Tree(id)
      /\ \A id : RootOf(id)' = RootOf(id) /\ (is_snapshot(id)' <=> is_snapshot(id))
  BY <1>1 DEF HasTree, Tree, RootOf, is_snapshot
<1>3. \A loc : Reads(loc)' <=> Reads(loc)
  BY <1>2 DEF Reads
<1>4. \A loc : inode(loc)' = inode(loc)
  BY <1>2, <1>3 DEF inode
<1>5. \A d, e : entry(d, e)' = entry(d, e)
  BY <1>2 DEF entry, Linked
<1>6. Top' = Top
  BY <1>2 DEF Top
<1>7. \A id : CannotTell(id)' <=> CannotTell(id)
  BY DEF CannotTell
<1> QED
  BY <1>1, <1>2, <1>3, <1>4, <1>5, <1>6, <1>7

\* While the filesystem stays, lookup, readdir and inode answer the same.
LEMMA SameQueries ==
  ASSUME fs' = fs
  PROVE  /\ \A d, n : lookup(d, n)' = lookup(d, n)
         /\ \A d : readdir(d)' = readdir(d)
         /\ \A s, x : Step(s, x)' = Step(s, x)
<1>1. \A d, n : lookup(d, n)' = lookup(d, n)
  BY SameItems DEF lookup
<1>2. \A d : readdir(d)' = readdir(d)
  BY SameItems DEF readdir
<1>3. \A s, x : Step(s, x)' = Step(s, x)
  BY <1>1, SameItems DEF Step
<1> QED
  BY <1>1, <1>2, <1>3

\* Every path is walked along.
AllWalk ==
  \A path : Len(path) \in Nat =>
    \E w : IsWalk(w, path, Len(path)) /\ Walked(path) = w[Len(path)]

\* Every path is walked along, also in the next state.
LEMMA PathsWalk == AllWalk
  BY WalkedIsWalk DEF AllWalk

\* While the filesystem stays, a path leads to the same place.
LEMMA SameResolve ==
  ASSUME fs' = fs
  PROVE  \A path : Len(path) \in Nat => resolve(path)' = resolve(path)
<1> SUFFICES ASSUME NEW path, Len(path) \in Nat PROVE resolve(path)' = resolve(path)
  OBVIOUS
<1> DEFINE n == Len(path)
<1>1. ASSUME NEW w PROVE IsWalk(w, path, n)' <=> IsWalk(w, path, n)
  BY SameItems, SameQueries DEF IsWalk
<1>2. AllWalk'
  BY PathsWalk, PTL
<1>3. PICK v : IsWalk(v, path, n)' /\ Walked(path)' = v[n]
  BY <1>2 DEF AllWalk
<1>4. PICK w : IsWalk(w, path, n) /\ Walked(path) = w[n]
  BY WalkedIsWalk
<1>5. IsWalk(v, path, n)
  BY <1>1, <1>3
<1>6. w[n] = v[n]
  BY <1>4, <1>5, WalksAgree
<1>7. Walked(path)' = Walked(path)
  BY <1>3, <1>4, <1>6
<1> QED
  BY <1>7 DEF resolve

-----------------------------------------------------------------------------
(* A sound filesystem.                                                     *)

\* The one element of a set is its least and its greatest.
LEMMA OnlyOne ==
  ASSUME NEW i \in Int
  PROVE  Max({i}) = i /\ Min({i}) = i
<1>1. \E x \in {i} : \A y \in {i} : x >= y
  OBVIOUS
<1>2. \E x \in {i} : \A y \in {i} : x <= y
  OBVIOUS
<1>3. Max({i}) \in {i}
  BY <1>1 DEF Max
<1>4. Min({i}) \in {i}
  BY <1>2 DEF Min
<1> QED
  BY <1>3, <1>4

\* d is an inode of a tree that is there.
Real(d) ==
  /\ d \in Locs /\ d.tree # 0
  /\ HasTree(d.tree) /\ d.ino \in DOMAIN Tree(d.tree).inodes

\* d is a place that a path can lead to.
Valid(d) == d = Placeholder \/ Real(d)
\* d is a directory of a tree.
IsDir(d) == Real(d) /\ Tree(d.tree).inodes[d.ino] = "dir"

\* How deep a directory lies, below the top of all subvolumes.
Depth(d) == fs.depth[<<d.tree, d.ino>>]

\* In a sound filesystem a subvolume has one ROOT_ITEM.
LEMMA RootIs ==
  ASSUME IsSound(fs), NEW r \in Range(fs.roots)
  PROVE  /\ r.id \in Nat /\ r.id # 0 /\ RootItem(r.id) = r /\ RootItems(r.id) # {}
         /\ r \in Roots(fs)
         /\ HasTree(r.id) /\ Tree(r.id) = fs.trees[r.root]
         /\ RootOf(r.id) = Loc(r.id, r.dirid)
<1>1. PICK i \in DOMAIN fs.roots : fs.roots[i] = r
  BY DEF Range
<1>2. fs.roots \in Seq(Roots(fs)) /\ \A j, k \in DOMAIN fs.roots : fs.roots[j].id = fs.roots[k].id => j = k
  BY DEF IsSound
<1>3. i \in Int /\ r \in Roots(fs)
  BY <1>1, <1>2
<1>4. RootItems(r.id) = {i}
  BY <1>1, <1>2 DEF RootItems
<1>5. RootItem(r.id) = r
  BY <1>1, <1>3, <1>4, OnlyOne DEF RootItem
<1>6. r.id \in Nat /\ r.id # 0 /\ r.root \in DOMAIN fs.trees
  BY <1>3 DEF Roots
<1> QED
  BY <1>3, <1>4, <1>5, <1>6 DEF HasTree, Tree, RootOf

\* A ROOT_ITEM that is found is one of the filesystem.
LEMMA TreeHasRoot ==
  ASSUME IsSound(fs), NEW id, RootItems(id) # {}
  PROVE  \E r \in Range(fs.roots) : r.id = id
<1>1. PICK i \in DOMAIN fs.roots : fs.roots[i].id = id
  BY DEF RootItems
<1> QED
  BY <1>1 DEF Range

\* The tree of an id is the tree of its ROOT_ITEM.
LEMMA TreeIs ==
  ASSUME IsSound(fs), NEW id, HasTree(id)
  PROVE  \E r \in Range(fs.roots) :
           /\ r.id = id /\ Tree(id) = fs.trees[r.root] /\ RootOf(id) = Loc(id, r.dirid)
           /\ r \in Roots(fs) /\ id \in Nat /\ id # 0
<1>1. PICK r \in Range(fs.roots) : r.id = id
  BY TreeHasRoot DEF HasTree
<1> QED
  BY <1>1, RootIs

\* Each tree is sound, and its root is a directory of it.
LEMMA TreeIsSound ==
  ASSUME IsSound(fs), NEW id, HasTree(id)
  PROVE  SoundTree(Tree(id)) /\ IsDir(RootOf(id)) /\ RootOf(id).tree = id
<1>1. PICK r \in Range(fs.roots) :
           /\ r.id = id /\ Tree(id) = fs.trees[r.root] /\ RootOf(id) = Loc(id, r.dirid)
           /\ r \in Roots(fs) /\ id \in Nat /\ id # 0
  BY TreeIs
<1>2. /\ SoundTree(Tree(id))
      /\ r.dirid \in DOMAIN Tree(id).inodes /\ Tree(id).inodes[r.dirid] = "dir"
  BY <1>1 DEF IsSound
<1>3. RootOf(id) \in Locs /\ RootOf(id).tree = id /\ RootOf(id).ino = r.dirid
  BY <1>1 DEF Roots, Loc, Locs
<1> QED
  BY <1>1, <1>2, <1>3 DEF IsDir, Real

\* A placeholder is no inode of a tree.
LEMMA NotPlaceholder ==
  ASSUME NEW d, Real(d)
  PROVE  d # Placeholder /\ ~is_placeholder(d)
  BY DEF Real, Placeholder, is_placeholder, Loc, Locs

\* The placeholder is in no tree.
LEMMA PlaceholderIs == is_placeholder(Placeholder) /\ Placeholder \in Locs /\ Placeholder.tree = 0
  BY DEF Placeholder, is_placeholder, Loc, Locs

\* An inode that is there is read.
LEMMA ReadsReal ==
  ASSUME IsSound(fs), NEW d, Real(d)
  PROVE  Reads(d) /\ inode(d) = Tree(d.tree).inodes[d.ino]
<1>1. SoundTree(Tree(d.tree))
  BY TreeIsSound DEF Real
<1>2. Reads(d)
  BY <1>1 DEF Reads, SoundTree, Real
<1> QED
  BY <1>2, NotPlaceholder DEF inode, Real

-----------------------------------------------------------------------------
(* The entries of a directory.                                             *)

\* An entry leads to an inode of its type, or to a placeholder, which is a directory.
LEMMA EntryLeads ==
  ASSUME IsSound(fs), NEW d, Real(d), NEW e \in Entries(Tree(d.tree), d.ino)
  PROVE  /\ e \in Stored
         /\ entry(d, e) \in Shown /\ entry(d, e).name = e.name
         /\ Valid(entry(d, e).loc)
         /\ entry(d, e).loc = Placeholder => entry(d, e).ftype = "dir"
         /\ entry(d, e).loc # Placeholder =>
              inode(entry(d, e).loc) = entry(d, e).ftype
<1> DEFINE t == Tree(d.tree)
<1>1. SoundTree(t) /\ d.ino \in DOMAIN t.inodes /\ d.tree \in Nat /\ d.tree # 0 /\ HasTree(d.tree)
  BY TreeIsSound DEF Real, Locs
<1>2. d.ino \in DOMAIN t.index /\ e \in Range(t.index[d.ino])
  BY DEF Entries
<1>3. e \in Stored
  BY <1>1, <1>2 DEF SoundTree, Range
<1>4. CASE ~e.subvol
  <2> DEFINE x == [name |-> e.name, loc |-> Loc(d.tree, e.obj), ftype |-> e.ftype, subvol |-> FALSE]
  <2>1. entry(d, e) = x
    BY <1>4 DEF entry
  <2>2. e.obj \in DOMAIN t.inodes /\ t.inodes[e.obj] = e.ftype
    BY <1>1, <1>2, <1>4 DEF SoundTree
  <2>3. x.loc \in Locs /\ x.loc.tree = d.tree /\ x.loc.ino = e.obj
    BY <1>1, <1>3 DEF Loc, Locs, Stored
  <2>4. Real(x.loc)
    BY <1>1, <2>2, <2>3 DEF Real
  <2>5. x \in Shown /\ x.name = e.name
    BY <1>3, <2>3 DEF Shown, Stored
  <2>6. inode(x.loc) = e.ftype
    BY <2>2, <2>3, <2>4, ReadsReal
  <2>7. x.loc # Placeholder
    BY <2>4, NotPlaceholder
  <2> QED
    BY <1>3, <2>1, <2>4, <2>5, <2>6, <2>7 DEF Valid
<1>5. CASE e.subvol
  <2>1. CASE Linked(d.tree, e.obj)
    <3>1. PICK r \in Range(fs.roots) : r.id = d.tree /\ t = fs.trees[r.root]
      BY <1>1, TreeIs
    <3>2. [child |-> e.obj, parent |-> r.id, dirid |-> d.ino, name |-> e.name] \in Range(fs.backrefs)
      BY <1>2, <1>5, <2>1, <3>1 DEF IsSound, SoundLinks, Linked
    <3>3. PICK c \in Range(fs.roots) : c.id = e.obj
      BY <3>2 DEF IsSound, SoundLinks
    <3>4. HasTree(e.obj)
      BY <3>3, RootIs
    <3> DEFINE x == [name |-> e.name, ftype |-> "dir", subvol |-> TRUE, loc |-> RootOf(e.obj)]
    <3>5. entry(d, e) = x
      BY <1>5, <2>1, <3>4 DEF entry
    <3>6. IsDir(RootOf(e.obj))
      BY <3>4, TreeIsSound
    <3>7. Real(x.loc) /\ x.loc \in Locs
      BY <3>6 DEF IsDir, Real
    <3>8. inode(x.loc) = "dir"
      BY <3>6, <3>7, ReadsReal DEF IsDir
    <3>9. x \in Shown /\ x.name = e.name
      BY <1>3, <3>7 DEF Shown, Stored, Ftypes
    <3>10. x.loc # Placeholder
      BY <3>7, NotPlaceholder
    <3> QED
      BY <1>3, <3>5, <3>7, <3>8, <3>9, <3>10 DEF Valid
  <2>2. CASE ~Linked(d.tree, e.obj)
    <3> DEFINE x == [name |-> e.name, ftype |-> "dir", subvol |-> TRUE, loc |-> Placeholder]
    <3>5. entry(d, e) = x
      BY <1>5, <2>2 DEF entry
    <3>9. x \in Shown /\ x.name = e.name
      BY <1>3, PlaceholderIs DEF Shown, Stored, Ftypes
    <3> QED
      BY <1>3, <3>5, <3>9 DEF Valid
  <2> QED
    BY <2>1, <2>2
<1> QED
  BY <1>4, <1>5

\* lookup finds the entry of a name, wherever in the DIR_ITEM of its hash it lies.
LEMMA LookupFinds ==
  ASSUME IsSound(fs), NEW d, Real(d), NEW n \in DOMAIN Hash
  PROVE  \/ /\ lookup(d, n) = None
            /\ \A e \in Entries(Tree(d.tree), d.ino) : e.name # n
         \/ \E e \in Entries(Tree(d.tree), d.ino) : e.name = n /\ lookup(d, n) = entry(d, e)
<1> DEFINE t == Tree(d.tree)
           items == Tree(d.tree).items
           key == <<d.ino, Hash[n]>>
           named == OfName(items[key], n)
<1>1. SoundTree(t) /\ d.ino \in DOMAIN t.inodes /\ Reads(d) /\ ~is_placeholder(d)
  BY TreeIsSound, ReadsReal, NotPlaceholder DEF Real
<1>2. {e \in Entries(t, d.ino) : e.name = n} = {e \in Hashed(t, d.ino, Hash[n]) : e.name = n}
  BY <1>1 DEF SoundTree
<1>3. lookup(d, n) = IF key \notin DOMAIN items THEN None
                     ELSE IF named = {} THEN None
                     ELSE entry(d, items[key][Min(named)])
  BY <1>1 DEF lookup
<1>4. CASE key \notin DOMAIN items
  <2>1. Hashed(t, d.ino, Hash[n]) = {}
    BY <1>4 DEF Hashed
  <2> QED
    BY <1>2, <1>3, <1>4, <2>1
<1>5. CASE key \in DOMAIN items
  <2>1. items[key] \in Seq(Stored) /\ Hashed(t, d.ino, Hash[n]) = Range(items[key])
    BY <1>1, <1>5 DEF SoundTree, Hashed
  <2>2. CASE named = {}
    <3>1. \A e \in Range(items[key]) : e.name # n
      BY <2>2 DEF OfName, Range
    <3> QED
      BY <1>2, <1>3, <2>1, <2>2, <3>1
  <2>3. CASE named # {}
    <3>1. named \in SUBSET Nat /\ named \subseteq DOMAIN items[key]
      BY <2>1 DEF OfName
    <3>2. \E i \in named : \A j \in named : i <= j
      <4> HIDE DEF named
      <4> QED
        BY <2>3, <3>1, Least
    <3>3. Min(named) \in named
      <4> HIDE DEF named
      <4> QED
        BY SMTT(40), <3>2 DEF Min
    <3> DEFINE e == items[key][Min(named)]
    <3>4. e \in Range(items[key]) /\ e.name = n
      BY <3>3 DEF OfName, Range
    <3>5. e \in Entries(t, d.ino)
      BY <1>2, <2>1, <3>4
    <3> QED
      BY <1>3, <1>5, <2>3, <3>4, <3>5
  <2> QED
    BY <2>2, <2>3
<1> QED
  BY <1>4, <1>5

\* readdir lists each entry once.
LEMMA ReaddirLists ==
  ASSUME IsSound(fs), NEW d, Real(d)
  PROVE  /\ readdir(d) \in Seq(Shown)
         /\ \A i, j \in DOMAIN readdir(d) : readdir(d)[i].name = readdir(d)[j].name => i = j
         /\ \A i \in DOMAIN readdir(d) :
              \E e \in Entries(Tree(d.tree), d.ino) : readdir(d)[i] = entry(d, e)
         /\ \A e \in Entries(Tree(d.tree), d.ino) :
              \E i \in DOMAIN readdir(d) : readdir(d)[i] = entry(d, e)
<1> DEFINE t == Tree(d.tree)
           index == Tree(d.tree).index
           all == IF d.ino \in DOMAIN index
                  THEN [i \in DOMAIN index[d.ino] |-> entry(d, index[d.ino][i])]
                  ELSE <<>>
           key == [i \in DOMAIN all |-> all[i].name]
<1>1. SoundTree(t) /\ d.ino \in DOMAIN t.inodes /\ Reads(d) /\ ~is_placeholder(d)
  BY TreeIsSound, ReadsReal, NotPlaceholder DEF Real
<1>2. /\ all \in Seq(Shown)
      /\ \A i, j \in DOMAIN all : all[i].name = all[j].name => i = j
      /\ \A i \in DOMAIN all : \E e \in Entries(t, d.ino) : all[i] = entry(d, e)
      /\ \A e \in Entries(t, d.ino) : \E i \in DOMAIN all : all[i] = entry(d, e)
  <2>1. CASE d.ino \notin DOMAIN index
    BY <2>1 DEF Entries
  <2>2. CASE d.ino \in DOMAIN index
    <3> DEFINE s == index[d.ino]
    <3>1. s \in Seq(Stored) /\ \A i, j \in DOMAIN s : s[i].name = s[j].name => i = j
      BY <1>1, <2>2 DEF SoundTree
    <3>2. \A e : e \in Entries(t, d.ino) <=> \E i \in DOMAIN s : e = s[i]
      BY <2>2 DEF Entries, Range
    <3>3. all = [i \in DOMAIN s |-> entry(d, s[i])]
      BY <2>2
    <3>4. \A i \in DOMAIN s : entry(d, s[i]) \in Shown /\ entry(d, s[i]).name = s[i].name
      BY <3>2, EntryLeads
    <3>5. all \in Seq(Shown) /\ DOMAIN all = DOMAIN s /\ \A i \in DOMAIN s : all[i] = entry(d, s[i])
      <4>1. DOMAIN s = 1..Len(s) /\ Len(s) \in Nat
        BY <3>1
      <4> HIDE DEF s, all
      <4> QED
        BY <3>3, <3>4, <4>1
    <3> HIDE DEF s, all
    <3> QED
      BY <3>1, <3>2, <3>4, <3>5
  <2> QED
    BY <2>1, <2>2
<1>3. readdir(d) = IF Error \in Range(all) THEN Error ELSE Sorted(all, key)
  BY <1>1, Zenon DEF readdir, ByName
<1> HIDE DEF all
<1>4. Error \notin Range(all)
  <2>1. Error \notin Shown
    BY MarkersAssumption
  <2> QED
    BY <1>2, <2>1 DEF Range
<1>5. \A i \in DOMAIN all : key[i] \in Int
  <2>1. \A n \in DOMAIN Hash : n \in Int
    BY NamespaceAssumption
  <2>2. \A i \in DOMAIN all : all[i] \in Shown
    BY <1>2
  <2> QED
    BY <2>1, <2>2 DEF Shown
<1> DEFINE s == Sorted(all, key)
<1> HIDE DEF key
<1>6. /\ s \in Seq(Shown) /\ Len(s) = Len(all)
      /\ \A k \in DOMAIN all : \E i \in DOMAIN all : s[k] = all[i]
      /\ \A i \in DOMAIN all : \E k \in DOMAIN all : s[k] = all[i]
      /\ \A i, j \in DOMAIN all : s[i] = s[j] => i = j
  <2>1. \A i, j \in DOMAIN all : all[i] = all[j] => i = j
    BY <1>2
  <2>2. all \in Seq(Shown)
    BY <1>2
  <2>3. s \in Seq(Shown) /\ Permutes(s, all)
    BY <1>5, <2>2, SortedPermutes
  <2> QED
    BY <2>1, <2>3 DEF Permutes
<1> HIDE DEF s
<1>7. DOMAIN s = DOMAIN all
  BY <1>2, <1>6
<1>8. readdir(d) = s
  BY <1>3, <1>4 DEF s
<1>9. \A i, j \in DOMAIN s : s[i].name = s[j].name => i = j
  <2> SUFFICES ASSUME NEW i \in DOMAIN s, NEW j \in DOMAIN s, s[i].name = s[j].name
               PROVE  i = j
    OBVIOUS
  <2>1. PICK a \in DOMAIN all : s[i] = all[a]
    BY <1>6, <1>7
  <2>2. PICK b \in DOMAIN all : s[j] = all[b]
    BY <1>6, <1>7
  <2>3. a = b
    BY <1>2, <2>1, <2>2
  <2> QED
    BY <1>6, <1>7, <2>1, <2>2, <2>3
<1> QED
  BY <1>2, <1>6, <1>7, <1>8, <1>9

\* e is what lookup finds in d by its name, and leads where its type says.
Leads(d, e) ==
  /\ e \in Shown /\ Valid(e.loc)
  /\ e.loc = Placeholder => e.ftype = "dir"
  /\ e.loc # Placeholder => inode(e.loc) = e.ftype
  /\ IsDir(d)

\* What readdir lists is what lookup finds.
LEMMA Directory ==
  ASSUME IsSound(fs), NEW d, Valid(d)
  PROVE  /\ readdir(d) \in Seq(Shown) /\ readdir(d) # Error
         /\ \A i, j \in DOMAIN readdir(d) : readdir(d)[i].name = readdir(d)[j].name => i = j
         /\ \A i \in DOMAIN readdir(d) : lookup(d, readdir(d)[i].name) = readdir(d)[i]
         /\ \A n \in DOMAIN Hash :
              \/ lookup(d, n) = None
              \/ /\ lookup(d, n) # None
                 /\ Leads(d, lookup(d, n)) /\ lookup(d, n).name = n
                 /\ \E i \in DOMAIN readdir(d) : readdir(d)[i] = lookup(d, n)
<1>0. readdir(d) \in Seq(Shown) => readdir(d) # Error
  BY MarkersAssumption
<1>1. CASE d = Placeholder
  <2>1. readdir(d) = <<>> /\ \A n : lookup(d, n) = None
    BY <1>1, PlaceholderIs DEF readdir, lookup
  <2> QED
    BY <1>0, <2>1
<1>2. CASE Real(d)
  <2> DEFINE E == Entries(Tree(d.tree), d.ino)
             L == readdir(d)
  <2>1. \A e \in E : IsDir(d)
    BY <1>2, TreeIsSound DEF Real, SoundTree, IsDir, Entries
  <2>2. /\ L \in Seq(Shown)
        /\ \A i, j \in DOMAIN L : L[i].name = L[j].name => i = j
        /\ \A i \in DOMAIN L : \E e \in E : L[i] = entry(d, e)
        /\ \A e \in E : \E i \in DOMAIN L : L[i] = entry(d, e)
    BY <1>2, ReaddirLists
  <2>3. \A e \in E : Leads(d, entry(d, e)) /\ entry(d, e).name = e.name
    BY <1>2, <2>1, EntryLeads DEF Leads
  <2>4. \A n \in DOMAIN Hash :
          \/ lookup(d, n) = None /\ \A e \in E : e.name # n
          \/ \E e \in E : e.name = n /\ lookup(d, n) = entry(d, e)
    BY <1>2, LookupFinds
  <2>5. \A e \in E : entry(d, e) \in Shown /\ entry(d, e) # None /\ e.name \in DOMAIN Hash
    <3>1. None \notin Shown
      BY MarkersAssumption
    <3> QED
      BY <2>3, <3>1 DEF Leads, Shown
  <2>6. \A i \in DOMAIN L : lookup(d, L[i].name) = L[i]
    <3> TAKE i \in DOMAIN L
    <3>1. PICK e \in E : L[i] = entry(d, e)
      BY <2>2
    <3>2. PICK f \in E : f.name = e.name /\ lookup(d, e.name) = entry(d, f)
      BY <2>4, <2>5
    <3>3. PICK j \in DOMAIN L : L[j] = entry(d, f)
      BY <2>2
    <3>4. i = j
      BY SMTT(40), <2>2, <2>3, <3>1, <3>2, <3>3
    <3> QED
      BY <2>3, <3>1, <3>2, <3>3, <3>4
  <2>7. \A n \in DOMAIN Hash :
              \/ lookup(d, n) = None
              \/ /\ lookup(d, n) # None
                 /\ Leads(d, lookup(d, n)) /\ lookup(d, n).name = n
                 /\ \E i \in DOMAIN L : L[i] = lookup(d, n)
    BY <2>2, <2>3, <2>4, <2>5
  <2> QED
    BY <1>0, <2>2, <2>6, <2>7
<1> QED
  BY <1>1, <1>2 DEF Valid

-----------------------------------------------------------------------------
(* Paths.                                                                  *)

\* A sequence is its front and its last element.
LEMMA SplitLast ==
  ASSUME NEW T, NEW s \in Seq(T), s # <<>>
  PROVE  /\ Front(s) \in Seq(T) /\ Last(s) \in T /\ s = Append(Front(s), Last(s))
         /\ Len(s) \in Nat \ {0} /\ Len(Front(s)) = Len(s) - 1
         /\ \A i \in 1..Len(s) - 1 : Front(s)[i] = s[i]
<1>1. Len(s) \in Nat /\ Len(s) # 0 /\ DOMAIN s = 1..Len(s)
  OBVIOUS
<1>2. Last(s) = s[Len(s)] /\ Last(s) \in T
  BY <1>1 DEF Last
<1>3. /\ Front(s) \in Seq(T) /\ Len(Front(s)) = Len(s) - 1
      /\ \A i \in 1..Len(s) - 1 : Front(s)[i] = s[i]
  BY <1>1 DEF Front
<1>4. s = Append(Front(s), Last(s))
  <2> DEFINE r == Append(Front(s), Last(s))
  <2> DEFINE f == Front(s)
             y == Last(s)
  <2> HIDE DEF f, y
  <2>0. f \in Seq(T) /\ Len(f) = Len(s) - 1 /\ y \in T /\ s[Len(s)] = y /\ r = Append(f, y)
        /\ \A i \in 1..Len(s) - 1 : f[i] = s[i]
    BY <1>2, <1>3 DEF f, y
  <2> HIDE DEF r
  <2>1. r \in Seq(T) /\ Len(r) = Len(s) /\ \A i \in 1..Len(s) : r[i] = s[i]
    <3>1. r \in Seq(T) /\ Len(r) = Len(f) + 1 /\ r[Len(f) + 1] = y /\ \A i \in 1..Len(f) : r[i] = f[i]
      BY <2>0, AppendProperties
    <3>2. Len(f) + 1 = Len(s)
      BY <1>1, <2>0
    <3>3. ASSUME NEW i \in 1..Len(s) PROVE r[i] = s[i]
      BY <1>1, <2>0, <3>1, <3>2
    <3> QED
      BY <3>1, <3>2, <3>3
  <2>2. r = s
    BY <2>1, SeqEqual
  <2> QED
    BY <2>2 DEF r
<1> QED
  BY <1>1, <1>2, <1>3, <1>4

\* Front and Last undo Append.
LEMMA SplitAppend ==
  ASSUME NEW T, NEW s \in Seq(T), NEW x \in T
  PROVE  Front(Append(s, x)) = s /\ Last(Append(s, x)) = x /\ Append(s, x) # <<>>
<1>1. Len(Append(s, x)) = Len(s) + 1 /\ Append(s, x)[Len(s) + 1] = x
  OBVIOUS
<1>2. Append(s, x) # <<>>
  BY AppendProperties
<1>3. Append(s, x) \in Seq(T)
  OBVIOUS
<1>4. /\ Front(Append(s, x)) \in Seq(T) /\ Len(Front(Append(s, x))) = Len(s)
      /\ \A i \in 1..Len(s) : Front(Append(s, x))[i] = s[i]
  BY <1>1 DEF Front
<1>5. Front(Append(s, x)) = s
  BY <1>4, SeqEqual
<1> QED
  BY <1>1, <1>2, <1>5 DEF Last

\* A walk so far: places that a path can lead to.
Trail(s) == s \in Seq(Locs) /\ s # <<>> /\ \A i \in DOMAIN s : Valid(s[i])

\* A step fails or leads on to such a place.
LEMMA TrailStep ==
  ASSUME IsSound(fs), NEW s, Trail(s), NEW x \in DOMAIN Hash \cup {Up}
  PROVE  Step(s, x) \in {Error, None} \/ Trail(Step(s, x))
<1>1. s \notin {Error, None}
  BY MarkersAssumption DEF Trail
<1>2. /\ Front(s) \in Seq(Locs) /\ Len(s) \in Nat \ {0} /\ Len(Front(s)) = Len(s) - 1
      /\ \A i \in 1..Len(s) - 1 : Front(s)[i] = s[i]
  BY SplitLast DEF Trail
<1>3. CASE x = Up
  <2>1. Step(s, x) = Above(s)
    BY <1>1, <1>3 DEF Step
  <2>2. CASE Len(s) > 1
    <3>1. Front(s) # <<>>
      BY <1>2, <2>2
    <3>2. \A i \in DOMAIN Front(s) : Valid(Front(s)[i])
      BY <1>2 DEF Trail
    <3> QED
      BY <1>2, <2>1, <2>2, <3>1, <3>2 DEF Trail, Above
  <2>3. CASE ~(Len(s) > 1)
    BY <2>1, <2>3 DEF Above
  <2> QED
    BY <2>2, <2>3
<1>4. CASE x # Up
  <2> DEFINE d == Last(s)
             found == lookup(d, x)
  <2>1. Valid(d)
    BY <1>2 DEF Last, Trail
  <2>2. x \in DOMAIN Hash
    BY <1>4
  <2>3. found = None \/ Leads(d, found)
    BY <2>1, <2>2, Directory
  <2>4. Step(s, x) \in {Error, None} \/ (Leads(d, found) /\ Step(s, x) = Append(s, found.loc))
    BY <1>1, <1>4, <2>3 DEF Step
  <2>5. ASSUME Leads(d, found) PROVE Trail(Append(s, found.loc))
    <3>1. found.loc \in Locs /\ Valid(found.loc)
      BY <2>5 DEF Leads, Shown
    <3> DEFINE l == found.loc
    <3> HIDE DEF found, l
    <3>2. l \in Locs /\ Valid(l)
      BY <3>1 DEF l
    <3>3. Trail(Append(s, l))
      BY <3>2 DEF Trail
    <3> QED
      BY <3>3 DEF l
  <2> QED
    BY <2>4, <2>5
<1> QED
  BY <1>3, <1>4

\* A path is followed along directories, files and placeholders that are there.
LEMMA WalkedTrail ==
  ASSUME IsSound(fs)
  PROVE  \A path \in Paths : Walked(path) \in {Error, None} \/ Trail(Walked(path))
<1> DEFINE Fine(path) == Walked(path) \in {Error, None} \/ Trail(Walked(path))
           Bad == {n \in Nat : \E path \in Paths : Len(path) = n /\ ~Fine(path)}
<1> HIDE DEF Fine
<1>1. Bad = {}
  <2> SUFFICES ASSUME Bad # {} PROVE FALSE
    OBVIOUS
  <2>1. PICK b \in Bad : \A n \in Bad : b <= n
    BY Least
  <2>2. PICK path \in Paths : Len(path) = b /\ ~Fine(path)
    BY <2>1
  <2>3. path # <<>>
    <3> SUFFICES ASSUME path = <<>> PROVE FALSE
      OBVIOUS
    <3>1. Walked(path) = Top
      BY WalkedEmpty
    <3>2. CASE HasTree(FS_TREE_OBJECTID)
      <4>1. Real(RootOf(FS_TREE_OBJECTID))
        BY <3>2, TreeIsSound DEF IsDir
      <4>2. Trail(<<RootOf(FS_TREE_OBJECTID)>>)
        BY <4>1 DEF Trail, Valid, Real
      <4> QED
        BY <2>2, <3>1, <3>2, <4>2 DEF Top, Fine
    <3>3. CASE ~HasTree(FS_TREE_OBJECTID)
      BY <2>2, <3>1, <3>3 DEF Top, Fine
    <3> QED
      BY <3>2, <3>3
  <2> DEFINE p == Front(path)
             x == Last(path)
             N == DOMAIN Hash \cup {Up}
  <2>4. p \in Seq(N) /\ x \in N /\ path = Append(p, x) /\ Len(p) = b - 1 /\ b - 1 \in Nat
    <3>1. path \in Seq(N)
      BY DEF Paths
    <3> HIDE DEF N
    <3>2. /\ p \in Seq(N) /\ x \in N /\ path = Append(p, x)
          /\ Len(path) \in Nat \ {0} /\ Len(p) = Len(path) - 1
      BY <2>3, <3>1, SplitLast
    <3> HIDE DEF p, x
    <3> QED
      BY <2>2, <3>2
  <2> HIDE DEF p, x
  <2>5. b - 1 \notin Bad
    BY <2>1, <2>4
  <2>6. Fine(p)
    BY <2>4, <2>5 DEF Paths
  <2>7. Walked(path) = Step(Walked(p), x)
    BY <2>4, WalkedStep
  <2>8. CASE Walked(p) \in {Error, None}
    <3>1. Walked(path) = Walked(p)
      BY <2>7, <2>8, Zenon DEF Step
    <3> QED
      BY <2>2, <2>8, <3>1 DEF Fine
  <2>9. CASE Trail(Walked(p))
    BY <2>2, <2>4, <2>7, <2>9, TrailStep DEF Fine
  <2> QED
    BY <2>6, <2>8, <2>9 DEF Fine
<1>2. \A path \in Paths : Len(path) \in Nat
  BY DEF Paths
<1> QED
  BY <1>1, <1>2 DEF Fine

\* The path leads somewhere.
Ok(path) == resolve(path) \notin {Error, None}

\* resolve answers the last place of the walk.
LEMMA ResolveIs ==
  ASSUME IsSound(fs), NEW path \in Paths
  PROVE  \/ ~Ok(path) /\ Walked(path) \in {Error, None}
         \/ /\ Ok(path) /\ Walked(path) \notin {Error, None}
            /\ resolve(path) = Last(Walked(path)) /\ Valid(resolve(path))
            /\ resolve(path) \in Locs
<1>1. CASE Walked(path) \in {Error, None}
  BY <1>1 DEF resolve, Ok
<1>2. CASE Walked(path) \notin {Error, None}
  <2>1. Trail(Walked(path))
    BY <1>2, WalkedTrail
  <2>2. resolve(path) = Last(Walked(path))
    BY <1>2 DEF resolve
  <2>3. Last(Walked(path)) \in Locs /\ Valid(Last(Walked(path)))
    <3>1. Len(Walked(path)) \in DOMAIN Walked(path)
      BY <2>1 DEF Trail
    <3> QED
      BY <2>1, <3>1 DEF Trail, Last
  <2>4. Last(Walked(path)) \notin {Error, None}
    BY <2>3, MarkersAssumption
  <2> QED
    BY <1>2, <2>2, <2>3, <2>4 DEF Ok
<1> QED
  BY <1>1, <1>2

\* A path's last name leads where lookup in the directory before it says.
LEMMA ResolveChild ==
  ASSUME IsSound(fs), NEW path \in Paths, NEW n \in DOMAIN Hash
  PROVE  /\ Append(path, n) \in Paths
         /\ Ok(Append(path, n)) <=> (Ok(path) /\ lookup(resolve(path), n) # None)
         /\ Ok(Append(path, n)) => resolve(Append(path, n)) = lookup(resolve(path), n).loc
<1> DEFINE N == DOMAIN Hash \cup {Up}
           d == resolve(path)
           found == lookup(d, n)
           w == Walked(path)
           longer == Append(path, n)
<1>1. path \in Seq(N) /\ n \in N /\ longer \in Seq(N) /\ longer \in Paths
  BY DEF Paths
<1>2. Walked(longer) = Step(w, n)
  BY <1>1, WalkedStep
<1>3. n # Up
  BY NamespaceAssumption
<1>4. CASE ~Ok(path)
  <2>1. w \in {Error, None}
    BY <1>4, ResolveIs
  <2>2. Walked(longer) = w
    BY <1>2, <2>1, Zenon DEF Step
  <2>3. ~Ok(longer)
    BY <1>1, <2>1, <2>2, ResolveIs
  <2> QED
    BY <1>1, <1>4, <2>3
<1>5. CASE Ok(path)
  <2>1. w \notin {Error, None} /\ d = Last(w) /\ Valid(d)
    BY <1>5, ResolveIs
  <2>2. Trail(w)
    BY <2>1, WalkedTrail
  <2>3. \/ found = None
        \/ found # None /\ Leads(d, found)
    BY <2>1, Directory
  <2>4. CASE found = None
    <3>1. Walked(longer) \in {Error, None}
      BY <1>2, <1>3, <2>1, <2>4 DEF Step
    <3> QED
      BY <1>1, <2>4, <3>1, ResolveIs
  <2>5. CASE found # None /\ Leads(d, found)
    <3>1. inode(d) = "dir"
      BY <2>5, ReadsReal DEF Leads, IsDir
    <3>2. found # Error /\ found.loc \in Locs
      BY <2>5, MarkersAssumption DEF Leads, Shown
    <3>3. Walked(longer) = Append(w, found.loc)
      BY <1>2, <1>3, <2>1, <2>5, <3>1, <3>2 DEF Step
    <3>4. w \in Seq(Locs)
      BY <2>2 DEF Trail
    <3>5. Last(Walked(longer)) = found.loc /\ Walked(longer) \in Seq(Locs)
      BY <3>2, <3>3, <3>4, SplitAppend
    <3>6. Walked(longer) \notin {Error, None}
      BY <3>5, MarkersAssumption
    <3>7. Ok(longer) /\ resolve(longer) = found.loc
      BY <1>1, <3>5, <3>6, ResolveIs
    <3> QED
      BY <1>1, <1>5, <2>5, <3>7
  <2> QED
    BY <2>3, <2>4, <2>5
<1> QED
  BY <1>4, <1>5

\* The first k names of a path.
Pre(x, k) == SubSeq(x, 1, k)

\* What the first k names are.
LEMMA PreFacts ==
  ASSUME NEW T, NEW x \in Seq(T), NEW k \in 0..Len(x)
  PROVE  /\ Pre(x, k) \in Seq(T) /\ Len(Pre(x, k)) = k
         /\ \A i \in 1..k : Pre(x, k)[i] = x[i]
  BY DEF Pre

\* Paths that agree on k names have the same first k.
LEMMA PreAgree ==
  ASSUME NEW T, NEW x \in Seq(T), NEW y \in Seq(T),
         NEW k \in 0..Len(x), k <= Len(y), \A i \in 1..k : x[i] = y[i]
  PROVE  Pre(x, k) = Pre(y, k)
<1>1. Len(x) \in Nat /\ Len(y) \in Nat /\ k \in 0..Len(y)
  OBVIOUS
<1>2. Pre(x, k) \in Seq(T) /\ Len(Pre(x, k)) = k /\ \A i \in 1..k : Pre(x, k)[i] = x[i]
  BY PreFacts
<1>3. Pre(y, k) \in Seq(T) /\ Len(Pre(y, k)) = k /\ \A i \in 1..k : Pre(y, k)[i] = y[i]
  BY <1>1, PreFacts
<1>4. \A i \in 1..k : Pre(x, k)[i] = Pre(y, k)[i]
  BY <1>2, <1>3
<1> QED
  BY <1>2, <1>3, <1>4, SeqEqual

\* All names of a path are the path.
LEMMA PreAll ==
  ASSUME NEW T, NEW x \in Seq(T)
  PROVE  Pre(x, Len(x)) = x
<1>1. Len(x) \in Nat /\ Len(x) \in 0..Len(x)
  OBVIOUS
<1>2. /\ Pre(x, Len(x)) \in Seq(T) /\ Len(Pre(x, Len(x))) = Len(x)
      /\ \A i \in 1..Len(x) : Pre(x, Len(x))[i] = x[i]
  BY <1>1, PreFacts
<1> QED
  BY <1>2, SeqEqual

\* The first k names are the first k - 1 and one more.
LEMMA PreStep ==
  ASSUME NEW T, NEW x \in Seq(T), NEW k \in 1..Len(x)
  PROVE  Pre(x, k) = Append(Pre(x, k - 1), x[k])
<1>1. Len(x) \in Nat /\ k - 1 \in 0..Len(x) /\ k \in 0..Len(x) /\ k \in Nat /\ x[k] \in T
  OBVIOUS
<1> DEFINE a == Pre(x, k)
           b == Pre(x, k - 1)
           c == Append(b, x[k])
<1>2. a \in Seq(T) /\ Len(a) = k /\ \A i \in 1..k : a[i] = x[i]
  BY <1>1, PreFacts
<1>3. b \in Seq(T) /\ Len(b) = k - 1 /\ \A i \in 1..k - 1 : b[i] = x[i]
  BY <1>1, PreFacts
<1> HIDE DEF a, b
<1>4. c \in Seq(T) /\ Len(c) = Len(b) + 1 /\ c[Len(b) + 1] = x[k] /\ \A i \in 1..Len(b) : c[i] = b[i]
  BY <1>1, <1>3, AppendProperties
<1> HIDE DEF c
<1>5. Len(b) + 1 = k
  BY <1>1, <1>3
<1>6. ASSUME NEW i \in 1..k PROVE a[i] = c[i]
  BY <1>1, <1>2, <1>3, <1>4, <1>5
<1>7. a = c
  BY <1>2, <1>4, <1>5, <1>6, SeqEqual
<1> QED
  BY <1>7 DEF a, b, c

\* A name that is appended leaves the names before it alone.
LEMMA PreAppend ==
  ASSUME NEW T, NEW x \in Seq(T), NEW y \in T, NEW k \in 0..Len(x)
  PROVE  Pre(Append(x, y), k) = Pre(x, k)
<1>1. /\ Append(x, y) \in Seq(T) /\ Len(Append(x, y)) = Len(x) + 1
      /\ \A i \in 1..Len(x) : Append(x, y)[i] = x[i]
  BY AppendProperties
<1>2. k <= Len(Append(x, y)) /\ \A i \in 1..k : x[i] = Append(x, y)[i]
  BY <1>1
<1> QED
  BY <1>1, <1>2, PreAgree

\* Paths of one name each make, one after the other, the path of all the names.
LEMMA FlattenOnes ==
  ASSUME NEW T, NEW p \in Seq(T)
  PROVE  FlattenSeq([i \in DOMAIN p |-> <<p[i]>>]) = p
<1> DEFINE n == Len(p)
           ones == [i \in DOMAIN p |-> <<p[i]>>]
           Flat(f) == f = [i \in 1..Len(ones) |-> IF i = 1 THEN ones[i] ELSE f[i - 1] \o ones[i]]
           F == CHOOSE f : Flat(f)
           g == [i \in 1..n |-> Pre(p, i)]
<1>1. n \in Nat /\ DOMAIN p = 1..n
  OBVIOUS
<1>2. DOMAIN ones = 1..n /\ \A i \in 1..n : ones[i] = <<p[i]>>
  BY <1>1
<1>3. Len(ones) = n
  <2>1. ones \in [1..n -> Seq(T)]
    <3>1. \A i \in 1..n : <<p[i]>> \in Seq(T)
      BY <1>1
    <3> QED
      BY <1>1, <3>1
  <2> HIDE DEF ones, n
  <2> QED
    BY <1>1, <2>1
<1>4. \A k \in 1..n : k # 1 => Pre(p, k) = Pre(p, k - 1) \o <<p[k]>>
  <2> TAKE k \in 1..n
  <2>1. Pre(p, k) = Append(Pre(p, k - 1), p[k])
    BY PreStep
  <2>2. Pre(p, k - 1) \in Seq(T) /\ p[k] \in T
    <3>1. k - 1 \in 0..Len(p)
      BY <1>1
    <3> QED
      BY <1>1, <3>1, PreFacts
  <2> QED
    BY <2>1, <2>2, AppendIsConcat
<1>5. n # 0 => Pre(p, 1) = <<p[1]>>
  <2> SUFFICES ASSUME n # 0 PROVE Pre(p, 1) = <<p[1]>>
    OBVIOUS
  <2>1. 1 \in 0..Len(p) /\ p[1] \in T
    BY <1>1
  <2>2. Pre(p, 1) \in Seq(T) /\ Len(Pre(p, 1)) = 1 /\ \A i \in 1..1 : Pre(p, 1)[i] = p[i]
    BY <2>1, PreFacts
  <2>3. Pre(p, 1)[1] = p[1]
    BY <2>2
  <2>4. <<p[1]>> \in Seq(T) /\ Len(<<p[1]>>) = 1 /\ <<p[1]>>[1] = p[1]
    BY <2>1
  <2>5. \A i \in 1..1 : Pre(p, 1)[i] = <<p[1]>>[i]
    BY <2>3, <2>4
  <2> QED
    BY <2>2, <2>4, <2>5, SeqEqual
<1> HIDE DEF n, ones
<1>6. CASE n = 0
  <2>1. FlattenSeq(ones) = ones
    BY <1>3, <1>6 DEF FlattenSeq
  <2>2. p = <<>>
    BY <1>1, <1>6 DEF n
  <2>3. ones = <<>>
    <3>1. DOMAIN p = {}
      BY <1>1, <1>6
    <3> QED
      BY <3>1 DEF ones
  <2> QED
    BY <2>1, <2>2, <2>3 DEF ones
<1>7. CASE n # 0
  <2>1. Flat(g)
    <3>1. \A i \in 1..n : g[i] = Pre(p, i)
      OBVIOUS
    <3>2. g = [i \in 1..n |-> g[i]]
      OBVIOUS
    <3> HIDE DEF g
    <3>3. \A i \in 1..n : g[i] = IF i = 1 THEN ones[i] ELSE g[i - 1] \o ones[i]
      <4> TAKE i \in 1..n
      <4>1. CASE i = 1
        BY <1>2, <1>5, <1>7, <3>1, <4>1
      <4>2. CASE i # 1
        <5>1. i - 1 \in 1..n
          BY <1>1, <4>2
        <5>2. g[i] = Pre(p, i) /\ g[i - 1] = Pre(p, i - 1) /\ ones[i] = <<p[i]>>
          BY <1>2, <3>1, <5>1
        <5> QED
          BY <1>4, <4>2, <5>2
      <4> QED
        BY <4>1, <4>2
    <3> QED
      BY <1>3, <3>2, <3>3, Zenon
  <2>2. Flat(F)
    BY <2>1, Zenon
  <2>3. FlattenSeq(ones) = F[n]
    <3>1. FlattenSeq(ones) = F[Len(ones)]
      BY <1>3, <1>7, Zenon DEF FlattenSeq
    <3> QED
      BY <1>3, <3>1
  <2> HIDE DEF F, g
  <2>4. \A i \in 1..n : F[i] = IF i = 1 THEN ones[i] ELSE F[i - 1] \o ones[i]
    <3>1. F = [i \in 1..n |-> IF i = 1 THEN ones[i] ELSE F[i - 1] \o ones[i]]
      BY <1>3, <2>2, Zenon
    <3> QED
      BY <3>1, Zenon
  <2> DEFINE Bad == {k \in Nat : k \in 1..n /\ F[k] # Pre(p, k)}
  <2>5. Bad = {}
    <3> SUFFICES ASSUME Bad # {} PROVE FALSE
      OBVIOUS
    <3>1. PICK b \in Bad : \A m \in Bad : b <= m
      BY Least
    <3>2. CASE b = 1
      BY <1>2, <1>5, <1>7, <2>4, <3>1, <3>2
    <3>3. CASE b # 1
      <4>1. b - 1 \in 1..n /\ b - 1 \notin Bad
        BY <1>1, <3>1, <3>3
      <4>2. F[b - 1] = Pre(p, b - 1)
        BY <4>1
      <4>3. F[b] = F[b - 1] \o ones[b] /\ ones[b] = <<p[b]>>
        BY <1>2, <2>4, <3>1, <3>3
      <4> QED
        BY <1>4, <3>1, <3>3, <4>2, <4>3
    <3> QED
      BY <3>2, <3>3
  <2>6. n \in 1..n /\ n \in Nat
    BY <1>1, <1>7
  <2>7. F[n] = Pre(p, n)
    BY <2>5, <2>6
  <2>8. Pre(p, n) = p
    BY PreAll DEF n
  <2> QED
    BY <2>3, <2>7, <2>8 DEF ones
<1> QED
  BY <1>6, <1>7

\* A path whose names keep in printing is read as it was printed.
LEMMA GivenBackKept ==
  ASSUME NEW path \in Paths, Kept(path)
  PROVE  GivenBack(path) = path
<1> DEFINE parts == [i \in DOMAIN path |-> IF path[i] = Up THEN <<Up>> ELSE Parts[path[i]]]
           ones == [i \in DOMAIN path |-> <<path[i]>>]
<1>1. \A i \in DOMAIN path : (IF path[i] = Up THEN <<Up>> ELSE Parts[path[i]]) = <<path[i]>>
  BY DEF Kept, Plain
<1>2. parts = ones
  BY <1>1, Zenon
<1>3. GivenBack(path) = FlattenSeq(parts)
  BY Zenon DEF GivenBack
<1>4. path \in Seq(DOMAIN Hash \cup {Up})
  BY DEF Paths
<1>5. FlattenSeq(ones) = path
  BY <1>4, FlattenOnes
<1> QED
  BY <1>2, <1>3, <1>5, Zenon

\* x goes on from s by names, none of them a step up.
Under(s, x) ==
  /\ s \in Paths /\ x \in Paths /\ Len(s) <= Len(x)
  /\ \A i \in 1..Len(s) : x[i] = s[i]
  /\ \A i \in Len(s) + 1..Len(x) : x[i] \in DOMAIN Hash

\* What lies between s and x lies below s.
LEMMA UnderPre ==
  ASSUME NEW s, NEW x, Under(s, x), NEW k \in Len(s)..Len(x)
  PROVE  Under(s, Pre(x, k)) /\ Len(Pre(x, k)) = k
<1>1. s \in Paths /\ x \in Paths /\ Len(s) \in Nat /\ Len(x) \in Nat /\ k \in 0..Len(x)
  BY DEF Under, Paths
<1>2. Pre(x, k) \in Paths /\ Len(Pre(x, k)) = k /\ \A i \in 1..k : Pre(x, k)[i] = x[i]
  BY <1>1, PreFacts DEF Paths
<1> QED
  BY <1>1, <1>2 DEF Under

\* x begins with s.
LEMMA UnderStart ==
  ASSUME NEW s, NEW x, Under(s, x)
  PROVE  Pre(x, Len(s)) = s
<1> DEFINE N == DOMAIN Hash \cup {Up}
<1>1. s \in Seq(N) /\ x \in Seq(N)
  BY DEF Under, Paths
<1> HIDE DEF N
<1>2. Len(s) \in 0..Len(s) /\ Len(s) <= Len(x) /\ \A i \in 1..Len(s) : s[i] = x[i]
  BY <1>1 DEF Under
<1>3. Pre(s, Len(s)) = Pre(x, Len(s))
  BY <1>1, <1>2, PreAgree
<1> QED
  BY <1>1, <1>3, PreAll

\* Below s, each name is one of the filesystem, appended to those before it.
LEMMA UnderSplit ==
  ASSUME NEW s, NEW x, Under(s, x), NEW k \in Len(s) + 1..Len(x)
  PROVE  /\ Pre(x, k) = Append(Pre(x, k - 1), x[k])
         /\ Under(s, Pre(x, k - 1)) /\ Under(s, Pre(x, k)) /\ x[k] \in DOMAIN Hash
         /\ Pre(x, k - 1) \in Paths /\ Len(Pre(x, k - 1)) = k - 1
<1>1. s \in Paths /\ x \in Paths /\ Len(s) \in Nat /\ Len(x) \in Nat
  BY DEF Under, Paths
<1>2. k \in 1..Len(x) /\ k - 1 \in Len(s)..Len(x) /\ k \in Len(s)..Len(x)
  BY <1>1
<1>3. Pre(x, k) = Append(Pre(x, k - 1), x[k])
  BY <1>1, <1>2, PreStep DEF Paths
<1>4. Under(s, Pre(x, k - 1)) /\ Under(s, Pre(x, k)) /\ Len(Pre(x, k - 1)) = k - 1
  BY <1>2, UnderPre
<1> QED
  BY <1>3, <1>4 DEF Under

\* If a path below s resolves, so do the ones above it, down to s.
LEMMA PrefixOk ==
  ASSUME IsSound(fs), NEW s, NEW x, Under(s, x), Ok(x)
  PROVE  \A k \in Len(s)..Len(x) : Ok(Pre(x, k))
<1> DEFINE a == Len(s)
           z == Len(x)
           Bad == {m \in Nat : z - m >= a /\ ~Ok(Pre(x, z - m))}
<1>1. a \in Nat /\ z \in Nat /\ a <= z /\ x \in Paths
  BY DEF Under, Paths
<1> HIDE DEF a, z
<1>2. Bad = {}
  <2> SUFFICES ASSUME Bad # {} PROVE FALSE
    OBVIOUS
  <2>1. PICK b \in Bad : \A m \in Bad : b <= m
    BY Least
  <2>2. b # 0
    <3>1. Pre(x, z) = x
      BY <1>1, PreAll DEF z, Paths
    <3>2. z - 0 = z
      BY <1>1
    <3> QED
      BY <2>1, <3>1, <3>2
  <2> DEFINE k == z - (b - 1)
  <2>3. b - 1 \in Nat /\ b - 1 \notin Bad /\ k \in a + 1..z /\ k - 1 = z - b /\ z - (b - 1) >= a
    BY <1>1, <2>1, <2>2
  <2>4. Ok(Pre(x, k))
    BY <2>3
  <2> HIDE DEF k
  <2>5. /\ Pre(x, k) = Append(Pre(x, k - 1), x[k])
        /\ x[k] \in DOMAIN Hash /\ Pre(x, k - 1) \in Paths
    BY <2>3, UnderSplit DEF a, z
  <2>6. Ok(Pre(x, k - 1))
    BY <2>4, <2>5, ResolveChild
  <2> QED
    BY <2>1, <2>3, <2>6
<1>3. ASSUME NEW k \in a..z PROVE Ok(Pre(x, k))
  <2>1. z - k \in Nat /\ z - (z - k) = k /\ k >= a
    BY <1>1
  <2>2. z - k \notin Bad
    BY <1>2
  <2> QED
    BY <2>1, <2>2
<1> QED
  BY <1>3 DEF a, z

\* Each name below s is an entry of the directory it is looked up in.
LEMMA Below ==
  ASSUME IsSound(fs), NEW s, NEW x, Under(s, x), Ok(x), NEW k \in Len(s) + 1..Len(x)
  PROVE  /\ Ok(Pre(x, k - 1)) /\ IsDir(resolve(Pre(x, k - 1)))
         /\ lookup(resolve(Pre(x, k - 1)), x[k]) # None
         /\ Leads(resolve(Pre(x, k - 1)), lookup(resolve(Pre(x, k - 1)), x[k]))
         /\ resolve(Pre(x, k)) = lookup(resolve(Pre(x, k - 1)), x[k]).loc
<1>1. /\ Pre(x, k) = Append(Pre(x, k - 1), x[k])
      /\ x[k] \in DOMAIN Hash /\ Pre(x, k - 1) \in Paths
  BY UnderSplit
<1>2. Ok(Pre(x, k))
  <2>1. k \in Len(s)..Len(x)
    BY DEF Under, Paths
  <2> QED
    BY <2>1, PrefixOk
<1> DEFINE p == Pre(x, k - 1)
<1> HIDE DEF p
<1>3. /\ Ok(p) /\ lookup(resolve(p), x[k]) # None
      /\ resolve(Pre(x, k)) = lookup(resolve(p), x[k]).loc
  BY <1>1, <1>2, ResolveChild DEF p
<1>4. Valid(resolve(p))
  BY <1>1, <1>3, ResolveIs DEF p
<1>5. Leads(resolve(p), lookup(resolve(p), x[k]))
  BY <1>1, <1>3, <1>4, Directory
<1> QED
  BY <1>3, <1>5 DEF Leads, p

-----------------------------------------------------------------------------
(* A directory has one parent, and lies one deeper.                        *)

\* Where the entry that lookup finds comes from.
LEMMA Origin ==
  ASSUME IsSound(fs), NEW d, Real(d), NEW n \in DOMAIN Hash, lookup(d, n) # None,
         lookup(d, n).loc # Placeholder
  PROVE  \E e \in Entries(Tree(d.tree), d.ino) :
           /\ e.name = n /\ e \in Stored
           /\ \/ /\ ~e.subvol /\ lookup(d, n).loc = Loc(d.tree, e.obj)
                 /\ lookup(d, n).ftype = e.ftype
              \/ /\ e.subvol /\ lookup(d, n).loc = RootOf(e.obj) /\ HasTree(e.obj)
                 /\ [child |-> e.obj, parent |-> d.tree, dirid |-> d.ino, name |-> n]
                      \in Range(fs.backrefs)
<1>1. PICK e \in Entries(Tree(d.tree), d.ino) : e.name = n /\ lookup(d, n) = entry(d, e)
  BY LookupFinds
<1>2. e \in Stored
  BY EntryLeads
<1>3. CASE ~e.subvol
  BY <1>1, <1>2, <1>3 DEF entry
<1>4. CASE e.subvol
  <2>1. PICK r \in Range(fs.roots) : r.id = d.tree /\ Tree(d.tree) = fs.trees[r.root]
    BY TreeIs DEF Real
  <2>2. Linked(d.tree, e.obj)
    BY <1>1, <1>4 DEF entry
  <2>3. d.ino \in DOMAIN Tree(d.tree).index
    BY DEF Entries
  <2>4. [child |-> e.obj, parent |-> r.id, dirid |-> d.ino, name |-> e.name] \in Range(fs.backrefs)
    BY <1>4, <2>1, <2>2, <2>3 DEF IsSound, SoundLinks, Linked
  <2>5. PICK c \in Range(fs.roots) : c.id = e.obj
    BY <2>4 DEF IsSound, SoundLinks
  <2>6. HasTree(e.obj)
    BY <2>5, RootIs
  <2>7. lookup(d, n).loc = RootOf(e.obj)
    BY <1>1, <1>4, <2>2, <2>6 DEF entry
  <2> QED
    BY <1>1, <1>2, <1>4, <2>1, <2>4, <2>6, <2>7
<1> QED
  BY <1>3, <1>4

\* A directory lies no higher than the root of its tree.
LEMMA DepthIs ==
  ASSUME IsSound(fs), NEW d, IsDir(d)
  PROVE  Depth(d) \in Nat /\ Depth(RootOf(d.tree)) \in Nat /\ Depth(RootOf(d.tree)) <= Depth(d)
<1>1. HasTree(d.tree) /\ d.ino \in DOMAIN Tree(d.tree).inodes /\ Tree(d.tree).inodes[d.ino] = "dir"
  BY DEF IsDir, Real
<1>2. PICK r \in Range(fs.roots) :
        r.id = d.tree /\ Tree(d.tree) = fs.trees[r.root] /\ RootOf(d.tree) = Loc(d.tree, r.dirid)
  BY <1>1, TreeIs
<1>3. IsDir(RootOf(d.tree))
  BY <1>1, TreeIsSound
<1>4. RootOf(d.tree).tree = d.tree /\ RootOf(d.tree).ino = r.dirid
  BY <1>2 DEF Loc
<1>5. r.dirid \in DOMAIN Tree(d.tree).inodes /\ Tree(d.tree).inodes[r.dirid] = "dir"
  BY <1>3, <1>4 DEF IsDir, Real
<1>6. \A i \in DOMAIN Tree(d.tree).inodes : Tree(d.tree).inodes[i] = "dir" =>
        fs.depth[<<d.tree, i>>] \in Nat /\ fs.depth[<<d.tree, i>>] >= fs.depth[<<d.tree, r.dirid>>]
  BY <1>2 DEF IsSound, SoundDepths
<1> QED
  BY <1>1, <1>4, <1>5, <1>6 DEF Depth

\* A directory lies one deeper than the one it is an entry of.
LEMMA ChildDepth ==
  ASSUME IsSound(fs), NEW d, IsDir(d), NEW n \in DOMAIN Hash, lookup(d, n) # None,
         IsDir(lookup(d, n).loc)
  PROVE  Depth(lookup(d, n).loc) = Depth(d) + 1
<1> DEFINE l == lookup(d, n).loc
<1>0. Real(d) /\ l # Placeholder /\ Real(l)
  BY NotPlaceholder DEF IsDir
<1>1. PICK e \in Entries(Tree(d.tree), d.ino) :
           /\ e.name = n /\ e \in Stored
           /\ \/ /\ ~e.subvol /\ l = Loc(d.tree, e.obj)
                 /\ lookup(d, n).ftype = e.ftype
              \/ /\ e.subvol /\ l = RootOf(e.obj) /\ HasTree(e.obj)
                 /\ [child |-> e.obj, parent |-> d.tree, dirid |-> d.ino, name |-> n]
                      \in Range(fs.backrefs)
  BY <1>0, Origin
<1>2. PICK r \in Range(fs.roots) : r.id = d.tree /\ Tree(d.tree) = fs.trees[r.root]
  BY TreeIs DEF IsDir, Real
<1>3. CASE ~e.subvol
  <2>1. Valid(d) /\ l # Placeholder
    BY <1>0 DEF Valid
  <2>2. inode(l) = lookup(d, n).ftype
    BY <2>1, Directory DEF Leads
  <2>3. inode(l) = "dir"
    BY <1>0, ReadsReal DEF IsDir
  <2>4. e.ftype = "dir" /\ l = Loc(d.tree, e.obj)
    BY <1>1, <1>3, <2>2, <2>3
  <2>5. fs.depth[<<r.id, e.obj>>] = fs.depth[<<r.id, d.ino>>] + 1
    <3>1. d.ino \in DOMAIN fs.trees[r.root].index /\ e \in Entries(fs.trees[r.root], d.ino)
      BY <1>2 DEF Entries
    <3> QED
      BY <1>3, <2>4, <3>1 DEF IsSound, SoundDepths
  <2> QED
    BY <1>2, <2>4, <2>5 DEF Depth, Loc
<1>4. CASE e.subvol
  <2> DEFINE b == [child |-> e.obj, parent |-> d.tree, dirid |-> d.ino, name |-> n]
  <2>1. b \in Range(fs.backrefs) /\ l = RootOf(e.obj) /\ HasTree(e.obj)
    BY <1>1, <1>4
  <2>2. PICK c \in Range(fs.roots) : c.id = e.obj /\ RootOf(e.obj) = Loc(e.obj, c.dirid)
    BY <2>1, TreeIs
  <2>3. c.id = b.child => fs.depth[<<c.id, c.dirid>>] = fs.depth[<<b.parent, b.dirid>>] + 1
    BY <2>1 DEF IsSound, SoundDepths
  <2>4. fs.depth[<<c.id, c.dirid>>] = fs.depth[<<d.tree, d.ino>>] + 1
    BY <2>2, <2>3
  <2> QED
    BY <2>1, <2>2, <2>4 DEF Depth, Loc
<1> QED
  BY <1>3, <1>4

\* A place is its tree and its inode.
LEMMA SameLoc ==
  ASSUME NEW d, NEW c, d \in Locs, c \in Locs, d.tree = c.tree, d.ino = c.ino
  PROVE  d = c
  BY DEF Locs

\* "Inside a snapshot, a nested subvolume is only a placeholder": a directory
\* is an entry of one directory, once.
LEMMA OneParent ==
  ASSUME IsSound(fs), NEW d, IsDir(d), NEW n \in DOMAIN Hash, lookup(d, n) # None,
         NEW c, IsDir(c), NEW m \in DOMAIN Hash, lookup(c, m) # None,
         IsDir(lookup(d, n).loc), lookup(d, n).loc = lookup(c, m).loc
  PROVE  d = c /\ n = m
<1> DEFINE l == lookup(d, n).loc
<1>0. Real(d) /\ Real(c) /\ l # Placeholder /\ Real(l)
  BY NotPlaceholder DEF IsDir
<1>1. PICK e \in Entries(Tree(d.tree), d.ino) :
           /\ e.name = n /\ e \in Stored
           /\ \/ /\ ~e.subvol /\ l = Loc(d.tree, e.obj)
                 /\ lookup(d, n).ftype = e.ftype
              \/ /\ e.subvol /\ l = RootOf(e.obj) /\ HasTree(e.obj)
                 /\ [child |-> e.obj, parent |-> d.tree, dirid |-> d.ino, name |-> n]
                      \in Range(fs.backrefs)
  BY <1>0, Origin
<1>2. PICK f \in Entries(Tree(c.tree), c.ino) :
           /\ f.name = m /\ f \in Stored
           /\ \/ /\ ~f.subvol /\ l = Loc(c.tree, f.obj)
                 /\ lookup(c, m).ftype = f.ftype
              \/ /\ f.subvol /\ l = RootOf(f.obj) /\ HasTree(f.obj)
                 /\ [child |-> f.obj, parent |-> c.tree, dirid |-> c.ino, name |-> m]
                      \in Range(fs.backrefs)
  <2>1. lookup(c, m).loc = l
    OBVIOUS
  <2> HIDE DEF l
  <2> QED
    BY ONLY IsSound(fs), <1>0, <2>1, lookup(c, m) # None, Origin
<1>3. inode(l) = "dir" /\ lookup(d, n).ftype = "dir" /\ lookup(c, m).ftype = "dir"
  <2>1. Valid(d) /\ Valid(c)
    BY <1>0 DEF Valid
  <2>2. inode(l) = lookup(d, n).ftype
    BY <1>0, <2>1, Directory DEF Leads
  <2>3. inode(l) = lookup(c, m).ftype
    BY <1>0, <2>1, Directory DEF Leads
  <2> QED
    BY <1>0, <2>2, <2>3, ReadsReal DEF IsDir
<1>4. d \in Locs /\ c \in Locs
  BY <1>0 DEF Real
<1>5. CASE ~e.subvol /\ ~f.subvol
  <2>1. d.tree = c.tree /\ e.obj = f.obj
    BY <1>1, <1>2, <1>5 DEF Loc
  <2>2. SoundTree(Tree(d.tree))
    BY <1>0, TreeIsSound DEF Real
  <2>3. Tree(d.tree).refs[e.obj][1] = [parent |-> d.ino, name |-> e.name]
    BY <1>1, <1>3, <1>5, <2>2 DEF SoundTree, Entries
  <2>4. Tree(c.tree).refs[f.obj][1] = [parent |-> c.ino, name |-> f.name]
    BY <1>2, <1>3, <1>5, <2>1, <2>2 DEF SoundTree, Entries
  <2>5. d.ino = c.ino /\ e.name = f.name
    BY <2>1, <2>3, <2>4
  <2> QED
    BY <1>1, <1>2, <1>4, <2>1, <2>5, SameLoc
<1>6. CASE e.subvol /\ f.subvol
  <2>1. e.obj = f.obj
    BY <1>1, <1>2, <1>6 DEF RootOf, Loc
  <2> DEFINE b == [child |-> e.obj, parent |-> d.tree, dirid |-> d.ino, name |-> n]
             a == [child |-> f.obj, parent |-> c.tree, dirid |-> c.ino, name |-> m]
  <2>2. a \in Range(fs.backrefs) /\ b \in Range(fs.backrefs) /\ a.child = b.child
    BY <1>1, <1>2, <1>6, <2>1
  <2> HIDE DEF a, b
  <2>3. a = b
    <3>1. \A i, j \in DOMAIN fs.backrefs : fs.backrefs[i].child = fs.backrefs[j].child => i = j
      BY Zenon DEF IsSound, SoundLinks
    <3>2. PICK i \in DOMAIN fs.backrefs : fs.backrefs[i] = a
      BY <2>2 DEF Range
    <3>3. PICK j \in DOMAIN fs.backrefs : fs.backrefs[j] = b
      BY <2>2 DEF Range
    <3> QED
      BY <2>2, <3>1, <3>2, <3>3
  <2>4. d.tree = c.tree /\ d.ino = c.ino /\ n = m
    BY <2>3 DEF a, b
  <2> QED
    BY <1>4, <2>4, SameLoc
<1>7. ASSUME NEW g, NEW h, IsDir(g), Real(h), NEW x, NEW y, NEW k \in DOMAIN Hash,
             lookup(g, k) # None, lookup(g, k).loc = l,
             l = Loc(g.tree, x), l = RootOf(y)
      PROVE  FALSE
  <2>1. Depth(l) = Depth(g) + 1
    BY <1>7, ChildDepth
  <2>2. g.tree = y
    BY <1>7 DEF RootOf, Loc
  <2>3. Depth(RootOf(g.tree)) <= Depth(g) /\ Depth(g) \in Nat /\ Depth(RootOf(g.tree)) \in Nat
    BY <1>7, DepthIs
  <2>4. l = RootOf(g.tree)
    BY <1>7, <2>2
  <2> HIDE DEF l
  <2> QED
    BY <2>1, <2>3, <2>4
<1>8. CASE ~e.subvol /\ f.subvol
  BY <1>0, <1>1, <1>2, <1>7, <1>8
<1>9. CASE e.subvol /\ ~f.subvol
  BY <1>0, <1>1, <1>2, <1>7, <1>9
<1> QED
  BY <1>5, <1>6, <1>8, <1>9

\* Directories below s lie deeper.
LEMMA Deeper ==
  ASSUME IsSound(fs), NEW s, NEW x, Under(s, x), Ok(x), Len(x) > Len(s), IsDir(resolve(x))
  PROVE  Depth(resolve(s)) < Depth(resolve(x))
<1> DEFINE a == Len(s)
           z == Len(x)
           D(k) == Depth(resolve(Pre(x, k)))
           Bad == {k \in Nat : k \in a + 1..z /\ ~(D(a) < D(k))}
<1>1. a \in Nat /\ z \in Nat /\ a < z /\ x \in Paths
  BY DEF Under, Paths
<1>2. Pre(x, a) = s /\ Pre(x, z) = x
  BY <1>1, UnderStart, PreAll DEF Paths
<1> HIDE DEF a, z
<1>3. \A k \in a..z : IsDir(resolve(Pre(x, k))) /\ D(k) \in Nat
  <2> TAKE k \in a..z
  <2>1. CASE k = z
    BY <1>2, <2>1, DepthIs
  <2>2. CASE k # z
    <3>1. k + 1 \in a + 1..z /\ (k + 1) - 1 = k
      BY <1>1, <2>2
    <3>2. IsDir(resolve(Pre(x, (k + 1) - 1)))
      BY <3>1, Below DEF a, z
    <3> QED
      BY <3>1, <3>2, DepthIs
  <2> QED
    BY <2>1, <2>2
<1>4. \A k \in a + 1..z : D(k) = D(k - 1) + 1
  <2> TAKE k \in a + 1..z
  <2> DEFINE d == resolve(Pre(x, k - 1))
  <2>1. x[k] \in DOMAIN Hash
    BY UnderSplit DEF a, z
  <2>2. lookup(d, x[k]) # None /\ resolve(Pre(x, k)) = lookup(d, x[k]).loc /\ IsDir(d)
    BY Below DEF a, z
  <2>3. IsDir(resolve(Pre(x, k)))
    BY <1>1, <1>3
  <2> HIDE DEF d
  <2>4. Depth(lookup(d, x[k]).loc) = Depth(d) + 1
    BY <2>1, <2>2, <2>3, ChildDepth
  <2> QED
    BY <2>2, <2>4 DEF d
<1> HIDE DEF D
<1>5. Bad = {}
  <2> SUFFICES ASSUME Bad # {} PROVE FALSE
    OBVIOUS
  <2>1. PICK b \in Bad : \A m \in Bad : b <= m
    BY Least
  <2>2. b - 1 \in Nat /\ b - 1 \notin Bad /\ b \in a + 1..z /\ b - 1 \in a..z /\ b \in a..z /\ a \in a..z
    BY <1>1, <2>1
  <2>3. D(b) = D(b - 1) + 1 /\ D(b) \in Nat /\ D(b - 1) \in Nat /\ D(a) \in Nat
    BY <1>3, <1>4, <2>2
  <2>4. D(a) <= D(b - 1)
    BY <1>1, <2>2, <2>3
  <2> QED
    BY <2>1, <2>3, <2>4
<1>6. D(a) < D(z)
  BY <1>1, <1>5
<1> QED
  BY <1>2, <1>6 DEF D

\* No directory is reached by two paths.
LEMMA OnePath ==
  ASSUME IsSound(fs), NEW s
  PROVE  \A x, y : Under(s, x) /\ Ok(x) /\ Under(s, y) /\ Ok(y)
                     /\ IsDir(resolve(x)) /\ resolve(x) = resolve(y) => x = y
<1> DEFINE Two(x, y) == /\ Under(s, x) /\ Ok(x) /\ Under(s, y) /\ Ok(y)
                        /\ IsDir(resolve(x)) /\ resolve(x) = resolve(y)
           Bad == {n \in Nat : \E x, y : Two(x, y) /\ x # y /\ Len(x) = n}
<1>0. ASSUME NEW x, Under(s, x)
      PROVE  /\ Len(s) \in Nat /\ Len(x) \in Nat /\ Len(s) <= Len(x) /\ s \in Paths /\ x \in Paths
             /\ Len(x) = Len(s) => x = s
  <2>1. Pre(x, Len(s)) = s /\ x \in Seq(DOMAIN Hash \cup {Up})
    BY <1>0, UnderStart DEF Under, Paths
  <2>2. Pre(x, Len(x)) = x
    BY <2>1, PreAll
  <2> QED
    BY <1>0, <2>1, <2>2 DEF Under, Paths
<1>1. Bad = {}
  <2> SUFFICES ASSUME Bad # {} PROVE FALSE
    OBVIOUS
  <2>1. PICK b \in Bad : \A n \in Bad : b <= n
    BY Least
  <2>2. PICK x, y : Two(x, y) /\ x # y /\ Len(x) = b
    BY <2>1
  <2>3. ASSUME NEW u, NEW v, Two(u, v), u # v, Len(u) = Len(s) PROVE FALSE
    <3>1. u = s
      BY <1>0, <2>3
    <3>2. Len(v) > Len(s)
      <4>1. v # s
        BY <2>3, <3>1
      <4> HIDE DEF Two
      <4>2. Under(s, v)
        BY <2>3 DEF Two
      <4> QED
        BY <1>0, <4>1, <4>2
    <3>3. Depth(resolve(s)) < Depth(resolve(v))
      BY <2>3, <3>2, Deeper
    <3>4. Depth(resolve(s)) = Depth(resolve(v)) /\ Depth(resolve(v)) \in Nat
      BY <2>3, <3>1, DepthIs
    <3> QED
      BY <3>3, <3>4
  <2>4. Len(x) # Len(s) /\ Len(y) # Len(s)
    <3>1. Two(y, x)
      BY <2>2
    <3> HIDE DEF Two
    <3> QED
      BY <2>2, <2>3, <3>1
  <2> DEFINE k == Len(x)
             m == Len(y)
             p == Pre(x, k - 1)
             r == Pre(y, m - 1)
  <2>5. k \in Len(s) + 1..Len(x) /\ m \in Len(s) + 1..Len(y) /\ k \in Nat /\ k - 1 \in Nat
    BY <1>0, <2>2, <2>4
  <2>6. Pre(x, k) = x /\ Pre(y, m) = y
    BY <2>2, PreAll DEF Under, Paths
  <2> HIDE DEF k, m
  <2>7. x = Append(p, x[k]) /\ Under(s, p) /\ x[k] \in DOMAIN Hash /\ Len(p) = k - 1
    BY ZenonT(60), <2>2, <2>5, <2>6, UnderSplit
  <2>8. y = Append(r, y[m]) /\ Under(s, r) /\ y[m] \in DOMAIN Hash
    BY <2>2, <2>5, <2>6, UnderSplit
  <2>9. /\ Ok(p) /\ IsDir(resolve(p)) /\ lookup(resolve(p), x[k]) # None
        /\ resolve(x) = lookup(resolve(p), x[k]).loc
    BY <2>2, <2>5, <2>6, Below
  <2>10. /\ Ok(r) /\ IsDir(resolve(r)) /\ lookup(resolve(r), y[m]) # None
         /\ resolve(y) = lookup(resolve(r), y[m]).loc
    BY <2>2, <2>5, <2>6, Below
  <2> HIDE DEF p, r
  <2>11. resolve(p) = resolve(r) /\ x[k] = y[m]
    <3> DEFINE d == resolve(p)
               c == resolve(r)
               n == x[k]
               o == y[m]
    <3>1. /\ IsDir(d) /\ n \in DOMAIN Hash /\ lookup(d, n) # None
          /\ IsDir(c) /\ o \in DOMAIN Hash /\ lookup(c, o) # None
      BY <2>7, <2>8, <2>9, <2>10
    <3>2. IsDir(lookup(d, n).loc) /\ lookup(d, n).loc = lookup(c, o).loc
      BY <2>2, <2>9, <2>10
    <3> HIDE DEF d, c, n, o
    <3>3. d = c /\ n = o
      BY <3>1, <3>2, OneParent
    <3> QED
      BY <3>3 DEF d, c, n, o
  <2>12. Two(p, r)
    BY <2>7, <2>8, <2>9, <2>10, <2>11
  <2>13. k - 1 \notin Bad
    BY <2>1, <2>2, <2>5 DEF k
  <2>14. p = r
    BY <2>5, <2>7, <2>12, <2>13
  <2> QED
    BY <2>2, <2>7, <2>8, <2>11, <2>14
<1>2. ASSUME NEW x, NEW y, Two(x, y) PROVE x = y
  BY <1>0, <1>1, <1>2
<1> QED
  BY <1>2

-----------------------------------------------------------------------------
(* find: the set of directories that are open.                             *)

\* The calls that have read their directory: each is a frame, and no two are
\* of one directory.
Framed(s) ==
  /\ s \in Seq({s[i] : i \in DOMAIN s})
  /\ \A i \in DOMAIN s : s[i] = [dir |-> s[i].dir, path |-> s[i].path, left |-> s[i].left]
  /\ \A i, j \in DOMAIN s : s[i].dir = s[j].dir => i = j

\* The directories that are open.
Dirs(s) == {s[i].dir : i \in DOMAIN s}

\* What may stay in the set: a directory that an error was said of.
Excused(d) == readdir(d) = Error \/ \E e \in Range(readdir(d)) : Fails(e)

\* What is left of a directory is some of its entries.
Remaining(s) == \A i \in DOMAIN s : s[i].left \in Seq(Range(readdir(s[i].dir)))

\* The invariant of the set seen: SeenAreOpen; no directory is open twice; each
\* call has entries of its own directory left; and at the start nothing is open.
FindInv ==
  /\ fs \in Filesystems
  /\ Framed(stack) /\ Remaining(stack)
  /\ SeenAreOpen
  /\ pc = "start" => stack = <<>> /\ seen = {}

\* A sequence is one of its own elements.
LEMMA InSeq ==
  ASSUME NEW S, NEW s \in Seq(S)
  PROVE  s \in Seq({s[i] : i \in DOMAIN s})
<1> DEFINE T == {s[i] : i \in DOMAIN s}
<1>1. Len(s) \in Nat /\ DOMAIN s = 1..Len(s) /\ s = [i \in 1..Len(s) |-> s[i]]
  OBVIOUS
<1>2. \A i \in 1..Len(s) : s[i] \in T
  BY <1>1
<1> QED
  BY <1>1, <1>2, IsASeq

\* A call enters a directory that is not open.
LEMMA Pushed ==
  ASSUME NEW s, Framed(s), NEW d, d \notin Dirs(s), NEW p, NEW l
  PROVE  LET t == Append(s, [dir |-> d, path |-> p, left |-> l])
         IN  Framed(t) /\ Dirs(t) = Dirs(s) \cup {d}
<1> DEFINE f == [dir |-> d, path |-> p, left |-> l]
           S == {s[i] : i \in DOMAIN s} \cup {f}
           t == Append(s, f)
<1>1. s \in Seq(S) /\ f \in S
  BY DEF Framed
<1>2. t \in Seq(S) /\ Len(s) \in Nat /\ DOMAIN s = 1..Len(s) /\ DOMAIN t = 1..Len(s) + 1
  BY <1>1
<1>3. t[Len(s) + 1] = f /\ \A i \in 1..Len(s) : t[i] = s[i]
  BY <1>1
<1>4. f.dir = d /\ f = [dir |-> f.dir, path |-> f.path, left |-> f.left]
  OBVIOUS
<1>5. \A i \in DOMAIN t : i = Len(s) + 1 \/ i \in DOMAIN s
  BY <1>2
<1> HIDE DEF f, S, t
<1>6. t \in Seq({t[i] : i \in DOMAIN t})
  BY <1>2, InSeq
<1>7. \A i \in DOMAIN s : s[i].dir # d
  BY DEF Dirs
<1>8. Framed(t)
  BY SMTT(40), <1>2, <1>3, <1>4, <1>5, <1>6, <1>7 DEF Framed
<1>9. Dirs(t) = Dirs(s) \cup {d}
  BY <1>2, <1>3, <1>4, <1>5 DEF Dirs
<1> QED
  BY <1>8, <1>9 DEF t, f

\* The innermost call returns.
LEMMA Popped ==
  ASSUME NEW s, Framed(s)
  PROVE  /\ Framed(Front(s))
         /\ s = <<>> => Front(s) = <<>>
         /\ s # <<>> => Dirs(Front(s)) = Dirs(s) \ {Last(s).dir}
<1> DEFINE S == {s[i] : i \in DOMAIN s}
           t == Front(s)
<1>1. s \in Seq(S) /\ Len(s) \in Nat /\ DOMAIN s = 1..Len(s)
  BY DEF Framed
<1>2. CASE s = <<>>
  <2>1. t = <<>>
    BY <1>2 DEF Front
  <2> QED
    BY <1>2, <2>1
<1>3. CASE s # <<>>
  <2>1. Len(s) > 0
    BY <1>1, <1>3
  <2>2. t \in Seq(S) /\ DOMAIN t = 1..Len(s) - 1 /\ \A i \in 1..Len(s) - 1 : t[i] = s[i]
    BY <1>1, <2>1 DEF Front
  <2>3. t \in Seq({t[i] : i \in DOMAIN t})
    BY <2>2, InSeq
  <2> HIDE DEF t, S
  <2>4. \A i \in DOMAIN s : i = Len(s) \/ i \in DOMAIN t
    BY <1>1, <2>1, <2>2
  <2>5. \A i \in DOMAIN t : i \in DOMAIN s /\ i # Len(s) /\ t[i] = s[i]
    BY <1>1, <2>1, <2>2
  <2>6. Framed(t)
    BY <2>3, <2>5 DEF Framed
  <2>7. Last(s) = s[Len(s)] /\ Len(s) \in DOMAIN s
    BY <1>1, <2>1 DEF Last
  <2>8. Dirs(t) = Dirs(s) \ {Last(s).dir}
    BY <2>4, <2>5, <2>7 DEF Framed, Dirs
  <2> QED
    BY <1>3, <2>6, <2>8 DEF t
<1> QED
  BY <1>2, <1>3

\* The innermost call goes on to its next entry.
LEMMA Advanced ==
  ASSUME NEW s, Framed(s)
  PROVE  LET t == [s EXCEPT ![Len(s)].left = Tail(@)]
         IN  Framed(t) /\ Dirs(t) = Dirs(s)
<1> DEFINE n == Len(s)
           g == [s[n] EXCEPT !.left = Tail(@)]
           t == [s EXCEPT ![n] = g]
           S == {s[i] : i \in DOMAIN s} \cup {g}
<1>1. s \in Seq(S) /\ g \in S /\ n \in Nat /\ DOMAIN s = 1..n
  BY DEF Framed
<1>2. t = [s EXCEPT ![Len(s)].left = Tail(@)]
  OBVIOUS
<1>3. n \in DOMAIN s => g.dir = s[n].dir /\ g = [dir |-> g.dir, path |-> g.path, left |-> g.left]
  <2> SUFFICES ASSUME n \in DOMAIN s
               PROVE  g.dir = s[n].dir /\ g = [dir |-> g.dir, path |-> g.path, left |-> g.left]
    OBVIOUS
  <2>1. PICK d, p, l : s[n] = [dir |-> d, path |-> p, left |-> l]
    BY DEF Framed
  <2>2. \A x : [[dir |-> d, path |-> p, left |-> l] EXCEPT !.left = x]
                = [dir |-> d, path |-> p, left |-> x]
    OBVIOUS
  <2>3. g = [dir |-> d, path |-> p, left |-> Tail(s[n].left)]
    BY Zenon, <2>1, <2>2
  <2> HIDE DEF g, n
  <2> QED
    BY <2>1, <2>3
<1> HIDE DEF g, S
<1>4. DOMAIN t = DOMAIN s /\ \A i \in DOMAIN s : t[i] = IF i = n THEN g ELSE s[i]
  BY <1>1
<1>5. t = [i \in 1..n |-> t[i]] /\ \A i \in 1..n : t[i] \in S
  <2>1. t = [i \in DOMAIN t |-> t[i]]
    OBVIOUS
  <2> HIDE DEF n, t
  <2>2. \A i \in DOMAIN s : s[i] \in S
    BY <1>1
  <2> QED
    BY <1>1, <1>4, <2>1, <2>2
<1> HIDE DEF n, t
<1>6. t \in Seq({t[i] : i \in DOMAIN t})
  BY <1>1, <1>5, IsASeq, InSeq
<1>7. \A i \in DOMAIN s : /\ t[i].dir = s[i].dir
                          /\ t[i] = [dir |-> t[i].dir, path |-> t[i].path, left |-> t[i].left]
  BY <1>3, <1>4 DEF Framed
<1>8. Framed(t) /\ Dirs(t) = Dirs(s)
  BY <1>4, <1>6, <1>7 DEF Framed, Dirs
<1> QED
  BY <1>2, <1>8

\* What readdir answers, if it does, is a sequence.
LEMMA ReaddirIsSeq ==
  ASSUME fs \in Filesystems, NEW d, readdir(d) # Error
  PROVE  readdir(d) \in Seq(Range(readdir(d)))
<1> DEFINE index == Tree(d.tree).index
           all == IF d.ino \in DOMAIN index
                  THEN [i \in DOMAIN index[d.ino] |-> entry(d, index[d.ino][i])]
                  ELSE <<>>
           key == [i \in DOMAIN all |-> all[i].name]
<1>1. CASE is_placeholder(d)
  <2>1. readdir(d) = <<>>
    BY <1>1 DEF readdir
  <2> QED
    BY <2>1
<1>2. CASE ~is_placeholder(d)
  <2>1. Reads(d) /\ Error \notin Range(all)
    BY <1>2, Zenon DEF readdir
  <2>2. readdir(d) = Sorted(all, key)
    BY <1>2, <2>1, Zenon DEF readdir, ByName
  <2>3. all \in Seq({all[i] : i \in DOMAIN all}) /\ \A i \in DOMAIN all : key[i] \in Int
    <3>1. CASE d.ino \notin DOMAIN index
      BY <3>1
    <3>2. CASE d.ino \in DOMAIN index
      <4> DEFINE s == index[d.ino]
      <4>1. RootItem(d.tree).root \in DOMAIN fs.trees
        BY <2>1 DEF Reads, HasTree
      <4>2. s \in Seq(Stored)
        BY <3>2, <4>1, StoredAssumption DEF Tree
      <4>3. all = [i \in DOMAIN s |-> entry(d, s[i])]
        BY <3>2
      <4> HIDE DEF index, s, all
      <4>4. \A i \in DOMAIN s : s[i] \in Stored
        BY <4>2
      <4>5. ASSUME NEW i \in DOMAIN all PROVE all[i].name \in Int
        <5>1. all[i] = entry(d, s[i]) /\ all[i] # Error /\ s[i] \in Stored
          BY <2>1, <4>3, <4>4, <4>5, Zenon DEF Range
        <5>2. all[i].name = s[i].name
          BY <5>1 DEF entry
        <5> QED
          BY <5>1, <5>2, NamespaceAssumption DEF Stored
      <4>6. all \in Seq({all[i] : i \in DOMAIN all})
        <5>1. DOMAIN s = 1..Len(s) /\ Len(s) \in Nat
          BY <4>2
        <5>2. DOMAIN all = 1..Len(s) /\ all = [i \in 1..Len(s) |-> all[i]]
          BY <4>3, <5>1
        <5>3. \A i \in 1..Len(s) : all[i] \in {all[j] : j \in DOMAIN all}
          BY <5>2
        <5> QED
          BY <5>1, <5>2, <5>3, IsASeq
      <4> QED
        BY <4>5, <4>6
    <3> QED
      BY <3>1, <3>2
  <2> HIDE DEF all, key
  <2>4. Sorted(all, key) \in Seq({all[i] : i \in DOMAIN all})
    BY <2>3, SortedPermutes
  <2> QED
    BY <2>2, <2>4, InSeq DEF Range
<1> QED
  BY <1>1, <1>2

\* An entry that makes find leave its directory is one of the directory's.
LEMMA FailsIn ==
  ASSUME Framed(stack), Remaining(stack), stack # <<>>, Last(stack).left # <<>>
  PROVE  Head(Last(stack).left) \in Range(readdir(Last(stack).dir))
<1>1. Last(stack) = stack[Len(stack)] /\ Len(stack) \in DOMAIN stack
  BY DEF Framed, Last
<1>2. Last(stack).left \in Seq(Range(readdir(Last(stack).dir)))
  BY <1>1 DEF Remaining
<1> HIDE DEF Range
<1> QED
  BY <1>2

\* As entries are taken, and calls return, entries are left of each directory.
LEMMA StillRemaining ==
  ASSUME NEW s, Framed(s), Remaining(s)
  PROVE  /\ Remaining(Front(s))
         /\ s # <<>> /\ Last(s).left # <<>> =>
              Remaining([s EXCEPT ![Len(s)].left = Tail(@)])
<1> DEFINE S == {s[i] : i \in DOMAIN s}
<1>1. s \in Seq(S) /\ Len(s) \in Nat /\ DOMAIN s = 1..Len(s)
  BY DEF Framed
<1>2. Remaining(Front(s))
  <2>1. \A i \in DOMAIN Front(s) : i \in 1..Len(s) - 1
    BY <1>1 DEF Front
  <2>2. \A i \in 1..Len(s) - 1 : Front(s)[i] = s[i] /\ i \in DOMAIN s
    BY <1>1 DEF Front
  <2> QED
    BY <2>1, <2>2 DEF Remaining
<1>3. ASSUME s # <<>>, Last(s).left # <<>>
      PROVE  Remaining([s EXCEPT ![Len(s)].left = Tail(@)])
  <2> DEFINE n == Len(s)
             g == [s[n] EXCEPT !.left = Tail(@)]
             t == [s EXCEPT ![n] = g]
  <2>1. t = [s EXCEPT ![Len(s)].left = Tail(@)]
    OBVIOUS
  <2>2. n \in DOMAIN s /\ Last(s) = s[n]
    BY <1>1, <1>3 DEF Last
  <2>3. g.dir = s[n].dir /\ g.left = Tail(s[n].left)
    <3>1. PICK d, p, l : s[n] = [dir |-> d, path |-> p, left |-> l]
      BY <2>2 DEF Framed
    <3>2. \A x : [[dir |-> d, path |-> p, left |-> l] EXCEPT !.left = x]
                  = [dir |-> d, path |-> p, left |-> x]
      OBVIOUS
    <3>3. g = [dir |-> d, path |-> p, left |-> Tail(s[n].left)]
      BY Zenon, <3>1, <3>2
    <3> HIDE DEF g, n
    <3> QED
      BY <3>1, <3>3
  <2>4. Tail(s[n].left) \in Seq(Range(readdir(s[n].dir)))
    <3>1. s[n].left \in Seq(Range(readdir(s[n].dir))) /\ s[n].left # <<>>
      BY <1>3, <2>2 DEF Remaining
    <3> DEFINE l == s[n].left
               R == Range(readdir(s[n].dir))
    <3> HIDE DEF l, R
    <3>2. l \in Seq(R) /\ l # <<>>
      BY <3>1 DEF l, R
    <3>3. Tail(l) \in Seq(R)
      BY <3>2
    <3> QED
      BY <3>3 DEF l, R
  <2> HIDE DEF g
  <2>5. DOMAIN t = DOMAIN s /\ \A i \in DOMAIN s : t[i] = IF i = n THEN g ELSE s[i]
    BY <2>2
  <2> HIDE DEF t, n
  <2>6. Remaining(t)
    BY <2>3, <2>4, <2>5 DEF Remaining
  <2> QED
    BY <2>1, <2>6
<1> QED
  BY <1>2, <1>3

\* At the beginning nothing is open.
LEMMA FindInvInit == Init => FindInv
<1> SUFFICES ASSUME Init PROVE FindInv
  OBVIOUS
<1>1. stack = <<>> /\ seen = {} /\ DOMAIN stack = {} /\ fs \in Filesystems
  BY DEF Init
<1>2. stack \in Seq({stack[i] : i \in DOMAIN stack})
  BY <1>1
<1> QED
  BY <1>1, <1>2 DEF FindInv, Framed, SeenAreOpen, Remaining

\* What a step must show: the directories that are open afterwards are in the
\* set, and an error was said of the others in it.
LEMMA StillOpen ==
  ASSUME fs' = fs, q' = q, fs \in Filesystems, pc' # "start",
         Framed(stack'), Remaining(stack'), Dirs(stack') \subseteq seen',
         \A d \in seen' \ Dirs(stack') : Excused(d)
  PROVE  FindInv'
<1>1. \A d : readdir(d)' = readdir(d)
  BY SameQueries
<1>2. \A e : Fails(e)' <=> Fails(e)
  BY SameItems DEF Fails, is_placeholder
<1>3. Dirs(stack') = {stack'[i].dir : i \in DOMAIN stack'}
  BY DEF Dirs
<1>4. Framed(stack)'
  BY DEF Framed
<1>5. Remaining(stack)'
  BY <1>1 DEF Remaining
<1>6. SeenAreOpen'
  BY <1>1, <1>2, <1>3 DEF SeenAreOpen, Excused
<1> QED
  BY <1>4, <1>5, <1>6 DEF FindInv

\* Every step of either command keeps the set true to the open directories.
LEMMA FindInvStep == FindInv /\ [Next]_vars => FindInv'
<1> SUFFICES ASSUME FindInv, [Next]_vars PROVE FindInv'
  OBVIOUS
<1>0. /\ Framed(stack) /\ Dirs(stack) \subseteq seen /\ Remaining(stack)
      /\ \A d \in seen \ Dirs(stack) : Excused(d)
      /\ fs \in Filesystems
  BY DEF FindInv, SeenAreOpen, Dirs, Excused
<1>1. CASE stack' = stack /\ seen' = seen /\ fs' = fs /\ q' = q /\ pc' # "start"
  BY <1>0, <1>1, StillOpen
<1>2. CASE EnterDirectory
  <2>1. fs' = fs /\ q' = q /\ pc' # "start"
    BY <1>2 DEF EnterDirectory, Return
  <2>2. CASE stack' = stack /\ seen' = seen
    BY <1>1, <2>1, <2>2
  <2>3. CASE /\ stack' = stack /\ seen' = seen \cup {call.dir}
             /\ readdir(call.dir) = Error
    BY <1>0, <2>1, <2>3, StillOpen DEF Excused
  <2>4. CASE /\ call.dir \notin seen /\ seen' = seen \cup {call.dir}
             /\ readdir(call.dir) # Error
             /\ stack' = Append(stack, [dir |-> call.dir, path |-> call.path,
                                        left |-> readdir(call.dir)])
    <3>1. call.dir \notin Dirs(stack)
      BY <1>0, <2>4
    <3>2. Framed(stack') /\ Dirs(stack') = Dirs(stack) \cup {call.dir}
      BY <1>0, <2>4, <3>1, Pushed
    <3>3. Remaining(stack')
      <4> DEFINE f == [dir |-> call.dir, path |-> call.path, left |-> readdir(call.dir)]
                 S == {stack[i] : i \in DOMAIN stack} \cup {f}
      <4>1. f.dir = call.dir /\ f.left = readdir(call.dir)
        OBVIOUS
      <4>2. f.left \in Seq(Range(readdir(f.dir)))
        BY <1>0, <2>4, <4>1, ReaddirIsSeq
      <4>3. stack \in Seq(S) /\ f \in S
        BY <1>0 DEF Framed
      <4> HIDE DEF f, S
      <4>4. stack' = Append(stack, f)
        BY <2>4 DEF f
      <4>5. \A i \in DOMAIN stack' : stack'[i] = f \/ (i \in DOMAIN stack /\ stack'[i] = stack[i])
        BY <4>3, <4>4
      <4> QED
        BY <1>0, <4>2, <4>5 DEF Remaining
    <3> QED
      BY <1>0, <2>1, <2>4, <3>2, <3>3, StillOpen
  <2> QED
    BY <1>2, <2>2, <2>3, <2>4 DEF EnterDirectory, Return
<1>3. CASE NextEntry
  <2> DEFINE frame == Last(stack)
             e == Head(frame.left)
  <2>1. fs' = fs /\ q' = q /\ pc' # "start" /\ seen' = seen /\ frame.left # <<>>
    BY <1>3 DEF NextEntry, Return
  <2>2. CASE ~Fails(e)
    <3>1. stack' = [stack EXCEPT ![Len(stack)].left = Tail(@)]
      BY <1>3, <2>2 DEF NextEntry
    <3>2. Framed(stack') /\ Dirs(stack') = Dirs(stack)
      BY <1>0, <3>1, Advanced
    <3>3. Remaining(stack')
      <4>1. CASE stack # <<>>
        BY <1>0, <2>1, <3>1, <4>1, StillRemaining
      <4>2. CASE stack = <<>>
        BY <3>1, <4>2 DEF Remaining
      <4> QED
        BY <4>1, <4>2
    <3> QED
      BY <1>0, <2>1, <3>2, <3>3, StillOpen
  <2>3. CASE Fails(e)
    <3>1. stack' = Front(stack)
      BY <1>3, <2>3 DEF NextEntry, Return
    <3>2. Framed(stack') /\ Remaining(stack')
      BY <1>0, <3>1, Popped, StillRemaining
    <3>3. CASE stack = <<>>
      <4>1. stack' = stack
        BY <1>0, <3>1, <3>3, Popped
      <4> QED
        BY <1>1, <2>1, <4>1
    <3>4. CASE stack # <<>>
      <4>1. Dirs(stack') = Dirs(stack) \ {frame.dir}
        BY <1>0, <3>1, <3>4, Popped
      <4>2. Excused(frame.dir)
        <5>1. e \in Range(readdir(frame.dir))
          BY <1>0, <2>1, <3>4, FailsIn
        <5> QED
          BY <2>3, <5>1, Zenon DEF Excused
      <4> QED
        BY <1>0, <2>1, <3>2, <4>1, <4>2, StillOpen
    <3> QED
      BY <3>3, <3>4
  <2> QED
    BY <2>2, <2>3
<1>4. CASE LeaveDirectory
  <2>1. /\ fs' = fs /\ q' = q /\ pc' # "start"
        /\ seen' = seen \ {Last(stack).dir} /\ stack' = Front(stack)
    BY <1>4 DEF LeaveDirectory, Return, Unseen
  <2>2. Framed(stack') /\ Dirs(stack') \subseteq seen' /\ seen' \ Dirs(stack') \subseteq seen \ Dirs(stack)
    <3>1. CASE stack = <<>>
      <4>1. stack' = stack /\ Dirs(stack) = {}
        BY <1>0, <2>1, <3>1, Popped DEF Dirs
      <4> QED
        BY <1>0, <2>1, <4>1
    <3>2. CASE stack # <<>>
      BY <1>0, <2>1, <3>2, Popped
    <3> QED
      BY <3>1, <3>2
  <2>3. Remaining(stack')
    BY <1>0, <2>1, StillRemaining
  <2> QED
    BY <1>0, <2>1, <2>2, <2>3, StillOpen
<1>5. CASE UNCHANGED vars
  <2>1. \A d : readdir(d)' = readdir(d)
    BY <1>5, SameQueries DEF vars
  <2>2. \A e : Fails(e)' <=> Fails(e)
    BY <1>5, SameItems DEF Fails, is_placeholder, vars
  <2>3. stack' = stack /\ seen' = seen /\ pc' = pc /\ fs' = fs
    BY <1>5 DEF vars
  <2>4. Framed(stack)' /\ Remaining(stack)' /\ SeenAreOpen'
    BY <2>1, <2>2, <2>3 DEF FindInv, Framed, Remaining, SeenAreOpen
  <2> QED
    BY <2>3, <2>4 DEF FindInv
<1>6. CASE BeginFind
  <2>1. /\ stack' = <<>> /\ seen' = {} /\ fs' = fs /\ pc' # "start"
    BY <1>6 DEF BeginFind, FindInv
  <2>2. Framed(stack)' /\ Remaining(stack)' /\ SeenAreOpen'
    <3>1. stack' \in Seq({stack'[i] : i \in DOMAIN stack'}) /\ DOMAIN stack' = {}
      BY <2>1
    <3> QED
      BY <2>1, <3>1 DEF Framed, Remaining, SeenAreOpen
  <2> QED
    BY <1>0, <2>1, <2>2 DEF FindInv
<1>7. CASE BeginSubvols
  BY SMTT(40), <1>1, <1>7 DEF BeginSubvols, findVars
<1>8. CASE NextSubvol
  BY <1>1, <1>8 DEF NextSubvol, findVars
<1>9. CASE NextPass
  BY <1>1, <1>9 DEF NextPass, findVars
<1> QED
  BY <1>2, <1>3, <1>4, <1>5, <1>6, <1>7, <1>8, <1>9 DEF Next

\* find says "directory loops back to one of its own parents" (main.rs 283) only of a
\* directory that is open or that an error was said of before: its set `seen` holds
\* all directories that are open and, of the others, only ones that could not be read
\* and ones that were left because is_snapshot failed for an entry (main.rs 303).
\* This holds of every filesystem, sound or not, loops included.
THEOREM LoopsAreLoops == Spec => []SeenAreOpen
<1>1. FindInv => SeenAreOpen
  BY DEF FindInv
<1> QED
  BY <1>1, FindInvInit, FindInvStep, PTL DEF Spec

-----------------------------------------------------------------------------
(* find: the paths that it prints.                                         *)

\* What lies below s is a path, no shorter than s.
LEMMA UnderIs ==
  ASSUME NEW s, NEW x, Under(s, x)
  PROVE  /\ s \in Paths /\ x \in Paths /\ Len(s) \in Nat /\ Len(x) \in Nat /\ Len(s) <= Len(x)
         /\ Len(x) = Len(s) => x = s
<1>1. Pre(x, Len(s)) = s /\ x \in Seq(DOMAIN Hash \cup {Up})
  BY UnderStart DEF Under, Paths
<1>2. Pre(x, Len(x)) = x
  BY <1>1, PreAll
<1> QED
  BY <1>1, <1>2 DEF Under, Paths

\* A path lies below itself.
LEMMA UnderSelf ==
  ASSUME NEW s \in Paths
  PROVE  Under(s, s)
<1>1. Len(s) \in Nat /\ Len(s) + 1..Len(s) = {}
  BY DEF Paths
<1> QED
  BY <1>1 DEF Under

\* What lies below a path below a lies below a.
LEMMA UnderTrans ==
  ASSUME NEW a, NEW b, NEW c, Under(a, b), Under(b, c)
  PROVE  Under(a, c)
<1>1. Len(a) \in Nat /\ Len(b) \in Nat /\ Len(c) \in Nat
  BY UnderIs
<1>2. ASSUME NEW i \in Len(a) + 1..Len(c) PROVE c[i] \in DOMAIN Hash
  <2>1. CASE i <= Len(b)
    BY <1>1, <2>1 DEF Under
  <2>2. CASE i > Len(b)
    BY <1>1, <2>2 DEF Under
  <2> QED
    BY <1>1, <2>1, <2>2
<1>3. ASSUME NEW i \in 1..Len(a) PROVE c[i] = a[i]
  BY <1>1 DEF Under
<1> QED
  BY <1>1, <1>2, <1>3 DEF Under

\* Of two beginnings of a path the longer lies below the shorter.
LEMMA UnderBetween ==
  ASSUME NEW a, NEW b, NEW c, Under(a, c), Under(b, c), Len(a) <= Len(b)
  PROVE  Under(a, b)
<1>1. Len(a) \in Nat /\ Len(b) \in Nat /\ Len(c) \in Nat /\ Len(b) <= Len(c)
  BY UnderIs
<1>2. ASSUME NEW i \in Len(a) + 1..Len(b) PROVE b[i] \in DOMAIN Hash
  BY <1>1 DEF Under
<1>3. ASSUME NEW i \in 1..Len(a) PROVE b[i] = a[i]
  BY <1>1 DEF Under
<1> QED
  BY <1>1, <1>2, <1>3 DEF Under

\* A path with one name more lies below it.
LEMMA UnderAppend ==
  ASSUME NEW p \in Paths, NEW n \in DOMAIN Hash
  PROVE  /\ Append(p, n) \in Paths /\ Under(p, Append(p, n))
         /\ Len(p) \in Nat /\ Len(Append(p, n)) = Len(p) + 1 /\ Append(p, n)[Len(p) + 1] = n
         /\ \A i \in 1..Len(p) : Append(p, n)[i] = p[i]
         /\ Append(p, n) # p
<1> DEFINE N == DOMAIN Hash \cup {Up}
           x == Append(p, n)
<1>1. p \in Seq(N) /\ n \in N
  BY DEF Paths
<1>2. Len(p) \in Nat /\ x \in Seq(N) /\ Len(x) = Len(p) + 1 /\ x[Len(p) + 1] = n
      /\ \A i \in 1..Len(p) : x[i] = p[i]
  <2> HIDE DEF N
  <2> QED
    BY <1>1, AppendProperties
<1> HIDE DEF x
<1>3. x # p
  BY <1>2
<1>4. ASSUME NEW i \in Len(p) + 1..Len(x) PROVE x[i] \in DOMAIN Hash
  BY <1>2
<1>5. Under(p, x)
  BY <1>2, <1>4 DEF Under, Paths
<1> QED
  BY <1>2, <1>3, <1>5 DEF Paths, x

\* A path below p goes on from p by its next name.
LEMMA UnderNext ==
  ASSUME NEW p, NEW x, Under(p, x), x # p
  PROVE  /\ Len(p) + 1 \in 1..Len(x) /\ x[Len(p) + 1] \in DOMAIN Hash
         /\ Under(Append(p, x[Len(p) + 1]), x)
<1>1. p \in Paths /\ x \in Paths /\ Len(p) \in Nat /\ Len(x) \in Nat /\ Len(p) < Len(x)
  BY UnderIs
<1> DEFINE n == x[Len(p) + 1]
<1>2. Len(p) + 1 \in 1..Len(x) /\ n \in DOMAIN Hash
  BY <1>1 DEF Under
<1> DEFINE r == Append(p, n)
<1>3. /\ r \in Paths /\ Len(r) = Len(p) + 1 /\ r[Len(p) + 1] = n
      /\ \A i \in 1..Len(p) : r[i] = p[i]
  BY <1>1, <1>2, UnderAppend
<1> HIDE DEF r
<1>4. ASSUME NEW i \in 1..Len(r) PROVE x[i] = r[i]
  <2>1. CASE i = Len(p) + 1
    BY <1>3, <2>1
  <2>2. CASE i # Len(p) + 1
    <3>1. i \in 1..Len(p)
      BY <1>1, <1>3, <2>2
    <3> QED
      BY <1>3, <3>1 DEF Under
  <2> QED
    BY <2>1, <2>2
<1>5. ASSUME NEW i \in Len(r) + 1..Len(x) PROVE x[i] \in DOMAIN Hash
  BY <1>1, <1>3 DEF Under
<1>6. Under(r, x)
  BY <1>1, <1>3, <1>4, <1>5 DEF Under
<1> QED
  BY <1>2, <1>6 DEF r

\* What lies below a child of p goes on from p by the name of that child.
LEMMA UnderChild ==
  ASSUME NEW p \in Paths, NEW n \in DOMAIN Hash, NEW x, Under(Append(p, n), x)
  PROVE  /\ Under(p, x) /\ x # p /\ x[Len(p) + 1] = n /\ Len(p) + 1 \in 1..Len(x)
<1>1. /\ Append(p, n) \in Paths /\ Under(p, Append(p, n))
      /\ Len(p) \in Nat /\ Len(Append(p, n)) = Len(p) + 1 /\ Append(p, n)[Len(p) + 1] = n
  BY UnderAppend
<1>2. Under(p, x)
  BY <1>1, UnderTrans
<1>3. Len(p) + 1 <= Len(x) /\ Len(x) \in Nat
  BY <1>1, UnderIs
<1>4. x[Len(p) + 1] = n
  BY <1>1 DEF Under
<1>5. x # p
  BY <1>1, <1>3
<1> QED
  BY <1>1, <1>2, <1>3, <1>4, <1>5

\* How far below its start find goes.
Deep == IF q.max_depth < MAX_FIND_DEPTH THEN q.max_depth ELSE MAX_FIND_DEPTH

\* The entry that the i-th name of x finds.
At(x, i) == lookup(resolve(Pre(x, i - 1)), x[i])

\* What Wanted says of one path, name by name.
IsWanted(x) ==
  /\ Under(start, x) /\ Len(x) > Len(start) /\ Len(x) - Len(start) <= Deep
  /\ Ok(x) /\ Matches(At(x, Len(x)))
  /\ \A i \in Len(start) + 1..Len(x) - 1 : ~Skips(At(x, i))

\* EntryAt looks up the last name in the directory before it.
LEMMA EntryAtIs ==
  ASSUME NEW s, NEW x, Under(s, x), NEW k \in Len(s) + 1..Len(x)
  PROVE  EntryAt(Pre(x, k)) = At(x, k)
<1> DEFINE N == DOMAIN Hash \cup {Up}
<1>1. Pre(x, k) = Append(Pre(x, k - 1), x[k]) /\ Pre(x, k - 1) \in Seq(N) /\ x[k] \in N
  BY UnderSplit DEF Paths
<1> HIDE DEF N
<1>2. Front(Pre(x, k)) = Pre(x, k - 1) /\ Last(Pre(x, k)) = x[k]
  BY <1>1, SplitAppend
<1> QED
  BY <1>2 DEF EntryAt, At

\* What follows the start of a path.
LEMMA Joined ==
  ASSUME NEW s \in Paths, NEW p \in Seq(DOMAIN Hash)
  PROVE  /\ Under(s, s \o p) /\ Len(s \o p) = Len(s) + Len(p)
         /\ \A n \in 1..Len(p) : s \o SubSeq(p, 1, n) = Pre(s \o p, Len(s) + n)
<1> DEFINE N == DOMAIN Hash \cup {Up}
           x == s \o p
<1>1. s \in Seq(N) /\ p \in Seq(N) /\ Len(s) \in Nat /\ Len(p) \in Nat
  BY DEF Paths
<1>2. \A i \in 1..Len(p) : p[i] \in DOMAIN Hash
  OBVIOUS
<1> HIDE DEF N
<1>3. /\ x \in Seq(N) /\ Len(x) = Len(s) + Len(p)
      /\ \A i \in 1..Len(s) + Len(p) : x[i] = IF i <= Len(s) THEN s[i] ELSE p[i - Len(s)]
  BY <1>1, ConcatProperties
<1> HIDE DEF x
<1>4. Under(s, x)
  <2>1. ASSUME NEW i \in Len(s) + 1..Len(x) PROVE x[i] \in DOMAIN Hash
    <3>1. i - Len(s) \in 1..Len(p) /\ i \in 1..Len(s) + Len(p) /\ ~(i <= Len(s))
      BY <1>1, <1>3
    <3>2. x[i] = p[i - Len(s)]
      BY <1>3, <3>1
    <3> QED
      BY <1>2, <3>1, <3>2
  <2>2. x \in Paths
    BY <1>3 DEF Paths, N
  <2>3. ASSUME NEW i \in 1..Len(s) PROVE x[i] = s[i]
    BY <1>1, <1>3
  <2> QED
    BY <1>1, <1>3, <2>1, <2>2, <2>3 DEF Under
<1>5. ASSUME NEW n \in 1..Len(p) PROVE s \o SubSeq(p, 1, n) = Pre(x, Len(s) + n)
  <2> DEFINE h == Pre(p, n)
             y == s \o h
             z == Pre(x, Len(s) + n)
  <2>1. h \in Seq(N) /\ Len(h) = n /\ \A i \in 1..n : h[i] = p[i]
    BY <1>1, PreFacts
  <2> HIDE DEF h
  <2>2. /\ y \in Seq(N) /\ Len(y) = Len(s) + n
        /\ \A i \in 1..Len(s) + n : y[i] = IF i <= Len(s) THEN s[i] ELSE h[i - Len(s)]
    BY <1>1, <2>1, ConcatProperties
  <2>3. z \in Seq(N) /\ Len(z) = Len(s) + n /\ \A i \in 1..Len(s) + n : z[i] = x[i]
    <3>1. Len(s) + n \in 0..Len(x)
      BY <1>1, <1>3
    <3> QED
      BY <1>3, <3>1, PreFacts
  <2> HIDE DEF y, z
  <2>4. ASSUME NEW i \in 1..Len(s) + n PROVE y[i] = z[i]
    <3>1. i \in 1..Len(s) + Len(p) /\ (~(i <= Len(s)) => i - Len(s) \in 1..n)
      BY <1>1
    <3>2. x[i] = IF i <= Len(s) THEN s[i] ELSE p[i - Len(s)]
      BY <1>3, <3>1
    <3>3. y[i] = IF i <= Len(s) THEN s[i] ELSE h[i - Len(s)]
      BY <2>2
    <3> QED
      BY <2>1, <2>3, <3>1, <3>2, <3>3
  <2>5. y = z
    BY <2>2, <2>3, <2>4, SeqEqual
  <2> QED
    BY <2>5 DEF y, z, h, Pre
<1> QED
  BY <1>3, <1>4, <1>5 DEF x

\* A path below s is s and some names.
LEMMA Parted ==
  ASSUME NEW s, NEW x, Under(s, x)
  PROVE  \E p \in Seq(DOMAIN Hash) : x = s \o p
<1>1. s \in Paths /\ x \in Paths /\ Len(s) \in Nat /\ Len(x) \in Nat /\ Len(s) <= Len(x)
  BY UnderIs
<1> DEFINE m == Len(x) - Len(s)
           p == [i \in 1..m |-> x[Len(s) + i]]
           N == DOMAIN Hash \cup {Up}
<1>2. m \in Nat
  BY <1>1
<1>3. \A i \in 1..m : x[Len(s) + i] \in DOMAIN Hash
  BY <1>1 DEF Under
<1> HIDE DEF m
<1>4. p \in Seq(DOMAIN Hash) /\ Len(p) = m /\ \A i \in 1..m : p[i] = x[Len(s) + i]
  BY <1>2, <1>3
<1> HIDE DEF p
<1>5. p \in Seq(N) /\ s \in Seq(N) /\ x \in Seq(N)
  BY <1>1, <1>4 DEF Paths
<1> HIDE DEF N
<1> DEFINE y == s \o p
<1>6. /\ y \in Seq(N) /\ Len(y) = Len(s) + m
      /\ \A i \in 1..Len(s) + m : y[i] = IF i <= Len(s) THEN s[i] ELSE p[i - Len(s)]
  BY <1>4, <1>5, ConcatProperties
<1> HIDE DEF y
<1>7. Len(s) + m = Len(x)
  BY <1>1 DEF m
<1>8. ASSUME NEW i \in 1..Len(x) PROVE y[i] = x[i]
  <2>1. CASE i <= Len(s)
    BY <1>1, <1>6, <1>7, <2>1 DEF Under
  <2>2. CASE i > Len(s)
    <3>1. i - Len(s) \in 1..m /\ Len(s) + (i - Len(s)) = i
      BY <1>1, <1>7, <1>2, <2>2
    <3> QED
      BY <1>1, <1>4, <1>6, <1>7, <2>2, <3>1
  <2> QED
    BY <1>1, <2>1, <2>2
<1>9. y = x
  BY <1>5, <1>6, <1>7, <1>8, SeqEqual
<1> QED
  BY <1>4, <1>9 DEF y

\* Wanted holds the paths that IsWanted says.
LEMMA WantedIs ==
  ASSUME start \in Paths, q.max_depth \in Nat
  PROVE  \A x : x \in Wanted(DOMAIN Hash) <=> IsWanted(x)
<1>0. Deep \in Nat
  BY QueriesAssumption DEF Deep
<1> DEFINE a == Len(start)
           below == UNION {[1..n -> DOMAIN Hash] : n \in 1..Deep}
           Good(p) == /\ resolve(start \o p) \notin {Error, None}
                      /\ Matches(EntryAt(start \o p))
                      /\ \A n \in 1..Len(p) - 1 : ~Skips(EntryAt(start \o SubSeq(p, 1, n)))
<1>1. \A x : x \in Wanted(DOMAIN Hash) <=> \E p \in below : Good(p) /\ x = start \o p
  <2>1. Wanted(DOMAIN Hash) = {start \o p : p \in {p \in below : Good(p)}}
    BY DEF Wanted, Deep
  <2> HIDE DEF below, Good
  <2> QED
    BY <2>1
<1>2. \A p : p \in below <=> p \in Seq(DOMAIN Hash) /\ Len(p) \in 1..Deep
  <2>1. ASSUME NEW p \in below PROVE p \in Seq(DOMAIN Hash) /\ Len(p) \in 1..Deep
    <3>1. PICK n \in 1..Deep : p \in [1..n -> DOMAIN Hash]
      OBVIOUS
    <3> HIDE DEF below
    <3>2. n \in Nat
      BY <1>0
    <3>3. p \in Seq(DOMAIN Hash) /\ Len(p) = n
      BY <3>1, <3>2
    <3> QED
      BY <3>3
  <2>2. ASSUME NEW p \in Seq(DOMAIN Hash), Len(p) \in 1..Deep PROVE p \in below
    <3>1. p \in [1..Len(p) -> DOMAIN Hash]
      OBVIOUS
    <3> QED
      BY <2>2, <3>1
  <2> HIDE DEF below
  <2> QED
    BY <2>1, <2>2
<1>3. ASSUME NEW p \in Seq(DOMAIN Hash), Len(p) \in 1..Deep
      PROVE  Good(p) <=> IsWanted(start \o p)
  <2> DEFINE x == start \o p
  <2>1. /\ Under(start, x) /\ Len(x) = a + Len(p)
        /\ \A n \in 1..Len(p) : start \o SubSeq(p, 1, n) = Pre(x, a + n)
    BY Joined
  <2> HIDE DEF x
  <2>2. a \in Nat /\ Len(x) \in Nat /\ Len(p) \in Nat /\ x \in Paths /\ x \in Seq(DOMAIN Hash \cup {Up})
    BY <2>1, UnderIs DEF Paths
  <2>3. Len(x) > a /\ Len(x) - a <= Deep /\ Len(x) \in a + 1..Len(x)
    BY <1>0, <1>3, <2>1, <2>2
  <2>4. EntryAt(x) = At(x, Len(x))
    <3>1. Pre(x, Len(x)) = x
      BY <2>2, PreAll
    <3> QED
      BY <2>1, <2>3, <3>1, EntryAtIs
  <2>5. ASSUME NEW n \in 1..Len(p) - 1
        PROVE  EntryAt(start \o SubSeq(p, 1, n)) = At(x, a + n) /\ a + n \in a + 1..Len(x) - 1
    <3>1. n \in 1..Len(p) /\ a + n \in a + 1..Len(x) /\ a + n \in a + 1..Len(x) - 1
      BY <2>1, <2>2
    <3>2. start \o SubSeq(p, 1, n) = Pre(x, a + n)
      BY <2>1, <3>1
    <3>3. EntryAt(Pre(x, a + n)) = At(x, a + n)
      <4> HIDE DEF a
      <4> QED
        BY <2>1, <3>1, EntryAtIs DEF a
    <3> QED
      BY <3>1, <3>2, <3>3
  <2>6. ASSUME NEW i \in a + 1..Len(x) - 1
        PROVE  i - a \in 1..Len(p) - 1 /\ a + (i - a) = i
    BY <2>1, <2>2
  <2>7. (\A n \in 1..Len(p) - 1 : ~Skips(EntryAt(start \o SubSeq(p, 1, n))))
          <=> \A i \in a + 1..Len(x) - 1 : ~Skips(At(x, i))
    <3>1. ASSUME \A n \in 1..Len(p) - 1 : ~Skips(EntryAt(start \o SubSeq(p, 1, n))),
                 NEW i \in a + 1..Len(x) - 1
          PROVE  ~Skips(At(x, i))
      <4>1. i - a \in 1..Len(p) - 1 /\ a + (i - a) = i
        BY <2>6
      <4>2. EntryAt(start \o SubSeq(p, 1, i - a)) = At(x, i)
        BY <2>5, <4>1
      <4> QED
        BY <3>1, <4>1, <4>2
    <3>2. ASSUME \A i \in a + 1..Len(x) - 1 : ~Skips(At(x, i)), NEW n \in 1..Len(p) - 1
          PROVE  ~Skips(EntryAt(start \o SubSeq(p, 1, n)))
      BY <2>5, <3>2
    <3> QED
      BY <3>1, <3>2
  <2>8. Good(p) <=> /\ Ok(x) /\ Matches(At(x, Len(x)))
                    /\ \A i \in a + 1..Len(x) - 1 : ~Skips(At(x, i))
    BY <2>4, <2>7 DEF x, Ok
  <2> HIDE DEF Good
  <2>9. Good(p) <=> IsWanted(x)
    BY <2>1, <2>3, <2>8 DEF IsWanted
  <2> QED
    BY <2>9 DEF x
<1>4. ASSUME NEW x, IsWanted(x)
      PROVE  \E p \in Seq(DOMAIN Hash) : Len(p) \in 1..Deep /\ x = start \o p
  <2>1. PICK p \in Seq(DOMAIN Hash) : x = start \o p
    BY <1>4, Parted DEF IsWanted
  <2>2. Len(x) = a + Len(p)
    BY <2>1, Joined
  <2>3. a \in Nat /\ Len(x) \in Nat /\ Len(p) \in Nat
    BY <1>4, UnderIs DEF IsWanted
  <2>4. Len(p) \in 1..Deep
    BY <1>0, <1>4, <2>2, <2>3 DEF IsWanted
  <2> QED
    BY <2>1, <2>4
<1> HIDE DEF below, Good
<1>5. ASSUME NEW x, x \in Wanted(DOMAIN Hash) PROVE IsWanted(x)
  <2>1. PICK p \in below : Good(p) /\ x = start \o p
    BY <1>1, <1>5
  <2>2. p \in Seq(DOMAIN Hash) /\ Len(p) \in 1..Deep
    BY <1>2
  <2> QED
    BY <1>3, <2>1, <2>2, Zenon
<1>6. ASSUME NEW x, IsWanted(x) PROVE x \in Wanted(DOMAIN Hash)
  <2>1. PICK p \in Seq(DOMAIN Hash) : Len(p) \in 1..Deep /\ x = start \o p
    BY <1>4, <1>6
  <2>2. p \in below
    BY <1>2, <2>1
  <2>3. Good(p)
    BY <1>3, <1>6, <2>1, Zenon
  <2> QED
    BY <1>1, <2>1, <2>2, <2>3, Zenon
<1> QED
  BY <1>5, <1>6

\* Of the paths wanted, those of plain names are the ones whose names keep.
LEMMA WantedPlain ==
  ASSUME start \in Paths, Kept(start), q.max_depth \in Nat
  PROVE  Wanted(Plain) = {x \in Wanted(DOMAIN Hash) : Kept(x)}
<1> DEFINE below(names) == UNION {[1..n -> names] : n \in 1..Deep}
           Good(p) == /\ resolve(start \o p) \notin {Error, None}
                      /\ Matches(EntryAt(start \o p))
                      /\ \A n \in 1..Len(p) - 1 : ~Skips(EntryAt(start \o SubSeq(p, 1, n)))
<1>1. ASSUME NEW names
      PROVE  \A x : x \in Wanted(names) <=> \E p \in below(names) : Good(p) /\ x = start \o p
  <2>1. Wanted(names) = {start \o p : p \in {p \in below(names) : Good(p)}}
    BY DEF Wanted, Deep
  <2> HIDE DEF below, Good
  <2> QED
    BY <2>1
<1>2. ASSUME NEW p \in below(DOMAIN Hash)
      PROVE  Kept(start \o p) <=> p \in below(Plain)
  <2>1. PICK n \in 1..Deep : p \in [1..n -> DOMAIN Hash]
    OBVIOUS
  <2>2. n \in Nat
    BY QueriesAssumption DEF Deep
  <2> DEFINE N == DOMAIN Hash \cup {Up}
             x == start \o p
             a == Len(start)
  <2>3. p \in Seq(N) /\ Len(p) = n /\ start \in Seq(N) /\ a \in Nat /\ DOMAIN start = 1..a
    BY <2>1, <2>2 DEF Paths
  <2>4. /\ x \in Seq(N) /\ Len(x) = a + n
        /\ \A i \in 1..a + n : x[i] = IF i <= a THEN start[i] ELSE p[i - a]
    BY <2>3, ConcatProperties
  <2>5. DOMAIN x = 1..a + n
    <3> HIDE DEF x
    <3> QED
      BY <2>4
  <2>6. \A i \in 1..n : p[i] \in DOMAIN Hash /\ p[i] # Up
    BY <2>1, NamespaceAssumption
  <2>7. ASSUME Kept(x) PROVE p \in [1..n -> Plain]
    <3>1. ASSUME NEW i \in 1..n PROVE p[i] \in Plain
      <4>1. a + i \in 1..a + n /\ ~(a + i <= a) /\ (a + i) - a = i
        BY <2>2, <2>3
      <4> HIDE DEF x, a
      <4>2. x[a + i] = p[i]
        BY <2>4, <4>1
      <4>3. x[a + i] \in Plain \cup {Up}
        BY <2>5, <2>7, <4>1 DEF Kept
      <4> QED
        BY <2>6, <4>2, <4>3
    <3> QED
      BY <2>1, <3>1
  <2>8. ASSUME p \in below(Plain) PROVE Kept(x)
    <3>1. PICK m \in 1..Deep : p \in [1..m -> Plain]
      BY <2>8
    <3>2. \A i \in 1..n : p[i] \in Plain
      BY <2>1, <3>1
    <3> HIDE DEF x, a, below
    <3>3. ASSUME NEW i \in 1..a + n PROVE x[i] \in Plain \cup {Up}
      <4>1. CASE i <= a
        <5>1. i \in DOMAIN start
          BY <2>3, <4>1
        <5> QED
          BY <2>4, <4>1, <5>1 DEF Kept
      <4>2. CASE ~(i <= a)
        <5>1. i - a \in 1..n
          BY <2>2, <2>3, <4>2
        <5> QED
          BY <2>4, <3>2, <4>2, <5>1
      <4> QED
        BY <4>1, <4>2
    <3> QED
      BY <2>5, <3>3 DEF Kept
  <2> QED
    BY <2>7, <2>8
<1>3. below(Plain) \subseteq below(DOMAIN Hash)
  <2>1. \A n \in 1..Deep : [1..n -> Plain] \subseteq [1..n -> DOMAIN Hash]
    BY DEF Plain
  <2> QED
    BY <2>1
<1> HIDE DEF below, Good
<1>4. ASSUME NEW x, x \in Wanted(Plain) PROVE x \in Wanted(DOMAIN Hash) /\ Kept(x)
  <2>1. PICK p \in below(Plain) : Good(p) /\ x = start \o p
    BY <1>1, <1>4
  <2> QED
    BY <1>1, <1>2, <1>3, <2>1
<1>5. ASSUME NEW x, x \in Wanted(DOMAIN Hash), Kept(x) PROVE x \in Wanted(Plain)
  <2>1. PICK p \in below(DOMAIN Hash) : Good(p) /\ x = start \o p
    BY <1>1, <1>5
  <2> QED
    BY <1>1, <1>2, <1>5, <2>1
<1> QED
  BY <1>4, <1>5

\* A call of find that has read its directory.
Frame == [dir : Locs, path : Paths, left : Seq(Shown)]
\* A call of find that is about to be made.
Calls == [dir : Locs, path : Paths]

\* f is the call for a path n below the start that resolves to its directory,
\* and that no option leaves out.
Opened(f, n) ==
  /\ Under(start, f.path) /\ Len(f.path) = Len(start) + n
  /\ Ok(f.path) /\ resolve(f.path) = f.dir
  /\ \A i \in Len(start) + 1..Len(f.path) : ~Skips(At(f.path, i))

\* The entries that are left are of that directory, each name once.
Listing(f) ==
  /\ \A i \in DOMAIN f.left : lookup(f.dir, f.left[i].name) = f.left[i]
  /\ \A i, j \in DOMAIN f.left : f.left[i].name = f.left[j].name => i = j

\* The paths that are still to be looked at: of the entries that are left, and
\* below the directory that is about to be entered.
LeftOf(f, x) == \E i \in DOMAIN f.left : Under(Append(f.path, f.left[i].name), x)
Left(s, x) == \E k \in DOMAIN s : LeftOf(s[k], x)
Coming(c, x) == c # None /\ Under(c.path, x) /\ x # c.path

\* The calls are nested, each for a directory below the one before it.
Nest(s) ==
  /\ s \in Seq(Frame) /\ Len(s) <= Deep
  /\ \A k \in DOMAIN s : Opened(s[k], k - 1) /\ Listing(s[k]) /\ ~Left(s, s[k].path)
  /\ \A j, k \in DOMAIN s : j < k => Under(s[j].path, s[k].path)

\* The call to be made is for a directory below all of them.
Called(s, c) ==
  c # None =>
    /\ c \in Calls /\ Opened(c, Len(s)) /\ ~Left(s, c.path)
    /\ \A j \in DOMAIN s : Under(s[j].path, c.path)

\* What is printed is what is wanted, but for what is still to come, each path once.
Printed(s, c, o) ==
  /\ o \in Seq(Paths) /\ \A i, j \in DOMAIN o : o[i] = o[j] => i = j
  /\ \A x : x \in Range(o) <=> IsWanted(x) /\ ~Left(s, x) /\ ~Coming(c, x)

\* The state of a search, at any point of its loop.
Searching(s, c, o) == Nest(s) /\ Called(s, c) /\ Printed(s, c, o)

\* What find was given.
Given == IsSound(fs) /\ start \in Paths /\ Kept(start) /\ q.max_depth \in Nat

\* The depth is a number.
LEMMA DeepIs == Given => Deep \in Nat /\ Len(start) \in Nat
  BY QueriesAssumption DEF Given, Deep, Paths

\* A call is no marker.
LEMMA CallIs ==
  ASSUME NEW d \in Locs, NEW p \in Paths
  PROVE  /\ [dir |-> d, path |-> p] \in Calls /\ [dir |-> d, path |-> p] # None
<1>1. [dir |-> d, path |-> p] \in Calls
  BY DEF Calls
<1>2. None \notin [dir : Locs, path : Paths]
  BY MarkersAssumption
<1> QED
  BY <1>1, <1>2 DEF Calls

\* find begins with everything still to come.
LEMMA Begun ==
  ASSUME Given, Ok(start)
  PROVE  Searching(<<>>, [dir |-> resolve(start), path |-> start], <<>>)
<1> DEFINE c == [dir |-> resolve(start), path |-> start]
<1>1. start \in Paths /\ resolve(start) \in Locs /\ Deep \in Nat /\ Len(start) \in Nat
  BY ResolveIs, DeepIs DEF Given
<1>2. c \in Calls /\ c # None /\ c.path = start /\ c.dir = resolve(start)
  BY <1>1, CallIs
<1>3. \A x : ~Left(<<>>, x)
  BY DEF Left
<1>4. Opened(c, 0)
  <2>1. Under(start, start) /\ Len(start) = Len(start) + 0 /\ Len(start) + 1..Len(start) = {}
    BY <1>1, UnderSelf
  <2> QED
    BY <1>2, <2>1 DEF Opened
<1>5. Nest(<<>>)
  BY <1>1 DEF Nest
<1>6. Called(<<>>, c)
  BY <1>2, <1>3, <1>4 DEF Called
<1>7. \A x : IsWanted(x) => Coming(c, x)
  BY <1>1, <1>2 DEF IsWanted, Coming
<1>8. Printed(<<>>, c, <<>>)
  BY <1>7 DEF Printed, Range
<1> QED
  BY <1>5, <1>6, <1>8 DEF Searching

\* Nothing below the depth limit is wanted: a call there has nothing to add.
LEMMA Limited ==
  ASSUME Given, NEW s, NEW c, NEW o, Searching(s, c, o), c # None, Len(s) >= Deep
  PROVE  Searching(s, None, o)
<1>1. Deep \in Nat /\ Len(start) \in Nat /\ Len(s) \in Nat
  BY DeepIs DEF Searching, Nest
<1>2. ASSUME NEW x, IsWanted(x) PROVE ~Coming(c, x)
  <2> SUFFICES ASSUME Under(c.path, x), x # c.path PROVE FALSE
    BY DEF Coming
  <2>1. Len(c.path) = Len(start) + Len(s)
    BY DEF Searching, Called, Opened
  <2>2. Len(x) > Len(c.path) /\ Len(x) \in Nat
    BY UnderIs
  <2>3. Len(x) - Len(start) <= Deep
    BY <1>2 DEF IsWanted
  <2> QED
    BY <1>1, <2>1, <2>2, <2>3
<1>3. Printed(s, None, o)
  BY <1>2 DEF Searching, Printed, Coming
<1> QED
  BY <1>3 DEF Searching, Called

\* A directory that is about to be entered is not open: the check for loops
\* never fires.
LEMMA NotOpen ==
  ASSUME Given, NEW s, NEW c, Nest(s), Called(s, c), c # None, NEW k \in DOMAIN s
  PROVE  s[k].dir # c.dir
<1> SUFFICES ASSUME s[k].dir = c.dir PROVE FALSE
  OBVIOUS
<1> DEFINE p == s[k].path
           x == c.path
<1>1. Under(p, x) /\ Ok(p) /\ Ok(x) /\ resolve(p) = c.dir /\ resolve(x) = c.dir
  BY DEF Nest, Called, Opened
<1>2. k \in Nat /\ k - 1 < Len(s) /\ Len(s) \in Nat /\ Len(start) \in Nat
  BY DeepIs DEF Nest
<1>3. Len(p) = Len(start) + (k - 1) /\ Len(x) = Len(start) + Len(s)
  BY DEF Nest, Called, Opened
<1>4. Len(x) > Len(p) /\ Len(p) \in Nat /\ Len(x) \in Nat
  BY <1>2, <1>3
<1> HIDE DEF p, x
<1>5. Len(p) + 1 \in Len(p) + 1..Len(x) /\ (Len(p) + 1) - 1 = Len(p)
  BY <1>4
<1>6. IsDir(resolve(Pre(x, (Len(p) + 1) - 1)))
  BY <1>1, <1>5, Below DEF Given
<1>7. IsDir(c.dir)
  BY <1>1, <1>5, <1>6, UnderStart
<1>8. Depth(resolve(p)) < Depth(resolve(x))
  BY <1>1, <1>4, <1>7, Deeper DEF Given
<1>9. Depth(c.dir) \in Nat
  BY <1>7, DepthIs DEF Given
<1> QED
  BY <1>1, <1>8, <1>9

\* A call that is added adds what is left of it.
LEMMA LeftPush ==
  ASSUME NEW s \in Seq(Frame), NEW f \in Frame
  PROVE  \A x : Left(Append(s, f), x) <=> Left(s, x) \/ LeftOf(f, x)
<1> DEFINE t == Append(s, f)
           m == Len(s)
<1>1. /\ m \in Nat /\ DOMAIN s = 1..m /\ DOMAIN t = 1..m + 1
      /\ t[m + 1] = f /\ \A k \in 1..m : t[k] = s[k]
  OBVIOUS
<1> HIDE DEF t, m
<1>2. \A k : k \in DOMAIN t <=> k \in DOMAIN s \/ k = m + 1
  BY <1>1
<1>3. \A x : Left(t, x) <=> Left(s, x) \/ LeftOf(f, x)
  BY <1>1, <1>2 DEF Left
<1> QED
  BY <1>3 DEF t

\* A call that reads its directory has all its entries left.
LEMMA Entered ==
  ASSUME Given, NEW s, NEW c, NEW o, Searching(s, c, o), c # None, Len(s) < Deep
  PROVE  /\ readdir(c.dir) # Error
         /\ Searching(Append(s, [dir |-> c.dir, path |-> c.path, left |-> readdir(c.dir)]), None, o)
<1> DEFINE L == readdir(c.dir)
           f == [dir |-> c.dir, path |-> c.path, left |-> L]
           t == Append(s, f)
           m == Len(s)
<1>1. /\ s \in Seq(Frame) /\ c \in Calls /\ Opened(c, m) /\ ~Left(s, c.path)
      /\ \A j \in DOMAIN s : Under(s[j].path, c.path)
      /\ c.path \in Paths /\ c.dir \in Locs
  BY DEF Searching, Nest, Called, Calls
<1>2. Valid(c.dir)
  BY <1>1, ResolveIs DEF Given, Opened
<1>3. /\ L \in Seq(Shown) /\ L # Error
      /\ \A i, j \in DOMAIN L : L[i].name = L[j].name => i = j
      /\ \A i \in DOMAIN L : lookup(c.dir, L[i].name) = L[i]
  BY <1>2, Directory DEF Given
<1>4. \A n \in DOMAIN Hash : lookup(c.dir, n) # None =>
        \E i \in DOMAIN L : L[i] = lookup(c.dir, n) /\ L[i].name = n
  BY <1>2, Directory DEF Given
<1>5. \A i \in DOMAIN L : L[i].name \in DOMAIN Hash
  <2>1. \A i \in DOMAIN L : L[i] \in Shown
    BY <1>3
  <2> QED
    BY <2>1 DEF Shown
<1> HIDE DEF L
<1>6. f \in Frame /\ f.dir = c.dir /\ f.path = c.path /\ f.left = L
  BY <1>1, <1>3 DEF Frame
<1>7. Opened(f, m) /\ Listing(f)
  BY <1>1, <1>3, <1>6 DEF Opened, Listing
<1> HIDE DEF f
<1>8. /\ m \in Nat /\ Deep \in Nat /\ Len(start) \in Nat
      /\ t \in Seq(Frame) /\ Len(t) = m + 1 /\ DOMAIN s = 1..m /\ DOMAIN t = 1..m + 1
      /\ t[m + 1] = f /\ \A k \in 1..m : t[k] = s[k]
  BY <1>1, <1>6, DeepIs
<1>9. \A x : Left(t, x) <=> Left(s, x) \/ LeftOf(f, x)
  BY <1>1, <1>6, LeftPush
<1> HIDE DEF t, m
<1>10. ASSUME NEW x, LeftOf(f, x)
       PROVE  Under(c.path, x) /\ x # c.path /\ Len(x) > Len(c.path) /\ Len(x) \in Nat
  <2>1. PICK i \in DOMAIN L : Under(Append(c.path, L[i].name), x)
    BY <1>6, <1>10 DEF LeftOf
  <2>2. Under(c.path, x) /\ x # c.path
    BY <1>1, <1>5, <2>1, UnderChild
  <2> QED
    BY <2>2, UnderIs
<1>11. ASSUME NEW k \in DOMAIN t PROVE ~Left(t, t[k].path)
  <2>1. CASE k = m + 1
    BY <1>1, <1>6, <1>8, <1>9, <1>10, <2>1
  <2>2. CASE k \in 1..m
    <3>1. ~Left(s, s[k].path) /\ Len(s[k].path) = Len(start) + (k - 1)
      BY <1>8, <2>2 DEF Searching, Nest, Opened
    <3>2. Len(c.path) = Len(start) + m
      BY <1>1 DEF Opened
    <3>3. ~(Len(s[k].path) > Len(c.path))
      BY <1>8, <2>2, <3>1, <3>2
    <3> QED
      BY <1>8, <1>9, <1>10, <2>2, <3>1, <3>3
  <2> QED
    BY <1>8, <2>1, <2>2
<1>12. ASSUME NEW k \in DOMAIN t PROVE Opened(t[k], k - 1) /\ Listing(t[k])
  <2>1. CASE k = m + 1
    <3>1. k - 1 = m
      BY <1>8, <2>1
    <3> QED
      BY <1>7, <1>8, <2>1, <3>1
  <2>2. CASE k \in 1..m
    BY <1>8, <2>2 DEF Searching, Nest
  <2> QED
    BY <1>8, <2>1, <2>2
<1>13. ASSUME NEW j \in DOMAIN t, NEW k \in DOMAIN t, j < k PROVE Under(t[j].path, t[k].path)
  <2>1. CASE k = m + 1
    BY <1>1, <1>6, <1>8, <1>13, <2>1
  <2>2. CASE k \in 1..m
    <3>1. j \in 1..m
      BY <1>8, <1>13, <2>2
    <3> QED
      BY <1>8, <1>13, <2>2, <3>1 DEF Searching, Nest
  <2> QED
    BY <1>8, <2>1, <2>2
<1>14. Nest(t)
  <2>1. Len(t) <= Deep
    BY <1>8 DEF m
  <2> QED
    BY <1>8, <1>11, <1>12, <1>13, <2>1 DEF Nest
<1>15. ASSUME NEW x, IsWanted(x), Coming(c, x) PROVE LeftOf(f, x)
  <2> DEFINE n == x[Len(c.path) + 1]
             k == Len(c.path) + 1
  <2>1. Under(c.path, x) /\ x # c.path /\ Under(start, x) /\ Ok(x)
    BY <1>15 DEF Coming, IsWanted
  <2>2. k \in 1..Len(x) /\ n \in DOMAIN Hash /\ Under(Append(c.path, n), x)
    BY <2>1, UnderNext
  <2>3. k \in Len(c.path) + 1..Len(x) /\ k - 1 = Len(c.path)
    BY <2>1, <2>2, UnderIs
  <2> HIDE DEF k
  <2>4. lookup(resolve(Pre(x, k - 1)), x[k]) # None
    BY <2>1, <2>3, Below DEF Given
  <2>5. Pre(x, k - 1) = c.path
    BY <2>1, <2>3, UnderStart
  <2>6. lookup(c.dir, n) # None
    BY <1>1, <2>4, <2>5 DEF Opened, k
  <2>7. PICK i \in DOMAIN L : L[i].name = n
    BY <1>4, <2>2, <2>6
  <2> QED
    BY <1>6, <2>2, <2>7 DEF LeftOf
<1>16. Printed(t, None, o)
  <2>1. \A x : LeftOf(f, x) => Coming(c, x)
    BY <1>10 DEF Coming
  <2>2. \A x : ~Coming(None, x)
    BY DEF Coming
  <2>3. Printed(s, c, o)
    BY DEF Searching
  <2> QED
    BY <1>9, <1>15, <2>1, <2>2, <2>3 DEF Printed
<1>17. Searching(t, None, o)
  BY <1>14, <1>16 DEF Searching, Called
<1> QED
  BY <1>3, <1>17 DEF t, f, L

\* The entry that an appended name finds.
LEMMA AtAppend ==
  ASSUME NEW p \in Paths, NEW n \in DOMAIN Hash
  PROVE  /\ At(Append(p, n), Len(p) + 1) = lookup(resolve(p), n)
         /\ \A i \in 1..Len(p) : At(Append(p, n), i) = At(p, i)
<1> DEFINE N == DOMAIN Hash \cup {Up}
           x == Append(p, n)
<1>1. p \in Seq(N) /\ n \in N /\ Len(p) \in Nat
  BY DEF Paths
<1>2. x[Len(p) + 1] = n /\ \A i \in 1..Len(p) : x[i] = p[i]
  BY UnderAppend
<1> HIDE DEF N
<1>3. \A k \in 0..Len(p) : Pre(x, k) = Pre(p, k)
  BY <1>1, PreAppend
<1> HIDE DEF x
<1>4. Pre(x, (Len(p) + 1) - 1) = p
  <2>1. (Len(p) + 1) - 1 = Len(p) /\ Len(p) \in 0..Len(p)
    BY <1>1
  <2> QED
    BY <1>1, <1>3, <2>1, PreAll
<1>5. At(x, Len(p) + 1) = lookup(resolve(p), n)
  BY <1>2, <1>4 DEF At
<1>6. \A i \in 1..Len(p) : At(x, i) = At(p, i)
  <2> TAKE i \in 1..Len(p)
  <2>1. i - 1 \in 0..Len(p)
    BY <1>1
  <2> QED
    BY <1>2, <1>3, <2>1 DEF At
<1> QED
  BY <1>5, <1>6 DEF x

\* The innermost call, without its first entry.
Rest(s) == [s EXCEPT ![Len(s)].left = Tail(@)]

\* NextEntry: the entry e is taken, and entered if it is a directory that is not left
\* out.
Takes(s, e, path, t, c) ==
  /\ s # <<>> /\ Last(s).left # <<>>
  /\ e = Head(Last(s).left) /\ path = Append(Last(s).path, e.name)
  /\ t = Rest(s)
  /\ c = IF Kind(e) = "dir" /\ ~Skips(e) THEN [dir |-> e.loc, path |-> path] ELSE None

\* The innermost frame, with its first entry taken.
LEMMA Taken ==
  ASSUME NEW s \in Seq(Frame), s # <<>>, NEW t, t = Rest(s),
         s[Len(s)].left # <<>>
  PROVE  /\ t \in Seq(Frame) /\ Len(t) = Len(s) /\ DOMAIN t = DOMAIN s
         /\ \A k \in DOMAIN s : t[k].path = s[k].path /\ t[k].dir = s[k].dir
         /\ \A k \in DOMAIN s : k # Len(s) => t[k] = s[k]
         /\ t[Len(s)].left = Tail(s[Len(s)].left)
         /\ Len(s) \in DOMAIN s
<1> DEFINE m == Len(s)
           f == s[m]
           g == [f EXCEPT !.left = Tail(@)]
<1>1. m \in Nat /\ m \in DOMAIN s /\ DOMAIN s = 1..m /\ f \in Frame
  OBVIOUS
<1>2. t = [s EXCEPT ![m] = g]
  BY DEF Rest
<1>3. PICK d \in Locs, p \in Paths, l \in Seq(Shown) : f = [dir |-> d, path |-> p, left |-> l]
  BY <1>1 DEF Frame
<1>4. g = [dir |-> d, path |-> p, left |-> Tail(l)]
  <2>1. \A x : [[dir |-> d, path |-> p, left |-> l] EXCEPT !.left = x]
                = [dir |-> d, path |-> p, left |-> x]
    OBVIOUS
  <2>2. f.left = l
    BY <1>3
  <2> QED
    BY Zenon, <1>3, <2>1, <2>2
<1>5. l # <<>> /\ f.left = l /\ f.dir = d /\ f.path = p
  BY <1>3
<1>6. Tail(l) \in Seq(Shown)
  BY <1>5
<1>7. g \in Frame /\ g.dir = f.dir /\ g.path = f.path /\ g.left = Tail(f.left)
  BY <1>4, <1>5, <1>6 DEF Frame
<1> HIDE DEF g, f
<1>8. DOMAIN t = DOMAIN s /\ \A k \in DOMAIN s : t[k] = IF k = m THEN g ELSE s[k]
  BY <1>1, <1>2
<1>9. t \in Seq(Frame) /\ Len(t) = m
  <2>1. t = [k \in DOMAIN s |-> IF k = m THEN g ELSE s[k]]
    BY <1>1, <1>2
  <2>2. \A k \in 1..m : (IF k = m THEN g ELSE s[k]) \in Frame
    <3>1. \A k \in 1..m : s[k] \in Frame
      BY <1>1
    <3> QED
      BY <1>7, <3>1
  <2> HIDE DEF m
  <2>3. t \in [1..m -> Frame]
    BY <1>1, <2>1, <2>2
  <2> QED
    BY <1>1, <2>3
<1>10. f = s[m]
  BY DEF f
<1> HIDE DEF m
<1> QED
  BY <1>1, <1>7, <1>8, <1>9, <1>10 DEF m

\* What is left is less by the paths of the entry that was taken.
LEMMA LeftTaken ==
  ASSUME NEW s \in Seq(Frame), s # <<>>, NEW t, t = Rest(s),
         s[Len(s)].left # <<>>
  PROVE  \A x : Left(s, x) <=> Left(t, x) \/ Under(Append(s[Len(s)].path, Head(s[Len(s)].left).name), x)
<1> DEFINE m == Len(s)
           l == s[m].left
           p == s[m].path
<1>1. /\ DOMAIN t = DOMAIN s
      /\ \A k \in DOMAIN s : t[k].path = s[k].path
      /\ \A k \in DOMAIN s : k # m => t[k] = s[k]
      /\ t[m].left = Tail(l) /\ m \in DOMAIN s
  BY Taken
<1>2. l \in Seq(Shown) /\ l # <<>>
  <2>1. s[m] \in Frame
    BY <1>1
  <2> HIDE DEF m
  <2> QED
    BY <2>1 DEF Frame, m
<1> HIDE DEF l
<1>3. Head(l) = l[1] /\ DOMAIN l = 1..Len(l) /\ Len(l) \in Nat \ {0}
      /\ DOMAIN Tail(l) = 1..Len(l) - 1 /\ \A i \in 1..Len(l) - 1 : Tail(l)[i] = l[i + 1]
  BY <1>2
<1>4. ASSUME NEW x PROVE LeftOf(s[m], x) <=> LeftOf(t[m], x) \/ Under(Append(p, Head(l).name), x)
  <2>0. s[m].left = l /\ s[m].path = p /\ t[m].left = Tail(l) /\ t[m].path = p
    BY <1>1 DEF l
  <2> HIDE DEF m, p
  <2>1. LeftOf(s[m], x) <=> \E i \in DOMAIN l : Under(Append(p, l[i].name), x)
    BY <2>0 DEF LeftOf
  <2>2. LeftOf(t[m], x) <=> \E i \in 1..Len(l) - 1 : Under(Append(p, l[i + 1].name), x)
    <3> DEFINE h == Tail(l)
    <3>1. DOMAIN h = 1..Len(l) - 1 /\ \A i \in 1..Len(l) - 1 : h[i] = l[i + 1]
      BY <1>3
    <3> HIDE DEF h
    <3>2. LeftOf(t[m], x) <=> \E i \in DOMAIN h : Under(Append(p, h[i].name), x)
      BY <2>0 DEF LeftOf, h
    <3> QED
      BY <3>1, <3>2
  <2>3. ASSUME NEW i \in DOMAIN l, i # 1 PROVE i - 1 \in 1..Len(l) - 1 /\ (i - 1) + 1 = i
    BY <1>3, <2>3
  <2>4. 1 \in DOMAIN l /\ \A i \in 1..Len(l) - 1 : i + 1 \in DOMAIN l
    BY <1>3
  <2> QED
    BY <1>3, <2>1, <2>2, <2>3, <2>4
<1> HIDE DEF m, p
<1>5. ASSUME NEW x PROVE Left(s, x) <=> Left(t, x) \/ Under(Append(p, Head(l).name), x)
  BY <1>1, <1>4 DEF Left
<1> QED
  BY <1>5 DEF m, p, l

\* The entry that is taken is printed if it matches, and all below it comes next.
\* Of one that is left out, or that is no directory, nothing below is wanted.
LEMMA WentOn ==
  ASSUME Given, NEW s, NEW o, Searching(s, None, o),
         NEW e, NEW path, NEW t, NEW c, Takes(s, e, path, t, c)
  PROVE  Searching(t, c, IF Matches(e) THEN Append(o, path) ELSE o)
<1> DEFINE m == Len(s)
           f == s[m]
           l == f.left
           a == Len(start)
           r == IF Matches(e) THEN Append(o, path) ELSE o
<1>1. s \in Seq(Frame) /\ m \in Nat /\ m \in DOMAIN s /\ DOMAIN s = 1..m /\ m <= Deep
      /\ f \in Frame /\ Last(s) = f /\ a \in Nat /\ Deep \in Nat
  <2>1. s \in Seq(Frame) /\ s # <<>> /\ m <= Deep
    BY DEF Searching, Nest, Takes
  <2> QED
    BY <2>1, DeepIs DEF Last
<1>2. l \in Seq(Shown) /\ l # <<>> /\ f.path \in Paths /\ f.dir \in Locs
  BY <1>1 DEF Frame, Takes
<1>3. e = l[1] /\ 1 \in DOMAIN l /\ e \in Shown /\ path = Append(f.path, e.name)
  BY <1>1, <1>2 DEF Takes
<1>4. Opened(f, m - 1) /\ Listing(f) /\ ~Left(s, f.path)
  BY <1>1 DEF Searching, Nest
<1>5. e.name \in DOMAIN Hash /\ e.loc \in Locs /\ lookup(f.dir, e.name) = e /\ e # None
  <2>1. None \notin Shown
    BY MarkersAssumption
  <2> QED
    BY <1>3, <1>4, <2>1 DEF Shown, Listing
<1>6. /\ t \in Seq(Frame) /\ Len(t) = m /\ DOMAIN t = DOMAIN s
      /\ \A k \in DOMAIN s : t[k].path = s[k].path /\ t[k].dir = s[k].dir
      /\ \A k \in DOMAIN s : k # m => t[k] = s[k]
      /\ t[m].left = Tail(l)
  <2>1. s[Len(s)].left # <<>> /\ s # <<>> /\ t = Rest(s)
    BY <1>1 DEF Takes
  <2> QED
    BY <1>1, <2>1, Taken
<1>7. \A x : Left(s, x) <=> Left(t, x) \/ Under(path, x)
  <2>1. s[Len(s)].left # <<>> /\ s # <<>> /\ t = Rest(s)
    BY <1>1 DEF Takes
  <2>2. \A x : Left(s, x) <=> Left(t, x) \/ Under(Append(s[Len(s)].path, Head(s[Len(s)].left).name), x)
    BY <1>1, <2>1, LeftTaken
  <2> QED
    BY <1>1, <2>2 DEF Takes
<1>8. /\ path \in Paths /\ Under(f.path, path) /\ Len(f.path) \in Nat
      /\ Len(path) = Len(f.path) + 1 /\ path[Len(f.path) + 1] = e.name
  BY <1>2, <1>3, <1>5, UnderAppend
<1>9. /\ Under(start, f.path) /\ Len(f.path) = a + (m - 1) /\ Ok(f.path) /\ resolve(f.path) = f.dir
      /\ \A i \in a + 1..Len(f.path) : ~Skips(At(f.path, i))
  BY <1>4 DEF Opened
<1>10. Under(start, path) /\ Len(path) = a + m
  BY <1>1, <1>8, <1>9, UnderTrans
<1>11. Ok(path) /\ resolve(path) = e.loc
  BY <1>2, <1>3, <1>5, <1>9, ResolveChild DEF Given
<1>12. At(path, Len(path)) = e /\ \A i \in 1..Len(f.path) : At(path, i) = At(f.path, i)
  BY <1>2, <1>3, <1>5, <1>8, <1>9, AtAppend
<1>13. Leads(f.dir, e)
  <2>1. Valid(f.dir)
    BY <1>2, <1>9, ResolveIs DEF Given
  <2> QED
    BY <1>5, <2>1, Directory DEF Given
<1>14. \A i \in a + 1..Len(path) - 1 : ~Skips(At(path, i))
  <2> TAKE i \in a + 1..Len(path) - 1
  <2>1. i \in 1..Len(f.path) /\ i \in a + 1..Len(f.path)
    BY <1>1, <1>8, <1>9
  <2> QED
    BY <1>9, <1>12, <2>1
<1>15. IsWanted(path) <=> Matches(e)
  <2>1. Len(path) > a /\ Len(path) - a <= Deep
    BY <1>1, <1>10
  <2> QED
    BY <1>10, <1>11, <1>12, <1>14, <2>1 DEF IsWanted
<1>16. ~Left(t, path)
  <2> SUFFICES ASSUME NEW k \in DOMAIN t, NEW i \in DOMAIN t[k].left,
                      Under(Append(t[k].path, t[k].left[i].name), path)
               PROVE  FALSE
    BY DEF Left, LeftOf
  <2>1. CASE k = m
    <3>1. i \in DOMAIN Tail(l) /\ t[k].left[i] = l[i + 1] /\ i + 1 \in DOMAIN l /\ i + 1 # 1
      <4> HIDE DEF l
      <4>1. Len(l) \in Nat \ {0} /\ DOMAIN l = 1..Len(l) /\ DOMAIN Tail(l) = 1..Len(l) - 1
            /\ \A j \in 1..Len(l) - 1 : Tail(l)[j] = l[j + 1]
        BY <1>2
      <4>2. i \in DOMAIN Tail(l) /\ t[k].left[i] = Tail(l)[i]
        BY <1>6, <2>1
      <4> QED
        BY <4>1, <4>2
    <3>2. l[i + 1].name \in DOMAIN Hash
      <4>1. l[i + 1] \in Shown
        BY <1>2, <3>1
      <4> QED
        BY <4>1 DEF Shown
    <3>3. Under(Append(f.path, l[i + 1].name), path)
      BY <1>1, <1>6, <2>1, <3>1
    <3>4. path[Len(f.path) + 1] = l[i + 1].name
      BY <1>2, <3>2, <3>3, UnderChild
    <3>5. l[i + 1].name = l[1].name
      BY <1>3, <1>8, <3>4
    <3> QED
      BY <1>3, <1>4, <3>1, <3>5 DEF Listing
  <2>2. CASE k # m
    <3> DEFINE n == s[k].left[i].name
    <3>1. t[k] = s[k] /\ k \in DOMAIN s /\ i \in DOMAIN s[k].left /\ Under(Append(s[k].path, n), path)
      BY <1>6, <2>2
    <3>2. s[k].path \in Paths /\ n \in DOMAIN Hash
      <4>1. s[k] \in Frame
        BY <1>1, <3>1
      <4>2. s[k].path \in Paths /\ s[k].left \in Seq(Shown)
        BY <4>1 DEF Frame
      <4>3. s[k].left[i] \in Shown
        BY <3>1, <4>2
      <4> QED
        BY <4>2, <4>3 DEF Shown
    <3>3. Len(s[k].path) = a + (k - 1) /\ k \in 1..m - 1
      BY <1>1, <2>2, <3>1 DEF Searching, Nest, Opened
    <3>4. Len(Append(s[k].path, n)) = Len(s[k].path) + 1
      BY <3>2, UnderAppend
    <3>5. Len(Append(s[k].path, n)) <= Len(f.path)
      BY <1>1, <1>9, <3>3, <3>4
    <3>6. Under(Append(s[k].path, n), f.path)
      BY <1>8, <3>1, <3>5, UnderBetween
    <3>7. Left(s, f.path)
      BY <3>1, <3>6 DEF Left, LeftOf
    <3> QED
      BY <1>4, <3>7
  <2> QED
    BY <2>1, <2>2
<1> HIDE DEF l, f, m
<1>17. Nest(t)
  <2>1. \A k \in DOMAIN t : k # m => Listing(t[k])
    BY <1>1, <1>6 DEF Searching, Nest
  <2>2. Listing(t[m])
    <3>1. DOMAIN Tail(l) = 1..Len(l) - 1 /\ Len(l) \in Nat \ {0} /\ DOMAIN l = 1..Len(l)
          /\ \A i \in 1..Len(l) - 1 : Tail(l)[i] = l[i + 1]
      BY <1>2
    <3>2. /\ \A i \in DOMAIN l : lookup(f.dir, l[i].name) = l[i]
          /\ \A i, j \in DOMAIN l : l[i].name = l[j].name => i = j
      BY <1>4 DEF Listing, l
    <3>3. t[m].left = Tail(l) /\ t[m].dir = f.dir
      BY <1>1, <1>6 DEF f
    <3>4. \A i \in DOMAIN Tail(l) : i + 1 \in DOMAIN l /\ Tail(l)[i] = l[i + 1]
      BY <3>1
    <3>5. \A i \in DOMAIN Tail(l) : lookup(f.dir, Tail(l)[i].name) = Tail(l)[i]
      BY <3>2, <3>4
    <3>6. ASSUME NEW i \in DOMAIN Tail(l), NEW j \in DOMAIN Tail(l), Tail(l)[i].name = Tail(l)[j].name
          PROVE  i = j
      <4>1. i + 1 = j + 1
        BY <3>2, <3>4, <3>6
      <4> QED
        BY <3>1, <4>1
    <3> QED
      BY <3>3, <3>5, <3>6 DEF Listing
  <2>3. \A k \in DOMAIN t : Opened(t[k], k - 1)
    <3>1. \A k \in DOMAIN s : Opened(s[k], k - 1)
      BY DEF Searching, Nest
    <3> QED
      BY <1>6, <3>1 DEF Opened
  <2>4. \A k \in DOMAIN t : ~Left(t, t[k].path)
    <3>1. \A k \in DOMAIN s : ~Left(s, s[k].path)
      BY DEF Searching, Nest
    <3> QED
      BY <1>6, <1>7, <3>1
  <2>5. \A j, k \in DOMAIN t : j < k => Under(t[j].path, t[k].path)
    <3>1. \A j, k \in DOMAIN s : j < k => Under(s[j].path, s[k].path)
      BY DEF Searching, Nest
    <3> QED
      BY <1>6, <3>1
  <2>6. \A k \in DOMAIN t : Listing(t[k])
    BY <2>1, <2>2
  <2> QED
    BY <1>1, <1>6, <2>3, <2>4, <2>5, <2>6 DEF Nest
<1>18. c # None => Kind(e) = "dir" /\ ~Skips(e) /\ c = [dir |-> e.loc, path |-> path]
                   /\ c \in Calls /\ c.path = path /\ c.dir = e.loc
  BY <1>5, <1>8, CallIs DEF Takes
<1>19. Kind(e) = "dir" /\ ~Skips(e) => c # None /\ c.path = path
  BY <1>5, <1>8, CallIs DEF Takes
<1>20. Called(t, c)
  <2> SUFFICES ASSUME c # None
               PROVE  /\ c \in Calls /\ Opened(c, Len(t)) /\ ~Left(t, c.path)
                      /\ \A j \in DOMAIN t : Under(t[j].path, c.path)
    BY DEF Called
  <2>1. \A i \in a + 1..Len(path) : ~Skips(At(path, i))
    <3> TAKE i \in a + 1..Len(path)
    <3>1. i = Len(path) \/ i \in a + 1..Len(path) - 1
      BY <1>1, <1>10
    <3> QED
      BY <1>12, <1>14, <1>18, <3>1
  <2>2. Opened(c, Len(t))
    BY <1>6, <1>10, <1>11, <1>18, <2>1 DEF Opened
  <2>3. ASSUME NEW j \in DOMAIN s PROVE Under(s[j].path, path)
    <3>1. CASE j = m
      BY <1>8, <3>1 DEF f
    <3>2. CASE j # m
      <4>1. j < m
        BY <1>1, <3>2
      <4>2. Under(s[j].path, f.path)
        BY <1>1, <4>1 DEF Searching, Nest, f
      <4> QED
        BY <1>8, <4>2, UnderTrans
    <3> QED
      BY <3>1, <3>2
  <2> QED
    BY <1>6, <1>16, <1>18, <2>2, <2>3
<1>21. ASSUME NEW x, IsWanted(x), Under(path, x), x # path PROVE Coming(c, x)
  <2>1. Under(start, x) /\ Ok(x) /\ \A i \in a + 1..Len(x) - 1 : ~Skips(At(x, i))
    BY <1>21 DEF IsWanted
  <2>2. Len(path) \in Nat /\ Len(x) \in Nat /\ Len(path) < Len(x)
    BY <1>21, UnderIs
  <2> DEFINE k == Len(path) + 1
  <2>3. k \in Len(path) + 1..Len(x) /\ k - 1 = Len(path)
    BY <2>2
  <2> HIDE DEF k
  <2>4. IsDir(resolve(Pre(x, k - 1)))
    BY <1>21, <2>1, <2>3, Below DEF Given
  <2>5. Pre(x, k - 1) = path
    BY <1>21, <2>3, UnderStart
  <2>6. IsDir(e.loc)
    BY <1>11, <2>4, <2>5
  <2>7. Kind(e) = "dir"
    <3>1. Real(e.loc) /\ inode(e.loc) = "dir"
      BY <2>6, ReadsReal DEF IsDir, Given
    <3>2. e.loc # Placeholder
      BY <3>1, NotPlaceholder
    <3> QED
      BY <1>13, <3>1, <3>2 DEF Leads, Kind
  <2>8. At(x, Len(path)) = e
    <3> DEFINE N == DOMAIN Hash \cup {Up}
               b == Len(path)
    <3>1. b \in Nat /\ b - 1 \in 0..b /\ b <= Len(x) /\ b >= 1 /\ b - 1 \in 0..Len(x) /\ b - 1 <= Len(x)
      BY <1>8, <2>2
    <3>2. x \in Seq(N) /\ path \in Seq(N) /\ \A i \in 1..b : x[i] = path[i]
      BY <1>21 DEF Under, Paths
    <3> HIDE DEF N, b
    <3>3. \A i \in 1..b - 1 : path[i] = x[i]
      BY <3>1, <3>2
    <3>4. Pre(path, b - 1) = Pre(x, b - 1)
      BY <3>1, <3>2, <3>3, PreAgree DEF b
    <3>5. x[b] = path[b]
      BY <3>1, <3>2
    <3> QED
      BY <1>12, <3>4, <3>5 DEF At, b
  <2>9. ~Skips(e)
    <3>1. Len(path) \in a + 1..Len(x) - 1
      BY <1>1, <1>10, <2>2
    <3> QED
      BY <2>1, <2>8, <3>1
  <2> QED
    BY <1>19, <1>21, <2>7, <2>9 DEF Coming
<1>22. ASSUME NEW x, Coming(c, x) PROVE Under(path, x) /\ x # path
  BY <1>18, <1>22 DEF Coming
<1>23. Under(path, path)
  BY <1>8, UnderSelf
<1>24. /\ o \in Seq(Paths) /\ \A i, j \in DOMAIN o : o[i] = o[j] => i = j
       /\ \A x : x \in Range(o) <=> IsWanted(x) /\ ~Left(s, x)
  BY DEF Searching, Printed, Coming
<1>25. path \notin Range(o)
  BY <1>7, <1>23, <1>24
<1>26. r \in Seq(Paths) /\ (\A i, j \in DOMAIN r : r[i] = r[j] => i = j)
       /\ \A x : x \in Range(r) <=> x \in Range(o) \/ (Matches(e) /\ x = path)
  <2>1. CASE ~Matches(e)
    BY <1>24, <2>1
  <2>2. CASE Matches(e)
    <3> DEFINE v == Append(o, path)
               z == Len(o)
    <3>1. /\ z \in Nat /\ DOMAIN o = 1..z /\ v \in Seq(Paths) /\ DOMAIN v = 1..z + 1
          /\ v[z + 1] = path /\ \A i \in 1..z : v[i] = o[i]
      BY <1>8, <1>24
    <3>2. r = v
      BY <2>2
    <3> HIDE DEF v, z, r
    <3>3. \A i \in DOMAIN o : o[i] # path
      BY <1>25 DEF Range
    <3>4. \A i : i \in DOMAIN v <=> i \in DOMAIN o \/ i = z + 1
      BY <3>1
    <3>5. ASSUME NEW i \in DOMAIN v, NEW j \in DOMAIN v, v[i] = v[j] PROVE i = j
      BY <1>24, <3>1, <3>3, <3>4, <3>5
    <3>6. \A x : x \in Range(v) <=> x \in Range(o) \/ x = path
      BY <3>1, <3>4 DEF Range
    <3> QED
      BY <2>2, <3>1, <3>2, <3>5, <3>6
  <2> QED
    BY <2>1, <2>2
<1> HIDE DEF r
<1>27. ASSUME NEW x PROVE x \in Range(r) <=> IsWanted(x) /\ ~Left(t, x) /\ ~Coming(c, x)
  <2>1. CASE ~Under(path, x)
    BY <1>7, <1>22, <1>23, <1>24, <1>26, <2>1
  <2>2. CASE x = path
    BY <1>15, <1>16, <1>22, <1>25, <1>26, <2>2
  <2>3. CASE Under(path, x) /\ x # path
    BY <1>7, <1>21, <1>24, <1>26, <2>3
  <2> QED
    BY <2>1, <2>2, <2>3
<1>28. Printed(t, c, r)
  BY <1>26, <1>27 DEF Printed
<1> QED
  BY <1>17, <1>20, <1>28 DEF Searching, r

\* A call that has no entries left adds nothing.
LEMMA Returned ==
  ASSUME Given, NEW s, NEW o, Searching(s, None, o), s # <<>>, Last(s).left = <<>>
  PROVE  Searching(Front(s), None, o)
<1> DEFINE t == Front(s)
           m == Len(s)
<1>1. s \in Seq(Frame) /\ m <= Deep /\ Deep \in Nat
  BY DeepIs DEF Searching, Nest
<1>2. /\ t \in Seq(Frame) /\ m \in Nat \ {0} /\ Len(t) = m - 1
      /\ \A k \in 1..m - 1 : t[k] = s[k]
  BY <1>1, SplitLast
<1>3. DOMAIN s = 1..m /\ DOMAIN t = 1..m - 1 /\ s[m].left = <<>>
  BY <1>1, <1>2 DEF Last
<1> HIDE DEF t, m
<1>4. \A k : k \in DOMAIN s <=> k \in DOMAIN t \/ k = m
  BY <1>2, <1>3
<1>5. \A x : ~LeftOf(s[m], x)
  BY <1>3 DEF LeftOf
<1>6. \A x : Left(t, x) <=> Left(s, x)
  BY <1>2, <1>3, <1>4, <1>5 DEF Left
<1>7. \A k \in DOMAIN t : k \in DOMAIN s /\ t[k] = s[k]
  BY <1>2, <1>3, <1>4
<1>8. Nest(t)
  <2>1. Len(t) <= Deep
    BY <1>1, <1>2 DEF m
  <2>2. /\ \A k \in DOMAIN s : Opened(s[k], k - 1) /\ Listing(s[k]) /\ ~Left(s, s[k].path)
        /\ \A j, k \in DOMAIN s : j < k => Under(s[j].path, s[k].path)
    BY DEF Searching, Nest
  <2> QED
    BY <1>2, <1>6, <1>7, <2>1, <2>2 DEF Nest
<1>9. Printed(t, None, o)
  BY <1>6 DEF Searching, Printed
<1> QED
  BY <1>8, <1>9 DEF Searching, Called, t

\* The inductive invariant of find.
SearchInv ==
  /\ fs \in Filesystems
  /\ pc \in {"start", "subvols"} => q = None
  /\ pc = "start" => stack = <<>> /\ call = None /\ out = <<>>
  /\ Sound =>
       /\ pc = "find" => /\ Given /\ Searching(stack, call, out)
                         /\ call # None \/ stack # <<>>
       /\ Found => Given /\ Searching(<<>>, None, out)

\* While the filesystem and the options stay, the state of the search does.
LEMMA SameSearching ==
  ASSUME fs' = fs, start' = start, q' = q
  PROVE  /\ Given' <=> Given
         /\ \A s, c, o : Searching(s, c, o)' <=> Searching(s, c, o)
<1>1. \A path : Len(path) \in Nat => resolve(path)' = resolve(path)
  BY SameResolve
<1>2. \A path \in Paths : (resolve(path)' = resolve(path)) /\ (Ok(path)' <=> Ok(path))
  BY <1>1 DEF Paths, Ok
<1>3. \A d, n : lookup(d, n)' = lookup(d, n)
  BY SameQueries
<1>4. \A e : (Skips(e)' <=> Skips(e)) /\ (Matches(e)' <=> Matches(e))
  BY SameItems DEF Skips, Matches
<1>5. Deep' = Deep
  BY DEF Deep
<1>6. ASSUME NEW x \in Paths, NEW i \in 1..Len(x) PROVE At(x, i)' = At(x, i)
  <2>1. i - 1 \in 0..Len(x) /\ Len(x) \in Nat
    BY <1>6 DEF Paths
  <2>2. Pre(x, i - 1) \in Paths
    BY <2>1, PreFacts DEF Paths
  <2> QED
    BY <1>2, <1>3, <2>2 DEF At
<1>7. ASSUME NEW x, Under(start, x)
      PROVE  /\ x \in Paths /\ \A i \in Len(start) + 1..Len(x) : At(x, i)' = At(x, i)
             /\ Len(x) > Len(start) => Len(x) \in Len(start) + 1..Len(x)
             /\ \A i \in Len(start) + 1..Len(x) - 1 : i \in Len(start) + 1..Len(x)
  <2>1. x \in Paths /\ Len(start) \in Nat /\ Len(x) \in Nat
    BY <1>7, UnderIs
  <2> QED
    BY <1>6, <2>1
<1>8. ASSUME NEW x PROVE IsWanted(x)' <=> IsWanted(x)
  <2>1. CASE ~Under(start, x)
    BY <2>1 DEF IsWanted
  <2>2. CASE Under(start, x)
    BY <1>2, <1>4, <1>5, <1>7, <2>2 DEF IsWanted
  <2> QED
    BY <2>1, <2>2
<1>9. ASSUME NEW f, NEW n PROVE Opened(f, n)' <=> Opened(f, n)
  <2>1. CASE ~Under(start, f.path)
    BY <2>1 DEF Opened
  <2>2. CASE Under(start, f.path)
    BY <1>2, <1>4, <1>7, <2>2 DEF Opened
  <2> QED
    BY <2>1, <2>2
<1>10. \A f : Listing(f)' <=> Listing(f)
  BY <1>3 DEF Listing
<1>11. Given' <=> Given
  BY DEF Given
<1>12. ASSUME NEW s PROVE Nest(s)' <=> Nest(s)
  BY <1>5, <1>9, <1>10 DEF Nest
<1>13. ASSUME NEW s, NEW c PROVE Called(s, c)' <=> Called(s, c)
  BY <1>9 DEF Called
<1>14. ASSUME NEW s, NEW c, NEW o PROVE Printed(s, c, o)' <=> Printed(s, c, o)
  BY <1>8 DEF Printed
<1> QED
  BY <1>11, <1>12, <1>13, <1>14 DEF Searching

\* What Begun says, for the state after a step.
BeginsWell ==
  Given /\ Ok(start) => Searching(<<>>, [dir |-> resolve(start), path |-> start], <<>>)

\* Begun holds in every state.
LEMMA BegunAgain == BeginsWell
  BY Begun DEF BeginsWell

\* Of a sound filesystem is_snapshot tells of every subvolume.
LEMMA NoneFails ==
  ASSUME IsSound(fs)
  PROVE  \A e : ~Fails(e)
  BY DEF IsSound, Fails, CannotTell

\* At the beginning nothing is printed.
LEMMA SearchInvInit == Init => SearchInv
  BY DEF Init, SearchInv, Found

\* Every step of find keeps what is printed true to what is wanted.
LEMMA SearchInvStep == FindInv /\ SearchInv /\ [Next]_vars => SearchInv'
<1> SUFFICES ASSUME FindInv, SearchInv, [Next]_vars PROVE SearchInv'
  OBVIOUS
<1>1. CASE BeginFind
  <2>1. /\ pc = "start" /\ start' \in Starts /\ q' \in Wishes /\ fs' = fs
        /\ stack' = stack /\ out' = out /\ stack = <<>> /\ out = <<>> /\ fs \in Filesystems
    BY <1>1 DEF BeginFind, SearchInv
  <2>2. /\ Len(start') \in Nat /\ start' \in Paths /\ Kept(start')
        /\ q'.max_depth \in Nat /\ q' # None
    BY <2>1, QueriesAssumption DEF Paths
  <2>3. resolve(start)' = resolve(start')
    BY <2>1, <2>2, SameResolve
  <2>4. CASE resolve(start') \in {Error, None}
    <3>1. pc' = "done" /\ failed' = TRUE
      BY <1>1, <2>4 DEF BeginFind
    <3> QED
      BY <2>1, <3>1 DEF SearchInv, Found
  <2>5. CASE resolve(start') \notin {Error, None}
    <3>1. pc' = "find" /\ call' = [dir |-> resolve(start'), path |-> start']
      BY <1>1, <2>5 DEF BeginFind
    <3>2. ASSUME Sound' PROVE Given' /\ Searching(stack, call, out)' /\ call' # None
      <4>1. IsSound(fs)'
        BY <2>1, <3>2, SoundAssumption DEF Sound
      <4>2. Given'
        BY <2>2, <4>1 DEF Given, Kept
      <4>3. Ok(start)'
        BY <2>3, <2>5 DEF Ok
      <4>4. BeginsWell'
        BY BegunAgain, PTL
      <4>5. call' = [dir |-> resolve(start), path |-> start]'
        BY <2>3, <3>1
      <4>6. Searching(stack, call, out)'
        BY <2>1, <4>2, <4>3, <4>4, <4>5 DEF BeginsWell
      <4>7. resolve(start) ' \in Locs
        <5>1. IsSound(fs)
          BY <2>1, <4>1
        <5>2. resolve(start') \in Locs
          BY <2>2, <2>5, <5>1, ResolveIs DEF Ok
        <5> QED
          BY <2>3, <5>2
      <4>8. call' # None
        BY <2>2, <2>3, <3>1, <4>7, CallIs
      <4> QED
        BY <4>2, <4>6, <4>8
    <3> QED
      BY <2>1, <3>1, <3>2 DEF SearchInv, Found
  <2> QED
    BY <2>4, <2>5
<1>2. ASSUME pc = "find", Sound, EnterDirectory \/ NextEntry \/ LeaveDirectory
      PROVE  SearchInv'
  <2>0. fs' = fs /\ start' = start /\ q' = q /\ fs \in Filesystems
    BY <1>2 DEF EnterDirectory, NextEntry, LeaveDirectory, SearchInv
  <2>1. Given /\ Searching(stack, call, out) /\ (call # None \/ stack # <<>>)
    BY <1>2 DEF SearchInv
  <2>2. Given' /\ \A s, c, o : Searching(s, c, o)' <=> Searching(s, c, o)
    BY <2>0, <2>1, SameSearching
  <2>3. ASSUME pc' = "find", Searching(stack', call', out'), call' # None \/ stack' # <<>>
        PROVE  SearchInv'
    BY <2>0, <2>2, <2>3 DEF SearchInv, Found
  <2>4. ASSUME pc' = "done", Searching(<<>>, None, out') PROVE SearchInv'
    BY <2>0, <2>2, <2>4 DEF SearchInv
  <2>5. CASE EnterDirectory
    <3>1. call # None /\ out' = out
      BY <2>5 DEF EnterDirectory
    <3>2. Deep \in Nat /\ stack \in Seq(Frame) /\ Len(stack) \in Nat
      BY <2>1, DeepIs DEF Searching, Nest
    <3>3. AtLimit <=> Len(stack) >= Deep
      BY <2>1, <3>2, QueriesAssumption DEF AtLimit, Deep, Given
    <3>4. CASE AtLimit
      <4>1. Return(stack, call.path, FALSE)
        BY <2>5, <3>4 DEF EnterDirectory
      <4>2. Searching(stack, None, out)
        BY <2>1, <3>1, <3>3, <3>4, Limited
      <4>3. CASE stack = <<>>
        <5>1. pc' = "done"
          BY <4>1, <4>3 DEF Return
        <5> QED
          BY <2>4, <3>1, <4>2, <4>3, <5>1
      <4>4. CASE stack # <<>>
        <5>1. pc' = "find" /\ stack' = stack /\ call' = None
          BY <1>2, <4>1, <4>4 DEF Return
        <5> QED
          BY <2>3, <3>1, <4>2, <4>4, <5>1
      <4> QED
        BY <4>3, <4>4
    <3>5. CASE ~AtLimit
      <4> DEFINE t == Append(stack, [dir |-> call.dir, path |-> call.path, left |-> readdir(call.dir)])
      <4>1. readdir(call.dir) # Error /\ Searching(t, None, out)
        <5>1. Len(stack) < Deep
          BY <3>2, <3>3, <3>5
        <5> QED
          BY <2>1, <3>1, <5>1, Entered
      <4>2. call.dir \notin seen
        <5>1. \A k \in DOMAIN stack : stack[k].dir # call.dir
          BY <2>1, <3>1, NotOpen DEF Searching
        <5>2. \A e : ~Fails(e)
          BY <2>1, NoneFails DEF Given
        <5> QED
          BY <4>1, <5>1, <5>2 DEF FindInv, SeenAreOpen
      <4>3. stack' = t /\ call' = None /\ pc' = "find"
        BY <1>2, <2>5, <3>5, <4>1, <4>2 DEF EnterDirectory
      <4>4. t # <<>>
        <5>1. [dir |-> call.dir, path |-> call.path, left |-> readdir(call.dir)] \in
                {[dir |-> call.dir, path |-> call.path, left |-> readdir(call.dir)]}
          OBVIOUS
        <5> QED
          BY <3>2, AppendProperties
      <4> HIDE DEF t
      <4> QED
        BY <2>3, <3>1, <4>1, <4>3, <4>4
    <3> QED
      BY <3>4, <3>5
  <2>6. CASE NextEntry
    <3> DEFINE e == Head(Last(stack).left)
               path == Append(Last(stack).path, e.name)
               t == Rest(stack)
               c == IF Kind(e) = "dir" /\ ~Skips(e) THEN [dir |-> e.loc, path |-> path] ELSE None
    <3>0. ~Fails(e)
      BY <2>1, NoneFails DEF Given
    <3>1. /\ call = None /\ Last(stack).left # <<>> /\ stack # <<>> /\ pc' = "find"
          /\ out' = (IF Matches(e) THEN Append(out, path) ELSE out) /\ stack' = t /\ call' = c
      BY <1>2, <2>1, <2>6, <3>0 DEF NextEntry, Rest
    <3>2. Takes(stack, e, path, t, c)
      BY <3>1, Zenon DEF Takes
    <3> HIDE DEF e, path, t, c
    <3>3. Searching(t, c, IF Matches(e) THEN Append(out, path) ELSE out)
      BY <2>1, <3>1, <3>2, WentOn
    <3>4. t # <<>>
      <4>1. stack \in Seq(Frame) /\ Len(stack) \in DOMAIN stack
        BY <2>1, <3>1 DEF Searching, Nest
      <4>2. DOMAIN t = DOMAIN stack
        BY DEF t, Rest
      <4> QED
        BY <4>1, <4>2
    <3> QED
      BY <2>3, <3>1, <3>3, <3>4
  <2>7. CASE LeaveDirectory
    <3>1. /\ call = None /\ Last(stack).left = <<>> /\ stack # <<>> /\ out' = out
          /\ Return(Front(stack), Last(stack).path, FALSE)
      BY <2>1, <2>7 DEF LeaveDirectory
    <3>2. Searching(Front(stack), None, out)
      BY <2>1, <3>1, Returned
    <3>3. CASE Front(stack) = <<>>
      <4>1. pc' = "done"
        BY <3>1, <3>3 DEF Return
      <4> QED
        BY <2>4, <3>1, <3>2, <3>3, <4>1
    <3>4. CASE Front(stack) # <<>>
      <4>1. pc' = "find" /\ stack' = Front(stack) /\ call' = None
        BY <1>2, <3>1, <3>4 DEF Return
      <4> QED
        BY <2>3, <3>1, <3>2, <3>4, <4>1
    <3> QED
      BY <3>3, <3>4
  <2> QED
    BY <1>2, <2>5, <2>6, <2>7
<1>3. ASSUME pc = "find", ~Sound, EnterDirectory \/ NextEntry \/ LeaveDirectory
      PROVE  SearchInv'
  <2>1. fs' = fs /\ q' = q /\ pc' \in {"find", "done"} /\ fs \in Filesystems
    BY <1>3 DEF EnterDirectory, NextEntry, LeaveDirectory, Return, SearchInv
  <2> QED
    BY <1>3, <2>1 DEF SearchInv, Sound
<1>4. CASE BeginSubvols \/ NextSubvol \/ NextPass
  <2>1. fs' = fs /\ q' = q /\ pc \in {"start", "subvols"} /\ pc' \in {"subvols", "done"}
    BY <1>4 DEF BeginSubvols, NextSubvol, NextPass, findVars
  <2> QED
    BY SMTT(40), <2>1 DEF SearchInv, Found
<1>5. CASE UNCHANGED vars
  <2>1. /\ fs' = fs /\ start' = start /\ q' = q /\ pc' = pc /\ stack' = stack /\ call' = call
        /\ out' = out /\ failed' = failed
    BY <1>5 DEF vars
  <2>2. (Given' <=> Given) /\ \A s, c, o : Searching(s, c, o)' <=> Searching(s, c, o)
    BY <2>1, SameSearching
  <2>3. /\ Searching(stack, call, out)' <=> Searching(stack, call, out)
        /\ Searching(<<>>, None, out)' <=> Searching(<<>>, None, out)
    BY <2>1, <2>2
  <2> QED
    BY <2>1, <2>2, <2>3 DEF SearchInv, Found, Sound
<1> QED
  BY <1>1, <1>2, <1>3, <1>4, <1>5 DEF Next, EnterDirectory, NextEntry, LeaveDirectory

\* SearchInv holds throughout.
LEMMA SearchInvariant == Spec => []SearchInv
<1> QED
  BY FindInvInit, FindInvStep, SearchInvInit, SearchInvStep, PTL DEF Spec

\* A sequence that has each value once is as long as the set of its values.
LEMMA Counted ==
  ASSUME NEW T, NEW s \in Seq(T), \A i, j \in DOMAIN s : s[i] = s[j] => i = j
  PROVE  Len(s) = Cardinality(Range(s))
<1>1. Len(s) \in Nat /\ DOMAIN s = 1..Len(s)
  OBVIOUS
<1>2. s \in [DOMAIN s -> Range(s)]
  BY DEF Range
<1>3. s \in Surjection(DOMAIN s, Range(s))
  BY <1>2 DEF Surjection, Range
<1>4. s \in Injection(DOMAIN s, Range(s))
  BY <1>2, Fun_IsInj
<1>5. s \in Bijection(DOMAIN s, Range(s))
  BY <1>3, <1>4 DEF Bijection
<1>6. IsFiniteSet(1..Len(s)) /\ Cardinality(1..Len(s)) = Len(s)
  BY SMTT(40), <1>1, FS_Interval
<1>7. Cardinality(DOMAIN s) = Cardinality(Range(s))
  <2>1. IsFiniteSet(DOMAIN s)
    BY <1>1, <1>6
  <2>2. ExistsBijection(DOMAIN s, Range(s))
    BY <1>5 DEF ExistsBijection
  <2> QED
    BY <2>1, <2>2, FS_Bijection
<1> QED
  BY <1>1, <1>6, <1>7

\* When find is done nothing is still to come: it has printed all that is wanted.
LEMMA AtTheEnd ==
  ASSUME SearchInv, Found, Sound
  PROVE  /\ Given /\ out \in Seq(Paths) /\ \A i, j \in DOMAIN out : out[i] = out[j] => i = j
         /\ Range(out) = Wanted(DOMAIN Hash)
<1>1. Given /\ Searching(<<>>, None, out)
  BY DEF SearchInv
<1>2. \A x : ~Left(<<>>, x) /\ ~Coming(None, x)
  BY DEF Left, Coming
<1>3. \A x : x \in Range(out) <=> IsWanted(x)
  BY <1>1, <1>2 DEF Searching, Printed
<1>4. \A x : x \in Wanted(DOMAIN Hash) <=> IsWanted(x)
  BY <1>1, WantedIs DEF Given
<1>5. Range(out) = Wanted(DOMAIN Hash)
  BY <1>3, <1>4
<1> QED
  BY <1>1, <1>5 DEF Searching, Printed

\* On a sound filesystem find, which goes through the DIR_INDEX items of each directory,
\* goes through just the paths that lookup, which goes through DIR_ITEMs by hash, leads
\* along (within the depth, the kinds and the names that were asked for), each once.
\* As printed, the paths among them whose names are UTF-8 and hold no separator are just
\* such paths that Fs::resolve takes somewhere.
THEOREM FindAgreesWithResolve == Spec => []FindsWhatResolves
<1>1. SearchInv => FindsWhatResolves
  <2> SUFFICES ASSUME SearchInv, Found, Sound PROVE FindsWhatResolves
    BY DEF FindsWhatResolves
  <2> DEFINE keep == {path \in Range(out) : Kept(path)}
  <2>1. /\ out \in Seq(Paths) /\ \A i, j \in DOMAIN out : out[i] = out[j] => i = j
        /\ Range(out) = Wanted(DOMAIN Hash) /\ Given
    BY AtTheEnd
  <2>2. Len(out) = Cardinality(Range(out))
    BY <2>1, Counted
  <2>3. Wanted(Plain) = keep
    BY <2>1, WantedPlain DEF Given
  <2>4. \A path \in keep : GivenBack(path) = path
    <3>1. \A path \in Range(out) : path \in Paths
      BY <2>1 DEF Range
    <3> QED
      BY <3>1, GivenBackKept
  <2> HIDE DEF keep
  <2>5. {GivenBack(path) : path \in keep} = keep
    BY <2>4
  <2> QED
    BY <2>1, <2>2, <2>3, <2>5 DEF FindsWhatResolves, keep
<1> QED
  BY <1>1, SearchInvariant, PTL

\* However subvolumes, snapshots and their snapshots nest, find reaches no directory of a
\* sound filesystem by two paths, since "inside a snapshot, a nested subvolume is only a
\* placeholder" (fs.rs 409).
THEOREM DirectoriesOnce == Spec => []EachDirectoryOnce
<1>1. SearchInv => EachDirectoryOnce
  <2> SUFFICES ASSUME SearchInv, Found, Sound, NEW i \in DOMAIN out, NEW j \in DOMAIN out,
                      i # j, resolve(out[i]) = resolve(out[j])
               PROVE  inode(resolve(out[i])) # "dir" \/ is_placeholder(resolve(out[i]))
    BY DEF EachDirectoryOnce
  <2>1. /\ Given /\ \A k, l \in DOMAIN out : out[k] = out[l] => k = l
        /\ Range(out) = Wanted(DOMAIN Hash)
    BY AtTheEnd
  <2> DEFINE x == out[i]
             y == out[j]
  <2>2. x # y /\ x \in Wanted(DOMAIN Hash) /\ y \in Wanted(DOMAIN Hash)
    BY <2>1 DEF Range
  <2> HIDE DEF x, y
  <2>3. IsWanted(x) /\ IsWanted(y)
    BY <2>1, <2>2, WantedIs DEF Given
  <2>4. Under(start, x) /\ Under(start, y) /\ Ok(x) /\ Ok(y)
    BY <2>3 DEF IsWanted
  <2>5. resolve(x) = resolve(y)
    BY DEF x, y
  <2>6. ~IsDir(resolve(x))
    BY <2>1, <2>2, <2>4, <2>5, OnePath DEF Given
  <2>7. Valid(resolve(x))
    BY <2>1, <2>4, ResolveIs DEF Given, Under
  <2>8. CASE resolve(x) = Placeholder
    BY <2>8, PlaceholderIs DEF x
  <2>9. CASE Real(resolve(x))
    <3>1. inode(resolve(x)) # "dir"
      BY <2>1, <2>6, <2>9, ReadsReal DEF Given, IsDir
    <3> QED
      BY <3>1 DEF x
  <2> QED
    BY <2>7, <2>8, <2>9 DEF Valid
<1> QED
  BY <1>1, SearchInvariant, PTL

-----------------------------------------------------------------------------
(* subvols: the path of a directory in its tree.                           *)

\* lookup finds the entry of a name that is listed.
LEMMA EntryFound ==
  ASSUME IsSound(fs), NEW d, Real(d), NEW e \in Entries(Tree(d.tree), d.ino)
  PROVE  e.name \in DOMAIN Hash /\ lookup(d, e.name) = entry(d, e)
<1> DEFINE E == Entries(Tree(d.tree), d.ino)
<1>1. e.name \in DOMAIN Hash
  BY EntryLeads DEF Stored
<1>2. PICK f \in E : f.name = e.name /\ lookup(d, e.name) = entry(d, f)
  BY <1>1, LookupFinds
<1>3. f = e
  <2>1. SoundTree(Tree(d.tree)) /\ d.ino \in DOMAIN Tree(d.tree).index
    BY TreeIsSound DEF Real, Entries
  <2> DEFINE s == Tree(d.tree).index[d.ino]
  <2>2. \A i, j \in DOMAIN s : s[i].name = s[j].name => i = j
    BY <2>1 DEF SoundTree
  <2>3. e \in Range(s) /\ f \in Range(s)
    BY <2>1 DEF Entries
  <2> HIDE DEF s
  <2> QED
    BY <1>2, <2>2, <2>3 DEF Range
<1> QED
  BY <1>1, <1>2, <1>3

\* One turn of the loop of path_in_tree (fs.rs).
ClimbOne(id, here) ==
  IF here = Error \/ here.at = RootOf(id).ino THEN here
  ELSE IF ~Reads(Loc(id, here.at)) \/ here.at \notin DOMAIN Tree(id).refs THEN Error
  ELSE [at    |-> Tree(id).refs[here.at][1].parent,
        names |-> <<Tree(id).refs[here.at][1].name>> \o here.names]

\* c is the climb from ino, m turns of it.
IsClimb(c, id, ino, m) ==
  c = [n \in 0..m |-> IF n = 0 THEN [at |-> ino, names |-> <<>>] ELSE ClimbOne(id, c[n - 1])]

\* Every inode is climbed from.
LEMMA ClimbExists ==
  ASSUME NEW id, NEW ino
  PROVE  \A m \in Nat : \E c : IsClimb(c, id, ino, m)
<1> DEFINE Bad == {m \in Nat : ~ \E c : IsClimb(c, id, ino, m)}
           first == [at |-> ino, names |-> <<>>]
<1> HIDE DEF first
<1> SUFFICES ASSUME Bad # {} PROVE FALSE
  OBVIOUS
<1>1. PICK b \in Bad : \A m \in Bad : b <= m
  BY Least
<1>2. CASE b = 0
  <2> DEFINE w == [k \in 0..0 |-> first]
  <2>1. \A k \in 0..0 : k = 0
    OBVIOUS
  <2>2. w = [k \in 0..0 |-> IF k = 0 THEN first ELSE ClimbOne(id, w[k - 1])]
    BY <2>1
  <2> HIDE DEF w
  <2>3. IsClimb(w, id, ino, 0)
    BY <2>2 DEF IsClimb, first
  <2> QED
    BY <1>1, <1>2, <2>3
<1>3. CASE b # 0
  <2>1. b - 1 \in Nat /\ b - 1 \notin Bad
    BY <1>1, <1>3
  <2>2. PICK w : IsClimb(w, id, ino, b - 1)
    BY <2>1
  <2> DEFINE v == [k \in 0..b |-> IF k = b THEN ClimbOne(id, w[b - 1]) ELSE w[k]]
  <2>3. \A k \in 0..b : v[k] = IF k = b THEN ClimbOne(id, w[b - 1]) ELSE w[k]
    OBVIOUS
  <2>4. v = [k \in 0..b |-> v[k]]
    OBVIOUS
  <2> HIDE DEF v
  <2>5. \A k \in 0..b - 1 : w[k] = IF k = 0 THEN first ELSE ClimbOne(id, w[k - 1])
    BY <2>2, Zenon DEF IsClimb, first
  <2>6. \A k \in 0..b : v[k] = IF k = 0 THEN first ELSE ClimbOne(id, v[k - 1])
    <3> TAKE k \in 0..b
    <3>1. CASE k = 0
      BY <1>3, <2>1, <2>3, <2>5, <3>1
    <3>2. CASE k # 0
      <4>1. v[k - 1] = w[k - 1]
        BY <1>1, <2>3, <3>2
      <4>2. v[k] = ClimbOne(id, w[k - 1])
        BY <1>1, <2>3, <2>5, <3>2
      <4> QED
        BY <3>2, <4>1, <4>2
    <3> QED
      BY <3>1, <3>2
  <2>7. IsClimb(v, id, ino, b)
    BY <2>4, <2>6, Zenon DEF IsClimb, first
  <2> QED
    BY <1>1, <2>7
<1> QED
  BY <1>2, <1>3

\* path_in_tree is the names of the whole climb.
LEMMA PathIsClimb ==
  ASSUME NEW id, NEW ino
  PROVE  \E c : /\ IsClimb(c, id, ino, MaxClimb)
                /\ path_in_tree(id, ino) =
                     IF ~HasTree(id) \/ c[MaxClimb] = Error \/ c[MaxClimb].at # RootOf(id).ino
                     THEN Error ELSE c[MaxClimb].names
<1> DEFINE C == CHOOSE c : IsClimb(c, id, ino, MaxClimb)
<1>0. MaxClimb \in Nat
  BY NamespaceAssumption
<1>1. IsClimb(C, id, ino, MaxClimb)
  BY <1>0, ClimbExists, Zenon
<1>2. path_in_tree(id, ino) =
        IF ~HasTree(id) \/ C[MaxClimb] = Error \/ C[MaxClimb].at # RootOf(id).ino
        THEN Error ELSE C[MaxClimb].names
  BY Zenon DEF path_in_tree, IsClimb, ClimbOne
<1> QED
  BY <1>1, <1>2, Zenon

\* A name put before the rest may be appended to what comes before both.
LEMMA Rejoined ==
  ASSUME NEW T, NEW s \in Seq(T), NEW x \in T, NEW r \in Seq(T)
  PROVE  <<x>> \o r \in Seq(T) /\ s \o (<<x>> \o r) = Append(s, x) \o r
<1>1. <<x>> \in Seq(T)
  OBVIOUS
<1>2. Append(s, x) = s \o <<x>>
  OBVIOUS
<1>3. s \o (<<x>> \o r) = (s \o <<x>>) \o r
  BY <1>1, ConcatAssociative
<1> QED
  BY <1>1, <1>2, <1>3

\* What has been climbed is the way back.
Climbed(id, ino, here) ==
  /\ here \in [at : Nat, names : Seq(DOMAIN Hash)]
  /\ here.at \in DOMAIN Tree(id).index
  /\ \A base \in Paths :
       Ok(base) /\ resolve(base) = Loc(id, here.at) =>
         /\ base \o here.names \in Paths /\ Ok(base \o here.names)
         /\ resolve(base \o here.names) = Loc(id, ino)

\* What has been climbed is no error.
LEMMA NoMarker ==
  ASSUME NEW here \in [at : Nat, names : Seq(DOMAIN Hash)]
  PROVE  here # Error
<1>1. here.names \in Paths
  BY DEF Paths
<1>2. here \in [at : Nat, names : Paths]
  BY <1>1
<1> QED
  BY <1>2, MarkersAssumption

\* One turn puts one more name before the way back.
LEMMA ClimbsOne ==
  ASSUME IsSound(fs), NEW id, HasTree(id), NEW ino, NEW here, Climbed(id, ino, here)
  PROVE  ClimbOne(id, here) = Error \/ Climbed(id, ino, ClimbOne(id, here))
<1> DEFINE t == Tree(id)
           ref == t.refs[here.at][1]
           new == [at |-> ref.parent, names |-> <<ref.name>> \o here.names]
<1>1. here # Error
  BY NoMarker DEF Climbed
<1>2. CASE ClimbOne(id, here) \in {here, Error}
  BY <1>2
<1>3. CASE ClimbOne(id, here) \notin {here, Error}
  <2>1. ClimbOne(id, here) = new /\ here.at # RootOf(id).ino
    BY <1>1, <1>3 DEF ClimbOne
  <2>2. PICK r \in Range(fs.roots) :
           /\ r.id = id /\ t = fs.trees[r.root] /\ RootOf(id) = Loc(id, r.dirid) /\ id \in Nat /\ id # 0
    BY TreeIs
  <2>3. here.at \in DOMAIN t.index \ {r.dirid}
    BY <2>1, <2>2 DEF Climbed, Loc
  <2>4. SoundParent(t, here.at)
    BY <2>2, <2>3 DEF IsSound
  <2>5. PICK e \in Entries(t, ref.parent) : ~e.subvol /\ e.obj = here.at /\ e.name = ref.name
    BY <2>4 DEF SoundParent
  <2>6. SoundTree(t)
    BY TreeIsSound
  <2>7. ref.parent \in DOMAIN t.index /\ ref.parent \in DOMAIN t.inodes /\ ref.parent \in Nat
    BY SMTT(40), <2>5, <2>6 DEF SoundTree, Entries
  <2> DEFINE d == Loc(id, ref.parent)
  <2>8. Real(d) /\ d.tree = id /\ d.ino = ref.parent
    BY <2>2, <2>7 DEF Real, Loc, Locs
  <2>9. e.name \in DOMAIN Hash /\ lookup(d, e.name) = entry(d, e) /\ entry(d, e) \in Shown
    <3>1. e \in Entries(Tree(d.tree), d.ino)
      BY <2>8
    <3> HIDE DEF d
    <3> QED
      BY <2>8, <3>1, EntryFound, EntryLeads
  <2>10. entry(d, e).loc = Loc(id, here.at)
    BY <2>5, <2>8 DEF entry
  <2>11. lookup(d, e.name) # None
    BY <2>9, MarkersAssumption
  <2> DEFINE n == ref.name
             h == here.names
  <2>12. n \in DOMAIN Hash /\ h \in Seq(DOMAIN Hash) /\ h \in Paths
    BY <2>5, <2>9 DEF Climbed, Paths
  <2>13. <<n>> \o h \in Seq(DOMAIN Hash)
    <3>1. <<>> \in Seq(DOMAIN Hash)
      OBVIOUS
    <3> HIDE DEF n, h
    <3> QED
      BY <2>12, <3>1, Rejoined
  <2>14. new \in [at : Nat, names : Seq(DOMAIN Hash)] /\ new.at = ref.parent /\ new.names = <<n>> \o h
    BY <2>7, <2>13
  <2>15. ASSUME NEW base \in Paths, Ok(base), resolve(base) = d
         PROVE  /\ base \o (<<n>> \o h) \in Paths /\ Ok(base \o (<<n>> \o h))
                /\ resolve(base \o (<<n>> \o h)) = Loc(id, ino)
    <3> DEFINE longer == Append(base, n)
    <3>1. longer \in Paths /\ Ok(longer) /\ resolve(longer) = Loc(id, here.at)
      <4>1. lookup(resolve(base), n) # None /\ lookup(resolve(base), n).loc = Loc(id, here.at)
        BY <2>5, <2>9, <2>10, <2>11, <2>15
      <4> HIDE DEF n, d
      <4> QED
        BY <2>12, <2>15, <4>1, ResolveChild
    <3>2. base \o (<<n>> \o h) = longer \o h
      <4>1. base \in Seq(DOMAIN Hash \cup {Up}) /\ n \in DOMAIN Hash \cup {Up} /\ h \in Seq(DOMAIN Hash \cup {Up})
        BY <2>12 DEF Paths
      <4> HIDE DEF n, h
      <4> QED
        BY <4>1, Rejoined
    <3> HIDE DEF longer
    <3>3. longer \o h \in Paths /\ Ok(longer \o h) /\ resolve(longer \o h) = Loc(id, ino)
      BY <3>1 DEF Climbed
    <3> QED
      BY <3>2, <3>3
  <2> HIDE DEF new, n, h, d
  <2>16. Climbed(id, ino, new)
    BY <2>7, <2>14, <2>15 DEF Climbed, d
  <2> QED
    BY <2>1, <2>16
<1> QED
  BY <1>2, <1>3

\* The path of a directory in its tree leads there from the tree's root.
LEMMA PathInTree ==
  ASSUME IsSound(fs), NEW id, HasTree(id), NEW ino \in DOMAIN Tree(id).index,
         path_in_tree(id, ino) # Error,
         NEW base \in Paths, Ok(base), resolve(base) = RootOf(id)
  PROVE  LET path == base \o path_in_tree(id, ino)
         IN  path \in Paths /\ Ok(path) /\ resolve(path) = Loc(id, ino)
<1>0. MaxClimb \in Nat
  BY NamespaceAssumption
<1>1. PICK c : /\ IsClimb(c, id, ino, MaxClimb)
               /\ path_in_tree(id, ino) =
                     IF ~HasTree(id) \/ c[MaxClimb] = Error \/ c[MaxClimb].at # RootOf(id).ino
                     THEN Error ELSE c[MaxClimb].names
  BY PathIsClimb
<1> DEFINE first == [at |-> ino, names |-> <<>>]
<1>2. \A k \in 0..MaxClimb : c[k] = IF k = 0 THEN first ELSE ClimbOne(id, c[k - 1])
  BY <1>1, Zenon DEF IsClimb
<1>3. Climbed(id, ino, first)
  <2>1. ino \in Nat
    BY TreeIsSound DEF SoundTree
  <2>2. first \in [at : Nat, names : Seq(DOMAIN Hash)] /\ first.at = ino /\ first.names = <<>>
    BY <2>1
  <2>3. \A b \in Paths : b \o <<>> = b
    BY ConcatEmptySeq DEF Paths
  <2> HIDE DEF first
  <2> QED
    BY <2>2, <2>3 DEF Climbed
<1> HIDE DEF first
<1> DEFINE Bad == {k \in Nat : k <= MaxClimb /\ c[k] # Error /\ ~Climbed(id, ino, c[k])}
<1>4. Bad = {}
  <2> SUFFICES ASSUME Bad # {} PROVE FALSE
    OBVIOUS
  <2>1. PICK b \in Bad : \A k \in Bad : b <= k
    BY Least
  <2>2. b # 0 /\ b \in 0..MaxClimb
    BY <1>0, <1>2, <1>3, <2>1
  <2>3. b - 1 \in Nat /\ b - 1 \notin Bad /\ b - 1 <= MaxClimb /\ c[b] = ClimbOne(id, c[b - 1])
    BY <1>0, <1>2, <2>1, <2>2
  <2>4. c[b - 1] # Error
    BY <2>1, <2>3 DEF ClimbOne
  <2>5. Climbed(id, ino, c[b - 1])
    BY <2>3, <2>4
  <2>6. Climbed(id, ino, c[b])
    BY <2>1, <2>3, <2>5, ClimbsOne
  <2> QED
    BY <2>1, <2>6
<1> DEFINE end == c[MaxClimb]
<1>5. end # Error /\ end.at = RootOf(id).ino /\ path_in_tree(id, ino) = end.names
  BY <1>1
<1>6. Climbed(id, ino, end)
  BY <1>0, <1>4, <1>5
<1>7. RootOf(id) = Loc(id, end.at)
  BY <1>5 DEF RootOf, Loc
<1> HIDE DEF end
<1> QED
  BY <1>5, <1>6, <1>7 DEF Climbed

-----------------------------------------------------------------------------
(* subvols: the passes.                                                    *)

\* The ids of some items.
Ids(s) == {s[i].id : i \in DOMAIN s}
\* The ids of all ROOT_ITEMs.
RootIds == {fs.roots[k].id : k \in DOMAIN fs.roots}
\* The subvolumes that have a parent.
Targets == {i \in RootIds : Backrefs(i) # {}}
\* The ROOT_BACKREF that subvols goes by: the last.
BackrefOf(id) == fs.backrefs[Max(Backrefs(id))]

\* In a sound filesystem a subvolume that has a parent has one ROOT_BACKREF,
\* which is also its last.
LEMMA BackrefIs ==
  ASSUME IsSound(fs), NEW id, Backrefs(id) # {}
  PROVE  /\ BackrefOf(id) \in Range(fs.backrefs) /\ BackrefOf(id) \in BackrefItems
         /\ BackrefOf(id).child = id
<1>1. PICK i \in DOMAIN fs.backrefs : fs.backrefs[i].child = id
  BY DEF Backrefs
<1>2. /\ fs.backrefs \in Seq(BackrefItems)
      /\ \A j, k \in DOMAIN fs.backrefs : fs.backrefs[j].child = fs.backrefs[k].child => j = k
  BY DEF IsSound, SoundLinks
<1>3. i \in Int
  BY <1>1, <1>2
<1>4. Backrefs(id) = {i}
  BY <1>1, <1>2 DEF Backrefs
<1>5. BackrefOf(id) = fs.backrefs[i]
  BY <1>3, <1>4, OnlyOne DEF BackrefOf
<1> QED
  BY <1>1, <1>2, <1>5 DEF Range

\* A subvolume that has a parent is an entry of a directory of it, and lies one deeper.
LEMMA TargetIs ==
  ASSUME IsSound(fs), NEW id \in Targets
  PROVE  /\ id >= 256 /\ id \in Nat /\ id # FS_TREE_OBJECTID /\ HasTree(id)
         /\ IsDir(RootOf(id))
         /\ HasTree(BackrefOf(id).parent) /\ Linked(BackrefOf(id).parent, id)
         /\ BackrefOf(id).dirid \in DOMAIN Tree(BackrefOf(id).parent).index
         /\ \E e \in Entries(Tree(BackrefOf(id).parent), BackrefOf(id).dirid) :
              e.subvol /\ e.obj = id /\ e.name = BackrefOf(id).name
         /\ BackrefOf(id).parent # FS_TREE_OBJECTID => BackrefOf(id).parent \in Targets
         /\ Depth(RootOf(id)) = Depth(Loc(BackrefOf(id).parent, BackrefOf(id).dirid)) + 1
<1> DEFINE b == BackrefOf(id)
<1>1. b \in Range(fs.backrefs) /\ b \in BackrefItems /\ b.child = id
  BY BackrefIs DEF Targets
<1> HIDE DEF b
<1>2. /\ b.child >= 256 /\ <<b.parent, b.child>> \in fs.refs
      /\ \E r \in Range(fs.roots) : r.id = b.child
      /\ \E r \in Range(fs.roots) : r.id = b.parent /\
            \E e \in Entries(fs.trees[r.root], b.dirid) :
              e.subvol /\ e.obj = b.child /\ e.name = b.name
      /\ b.parent # FS_TREE_OBJECTID => \E c \in Range(fs.backrefs) : c.child = b.parent
  BY <1>1 DEF IsSound, SoundLinks
<1>3. id \in Nat /\ id >= 256 /\ id # FS_TREE_OBJECTID
  BY <1>1, <1>2 DEF BackrefItems, FS_TREE_OBJECTID
<1>4. HasTree(id) /\ IsDir(RootOf(id))
  BY <1>1, <1>2, RootIs, TreeIsSound
<1>5. PICK r \in Range(fs.roots) : r.id = b.parent /\
            \E e \in Entries(fs.trees[r.root], b.dirid) :
              e.subvol /\ e.obj = id /\ e.name = b.name
  BY <1>1, <1>2
<1>6. HasTree(b.parent) /\ Tree(b.parent) = fs.trees[r.root]
  BY <1>5, RootIs
<1>7. PICK e \in Entries(Tree(b.parent), b.dirid) : e.subvol /\ e.obj = id /\ e.name = b.name
  BY <1>5, <1>6
<1>8. b.dirid \in DOMAIN Tree(b.parent).index
  BY <1>7 DEF Entries
<1>9. ASSUME b.parent # FS_TREE_OBJECTID PROVE b.parent \in Targets
  <2>1. PICK c \in Range(fs.backrefs) : c.child = b.parent
    BY <1>2, <1>9
  <2>2. Backrefs(b.parent) # {}
    BY <2>1 DEF Backrefs, Range
  <2>3. b.parent \in RootIds
    BY <1>5 DEF RootIds, Range
  <2> QED
    BY <2>2, <2>3 DEF Targets
<1>10. Depth(RootOf(id)) = Depth(Loc(b.parent, b.dirid)) + 1
  <2>1. PICK c \in Range(fs.roots) : c.id = id /\ RootOf(id) = Loc(id, c.dirid)
    BY <1>4, TreeIs
  <2>2. fs.depth[<<c.id, c.dirid>>] = fs.depth[<<b.parent, b.dirid>>] + 1
    BY <1>1, <2>1 DEF IsSound, SoundDepths
  <2> QED
    BY <2>1, <2>2 DEF Depth, Loc
<1> QED
  BY <1>1, <1>2, <1>3, <1>4, <1>6, <1>7, <1>8, <1>9, <1>10 DEF Linked, b

\* The path that is put together for a subvolume leads to its root.
LEMMA SubvolPath ==
  ASSUME IsSound(fs), NEW id \in Targets, NEW base \in Paths, Ok(base),
         resolve(base) = RootOf(BackrefOf(id).parent),
         path_in_tree(BackrefOf(id).parent, BackrefOf(id).dirid) # Error
  PROVE  LET b == BackrefOf(id)
             path == PathOf(base, path_in_tree(b.parent, b.dirid), b.name)
         IN  path \in Paths /\ Ok(path) /\ resolve(path) = RootOf(id)
<1> DEFINE b == BackrefOf(id)
           up == base \o path_in_tree(b.parent, b.dirid)
           d == Loc(b.parent, b.dirid)
<1>1. /\ HasTree(b.parent) /\ Linked(b.parent, id) /\ HasTree(id)
      /\ b.dirid \in DOMAIN Tree(b.parent).index
      /\ \E e \in Entries(Tree(b.parent), b.dirid) : e.subvol /\ e.obj = id /\ e.name = b.name
  BY TargetIs
<1>2. PICK e \in Entries(Tree(b.parent), b.dirid) : e.subvol /\ e.obj = id /\ e.name = b.name
  BY <1>1
<1> HIDE DEF b
<1>3. up \in Paths /\ Ok(up) /\ resolve(up) = d
  BY <1>1, PathInTree DEF b
<1>4. SoundTree(Tree(b.parent)) /\ b.parent \in Nat /\ b.parent # 0
  BY <1>1, TreeIs, TreeIsSound
<1>5. Real(d) /\ d.tree = b.parent /\ d.ino = b.dirid
  BY <1>1, <1>4 DEF Real, Loc, Locs, SoundTree
<1> HIDE DEF d
<1>6. /\ e.name \in DOMAIN Hash /\ lookup(d, e.name) = entry(d, e) /\ entry(d, e) \in Shown
  BY <1>2, <1>5, EntryFound, EntryLeads
<1>7. entry(d, e).loc = RootOf(id)
  BY <1>1, <1>2, <1>5 DEF entry
<1>8. lookup(d, e.name) # None
  BY <1>6, MarkersAssumption
<1> HIDE DEF up
<1> DEFINE path == Append(up, b.name)
<1>9. path \in Paths /\ Ok(path) /\ resolve(path) = RootOf(id)
  BY <1>2, <1>3, <1>6, <1>7, <1>8, ResolveChild
<1> QED
  BY <1>9 DEF PathOf, up, b

\* Some of the items.
RootSeq == Seq(Range(fs.roots))

\* The items are every subvolume.
LEMMA ItemsAre ==
  ASSUME IsSound(fs)
  PROVE  Items \in RootSeq /\ Targets \subseteq Ids(Items)
<1> DEFINE firsts == {i \in DOMAIN fs.roots :
                        /\ fs.roots[i].id >= 256
                        /\ i = 1 \/ fs.roots[i - 1].id # fs.roots[i].id}
           R == {p \in firsts \X firsts : p[1] <= p[2]}
           n == Cardinality(firsts)
           at(k) == CHOOSE i \in firsts : Cardinality({j \in firsts : j <= i}) = k
           place == Place(firsts, R)
<1>1. /\ fs.roots \in Seq(Roots(fs))
      /\ \A i, j \in DOMAIN fs.roots : fs.roots[i].id = fs.roots[j].id => i = j
  BY DEF IsSound
<1>2. DOMAIN fs.roots = 1..Len(fs.roots) /\ Len(fs.roots) \in Nat
  BY <1>1
<1>3. firsts \subseteq DOMAIN fs.roots /\ firsts \subseteq Int
  BY <1>2
<1>4. IsFiniteSet(firsts)
  <2>1. IsFiniteSet(1..Len(fs.roots))
    BY <1>2, FS_Interval
  <2> HIDE DEF firsts
  <2> QED
    BY <1>2, <1>3, <2>1, FS_Subset
<1>5. Items = [k \in 1..n |-> fs.roots[at(k)]]
  BY Zenon DEF Items
<1>6. Targets \subseteq {fs.roots[i].id : i \in firsts}
  <2> SUFFICES ASSUME NEW id \in Targets PROVE \E i \in firsts : fs.roots[i].id = id
    OBVIOUS
  <2>1. PICK i \in DOMAIN fs.roots : fs.roots[i].id = id
    BY DEF Targets, RootIds
  <2>2. id >= 256
    BY TargetIs
  <2>3. i = 1 \/ fs.roots[i - 1].id # fs.roots[i].id
    <3> SUFFICES ASSUME i # 1 PROVE fs.roots[i - 1].id # fs.roots[i].id
      OBVIOUS
    <3>1. i - 1 \in DOMAIN fs.roots /\ i - 1 # i
      BY <1>2
    <3> QED
      BY <1>1, <3>1
  <2> QED
    BY <2>1, <2>2, <2>3
<1> HIDE DEF firsts
<1>7. \A i, j \in firsts : <<i, j>> \in R <=> i <= j
  BY Zenon
<1> HIDE DEF R
<1>8. Orders(R, firsts)
  BY <1>3, <1>7 DEF Orders
<1>9. /\ n \in Nat
      /\ \A i \in firsts : place[i] \in 1..n
      /\ \A i, j \in firsts : place[i] = place[j] => i = j
      /\ \A k \in 1..n : \E i \in firsts : place[i] = k
  BY <1>4, <1>8, Places
<1>10. \A i \in firsts : place[i] = Cardinality({j \in firsts : j <= i})
  <2> TAKE i \in firsts
  <2>1. {j \in firsts : <<j, i>> \in R} = {j \in firsts : j <= i}
    BY <1>7
  <2> QED
    BY <2>1 DEF Place
<1> HIDE DEF place, n
<1>11. \A k \in 1..n : at(k) \in firsts /\ place[at(k)] = k
  <2> TAKE k \in 1..n
  <2>1. PICK i \in firsts : place[i] = k
    BY <1>9
  <2>2. i \in firsts /\ Cardinality({j \in firsts : j <= i}) = k
    BY <1>10, <2>1
  <2>3. at(k) \in firsts /\ Cardinality({j \in firsts : j <= at(k)}) = k
    BY <2>2, Zenon
  <2> QED
    BY <1>10, <2>3
<1> HIDE DEF at
<1>12. \A i \in firsts : place[i] \in 1..n /\ at(place[i]) = i
  BY <1>9, <1>11
<1>13. Items \in [1..n -> Range(fs.roots)]
  BY <1>3, <1>5, <1>11 DEF Range
<1>14. Items \in RootSeq /\ DOMAIN Items = 1..n
  BY <1>9, <1>13 DEF RootSeq
<1>15. ASSUME NEW id \in Targets PROVE id \in Ids(Items)
  <2>1. PICK i \in firsts : fs.roots[i].id = id
    BY <1>6
  <2>2. Items[place[i]] = fs.roots[i] /\ place[i] \in 1..n
    BY <1>5, <1>12
  <2> QED
    BY <1>14, <2>1, <2>2 DEF Ids
<1> QED
  BY <1>14, <1>15

\* The paths that are known resolve to the roots of their subvolumes.
Known(P) ==
  /\ FS_TREE_OBJECTID \in DOMAIN P /\ DOMAIN P \subseteq Targets \cup {FS_TREE_OBJECTID}
  /\ \A id \in DOMAIN P : P[id] \in Paths /\ Ok(P[id]) /\ resolve(P[id]) = RootOf(id)

\* The subvolumes in out are the ones whose paths are known.
Told(P, o) ==
  /\ o \in Seq([id : Nat, path : Paths])
  /\ \A i \in DOMAIN o : resolve(o[i].path) = RootOf(o[i].id)
  /\ Ids(o) = DOMAIN P \ {FS_TREE_OBJECTID}

\* What SubvolsResolve says of the list.
Final(o) ==
  /\ o \in Seq([id : Nat, path : Paths])
  /\ \A i \in DOMAIN o : resolve(o[i].path) = RootOf(o[i].id)
  /\ Ids(o) = Targets

\* No subvolume is lost, and in a pass in which each one had to wait so far,
\* none of the parents of those that wait is known.
Waiting(P, p, n, b) ==
  /\ p \in RootSeq /\ n \in RootSeq /\ b \in Nat
  /\ Targets \subseteq DOMAIN P \cup Ids(p) \cup Ids(n)
  /\ Ids(n) \subseteq Targets
  /\ Len(p) + Len(n) <= b
  /\ Len(p) + Len(n) = b => \A id \in Ids(n) : BackrefOf(id).parent \notin DOMAIN P

\* The inductive invariant of subvols.
ListInv ==
  /\ fs \in Filesystems
  /\ pc = "start" => out = <<>> /\ next = <<>> /\ q = None
  /\ pc = "find" => q # None
  /\ Sound /\ pc = "subvols" => Known(paths) /\ Told(paths, out) /\ Waiting(paths, pending, next, before)
  /\ Sound /\ Listed => Final(out)

\* A pass takes its first item.
LEMMA Shorter ==
  ASSUME NEW p \in RootSeq, p # <<>>
  PROVE  /\ Head(p) \in Range(fs.roots) /\ Tail(p) \in RootSeq
         /\ Len(p) \in Nat /\ Len(Tail(p)) = Len(p) - 1 /\ Len(Tail(p)) \in Nat
         /\ Ids(p) = {Head(p).id} \cup Ids(Tail(p))
<1> DEFINE h == Tail(p)
<1>1. p \in Seq(Range(fs.roots))
  BY DEF RootSeq
<1>2. /\ Head(p) = p[1] /\ p[1] \in Range(fs.roots) /\ h \in Seq(Range(fs.roots))
      /\ Len(p) \in Nat \ {0} /\ Len(h) = Len(p) - 1 /\ DOMAIN p = 1..Len(p) /\ DOMAIN h = 1..Len(p) - 1
      /\ \A i \in 1..Len(p) - 1 : h[i] = p[i + 1]
  BY <1>1
<1> HIDE DEF h
<1>3. ASSUME NEW i \in DOMAIN p, i # 1 PROVE i - 1 \in DOMAIN h /\ h[i - 1] = p[i]
  BY <1>2, <1>3
<1>4. ASSUME NEW i \in DOMAIN h PROVE i + 1 \in DOMAIN p /\ h[i] = p[i + 1]
  BY <1>2
<1>5. 1 \in DOMAIN p
  BY <1>2
<1>6. Ids(p) = {p[1].id} \cup Ids(h)
  BY <1>3, <1>4, <1>5 DEF Ids
<1> QED
  BY <1>2, <1>6 DEF RootSeq, h

\* An item is added at the end.
LEMMA Longer ==
  ASSUME NEW T, NEW s \in Seq(T), NEW x \in T
  PROVE  /\ Append(s, x) \in Seq(T) /\ Len(s) \in Nat /\ Len(Append(s, x)) = Len(s) + 1
         /\ Ids(Append(s, x)) = Ids(s) \cup {x.id}
         /\ DOMAIN Append(s, x) = DOMAIN s \cup {Len(s) + 1}
         /\ Append(s, x)[Len(s) + 1] = x /\ \A i \in DOMAIN s : Append(s, x)[i] = s[i]
<1> DEFINE t == Append(s, x)
<1>1. /\ t \in Seq(T) /\ Len(s) \in Nat /\ Len(t) = Len(s) + 1 /\ t[Len(s) + 1] = x
      /\ DOMAIN s = 1..Len(s) /\ DOMAIN t = 1..Len(s) + 1 /\ \A i \in 1..Len(s) : t[i] = s[i]
  BY AppendProperties
<1> HIDE DEF t
<1>2. DOMAIN t = DOMAIN s \cup {Len(s) + 1}
  BY <1>1
<1>3. Ids(t) = Ids(s) \cup {x.id}
  BY <1>1, <1>2 DEF Ids
<1> QED
  BY <1>1, <1>2, <1>3 DEF t

\* The top-level subvolume has no parent.
LEMMA TargetsNat == IsSound(fs) => FS_TREE_OBJECTID \notin Targets /\ Targets \subseteq Nat
  BY TargetIs

\* At first the top-level subvolume is known, by the empty path.
LEMMA FirstKnown ==
  ASSUME IsSound(fs)
  PROVE  Known([id \in {FS_TREE_OBJECTID} |-> <<>>])
<1>1. HasTree(FS_TREE_OBJECTID)
  BY RootIs DEF IsSound
<1>2. Walked(<<>>) = <<RootOf(FS_TREE_OBJECTID)>>
  BY <1>1, WalkedEmpty DEF Top
<1>3. Last(<<RootOf(FS_TREE_OBJECTID)>>) = RootOf(FS_TREE_OBJECTID)
  BY DEF Last
<1>4. RootOf(FS_TREE_OBJECTID) \in Locs
  BY <1>1, TreeIsSound DEF IsDir, Real
<1>5. <<RootOf(FS_TREE_OBJECTID)>> \in Seq(Locs)
  BY <1>4
<1>6. Walked(<<>>) \notin {Error, None} /\ RootOf(FS_TREE_OBJECTID) \notin {Error, None}
  BY <1>2, <1>4, <1>5, MarkersAssumption
<1>7. resolve(<<>>) = RootOf(FS_TREE_OBJECTID)
  BY <1>2, <1>3, <1>6 DEF resolve
<1>8. <<>> \in Paths
  BY DEF Paths
<1> QED
  BY <1>6, <1>7, <1>8 DEF Known, Ok

\* If a whole pass found nothing to do, all that have a parent are known.
LEMMA Stuck ==
  ASSUME IsSound(fs), NEW P, NEW n, NEW b, Known(P), Waiting(P, <<>>, n, b), n = <<>> \/ Len(n) = b
  PROVE  Targets = DOMAIN P \ {FS_TREE_OBJECTID}
<1>1. Targets \subseteq DOMAIN P \cup Ids(n) /\ Ids(n) \subseteq Targets /\ n \in RootSeq /\ Len(n) \in Nat
  BY DEF Waiting, Ids, RootSeq
<1>2. CASE n = <<>>
  <2>1. Ids(n) = {}
    BY <1>2 DEF Ids
  <2> QED
    BY <1>1, <2>1, TargetsNat DEF Known
<1>3. CASE Len(n) = b
  <2>1. \A id \in Ids(n) : BackrefOf(id).parent \notin DOMAIN P
    <3>1. Len(<<>>) + Len(n) = b
      BY <1>1, <1>3
    <3> QED
      BY <3>1 DEF Waiting
  <2> DEFINE Bad == {k \in Nat : \E id \in Targets : id \notin DOMAIN P /\ Depth(RootOf(id)) = k}
  <2>2. Bad = {}
    <3> SUFFICES ASSUME Bad # {} PROVE FALSE
      OBVIOUS
    <3>1. PICK k \in Bad : \A l \in Bad : k <= l
      BY Least
    <3>2. PICK id \in Targets : id \notin DOMAIN P /\ Depth(RootOf(id)) = k
      BY <3>1
    <3> DEFINE p == BackrefOf(id).parent
               d == Loc(p, BackrefOf(id).dirid)
    <3>3. /\ p # FS_TREE_OBJECTID => p \in Targets
          /\ HasTree(p) /\ BackrefOf(id).dirid \in DOMAIN Tree(p).index
          /\ Depth(RootOf(id)) = Depth(d) + 1
      BY TargetIs
    <3>4. p \notin DOMAIN P
      BY <1>1, <2>1, <3>2
    <3>5. p \in Targets
      BY <3>3, <3>4 DEF Known
    <3>6. IsDir(d) /\ d.tree = p
      <4>1. SoundTree(Tree(p)) /\ p \in Nat /\ p # 0
        BY <3>3, TreeIs, TreeIsSound
      <4> HIDE DEF p
      <4> QED
        BY <3>3, <4>1 DEF IsDir, Real, Loc, Locs, SoundTree
    <3> HIDE DEF d, p
    <3>7. Depth(RootOf(p)) <= Depth(d) /\ Depth(d) \in Nat /\ Depth(RootOf(p)) \in Nat
      BY <3>6, DepthIs
    <3>8. Depth(RootOf(p)) \in Bad
      BY <3>4, <3>5, <3>7
    <3>9. k <= Depth(RootOf(p)) /\ k = Depth(d) + 1 /\ k \in Nat
      BY <3>1, <3>2, <3>3, <3>8
    <3> QED
      BY <3>7, <3>9
  <2>3. \A id \in Targets : Depth(RootOf(id)) \in Nat
    <3> TAKE id \in Targets
    <3>1. IsDir(RootOf(id))
      BY TargetIs
    <3> QED
      BY <3>1, DepthIs
  <2>4. Targets \subseteq DOMAIN P
    BY <2>2, <2>3
  <2> QED
    BY <2>4, TargetsNat DEF Known
<1> QED
  BY <1>2, <1>3

\* Targets, as SubvolsResolve says it.
LEMMA TargetsAre == Targets = {i \in {fs.roots[k].id : k \in DOMAIN fs.roots} : Backrefs(i) # {}}
  BY DEF Targets, RootIds

\* An item of the list has a path and an id.
LEMMA PathOfItem ==
  ASSUME NEW o \in Seq([id : Nat, path : Paths])
  PROVE  \A i \in DOMAIN o : o[i].path \in Paths /\ o[i].id \in Nat
<1> DEFINE T == [id : Nat, path : Paths]
<1>1. \A i \in DOMAIN o : o[i] \in T
  <2>1. o \in Seq(T)
    OBVIOUS
  <2> HIDE DEF T
  <2> QED
    BY <2>1
<1>2. \A x \in T : x.path \in Paths /\ x.id \in Nat
  OBVIOUS
<1> QED
  BY <1>1, <1>2

\* While the filesystem stays, so does what is said of the lists.
LEMMA SameLists ==
  ASSUME fs' = fs
  PROVE  /\ Targets' = Targets /\ (\A i : Backrefs(i)' = Backrefs(i))
         /\ \A P : Known(P)' <=> Known(P)
         /\ \A P, o : Told(P, o)' <=> Told(P, o)
         /\ \A P, p, n, b : Waiting(P, p, n, b)' <=> Waiting(P, p, n, b)
         /\ \A o : Final(o)' <=> Final(o)
<1>1. \A i : Backrefs(i)' = Backrefs(i) /\ BackrefOf(i)' = BackrefOf(i)
  BY DEF Backrefs, BackrefOf
<1>2. RootIds' = RootIds /\ RootSeq' = RootSeq
  BY DEF RootIds, RootSeq
<1>3. Targets' = Targets
  BY <1>1, <1>2 DEF Targets
<1>4. \A path \in Paths : resolve(path)' = resolve(path)
  BY SameResolve DEF Paths
<1>5. \A id : RootOf(id)' = RootOf(id)
  BY SameItems
<1>6. ASSUME NEW P PROVE Known(P)' <=> Known(P)
  BY <1>3, <1>4, <1>5 DEF Known, Ok
<1>7. ASSUME NEW P, NEW o PROVE Told(P, o)' <=> Told(P, o)
  <2>1. CASE o \notin Seq([id : Nat, path : Paths])
    BY <2>1 DEF Told
  <2>2. CASE o \in Seq([id : Nat, path : Paths])
    <3>1. \A i \in DOMAIN o : o[i].path \in Paths
      BY <2>2, PathOfItem
    <3> QED
      BY <1>4, <1>5, <3>1 DEF Told
  <2> QED
    BY <2>1, <2>2
<1>8. ASSUME NEW P, NEW p, NEW n, NEW b PROVE Waiting(P, p, n, b)' <=> Waiting(P, p, n, b)
  BY <1>1, <1>2, <1>3 DEF Waiting
<1>9. ASSUME NEW o PROVE Final(o)' <=> Final(o)
  <2>1. CASE o \notin Seq([id : Nat, path : Paths])
    BY <2>1 DEF Final
  <2>2. CASE o \in Seq([id : Nat, path : Paths])
    <3>1. \A i \in DOMAIN o : o[i].path \in Paths
      BY <2>2, PathOfItem
    <3> QED
      BY <1>3, <1>4, <1>5, <3>1 DEF Final
  <2> QED
    BY <2>1, <2>2
<1> QED
  BY <1>1, <1>3, <1>6, <1>7, <1>8, <1>9

\* When all subvolumes that have a parent are known, the sorted list is final.
LEMMA Finished ==
  ASSUME IsSound(fs), NEW P, NEW o, Told(P, o), Targets = DOMAIN P \ {FS_TREE_OBJECTID},
         NEW key, key = [i \in DOMAIN o |-> o[i].id]
  PROVE  Final(Sorted(o, key))
<1> DEFINE T == [id : Nat, path : Paths]
           s == Sorted(o, key)
<1>1. o \in Seq(T) /\ (\A i \in DOMAIN o : resolve(o[i].path) = RootOf(o[i].id)) /\ Ids(o) = Targets
  BY DEF Told
<1>2. \A i \in DOMAIN o : key[i] \in Int
  <2>1. \A i \in DOMAIN o : o[i].id \in Nat
    BY <1>1, PathOfItem
  <2> QED
    BY <2>1
<1>3. s \in Seq(T) /\ Permutes(s, o)
  <2> HIDE DEF T
  <2> QED
    BY <1>1, <1>2, SortedPermutes
<1> HIDE DEF s
<1>4. /\ DOMAIN s = DOMAIN o
      /\ \A k \in DOMAIN o : \E i \in DOMAIN o : s[k] = o[i]
      /\ \A i \in DOMAIN o : \E k \in DOMAIN o : s[k] = o[i]
  <2>1. Len(s) = Len(o)
    BY <1>3 DEF Permutes
  <2> QED
    BY <1>1, <1>3, <2>1 DEF Permutes
<1>5. Ids(s) = Ids(o)
  <2>1. ASSUME NEW x \in Ids(s) PROVE x \in Ids(o)
    <3>1. PICK k \in DOMAIN s : x = s[k].id
      BY DEF Ids
    <3>2. PICK i \in DOMAIN o : s[k] = o[i]
      BY <1>4, <3>1
    <3> QED
      BY <3>1, <3>2 DEF Ids
  <2>2. ASSUME NEW x \in Ids(o) PROVE x \in Ids(s)
    <3>1. PICK i \in DOMAIN o : x = o[i].id
      BY DEF Ids
    <3>2. PICK k \in DOMAIN s : s[k] = o[i]
      BY <1>4, <3>1
    <3> QED
      BY <3>1, <3>2 DEF Ids
  <2> QED
    BY <2>1, <2>2
<1>6. \A i \in DOMAIN s : resolve(s[i].path) = RootOf(s[i].id)
  BY <1>1, <1>4
<1>7. Final(s)
  BY <1>1, <1>3, <1>5, <1>6 DEF Final
<1> QED
  BY <1>7 DEF s

\* A subvolume that has no parent, waits, or gets its path leaves the invariant be.
LEMMA NextListed ==
  ASSUME IsSound(fs), Known(paths), Told(paths, out), Waiting(paths, pending, next, before),
         NextSubvol, pc' = "subvols"
  PROVE  /\ Known(paths') /\ Told(paths', out') /\ Waiting(paths', pending', next', before')
<1> DEFINE item == Head(pending)
           id == item.id
           ref == BackrefOf(id)
           dir == path_in_tree(ref.parent, ref.dirid)
           path == PathOf(paths[ref.parent], dir, ref.name)
<1>1. pc = "subvols" /\ pending # <<>> /\ pending' = Tail(pending) /\ before' = before
  BY DEF NextSubvol
<1>2. /\ pending \in RootSeq /\ next \in RootSeq /\ before \in Nat
      /\ Targets \subseteq DOMAIN paths \cup Ids(pending) \cup Ids(next)
      /\ Ids(next) \subseteq Targets
      /\ Len(pending) + Len(next) <= before
      /\ Len(pending) + Len(next) = before =>
           \A i \in Ids(next) : BackrefOf(i).parent \notin DOMAIN paths
  BY DEF Waiting
<1>3. /\ item \in Range(fs.roots) /\ pending' \in RootSeq
      /\ Len(pending) \in Nat /\ Len(pending') = Len(pending) - 1 /\ Len(pending') \in Nat
      /\ Ids(pending) = {id} \cup Ids(pending')
  BY <1>1, <1>2, Shorter
<1>4. Len(next) \in Nat
  BY <1>2 DEF RootSeq
<1>5. id \in RootIds
  BY SMTT(40), <1>3 DEF RootIds, Range
<1>6. /\ Backrefs(id) = {} => pc' = pc /\ paths' = paths /\ next' = next /\ out' = out
      /\ Backrefs(id) # {} /\ ref.parent \notin DOMAIN paths =>
           pc' = pc /\ paths' = paths /\ next' = Append(next, item) /\ out' = out
      /\ Backrefs(id) # {} /\ ref.parent \in DOMAIN paths =>
           /\ dir # Error /\ pc' = pc /\ next' = next
           /\ paths' = [i \in DOMAIN paths \cup {id} |-> IF i = id THEN path ELSE paths[i]]
           /\ out' = Append(out, [id |-> id, path |-> path])
  BY DEF NextSubvol, BackrefOf
<1> HIDE DEF item, id, ref, dir, path
<1>7. CASE Backrefs(id) = {}
  <2>1. id \notin Targets
    BY <1>7 DEF Targets
  <2>2. Len(pending') + Len(next') < before
    BY <1>2, <1>3, <1>4, <1>6, <1>7
  <2>3. Len(pending') + Len(next') <= before /\ Len(pending') + Len(next') # before
    BY <1>2, <1>3, <1>4, <1>6, <1>7, <2>2
  <2>4. Targets \subseteq DOMAIN paths \cup Ids(pending') \cup Ids(next)
    BY <1>2, <1>3, <2>1
  <2>5. Waiting(paths', pending', next', before')
    BY <1>1, <1>2, <1>3, <1>6, <1>7, <2>3, <2>4 DEF Waiting
  <2> QED
    BY <1>1, <1>6, <1>7, <2>5
<1>8. CASE Backrefs(id) # {} /\ ref.parent \notin DOMAIN paths
  <2>1. id \in Targets
    BY <1>5, <1>8 DEF Targets
  <2>2. /\ next' \in RootSeq /\ Len(next') = Len(next) + 1 /\ Ids(next') = Ids(next) \cup {id}
    <3>1. next \in Seq(Range(fs.roots))
      BY <1>2 DEF RootSeq
    <3>2. /\ Append(next, item) \in Seq(Range(fs.roots)) /\ Len(Append(next, item)) = Len(next) + 1
          /\ Ids(Append(next, item)) = Ids(next) \cup {item.id}
      BY <1>3, <3>1, Longer
    <3> QED
      BY <1>6, <1>8, <3>2 DEF RootSeq, id
  <2>3. Len(pending') + Len(next') = Len(pending) + Len(next)
    BY <1>3, <1>4, <2>2
  <2>4. ASSUME Len(pending') + Len(next') = before
        PROVE  \A i \in Ids(next') : BackrefOf(i).parent \notin DOMAIN paths
    BY <1>2, <1>8, <2>2, <2>3, <2>4 DEF ref
  <2>5. Targets \subseteq DOMAIN paths \cup Ids(pending') \cup Ids(next') /\ Ids(next') \subseteq Targets
    BY <1>2, <1>3, <2>1, <2>2
  <2>6. Waiting(paths', pending', next', before')
    BY <1>1, <1>2, <1>3, <1>6, <1>8, <2>2, <2>3, <2>4, <2>5 DEF Waiting
  <2> QED
    BY <1>1, <1>6, <1>8, <2>6
<1>9. CASE Backrefs(id) # {} /\ ref.parent \in DOMAIN paths
  <2>1. id \in Targets /\ id \in Nat /\ id # FS_TREE_OBJECTID
    <3>1. id \in Targets
      BY <1>5, <1>9 DEF Targets
    <3> QED
      BY <3>1, TargetIs
  <2>2. path \in Paths /\ Ok(path) /\ resolve(path) = RootOf(id)
    <3>1. /\ paths[ref.parent] \in Paths /\ Ok(paths[ref.parent])
          /\ resolve(paths[ref.parent]) = RootOf(ref.parent)
      BY <1>9 DEF Known
    <3>2. path_in_tree(ref.parent, ref.dirid) # Error
      BY <1>6, <1>9 DEF dir
    <3> QED
      BY <2>1, <3>1, <3>2, SubvolPath DEF path, dir, ref
  <2>3. /\ DOMAIN paths' = DOMAIN paths \cup {id}
        /\ \A i \in DOMAIN paths' : paths'[i] = IF i = id THEN path ELSE paths[i]
    BY <1>6, <1>9
  <2>4. Known(paths')
    BY <2>1, <2>2, <2>3 DEF Known
  <2>5. Told(paths', out')
    <3> DEFINE T == [id : Nat, path : Paths]
               x == [id |-> id, path |-> path]
    <3>1. out \in Seq(T) /\ x \in T /\ x.id = id /\ x.path = path
      BY <2>1, <2>2 DEF Told
    <3> HIDE DEF T, x
    <3>2. /\ Append(out, x) \in Seq(T)
          /\ Ids(Append(out, x)) = Ids(out) \cup {x.id}
          /\ DOMAIN Append(out, x) = DOMAIN out \cup {Len(out) + 1}
          /\ Append(out, x)[Len(out) + 1] = x /\ \A i \in DOMAIN out : Append(out, x)[i] = out[i]
      BY <3>1, Longer
    <3>3. out' = Append(out, x)
      BY <1>6, <1>9 DEF x
    <3>4. \A i \in DOMAIN out' : resolve(out'[i].path) = RootOf(out'[i].id)
      BY <2>2, <3>1, <3>2, <3>3 DEF Told
    <3>5. Ids(out') = DOMAIN paths' \ {FS_TREE_OBJECTID}
      BY <2>1, <2>3, <3>1, <3>2, <3>3 DEF Told
    <3>6. out' \in Seq(T)
      BY <3>2, <3>3
    <3> QED
      BY <3>4, <3>5, <3>6 DEF Told, T
  <2>6. Len(pending') + Len(next') < before
    BY <1>2, <1>3, <1>4, <1>6, <1>9
  <2>7. Len(pending') + Len(next') <= before /\ Len(pending') + Len(next') # before
    BY <1>2, <1>3, <1>4, <1>6, <1>9, <2>6
  <2>8. Targets \subseteq DOMAIN paths' \cup Ids(pending') \cup Ids(next)
    BY <1>2, <1>3, <2>3
  <2>9. Waiting(paths', pending', next', before')
    BY <1>1, <1>2, <1>3, <1>6, <1>9, <2>7, <2>8 DEF Waiting
  <2> QED
    BY <1>1, <1>6, <1>9, <2>4, <2>5, <2>9
<1> QED
  BY <1>7, <1>8, <1>9

\* At the beginning nothing is listed.
LEMMA ListInvInit == Init => ListInv
  BY DEF Init, ListInv, Listed

\* Every step of subvols keeps its list true to resolve.
LEMMA ListInvStep == ListInv /\ [Next]_vars => ListInv'
<1> SUFFICES ASSUME ListInv, [Next]_vars PROVE ListInv'
  OBVIOUS
<1>0. fs' = fs /\ fs \in Filesystems /\ (Sound' <=> Sound) /\ (Sound => IsSound(fs))
  <2>1. fs' = fs
    BY DEF Next, BeginFind, EnterDirectory, NextEntry, LeaveDirectory, BeginSubvols, NextSubvol,
           NextPass, vars
  <2> QED
    BY SMTT(40), <2>1, SoundAssumption DEF ListInv, Sound
<1>1. /\ Targets' = Targets
      /\ \A P : Known(P)' <=> Known(P)
      /\ \A P, o : Told(P, o)' <=> Told(P, o)
      /\ \A P, p, n, b : Waiting(P, p, n, b)' <=> Waiting(P, p, n, b)
      /\ \A o : Final(o)' <=> Final(o)
  BY <1>0, SameLists
<1>2. ASSUME pc' = "subvols",
             Sound => Known(paths') /\ Told(paths', out') /\ Waiting(paths', pending', next', before')
      PROVE  ListInv'
  BY <1>0, <1>1, <1>2 DEF ListInv, Listed
<1>3. ASSUME pc' = "done", Sound /\ ~failed' /\ q' = None => Final(out')
      PROVE  ListInv'
  BY <1>0, <1>1, <1>3 DEF ListInv, Listed
<1>4. CASE BeginFind
  <2>1. q' # None /\ pc' \in {"find", "done"}
    BY <1>4, QueriesAssumption DEF BeginFind
  <2> QED
    BY <1>0, <2>1 DEF ListInv, Listed
<1>5. CASE EnterDirectory \/ NextEntry \/ LeaveDirectory
  <2>1. q' = q /\ pc = "find" /\ pc' \in {"find", "done"}
    BY <1>5 DEF EnterDirectory, NextEntry, LeaveDirectory, Return
  <2> QED
    BY <1>0, <2>1 DEF ListInv, Listed
<1>6. CASE BeginSubvols
  <2>1. /\ pc = "start" /\ out' = out /\ next' = next /\ out = <<>> /\ next = <<>>
        /\ pending' = Items /\ before' = Len(Items)
        /\ paths' = [id \in {FS_TREE_OBJECTID} |-> <<>>]
    BY <1>6 DEF BeginSubvols, ListInv
  <2>2. ASSUME Sound PROVE Items \in RootSeq /\ Targets \subseteq Ids(Items)
    BY <1>0, <2>2, ItemsAre
  <2>3. CASE Items = <<>>
    <3>1. pc' = "done"
      BY <1>6, <2>3 DEF BeginSubvols
    <3>2. ASSUME Sound PROVE Final(out')
      <4>1. Targets = {} /\ Ids(<<>>) = {}
        BY <2>2, <2>3, <3>2 DEF Ids
      <4> QED
        BY <2>1, <4>1 DEF Final
    <3> QED
      BY <1>3, <3>1, <3>2
  <2>4. CASE Items # <<>>
    <3>1. pc' = "subvols"
      BY <1>6, <2>4 DEF BeginSubvols
    <3>2. ASSUME Sound
          PROVE  Known(paths') /\ Told(paths', out') /\ Waiting(paths', pending', next', before')
      <4>1. Known(paths')
        BY <1>0, <2>1, <3>2, FirstKnown
      <4>2. DOMAIN paths' = {FS_TREE_OBJECTID} /\ Ids(<<>>) = {}
        BY <2>1 DEF Ids
      <4>3. Told(paths', out')
        BY <2>1, <4>2 DEF Told
      <4>4. Len(Items) \in Nat /\ <<>> \in RootSeq /\ Len(<<>>) = 0
        BY <2>2, <3>2 DEF RootSeq
      <4>5. Len(Items) + Len(<<>>) <= Len(Items)
        BY <4>4
      <4>6. Waiting(paths', Items, <<>>, Len(Items))
        BY <2>2, <3>2, <4>2, <4>4, <4>5 DEF Waiting
      <4> QED
        BY <2>1, <4>1, <4>3, <4>6
    <3> QED
      BY <1>2, <3>1, <3>2
  <2> QED
    BY <2>3, <2>4
<1>7. CASE NextSubvol
  <2>1. pc = "subvols" /\ pc' \in {"subvols", "done"}
    BY <1>7 DEF NextSubvol
  <2>2. ASSUME Sound, pc' = "subvols"
        PROVE  Known(paths') /\ Told(paths', out') /\ Waiting(paths', pending', next', before')
    <3>1. Known(paths) /\ Told(paths, out) /\ Waiting(paths, pending, next, before)
      BY <2>1, <2>2 DEF ListInv
    <3> QED
      BY <1>0, <1>7, <2>2, <3>1, NextListed
  <2>3. pc' = "done" => failed' = TRUE
    BY <1>7 DEF NextSubvol
  <2> QED
    BY SMTT(40), <1>2, <1>3, <2>1, <2>2, <2>3
<1>8. CASE NextPass
  <2>1. pc = "subvols" /\ pending = <<>> /\ next' = <<>> /\ paths' = paths
    BY <1>8 DEF NextPass
  <2>2. ASSUME Sound
        PROVE  Known(paths) /\ Told(paths, out) /\ Waiting(paths, <<>>, next, before)
    BY <2>1, <2>2 DEF ListInv
  <2>3. CASE NoProgress
    <3> DEFINE key == [i \in DOMAIN out |-> out[i].id]
    <3>1. pc' = "done" /\ out' = Sorted(out, key)
      BY <1>8, <2>3 DEF NextPass
    <3>2. ASSUME Sound PROVE Final(out')
      <4>1. Targets = DOMAIN paths \ {FS_TREE_OBJECTID}
        BY <1>0, <2>2, <2>3, <3>2, Stuck DEF NoProgress
      <4> QED
        BY <1>0, <2>2, <3>1, <3>2, <4>1, Finished
    <3> QED
      BY <1>3, <3>1, <3>2
  <2>4. CASE ~NoProgress
    <3>1. pc' = "subvols" /\ pending' = next /\ before' = Len(next) /\ out' = out
      BY <1>8, <2>1, <2>4 DEF NextPass
    <3>2. ASSUME Sound
          PROVE  Known(paths') /\ Told(paths', out') /\ Waiting(paths', pending', next', before')
      <4>1. /\ next \in RootSeq /\ Len(next) \in Nat /\ <<>> \in RootSeq /\ Len(<<>>) = 0
            /\ Ids(<<>>) = {} /\ Targets \subseteq DOMAIN paths \cup Ids(<<>>) \cup Ids(next)
        BY <2>2, <3>2 DEF Waiting, RootSeq, Ids
      <4>2. Len(next) + Len(<<>>) <= Len(next)
        BY <4>1
      <4>3. Waiting(paths, next, <<>>, Len(next))
        BY <4>1, <4>2 DEF Waiting
      <4> QED
        BY <2>1, <2>2, <3>1, <3>2, <4>3
    <3> QED
      BY <1>2, <3>1, <3>2
  <2> QED
    BY <2>3, <2>4
<1>9. CASE UNCHANGED vars
  <2>1. /\ pc' = pc /\ q' = q /\ out' = out /\ paths' = paths /\ pending' = pending
        /\ next' = next /\ before' = before /\ failed' = failed
    BY <1>9 DEF vars
  <2>2. /\ Known(paths)' <=> Known(paths)
        /\ Told(paths, out)' <=> Told(paths, out)
        /\ Waiting(paths, pending, next, before)' <=> Waiting(paths, pending, next, before)
        /\ Final(out)' <=> Final(out)
    BY <1>1, <2>1
  <2> QED
    BY <1>0, <2>1, <2>2 DEF ListInv, Listed
<1> QED
  BY <1>4, <1>5, <1>6, <1>7, <1>8, <1>9 DEF Next

\* On a sound filesystem the names that Fs::subvols puts together for a subvolume lead
\* to its root, in whatever order ids and parents lie; given back to Fs::resolve as text
\* they do so if they are UTF-8 and hold no separator; and its passes end only when
\* every subvolume that has a parent is listed.
THEOREM SubvolPathsResolve == Spec => []SubvolsResolve
<1>1. ListInv => SubvolsResolve
  <2> SUFFICES ASSUME ListInv, Listed, Sound PROVE SubvolsResolve
    BY DEF SubvolsResolve
  <2>1. Final(out)
    BY DEF ListInv
  <2>2. ASSUME NEW i \in DOMAIN out
        PROVE  /\ resolve(out[i].path) = RootOf(out[i].id)
               /\ Kept(out[i].path) => resolve(GivenBack(out[i].path)) = RootOf(out[i].id)
    <3>1. resolve(out[i].path) = RootOf(out[i].id)
      BY <2>1 DEF Final
    <3>2. out[i].path \in Paths
      BY <2>1, PathOfItem DEF Final
    <3> QED
      BY <3>1, <3>2, GivenBackKept
  <2> QED
    BY <2>1, <2>2, TargetsAre DEF SubvolsResolve, Final, Ids
<1> QED
  BY <1>1, ListInvInit, ListInvStep, PTL DEF Spec
=============================================================================
