---------------------------- MODULE Copier_proof ----------------------------
(***************************************************************************)
(* What holds of a copy whatever the filesystem, the options and the host: *)
(* the types, that a short file is marked, that nothing of the host's is   *)
(* lost without --force, that the loop check is exact, that a partial copy *)
(* of an image does not exit 0, that no directory is copied into itself,   *)
(* and, where no name looks like a temporary file's, that what was copied  *)
(* stays.                                                                  *)
(***************************************************************************)
EXTENDS Copier, SequenceTheorems, WellFoundedInduction, TLAPS

Objects == [kind : {"dir", "file", "symlink"}, of : Locs \cup {Theirs}, whole : BOOLEAN]
Frames == [dir : Locs, dest : Paths, next : Nat, taken : SUBSET Names]

\* A loop of copy_dir that is at one of its entries, and one that may be over.
Inside(f) ==
    /\ src.kind[f.dir] = "dir"
    /\ f.dest # <<>>
    /\ f.next \in 1..Len(src.entries[f.dir])
OnItsWay(f) ==
    /\ src.kind[f.dir] = "dir"
    /\ f.dest # <<>>
    /\ f.next \in 1..(Len(src.entries[f.dir]) + 1)

\* Every loop is at an entry: a call for one is under way.
Open(frames) ==
    /\ frames \in Seq(Frames)
    /\ \A j \in 1..Len(frames) : Inside(frames[j])

\* Only the innermost loop may be over, when it is about to look.
Looping(frames) ==
    /\ frames \in Seq(Frames)
    /\ frames # <<>>
    /\ \A j \in 1..(Len(frames) - 1) : Inside(frames[j])
    /\ OnItsWay(frames[Len(frames)])

LeafSteps == {"leaf", "symlink", "special", "file", "write", "rename"}

\* The control: where the copy is, and what it holds there.
Shape ==
    /\ src \in Sources
    /\ pc \in {"copy", "dir", "entry", "exited"} \cup LeafSteps
    /\ exit \in {-1, 0, 1, 5}
    /\ cur \in [loc : Locs, dest : Paths]
    /\ cur.dest # <<>>
    /\ ancestors \subseteq Locs
    /\ IF pc = "entry" THEN Looping(stack) ELSE Open(stack)
    /\ pc \in {"copy", "exited"} => stack = <<>>
    /\ pc = "copy" => cur.loc = src.root
    /\ pc = "dir" => src.kind[cur.loc] = "dir"
    /\ pc \in LeafSteps => src.kind[cur.loc] # "dir"

\* An object that may be at a place.
Fits(k, object, linked) ==
    /\ object \in Objects
    /\ ~object.whole => object.kind = "file" /\ (IsTemp(k) \/ k \in linked)

\* The host: what is there is typed, what is unfinished is marked, and the place
\* a leaf is to take is free while it is made, unless a symlink led there.
Hosted ==
    /\ \A k \in DOMAIN host : Fits(k, host[k], through)
    /\ pc \in {"symlink", "special", "file"} => ~Exists(cur.dest)
    /\ pc \in {"write", "rename"} =>
         /\ Exists(cur.dest) => Key(cur.dest) \in through
         /\ Exists(Temp(cur.dest))
         /\ out = Key(Temp(cur.dest)) \/ out = Elsewhere \/ out \in through
         /\ out # Key(Temp(cur.dest)) => At(Temp(cur.dest)).whole
    /\ pc = "rename" => At(Temp(cur.dest)).whole

-----------------------------------------------------------------------------
(* Names and paths *)

\* Lower-casing, folding and the suffixes keep names names.
LEMMA LoweredType ==
    ASSUME NEW name \in Names
    PROVE  /\ Lowered(name) \in Names
           /\ Len(Lowered(name)) = Len(name)
           /\ \A k \in 1..Len(name) : Lowered(name)[k] = Lower[name[k]]
  BY SMTT(40), TokensAssumption DEF Lowered, Names, Tokens

\* What the host's file system compares is a path of the same length.
LEMMA KeyType ==
    ASSUME NEW path \in Paths
    PROVE  /\ Key(path) \in Paths
           /\ Len(Key(path)) = Len(path)
           /\ \A k \in 1..Len(path) :
                Key(path)[k] = IF HostFolds THEN Lowered(path[k]) ELSE path[k]
  <1>1. \A k \in 1..Len(path) : path[k] \in Names
    BY DEF Paths
  <1>2. DOMAIN path = 1..Len(path)
    BY DEF Paths
  <1>3. \A k \in 1..Len(path) :
            (IF HostFolds THEN Lowered(path[k]) ELSE path[k]) \in Names
    BY <1>1, LoweredType
  <1>4. Key(path) = [k \in 1..Len(path) |-> IF HostFolds THEN Lowered(path[k]) ELSE path[k]]
    BY <1>2 DEF Key
  <1>5. Len(path) \in Nat
    BY DEF Paths
  <1>6. Key(path) \in [1..Len(path) -> Names]
    BY <1>3, <1>4
  <1> QED
    BY <1>4, <1>5, <1>6 DEF Paths

\* The temporary sibling is a path, and its last name has one token more.
LEMMA TempType ==
    ASSUME NEW path \in Paths, path # <<>>
    PROVE  /\ Temp(path) \in Paths
           /\ Len(Temp(path)) = Len(path)
           /\ Len(path) \in Nat \ {0}
           /\ path[Len(path)] \in Names
           /\ Temp(path)[Len(path)] = Append(path[Len(path)], Partial)
  <1>1. Len(path) \in Nat \ {0} /\ path[Len(path)] \in Names
    BY DEF Paths
  <1>2. Append(path[Len(path)], Partial) \in Names
    BY <1>1, TokensAssumption DEF Names
  <1>3. /\ Temp(path) \in Paths
        /\ Len(Temp(path)) = Len(path)
        /\ Temp(path)[Len(path)] = Append(path[Len(path)], Partial)
    BY <1>1, <1>2 DEF Temp, Paths
  <1> QED
    BY <1>1, <1>3

\* The host sees the temporary sibling as one, and as another object.
LEMMA TempIsTemp ==
    ASSUME NEW path \in Paths, path # <<>>
    PROVE  IsTemp(Key(Temp(path))) /\ Key(Temp(path)) # Key(path)
  <1> DEFINE name == path[Len(path)]
  <1> DEFINE longer == Append(name, Partial)
  <1>1. /\ Temp(path) \in Paths /\ Len(Temp(path)) = Len(path) /\ Len(path) \in Nat \ {0}
        /\ name \in Names /\ Temp(path)[Len(path)] = longer
    BY TempType
  <1>2. longer \in Names /\ Len(longer) = Len(name) + 1 /\ longer[Len(longer)] = Partial
    BY <1>1, TokensAssumption DEF Names
  <1>3. Len(name) \in Nat
    BY <1>1 DEF Names
  <1>4. /\ Len(Key(Temp(path))) = Len(path)
        /\ Key(Temp(path))[Len(path)] = IF HostFolds THEN Lowered(longer) ELSE longer
    <2>1. Len(path) \in 1..Len(Temp(path))
      BY <1>1
    <2> QED
      BY <1>1, <2>1, KeyType
  <1>5. Key(path)[Len(path)] = IF HostFolds THEN Lowered(name) ELSE name
    BY <1>1, KeyType
  <1>6. /\ Len(Lowered(longer)) = Len(longer) /\ Len(Lowered(name)) = Len(name)
        /\ Lowered(longer)[Len(longer)] = Partial
    <2>1. Len(longer) \in 1..Len(longer)
      BY <1>2, <1>3
    <2> QED
      BY <1>1, <1>2, <2>1, LoweredType, TokensAssumption
  <1>7. IsTemp(Key(Temp(path)))
    <2>1. CASE HostFolds
      BY <2>1, <1>2, <1>4, <1>6 DEF IsTemp
    <2>2. CASE ~HostFolds
      BY <2>2, <1>2, <1>4 DEF IsTemp
    <2> QED
      BY <2>1, <2>2
  <1>8. Key(Temp(path)) # Key(path)
    <2>1. SUFFICES ASSUME Key(Temp(path)) = Key(path) PROVE FALSE
      OBVIOUS
    <2>2. CASE HostFolds
      BY <2>1, <2>2, <1>2, <1>3, <1>4, <1>5, <1>6
    <2>3. CASE ~HostFolds
      BY <2>1, <2>3, <1>2, <1>3, <1>4, <1>5
    <2> QED
      BY <2>2, <2>3
  <1> QED
    BY <1>7, <1>8

\* The name the renaming loop settles on is one of those it tries, and was free.
LEMMA ChosenFree ==
    ASSUME NEW name, NEW taken, Free(name, taken) # {}
    PROVE  /\ fold(Chosen(name, taken)) \notin taken
           /\ \E n \in 0..Len(Tilde) : Chosen(name, taken) = Candidate(name, n)
  <1> DEFINE free == Free(name, taken)
  <1>1. free \subseteq Nat
    BY TokensAssumption DEF Free
  <1> DEFINE less == {p \in Nat \X Nat : p[1] < p[2]}
  <1>2. \E n \in free : \A m \in free : ~ (<<m, n>> \in less)
    <2>1. IsWellFoundedOn(less, Nat)
      BY NatLessThanWellFounded DEF OpToRel
    <2> HIDE DEF less
    <2> QED
      BY <1>1, <2>1, WFMin, Zenon
  <1>3. \E n \in free : \A m \in free : n <= m
    <2>1. PICK n \in free : \A m \in free : ~ (<<m, n>> \in less)
      BY <1>2
    <2> HIDE DEF free
    <2>2. \A m \in free : m \in Nat /\ n \in Nat /\ ~ (m < n)
      BY <1>1, <2>1
    <2> QED
      BY <2>1, <2>2
  <1> DEFINE n == CHOOSE n \in free : \A m \in free : n <= m
  <1>4. n \in free
    BY <1>3
  <1>5. Chosen(name, taken) = Candidate(name, n)
    BY DEF Chosen
  <1> HIDE DEF n
  <1> QED
    BY <1>4, <1>5 DEF Free

LEMMA ChosenType ==
    ASSUME NEW name \in Names, NEW taken, Free(name, taken) # {}
    PROVE  Chosen(name, taken) \in Names /\ fold(Chosen(name, taken)) \in Names
  <1>1. PICK n \in 0..Len(Tilde) : Chosen(name, taken) = Candidate(name, n)
    BY ChosenFree
  <1>2. Candidate(name, n) \in Names
    BY <1>1, TokensAssumption DEF Candidate, Names
  <1> QED
    BY <1>1, <1>2, LoweredType DEF fold

-----------------------------------------------------------------------------
(* The control *)

\* What a source is made of: its kinds, and entries that lead back into it.
LEMMA SourceFacts ==
    ASSUME src \in Sources
    PROVE  /\ src.root \in Locs /\ src.name \in DOMAIN HostName
           /\ \A l \in Locs :
                /\ src.kind[l] \in {"dir", "file", "symlink", "special"}
                /\ src.kind[l] = "dir" =>
                     /\ Len(src.entries[l]) \in Nat
                     /\ \A n \in 1..Len(src.entries[l]) :
                          /\ src.entries[l][n].loc \in Locs
                          /\ src.entries[l][n].name \in DOMAIN HostName
  <1>1. /\ src.root \in Locs /\ src.name \in DOMAIN HostName
        /\ \A l \in Locs : src.kind[l] \in {"dir", "file", "symlink", "special"}
    BY SourcesAssumption DEF Locs
  <1>2. ASSUME NEW l \in Locs, src.kind[l] = "dir", NEW n \in 1..Len(src.entries[l])
        PROVE  /\ Len(src.entries[l]) \in Nat
               /\ src.entries[l][n].loc \in Locs /\ src.entries[l][n].name \in DOMAIN HostName
    <2>1. /\ src.entries[l] \in Seq(Range(src.entries[l]))
          /\ \A e \in Range(src.entries[l]) : e.loc \in Locs /\ e.name \in DOMAIN HostName
      BY <1>2, SourcesAssumption DEF Locs
    <2>2. src.entries[l][n] \in Range(src.entries[l])
      BY <2>1
    <2> QED
      BY <2>1, <2>2
  <1>3. ASSUME NEW l \in Locs, src.kind[l] = "dir"
        PROVE  Len(src.entries[l]) \in Nat
    <2>1. src.entries[l] \in Seq(Range(src.entries[l]))
      BY <1>3, SourcesAssumption DEF Locs
    <2> QED
      BY <2>1
  <1> QED
    BY <1>1, <1>2, <1>3

\* Going on to the next entry changes the innermost frame's index and no more.
LEMMA AdvancedFrames ==
    ASSUME NEW fs \in Seq(Frames), fs # <<>>
    PROVE  /\ Advanced(fs) \in Seq(Frames)
           /\ Len(Advanced(fs)) = Len(fs)
           /\ Len(fs) \in Nat \ {0}
           /\ \A j \in 1..(Len(fs) - 1) : Advanced(fs)[j] = fs[j]
           /\ Advanced(fs)[Len(fs)] = [fs[Len(fs)] EXCEPT !.next = @ + 1]
           /\ Advanced(fs)[Len(fs)].dir = fs[Len(fs)].dir
           /\ Advanced(fs)[Len(fs)].dest = fs[Len(fs)].dest
           /\ Advanced(fs)[Len(fs)].next = fs[Len(fs)].next + 1
           /\ Advanced(fs)[Len(fs)].taken = fs[Len(fs)].taken
  <1>1. Len(fs) \in Nat \ {0} /\ fs[Len(fs)] \in Frames
    OBVIOUS
  <1>2. [fs[Len(fs)] EXCEPT !.next = @ + 1] \in Frames
    BY <1>1 DEF Frames
  <1>3. Advanced(fs) = [fs EXCEPT ![Len(fs)] = [fs[Len(fs)] EXCEPT !.next = @ + 1]]
    BY DEF Advanced
  <1>4. /\ Advanced(fs) \in Seq(Frames)
        /\ Len(Advanced(fs)) = Len(fs)
        /\ \A j \in 1..(Len(fs) - 1) : Advanced(fs)[j] = fs[j]
        /\ Advanced(fs)[Len(fs)] = [fs[Len(fs)] EXCEPT !.next = @ + 1]
    BY <1>1, <1>2, <1>3
  <1>5. /\ [fs[Len(fs)] EXCEPT !.next = @ + 1].dir = fs[Len(fs)].dir
        /\ [fs[Len(fs)] EXCEPT !.next = @ + 1].dest = fs[Len(fs)].dest
        /\ [fs[Len(fs)] EXCEPT !.next = @ + 1].next = fs[Len(fs)].next + 1
        /\ [fs[Len(fs)] EXCEPT !.next = @ + 1].taken = fs[Len(fs)].taken
    BY <1>1 DEF Frames
  <1> QED
    BY <1>1, <1>4, <1>5

\* Whatever a call for an entry returns, its loop is about to look further, or the
\* copy is over.
LEMMA Returned ==
    ASSUME src \in Sources, src' = src, exit \in {-1, 0, 1, 5},
           NEW fs, Open(fs), NEW err, NEW r,
           Failed(fs, err, r) \/ Succeeded(fs, r)
    PROVE  /\ pc' \in {"entry", "exited"}
           /\ pc' = "entry" => stack' = Advanced(fs) /\ fs # <<>> /\ Looping(stack)'
           /\ pc' = "exited" => stack' = <<>> /\ fs = <<>> /\ Open(stack)'
           /\ exit' \in {-1, 0, 1, 5}
  <1>1. CASE fs = <<>>
    <2>1. pc' = "exited" /\ stack' = <<>> /\ exit' \in {0, 1, 5}
      BY <1>1 DEF Failed, Succeeded
    <2>2. Open(stack)'
      BY <2>1 DEF Open
    <2> QED
      BY <1>1, <2>1, <2>2
  <1>2. CASE fs # <<>>
    <2>1. pc' = "entry" /\ stack' = Advanced(fs) /\ exit' = exit
      BY <1>2 DEF Failed, Succeeded
    <2>2. fs \in Seq(Frames) /\ \A j \in 1..Len(fs) : Inside(fs[j])
      BY DEF Open
    <2>3. Frames' = Frames
      BY DEF Frames, Locs
    <2>4. /\ stack' \in Seq(Frames') /\ Len(stack') = Len(fs) /\ Len(fs) \in Nat \ {0}
          /\ \A j \in 1..(Len(fs) - 1) : stack'[j] = fs[j]
          /\ stack'[Len(fs)].dir = fs[Len(fs)].dir
          /\ stack'[Len(fs)].dest = fs[Len(fs)].dest
          /\ stack'[Len(fs)].next = fs[Len(fs)].next + 1
      BY <1>2, <2>1, <2>2, <2>3, AdvancedFrames
    <2>5. \A j \in 1..(Len(fs) - 1) : Inside(stack[j])'
      BY <2>2, <2>4 DEF Inside
    <2>6. OnItsWay(stack[Len(fs)])'
      <3> DEFINE f == fs[Len(fs)]
      <3>0. f \in Frames /\ Inside(f)
        BY <2>2, <2>4
      <3> HIDE DEF f
      <3>1. f.dir \in Locs /\ src.kind[f.dir] = "dir"
        BY <3>0 DEF Frames, Inside
      <3>2. Len(src.entries[f.dir]) \in Nat
        BY <3>1, SourceFacts
      <3>3. /\ stack[Len(fs)]'.dir = f.dir /\ stack[Len(fs)]'.dest = f.dest
            /\ stack[Len(fs)]'.next = f.next + 1
        BY <2>4 DEF f
      <3> QED
        BY <3>0, <3>2, <3>3 DEF Inside, OnItsWay
    <2>7. stack' # <<>>
      BY <2>4
    <2> QED
      BY <1>2, <2>1, <2>4, <2>5, <2>6, <2>7 DEF Looping
  <1> QED
    BY <1>1, <1>2

\* A loop that looks and finds an entry is inside, also with that entry's name
\* taken; a loop that is over leaves the others inside.
LEMMA LoopFacts ==
    ASSUME Shape, pc = "entry"
    PROVE  /\ stack \in Seq(Frames) /\ Len(stack) \in Nat \ {0} /\ Top \in Frames
           /\ src.kind[Top.dir] = "dir" /\ Top.dest # <<>>
           /\ InLoop => /\ Open(stack)
                        /\ Entry.loc \in Locs /\ Entry.name \in DOMAIN HostName
           /\ InLoop /\ Nameable => /\ Open(Naming) /\ Len(Naming) = Len(stack)
                                    /\ Chosen(HostName[Entry.name], Top.taken) \in Names
                                    /\ \A j \in 1..Len(stack) :
                                         /\ Naming[j].dir = stack[j].dir
                                         /\ Naming[j].dest = stack[j].dest
                                         /\ Naming[j].next = stack[j].next
                                         /\ stack[j].taken \subseteq Naming[j].taken
                                    /\ fold(Chosen(HostName[Entry.name], Top.taken))
                                         \in Naming[Len(stack)].taken
           /\ Open(Front(stack)) /\ Len(Front(stack)) = Len(stack) - 1
           /\ \A j \in 1..(Len(stack) - 1) : Front(stack)[j] = stack[j]
  <1>1. /\ src \in Sources /\ stack \in Seq(Frames) /\ stack # <<>>
        /\ \A j \in 1..(Len(stack) - 1) : Inside(stack[j])
        /\ OnItsWay(Top)
    BY DEF Shape, Looping, Top
  <1>2. Len(stack) \in Nat \ {0} /\ Top \in Frames /\ Top = stack[Len(stack)]
    BY <1>1 DEF Top
  <1>3. src.kind[Top.dir] = "dir" /\ Top.dest # <<>>
    BY <1>1 DEF OnItsWay
  <1>4. ASSUME InLoop
        PROVE  /\ Inside(Top) /\ Open(stack)
               /\ Entry.loc \in Locs /\ Entry.name \in DOMAIN HostName
    <2>1. Top.next \in 1..Len(src.entries[Top.dir])
      BY <1>1, <1>2, <1>4 DEF InLoop, OnItsWay, Frames
    <2>2. Inside(Top)
      BY <1>3, <2>1 DEF Inside
    <2>3. Open(stack)
      BY <1>1, <1>2, <2>2 DEF Open
    <2>4. Top.dir \in Locs
      BY <1>2 DEF Frames
    <2> QED
      BY <1>1, <1>3, <2>1, <2>2, <2>3, <2>4, SourceFacts DEF Entry
  <1>5. ASSUME InLoop, Nameable
        PROVE  /\ Open(Naming) /\ Len(Naming) = Len(stack)
               /\ Chosen(HostName[Entry.name], Top.taken) \in Names
               /\ \A j \in 1..Len(stack) :
                    /\ Naming[j].dir = stack[j].dir
                    /\ Naming[j].dest = stack[j].dest
                    /\ Naming[j].next = stack[j].next
                    /\ stack[j].taken \subseteq Naming[j].taken
               /\ fold(Chosen(HostName[Entry.name], Top.taken)) \in Naming[Len(stack)].taken
    <2> DEFINE name == fold(Chosen(HostName[Entry.name], Top.taken))
    <2> DEFINE named == [Top EXCEPT !.taken = @ \cup {name}]
    <2>1. name \in Names /\ Chosen(HostName[Entry.name], Top.taken) \in Names
      <3>1. HostName[Entry.name] \in Names
        BY <1>4, <1>5, TokensAssumption
      <3> QED
        BY <3>1, <1>5, ChosenType DEF Nameable
    <2>2. Naming = [stack EXCEPT ![Len(stack)] = named]
      BY <1>2 DEF Naming
    <2>3. /\ named \in Frames /\ named.dir = Top.dir
          /\ named.dest = Top.dest /\ named.next = Top.next
          /\ named.taken = Top.taken \cup {name}
      <3> HIDE DEF name
      <3> QED
        BY <1>2, <2>1 DEF Frames
    <2> HIDE DEF named
    <2>4. Naming \in Seq(Frames) /\ Len(Naming) = Len(stack)
      BY <1>1, <1>2, <2>2, <2>3
    <2>5. \A j \in 1..Len(stack) : Naming[j] = IF j = Len(stack) THEN named ELSE stack[j]
      BY <1>1, <1>2, <2>2
    <2>6. \A j \in 1..Len(stack) :
            /\ Naming[j].dir = stack[j].dir
            /\ Naming[j].dest = stack[j].dest
            /\ Naming[j].next = stack[j].next
            /\ stack[j].taken \subseteq Naming[j].taken
      BY <1>2, <2>3, <2>5
    <2>7. Open(Naming)
      BY <1>4, <1>5, <2>4, <2>6 DEF Open, Inside
    <2>8. name \in Naming[Len(stack)].taken
      BY <1>2, <2>3, <2>5
    <2> QED
      BY <2>1, <2>4, <2>6, <2>7, <2>8
  <1>6. /\ Front(stack) \in Seq(Frames) /\ Len(Front(stack)) = Len(stack) - 1
        /\ \A j \in 1..(Len(stack) - 1) : Front(stack)[j] = stack[j]
    <2>1. Front(stack) = [j \in 1..(Len(stack) - 1) |-> stack[j]]
      BY <1>1, <1>2 DEF Front
    <2>2. \A j \in 1..(Len(stack) - 1) : stack[j] \in Frames
      BY <1>1, <1>2
    <2> QED
      BY <1>2, <2>1, <2>2
  <1>7. Open(Front(stack))
    BY <1>1, <1>6 DEF Open
  <1> QED
    BY <1>1, <1>2, <1>3, <1>4, <1>5, <1>6, <1>7

\* A copy begins in shape.
LEMMA InitShape == Init => Shape
  <1> SUFFICES ASSUME Init PROVE Shape
    OBVIOUS
  <1>1. src \in Sources /\ src.root \in Locs
    BY SourceFacts DEF Init
  <1>2. <<Dest>> \in Paths /\ <<Dest>> # <<>>
    BY TokensAssumption DEF Paths
  <1>3. Open(<<>>)
    BY DEF Open
  <1> QED
    BY <1>1, <1>2, <1>3 DEF Init, Shape, LeafSteps

\* Every step keeps it.
LEMMA StepShape ==
    ASSUME Shape, [Next]_vars
    PROVE  Shape'
  <1>0. /\ src \in Sources /\ exit \in {-1, 0, 1, 5}
        /\ cur \in [loc : Locs, dest : Paths] /\ cur.dest # <<>> /\ ancestors \subseteq Locs
        /\ cur.loc \in Locs
        /\ pc # "entry" => Open(stack)
    BY DEF Shape
  <1>1. CASE UNCHANGED vars
    BY <1>1 DEF vars, Shape, Looping, Open, Frames, Locs, Inside, OnItsWay
  <1>2. ASSUME src' = src, cur' = cur, ancestors' \subseteq Locs,
               NEW fs, Open(fs), NEW err, NEW r, Failed(fs, err, r) \/ Succeeded(fs, r)
        PROVE  Shape'
    <2>1. /\ pc' \in {"entry", "exited"}
          /\ pc' = "entry" => Looping(stack)'
          /\ pc' = "exited" => stack' = <<>> /\ Open(stack)'
          /\ exit' \in {-1, 0, 1, 5}
      BY <1>0, <1>2, Returned
    <2> QED
      BY <1>0, <1>2, <2>1 DEF Shape, LeafSteps, Locs
  <1>3. ASSUME src' = src, stack' = stack, ancestors' = ancestors, exit' = exit, cur' = cur,
               pc \in LeafSteps, pc' \in LeafSteps
        PROVE  Shape'
    BY <1>3 DEF Shape, LeafSteps, Open, Frames, Locs, Inside
  <1>4. CASE Copy
    <2>0. /\ src' = src /\ ancestors' = ancestors /\ stack = <<>> /\ Open(stack)
          /\ cur.loc = src.root
      BY <1>0, <1>4 DEF Copy, Shape
    <2>1. CASE src.kind[src.root] = "dir" /\ pc' = "dir" /\ UNCHANGED <<stack, cur, report, exit>>
      BY <2>0, <2>1 DEF Shape, LeafSteps, Open, Frames, Locs, Inside
    <2>2. CASE /\ src.kind[src.root] # "dir" /\ pc' = "leaf"
               /\ cur' = cur \/ cur' = [cur EXCEPT !.dest = <<Dest, HostName[src.name]>>]
               /\ UNCHANGED <<stack, exit>>
      <3>1. <<Dest, HostName[src.name]>> \in Paths /\ <<Dest, HostName[src.name]>> # <<>>
        BY <1>0, SourceFacts, TokensAssumption DEF Paths
      <3>2. cur' \in [loc : Locs, dest : Paths] /\ cur'.dest # <<>> /\ cur'.loc = cur.loc
        BY <1>0, <2>2, <3>1
      <3> QED
        BY <2>0, <2>2, <3>2 DEF Shape, LeafSteps, Open, Frames, Locs, Inside
    <2>3. CASE \E err \in ReadErrors : Failed(<<>>, err, report) /\ UNCHANGED cur
      BY <1>0, <1>2, <2>0, <2>3
    <2> QED
      BY <1>4, <2>1, <2>2, <2>3 DEF Copy
  <1>5. CASE CopyDir
    <2>0. /\ src' = src /\ cur' = cur /\ pc = "dir" /\ Open(stack)
          /\ src.kind[cur.loc] = "dir"
      BY <1>0, <1>5 DEF CopyDir, Shape
    <2>1. CASE Failed(stack, "other", report) /\ UNCHANGED ancestors
      BY <1>0, <1>2, <2>0, <2>1
    <2>2. CASE /\ \E err \in ReadErrors, r \in {Counted, Recorded(Counted)} : Failed(stack, err, r)
               /\ UNCHANGED ancestors
      BY <1>0, <1>2, <2>0, <2>2
    <2>3. CASE /\ stack' = Append(stack, [dir |-> cur.loc, dest |-> cur.dest, next |-> 1, taken |-> {}])
               /\ ancestors' = ancestors \cup {cur.loc}
               /\ pc' = "entry"
               /\ UNCHANGED exit
      <3> DEFINE f == [dir |-> cur.loc, dest |-> cur.dest, next |-> 1, taken |-> {}]
      <3>1. f \in Frames /\ f.dir = cur.loc /\ f.dest = cur.dest /\ f.next = 1
        BY <1>0 DEF Frames
      <3>2. stack \in Seq(Frames) /\ Len(stack) \in Nat /\ \A j \in 1..Len(stack) : Inside(stack[j])
        BY <2>0 DEF Open
      <3>3. /\ stack' = Append(stack, f) /\ stack' \in Seq(Frames) /\ Len(stack') = Len(stack) + 1
            /\ stack' # <<>>
            /\ stack'[Len(stack')] = f
            /\ \A j \in 1..Len(stack) : stack'[j] = stack[j]
        <4> HIDE DEF f
        <4> QED
          BY <2>3, <3>1, <3>2 DEF f
      <3>4. OnItsWay(stack[Len(stack)])'
        <4>1. Len(src.entries[cur.loc]) \in Nat
          BY <1>0, <2>0, SourceFacts
        <4> QED
          BY <1>0, <2>0, <3>1, <3>3, <4>1 DEF OnItsWay
      <3>5. Looping(stack)'
        <4>1. \A j \in 1..(Len(stack') - 1) : Inside(stack[j])'
          BY <2>0, <3>2, <3>3 DEF Inside
        <4>2. Frames' = Frames
          BY <2>0 DEF Frames, Locs
        <4> QED
          BY <3>3, <3>4, <4>1, <4>2 DEF Looping
      <3> QED
        BY <1>0, <2>0, <2>3, <3>5 DEF Shape, LeafSteps, Locs
    <2> QED
      BY <1>5, <2>1, <2>2, <2>3 DEF CopyDir
  <1>6. CASE ExcludeEntry
    BY <1>0, <1>2, <1>6, LoopFacts DEF ExcludeEntry, InLoop
  <1>7. CASE SkipEntry
    BY <1>0, <1>2, <1>7, LoopFacts DEF SkipEntry, InLoop
  <1>8. CASE CopyEntry
    <2>0. /\ src' = src /\ ancestors' = ancestors /\ pc = "entry" /\ InLoop /\ Nameable
      BY <1>8 DEF CopyEntry, InLoop
    <2>1. CASE Failed(Naming, "other", report) /\ UNCHANGED cur
      BY <1>0, <1>2, <2>0, <2>1, LoopFacts
    <2>2. CASE /\ cur' = [loc |-> Entry.loc,
                          dest |-> Append(Top.dest, Chosen(HostName[Entry.name], Top.taken))]
               /\ stack' = Naming
               /\ pc' = IF src.kind[Entry.loc] = "dir" THEN "dir" ELSE "leaf"
               /\ UNCHANGED exit
      <3> DEFINE name == Chosen(HostName[Entry.name], Top.taken)
      <3>1. /\ Open(Naming) /\ Entry.loc \in Locs /\ name \in Names /\ Top \in Frames
        BY <2>0, LoopFacts
      <3>2. cur' \in [loc : Locs, dest : Paths] /\ cur'.dest # <<>> /\ cur'.loc = Entry.loc
        <4> HIDE DEF name
        <4>1. Top.dest \in Paths
          BY <3>1 DEF Frames
        <4>2. Append(Top.dest, name) \in Paths /\ Append(Top.dest, name) # <<>>
          BY <3>1, <4>1 DEF Paths
        <4> QED
          BY <2>2, <3>1, <4>2 DEF name
      <3>3. Open(stack)'
        BY <2>0, <2>2, <3>1 DEF Open, Frames, Locs, Inside
      <3> QED
        BY <1>0, <2>0, <2>2, <3>2, <3>3 DEF Shape, LeafSteps, Locs
    <2> QED
      BY <1>8, <2>1, <2>2 DEF CopyEntry
  <1>9. CASE FinishDir
    <2>1. ancestors' \subseteq Locs
      BY <1>0, <1>9 DEF FinishDir, LessTop
    <2> QED
      BY <1>0, <1>2, <1>9, <2>1, LoopFacts DEF FinishDir
  <1>10. CASE CopyLeaf
    <2>0. /\ src' = src /\ cur' = cur /\ ancestors' = ancestors /\ pc = "leaf" /\ Open(stack)
          /\ src.kind[cur.loc] # "dir" /\ src.kind[cur.loc] \in {"dir", "file", "symlink", "special"}
      BY <1>0, <1>10, SourceFacts DEF CopyLeaf, Shape, LeafSteps
    <2>1. CASE pc' = src.kind[cur.loc] /\ UNCHANGED <<stack, report, exit>>
      BY <1>3, <2>0, <2>1 DEF LeafSteps
    <2>2. CASE \E err \in ReadErrors : Failed(stack, err, report)
      BY <1>0, <1>2, <2>0, <2>2
    <2> QED
      BY <1>10, <2>1, <2>2 DEF CopyLeaf
  <1>11. CASE CopySymlink
    BY <1>0, <1>2, <1>11 DEF CopySymlink
  <1>12. CASE CopySpecial
    BY <1>0, <1>2, <1>12 DEF CopySpecial
  <1>13. CASE CreateFile
    BY <1>0, <1>2, <1>3, <1>13 DEF CreateFile, FileFails, LeafSteps
  <1>14. CASE WriteFile
    BY <1>0, <1>2, <1>3, <1>14 DEF WriteFile, FileFails, LeafSteps
  <1>15. CASE RenameFile
    BY <1>0, <1>2, <1>3, <1>15 DEF RenameFile
  <1>16. CASE Exited
    BY <1>1, <1>16 DEF Exited
  <1> QED
    BY <1>1, <1>4, <1>5, <1>6, <1>7, <1>8, <1>9, <1>10, <1>11, <1>12, <1>13, <1>14, <1>15, <1>16
       DEF Next, Step

\* Shape holds throughout.
LEMMA ShapeAlways == Spec => []Shape
  BY InitShape, StepShape, PTL DEF Spec

\* The frames are the shape's.
LEMMA ShapeFrames ==
    ASSUME Shape
    PROVE  \A j \in 1..Len(stack) : stack[j] \in Frames /\ OnItsWay(stack[j])
  <1>1. stack \in Seq(Frames) /\ Len(stack) \in Nat
    BY DEF Shape, Looping, Open
  <1>2. \A f \in Frames : Inside(f) => OnItsWay(f)
    BY SourceFacts DEF Inside, OnItsWay, Frames, Shape
  <1>3. CASE pc = "entry"
    BY <1>1, <1>2, <1>3 DEF Shape, Looping
  <1>4. CASE pc # "entry"
    BY <1>1, <1>2, <1>4 DEF Shape, Open
  <1> QED
    BY <1>3, <1>4

-----------------------------------------------------------------------------
(* The host *)

\* What changes when an object is removed.
LEMMA WithoutFacts ==
    ASSUME NEW path
    PROVE  /\ DOMAIN Without(path) = DOMAIN host \ {Key(path)}
           /\ \A k \in DOMAIN host \ {Key(path)} : Without(path)[k] = host[k]
  BY DEF Without

\* The host holds nothing unfinished before the copy.
LEMMA InitHosted == Init => Hosted
  <1> SUFFICES ASSUME Init PROVE Hosted
    OBVIOUS
  <1>1. \A k \in DOMAIN host : Fits(k, host[k], through)
    <2> TAKE k \in DOMAIN host
    <2>1. /\ host[k].kind \in {"dir", "file", "symlink"}
          /\ host[k] = [kind |-> host[k].kind, of |-> Theirs, whole |-> TRUE]
      BY PriorsAssumption DEF Init
    <2> DEFINE kind == host[k].kind
    <2>2. kind \in {"dir", "file", "symlink"} /\ host[k] = [kind |-> kind, of |-> Theirs, whole |-> TRUE]
      BY <2>1
    <2> HIDE DEF kind
    <2> QED
      BY <2>2 DEF Fits, Objects
  <1> QED
    BY <1>1 DEF Init, Hosted

\* What is on the host stays typed and marked, and a file's place is free until
\* its finished temporary sibling moves there.
LEMMA StepHosted ==
    ASSUME Shape, Hosted, [Next]_vars
    PROVE  Hosted'
  <1>0. /\ src \in Sources /\ exit \in {-1, 0, 1, 5}
        /\ cur \in [loc : Locs, dest : Paths] /\ cur.dest # <<>> /\ cur.loc \in Locs
        /\ cur.dest \in Paths
        /\ \A k \in DOMAIN host : Fits(k, host[k], through)
        /\ pc # "entry" => Open(stack)
    BY DEF Shape, Hosted
  <1> DEFINE temp == Key(Temp(cur.dest))
  <1> DEFINE place == Key(cur.dest)
  <1>t. IsTemp(temp) /\ temp # place
    BY <1>0, TempIsTemp
  <1> HIDE DEF temp, place
  \* The host once the call is over, whatever was put there.
  <1>1. ASSUME src' = src, through' = through,
               pc' \notin LeafSteps \ {"leaf"},
               \A k \in DOMAIN host' : Fits(k, host'[k], through)
        PROVE  Hosted'
    BY <1>1 DEF Hosted, Fits, IsTemp, Objects, Locs, LeafSteps
  <1>2. ASSUME src' = src, through' = through, host' = host, pc' \notin LeafSteps \ {"leaf"}
        PROVE  Hosted'
    BY <1>0, <1>1, <1>2
  <1>3. ASSUME NEW where, NEW object, NEW linked, through \subseteq linked,
               Fits(where, object, linked)
        PROVE  /\ DOMAIN PutAt(where, object) = DOMAIN host \cup {where}
               /\ PutAt(where, object)[where] = object
               /\ \A k \in DOMAIN host \ {where} : PutAt(where, object)[k] = host[k]
               /\ \A k \in DOMAIN PutAt(where, object) : Fits(k, PutAt(where, object)[k], linked)
    <2>1. /\ DOMAIN PutAt(where, object) = DOMAIN host \cup {where}
          /\ PutAt(where, object)[where] = object
          /\ \A k \in DOMAIN host \ {where} : PutAt(where, object)[k] = host[k]
      BY DEF PutAt
    <2>2. \A k \in DOMAIN host : Fits(k, host[k], linked)
      BY <1>0, <1>3 DEF Fits
    <2> QED
      BY <1>3, <2>1, <2>2
  <1>4. ASSUME NEW path
        PROVE  \A k \in DOMAIN Without(path) : Fits(k, Without(path)[k], through)
    BY <1>0, WithoutFacts
  <1>5. ASSUME src' = src, NEW fs, Open(fs), NEW err, NEW r,
               Failed(fs, err, r) \/ Succeeded(fs, r)
        PROVE  pc' \notin LeafSteps \ {"leaf"}
    <2>1. pc' \in {"entry", "exited"}
      BY <1>0, <1>5, Returned
    <2> QED
      BY <2>1 DEF LeafSteps
  <1>6. ASSUME NEW kind \in {"dir", "file", "symlink"}
        PROVE  \A k, linked : Fits(k, Object(kind, cur.loc), linked)
    BY <1>0 DEF Object, Objects, Fits
  <1>7. CASE UNCHANGED vars
    <2>1. src' = src /\ host' = host /\ cur' = cur /\ pc' = pc /\ out' = out /\ through' = through
      BY <1>7 DEF vars
    <2>2. (\A k \in DOMAIN host : Fits(k, host[k], through))'
      BY <1>0, <2>1 DEF Fits, IsTemp, Objects, Locs
    <2>3. /\ Exists(cur.dest)' = Exists(cur.dest) /\ Exists(Temp(cur.dest))' = Exists(Temp(cur.dest))
          /\ At(Temp(cur.dest))' = At(Temp(cur.dest)) /\ Key(cur.dest)' = Key(cur.dest)
          /\ Key(Temp(cur.dest))' = Key(Temp(cur.dest))
      BY <2>1 DEF Exists, At, Key, Temp, Lowered
    <2> QED
      BY <2>1, <2>2, <2>3 DEF Hosted
  <1>8. CASE Copy
    <2>1. src' = src /\ through' = through /\ host' = host /\ Open(<<>>)
      BY <1>8 DEF Copy, Open
    <2>2. CASE pc' \in {"dir", "leaf"}
      BY <1>2, <2>1, <2>2 DEF LeafSteps
    <2>3. CASE \E err \in ReadErrors : Failed(<<>>, err, report) /\ UNCHANGED cur
      BY <1>2, <1>5, <2>1, <2>3
    <2> QED
      BY <1>8, <2>2, <2>3 DEF Copy
  <1>9. CASE CopyDir
    <2>0. src' = src /\ through' = through /\ Open(stack)
      BY <1>0, <1>9 DEF CopyDir
    <2>1. pc' \notin LeafSteps \ {"leaf"}
      BY <1>5, <1>9, <2>0 DEF CopyDir, LeafSteps
    <2>2. host' = host \/ host' = Put(cur.dest, Object("dir", cur.loc))
      BY <1>9 DEF CopyDir, MakeDir
    <2>3. \A k \in DOMAIN host' : Fits(k, host'[k], through)
      <3>1. CASE host' = host
        BY <1>0, <3>1
      <3>2. ASSUME NEW object, Fits(place, object, through), host' = PutAt(place, object)
            PROVE  \A k \in DOMAIN host' : Fits(k, host'[k], through)
        BY <1>3, <3>2
      <3> QED
        BY <1>6, <2>2, <3>1, <3>2 DEF Put, place
    <2> QED
      BY <1>1, <2>0, <2>1, <2>3
  <1>10. CASE ExcludeEntry
    <2>1. src' = src /\ through' = through /\ host' = host /\ Open(stack)
      BY <1>10, LoopFacts DEF ExcludeEntry, InLoop
    <2> QED
      BY <1>2, <1>5, <1>10, <2>1 DEF ExcludeEntry
  <1>11. CASE SkipEntry
    <2>1. src' = src /\ through' = through /\ host' = host /\ Open(Naming)
      BY <1>11, LoopFacts DEF SkipEntry, InLoop
    <2> QED
      BY <1>2, <1>5, <1>11, <2>1 DEF SkipEntry
  <1>12. CASE CopyEntry
    <2>1. src' = src /\ through' = through /\ host' = host /\ Open(Naming)
      BY <1>12, LoopFacts DEF CopyEntry, InLoop
    <2> QED
      BY <1>2, <1>5, <1>12, <2>1 DEF CopyEntry, LeafSteps
  <1>13. CASE FinishDir
    <2>1. src' = src /\ through' = through /\ host' = host /\ Open(Front(stack))
      BY <1>13, LoopFacts DEF FinishDir
    <2> QED
      BY <1>2, <1>5, <1>13, <2>1 DEF FinishDir
  <1>14. CASE CopyLeaf
    <2>0. src' = src /\ through' = through /\ cur' = cur /\ Open(stack) /\ pc = "leaf"
      BY <1>0, <1>14 DEF CopyLeaf
    <2>1. CASE host' = Without(cur.dest) /\ pc' = src.kind[cur.loc]
      <3>1. /\ DOMAIN host' = DOMAIN host \ {place}
            /\ \A k \in DOMAIN host' : Fits(k, host'[k], through)
        BY <1>4, <2>1, WithoutFacts DEF place
      <3>2. ~Exists(cur.dest)'
        BY <2>0, <3>1 DEF Exists, place, Key, Lowered
      <3>3. pc' \in {"file", "symlink", "special"}
        BY <1>0, <2>0, <2>1, SourceFacts DEF Shape, LeafSteps
      <3> QED
        BY <2>0, <3>1, <3>2, <3>3 DEF Hosted, Fits, IsTemp, Objects, Locs
    <2>2. CASE \E err \in ReadErrors : Failed(stack, err, report) /\ UNCHANGED host
      BY <1>2, <1>5, <2>0, <2>2
    <2> QED
      BY <1>14, <2>1, <2>2 DEF CopyLeaf
  <1>15. CASE CopySymlink
    <2>0. src' = src /\ through' = through /\ Open(stack)
      BY <1>0, <1>15 DEF CopySymlink
    <2>1. pc' \notin LeafSteps \ {"leaf"}
      BY <1>5, <1>15, <2>0 DEF CopySymlink
    <2>2. host' = host \/ host' = Put(cur.dest, Object("symlink", cur.loc))
      BY <1>15 DEF CopySymlink
    <2>3. \A k \in DOMAIN host' : Fits(k, host'[k], through)
      <3>1. CASE host' = host
        BY <1>0, <3>1
      <3>2. ASSUME NEW object, Fits(place, object, through), host' = PutAt(place, object)
            PROVE  \A k \in DOMAIN host' : Fits(k, host'[k], through)
        BY <1>3, <3>2
      <3> QED
        BY <1>6, <2>2, <3>1, <3>2 DEF Put, place
    <2> QED
      BY <1>1, <2>0, <2>1, <2>3
  <1>16. CASE CopySpecial
    <2>0. src' = src /\ through' = through /\ host' = host /\ Open(stack)
      BY <1>0, <1>16 DEF CopySpecial
    <2> QED
      BY <1>2, <1>5, <1>16, <2>0 DEF CopySpecial
  <1>17. ASSUME src' = src, through' = through, Open(stack), FileFails
         PROVE  Hosted'
    <2>1. pc' \notin LeafSteps \ {"leaf"}
      BY <1>5, <1>17 DEF FileFails
    <2>2. host' = host \/ host' = Without(Temp(cur.dest))
      BY <1>17 DEF FileFails
    <2> QED
      BY <1>0, <1>1, <1>4, <1>17, <2>1, <2>2
  \* The names of the host's places do not change with the host.
  <1>p. ASSUME cur' = cur
        PROVE  /\ Key(cur.dest)' = place /\ Key(Temp(cur.dest))' = temp
               /\ Exists(cur.dest)' = (place \in DOMAIN host')
               /\ Exists(Temp(cur.dest))' = (temp \in DOMAIN host')
               /\ At(Temp(cur.dest))' = host'[temp]
    BY <1>p DEF Exists, At, place, temp, Key, Lowered, Temp
  <1>q. /\ Exists(cur.dest) = (place \in DOMAIN host)
        /\ Exists(Temp(cur.dest)) = (temp \in DOMAIN host)
        /\ At(Temp(cur.dest)) = host[temp]
    BY DEF Exists, At, place, temp
  <1>18. CASE CreateFile
    <2>0. /\ src' = src /\ cur' = cur /\ Open(stack) /\ pc = "file"
          /\ place \notin DOMAIN host
      BY <1>0, <1>q, <1>18 DEF CreateFile, Hosted
    <2>1. CASE /\ \/ ~Is(Temp(cur.dest), "symlink") /\ out' = temp /\ through' = through
                  \/ /\ Is(Temp(cur.dest), "symlink")
                     /\ through' = through \cup {out'}
               /\ host' = IF out' = Elsewhere THEN host ELSE PutAt(out', Unfinished(cur.loc))
               /\ pc' = "write"
      <3> DEFINE object == Unfinished(cur.loc)
      <3>1. object \in Objects /\ object.kind = "file"
        BY <1>0 DEF Unfinished, Objects
      <3> HIDE DEF object
      <3>2. Fits(out', object, through')
        BY <1>t, <2>1, <3>1 DEF Fits
      <3>3. through \subseteq through'
        BY <2>1
      <3>0. out' # Elsewhere => host' = PutAt(out', object)
        BY <2>1 DEF object
      <3>4. \A k \in DOMAIN host' : Fits(k, host'[k], through')
        <4>1. CASE out' = Elsewhere
          BY <1>0, <2>1, <3>3, <4>1 DEF Fits
        <4>2. CASE out' # Elsewhere
          <5>1. host' = PutAt(out', object)
            BY <3>0, <4>2
          <5>2. \A k \in DOMAIN PutAt(out', object) : Fits(k, PutAt(out', object)[k], through')
            BY <1>3, <3>2, <3>3
          <5> QED
            BY <5>1, <5>2
        <4> QED
          BY <4>1, <4>2
      <3>5. /\ DOMAIN host \subseteq DOMAIN host'
            /\ DOMAIN host' \subseteq DOMAIN host \cup {out'}
            /\ \A k \in DOMAIN host \ {out'} : host'[k] = host[k]
        <4>1. CASE out' = Elsewhere
          BY <2>1, <4>1
        <4>2. CASE out' # Elsewhere
          BY <3>0, <4>2 DEF PutAt
        <4> QED
          BY <4>1, <4>2
      <3>6. CASE ~Is(Temp(cur.dest), "symlink") /\ out' = temp /\ through' = through
        <4>1. temp \in DOMAIN host' \/ temp = Elsewhere
          BY <3>0, <3>6 DEF PutAt
        <4>2. temp # Elsewhere
          BY <1>0, TempType, KeyType, LinksAssumption DEF temp
        <4>3. place \notin DOMAIN host'
          BY <1>t, <2>0, <3>5, <3>6
        <4> QED
          BY <1>p, <2>0, <2>1, <3>4, <3>6, <4>1, <4>2, <4>3 DEF Hosted, Fits, IsTemp, Objects, Locs
      <3>7. CASE Is(Temp(cur.dest), "symlink") /\ through' = through \cup {out'}
        <4>1. temp \in DOMAIN host /\ host[temp].kind = "symlink" /\ host[temp].whole
          <5>1. temp \in DOMAIN host /\ host[temp].kind = "symlink"
            BY <3>7 DEF Is, Exists, At, temp
          <5>2. host[temp].whole \in BOOLEAN
            BY <1>0, <5>1 DEF Fits, Objects
          <5> QED
            BY <1>0, <5>1, <5>2 DEF Fits
        <4>2. place \in DOMAIN host' => place \in through'
          BY <2>0, <3>5, <3>7
        <4>3. temp \in DOMAIN host' /\ (out' # temp => host'[temp].whole)
          BY <3>5, <4>1
        <4> QED
          BY <1>p, <2>0, <2>1, <3>4, <3>7, <4>2, <4>3 DEF Hosted, Fits, IsTemp, Objects, Locs
      <3> QED
        BY <2>1, <3>6, <3>7
    <2>2. CASE FileFails /\ UNCHANGED <<out, through>>
      BY <1>17, <2>0, <2>2
    <2> QED
      BY <1>18, <2>1, <2>2 DEF CreateFile, temp
  <1>19. CASE WriteFile
    <2>0. /\ src' = src /\ cur' = cur /\ Open(stack) /\ pc = "write"
          /\ out' = out /\ through' = through
          /\ place \in DOMAIN host => place \in through
          /\ temp \in DOMAIN host
          /\ out = temp \/ out = Elsewhere \/ out \in through
          /\ out # temp => host[temp].whole
      <3>1. pc = "write"
        BY <1>19 DEF WriteFile
      <3>2. /\ Exists(cur.dest) => Key(cur.dest) \in through
            /\ Exists(Temp(cur.dest))
            /\ out = Key(Temp(cur.dest)) \/ out = Elsewhere \/ out \in through
            /\ out # Key(Temp(cur.dest)) => At(Temp(cur.dest)).whole
        BY <3>1 DEF Hosted
      <3> QED
        BY <1>0, <1>q, <1>19, <3>1, <3>2 DEF WriteFile, temp, place
    <2>1. CASE /\ host' = IF out = Elsewhere THEN host ELSE PutAt(out, Object("file", cur.loc))
               /\ pc' = "rename"
      <3> DEFINE object == Object("file", cur.loc)
      <3>1. Fits(out, object, through) /\ object.whole
        BY <1>6 DEF Object
      <3>0. out # Elsewhere => host' = PutAt(out, object)
        BY <2>1
      <3> HIDE DEF object
      <3>2. \A k \in DOMAIN host' : Fits(k, host'[k], through)
        <4>1. CASE out = Elsewhere
          BY <1>0, <2>1, <4>1
        <4>2. CASE out # Elsewhere
          <5>1. host' = PutAt(out, object)
            BY <3>0, <4>2
          <5>2. \A k \in DOMAIN PutAt(out, object) : Fits(k, PutAt(out, object)[k], through)
            BY <1>3, <3>1
          <5> QED
            BY <5>1, <5>2
        <4> QED
          BY <4>1, <4>2
      <3>3. /\ temp \in DOMAIN host' /\ host'[temp].whole
            /\ place \in DOMAIN host' => place \in through
        <4>0. temp # Elsewhere
          BY <1>0, TempType, KeyType, LinksAssumption DEF temp
        <4>1. CASE out = Elsewhere
          BY <2>0, <2>1, <4>0, <4>1
        <4>2. CASE out # Elsewhere
          <5>1. /\ DOMAIN host' = DOMAIN host \cup {out}
                /\ host'[out] = object
                /\ \A k \in DOMAIN host \ {out} : host'[k] = host[k]
            BY <3>0, <4>2 DEF PutAt
          <5> QED
            BY <1>t, <2>0, <3>1, <4>2, <5>1
        <4> QED
          BY <4>1, <4>2
      <3> QED
        BY <1>p, <2>0, <2>1, <3>2, <3>3 DEF Hosted, Fits, IsTemp, Objects, Locs
    <2>2. CASE FileFails
      BY <1>17, <2>0, <2>2
    <2> QED
      BY <1>19, <2>1, <2>2 DEF WriteFile
  <1>20. CASE RenameFile
    <2>0. /\ src' = src /\ through' = through /\ cur' = cur /\ Open(stack) /\ pc = "rename"
          /\ temp \in DOMAIN host /\ host[temp].whole
      BY <1>0, <1>20 DEF RenameFile, Hosted, Exists, At, temp
    <2>1. pc' \notin LeafSteps \ {"leaf"}
      BY <1>5, <1>20, <2>0 DEF RenameFile
    <2>2. CASE host' = [k \in (DOMAIN host \cup {place}) \ {temp} |->
                          IF k = place THEN host[temp] ELSE host[k]]
      <3>1. Fits(place, host[temp], through)
        BY <1>0, <2>0 DEF Fits
      <3> QED
        BY <1>0, <1>1, <2>0, <2>1, <2>2, <3>1
    <2>3. CASE host' = host
      BY <1>2, <2>0, <2>1, <2>3
    <2> QED
      BY <1>20, <2>2, <2>3 DEF RenameFile, place, temp, At
  <1>21. CASE Exited
    BY <1>7, <1>21 DEF Exited
  <1> QED
    BY <1>7, <1>8, <1>9, <1>10, <1>11, <1>12, <1>13, <1>14, <1>15, <1>16, <1>18, <1>19, <1>20, <1>21
       DEF Next, Step

\* Hosted holds throughout.
LEMMA HostedAlways == Spec => []Hosted
  <1>1. Init => Shape /\ Hosted
    BY InitShape, InitHosted
  <1>2. Shape /\ Hosted /\ [Next]_vars => Shape' /\ Hosted'
    BY StepShape, StepHosted
  <1> QED
    BY <1>1, <1>2, PTL DEF Spec

\* Type correctness: every frame is in a directory of this filesystem and inside
\* its entries, and what the host holds is an object, in every state of a copy.
THEOREM TypeCorrect == Spec => []TypeOK
  <1>1. Shape /\ Hosted => TypeOK
    BY ShapeFrames DEF Shape, Hosted, Fits, Objects, TypeOK, Frames, OnItsWay, LeafSteps
  <1> QED
    BY <1>1, ShapeAlways, HostedAlways, PTL

\* A file that is not finished is only ever under a temporary name, or is what a
\* symlink under one led to: a kill at any moment, or a write that fails, leaves no
\* other short file that looks whole.
THEOREM UnfinishedIsMarked == Spec => []PartialIsMarked
  <1>1. Hosted => PartialIsMarked
    BY DEF Hosted, Fits, PartialIsMarked
  <1> QED
    BY <1>1, HostedAlways, PTL

\* Without --force nothing that was on the host is replaced, removed or written to by
\* any step, except what an earlier copy left under a temporary name and what a symlink
\* under one led to.
THEOREM TheirsAreKept == Spec => KeepsTheirs
  <1> DEFINE Kept ==
        \A k \in DOMAIN host :
          ~opts.force /\ host[k].of = Theirs /\ ~IsTemp(k) /\ k \notin through'
              => k \in DOMAIN host' /\ host'[k] = host[k]
  <1>1. ASSUME Shape, Hosted, Next PROVE Kept
    <2> SUFFICES ASSUME NEW k \in DOMAIN host, ~opts.force, ~IsTemp(k), k \notin through'
                 PROVE  k \in DOMAIN host' /\ host'[k] = host[k]
      OBVIOUS
    <2>0. cur.dest \in Paths /\ cur.dest # <<>>
      BY <1>1 DEF Shape
    <2>1. k # Key(Temp(cur.dest))
      BY <2>0, TempIsTemp
    <2>2. ASSUME NEW place, NEW object, place # k, host' = PutAt(place, object)
          PROVE  k \in DOMAIN host' /\ host'[k] = host[k]
      BY <2>2 DEF PutAt
    <2>3. ASSUME NEW object, ~Exists(cur.dest), host' = Put(cur.dest, object)
          PROVE  k \in DOMAIN host' /\ host'[k] = host[k]
      BY <2>3 DEF Put, PutAt, Exists
    <2>4. ASSUME FileFails PROVE k \in DOMAIN host' /\ host'[k] = host[k]
      BY <2>1, <2>4 DEF FileFails, Without
    <2>5. CASE UNCHANGED host
      BY <2>5
    <2>6. CASE CopyDir
      BY <2>3, <2>6 DEF CopyDir, MakeDir
    <2>7. CASE CopyLeaf
      <3>1. CASE host' = host
        BY <3>1
      <3>2. CASE host' = Without(cur.dest) /\ ~Exists(cur.dest)
        BY <3>2 DEF Without, Exists
      <3> QED
        BY <2>7, <3>1, <3>2 DEF CopyLeaf, Replaces
    <2>8. CASE CopySymlink
      BY <2>3, <2>8 DEF CopySymlink
    <2>9. CASE CreateFile
      <3>1. CASE FileFails
        BY <2>4, <3>1
      <3>2. CASE /\ out' = Key(Temp(cur.dest)) \/ through' = through \cup {out'}
                 /\ host' = IF out' = Elsewhere THEN host ELSE PutAt(out', Unfinished(cur.loc))
        <4>1. out' # k
          BY <2>1, <3>2
        <4> QED
          BY <2>2, <3>2, <4>1
      <3> QED
        BY <2>9, <3>1, <3>2 DEF CreateFile
    <2>10. CASE WriteFile
      <3>1. CASE FileFails
        BY <2>4, <3>1
      <3>2. CASE host' = IF out = Elsewhere THEN host ELSE PutAt(out, Object("file", cur.loc))
        <4>1. out = Key(Temp(cur.dest)) \/ out = Elsewhere \/ out \in through
          BY <1>1, <2>10 DEF WriteFile, Hosted
        <4>2. through' = through
          BY <2>10 DEF WriteFile
        <4>3. CASE out = Elsewhere
          BY <3>2, <4>3
        <4>4. CASE out # Elsewhere
          <5>1. out # k
            BY <2>1, <4>1, <4>2, <4>4
          <5> QED
            BY <2>2, <3>2, <4>4, <5>1
        <4> QED
          BY <4>3, <4>4
      <3> QED
        BY <2>10, <3>1, <3>2 DEF WriteFile
    <2>11. CASE RenameFile
      <3>1. k # Key(cur.dest)
        BY <1>1, <2>11 DEF RenameFile, Hosted, Exists
      <3> QED
        BY <2>1, <2>11, <3>1 DEF RenameFile
    <2> QED
      BY <1>1, <2>5, <2>6, <2>7, <2>8, <2>9, <2>10, <2>11
         DEF Next, Step, Exited, vars, Copy, ExcludeEntry, SkipEntry, CopyEntry, FinishDir, CopySpecial
  <1>2. Shape /\ Hosted /\ [Next]_vars => [Kept]_vars
    BY <1>1
  <1>3. Spec => [][Kept]_vars
    BY <1>2, ShapeAlways, HostedAlways, PTL DEF Spec
  <1> QED
    BY <1>3 DEF KeepsTheirs

-----------------------------------------------------------------------------
(* The loop check *)

\* The frames after a call has returned into fs.
LEMMA ReturnedFrames ==
    ASSUME src \in Sources, src' = src, exit \in {-1, 0, 1, 5},
           NEW fs, Open(fs), NEW err, NEW r,
           Failed(fs, err, r) \/ Succeeded(fs, r)
    PROVE  /\ Len(fs) \in Nat /\ Len(stack') = Len(fs)
           /\ \A j \in 1..Len(fs) : /\ stack'[j].dir = fs[j].dir
                                    /\ stack'[j].dest = fs[j].dest
                                    /\ stack'[j].taken = fs[j].taken
           /\ \A j \in 1..(Len(fs) - 1) : stack'[j].next = fs[j].next
           /\ fs # <<>> => stack'[Len(fs)].next = fs[Len(fs)].next + 1
  <1>1. fs \in Seq(Frames)
    BY DEF Open
  <1>2. CASE fs = <<>>
    BY <1>2 DEF Failed, Succeeded
  <1>3. CASE fs # <<>>
    <2>1. stack' = Advanced(fs)
      BY <1>3 DEF Failed, Succeeded
    <2>2. /\ Len(fs) \in Nat \ {0} /\ Len(stack') = Len(fs)
          /\ \A j \in 1..(Len(fs) - 1) : stack'[j] = fs[j]
          /\ stack'[Len(fs)].dir = fs[Len(fs)].dir
          /\ stack'[Len(fs)].dest = fs[Len(fs)].dest
          /\ stack'[Len(fs)].taken = fs[Len(fs)].taken
          /\ stack'[Len(fs)].next = fs[Len(fs)].next + 1
      BY <1>1, <1>3, <2>1, AdvancedFrames
    <2> QED
      BY <2>2
  <1> QED
    BY <1>2, <1>3

\* The ancestors are the directories being copied, and no directory is among them
\* twice, after every step.
THEOREM LoopCheckIsExact == Spec => []AncestorsAreStack
  <1>1. Init => AncestorsAreStack
    BY DEF Init, AncestorsAreStack
  <1>2. ASSUME Shape, AncestorsAreStack, [Next]_vars
        PROVE  AncestorsAreStack'
    <2>0. /\ src \in Sources /\ exit \in {-1, 0, 1, 5}
          /\ pc # "entry" => Open(stack)
          /\ Len(stack) \in Nat
      BY <1>2 DEF Shape, Looping, Open
    <2>1. ASSUME ancestors' = ancestors, Len(stack') = Len(stack),
                 \A j \in 1..Len(stack) : stack'[j].dir = stack[j].dir
          PROVE  AncestorsAreStack'
      BY <1>2, <2>1 DEF AncestorsAreStack
    <2>2. ASSUME src' = src, ancestors' = ancestors, NEW fs, Open(fs), Len(fs) = Len(stack),
                 \A j \in 1..Len(stack) : fs[j].dir = stack[j].dir,
                 NEW err, NEW r, Failed(fs, err, r) \/ Succeeded(fs, r)
          PROVE  AncestorsAreStack'
      BY ZenonT(60), <2>0, <2>1, <2>2, ReturnedFrames
    <2>3. CASE UNCHANGED <<stack, ancestors>>
      BY <2>1, <2>3
    <2>4. CASE Copy
      <3>1. stack = <<>> /\ Open(<<>>)
        BY <1>2, <2>4 DEF Copy, Shape, Open
      <3> QED
        BY <2>2, <2>3, <2>4, <3>1 DEF Copy
    <2>5. CASE CopyDir
      <3>0. src' = src /\ Open(stack)
        BY <2>0, <2>5 DEF CopyDir
      <3>1. CASE /\ ~Refuses
                 /\ stack' = Append(stack, [dir |-> cur.loc, dest |-> cur.dest, next |-> 1, taken |-> {}])
                 /\ ancestors' = ancestors \cup {cur.loc}
        <4>1. stack \in Seq(Frames) /\ cur.loc \notin ancestors
          BY <3>0, <3>1 DEF Open, Refuses
        <4>2. /\ Len(stack') = Len(stack) + 1
              /\ stack'[Len(stack) + 1].dir = cur.loc
              /\ \A j \in 1..Len(stack) : stack'[j].dir = stack[j].dir
          BY <3>1, <4>1
        <4> QED
          BY <1>2, <2>0, <3>1, <4>1, <4>2 DEF AncestorsAreStack
      <3> QED
        BY <2>2, <2>5, <3>0, <3>1 DEF CopyDir
    <2>6. CASE ExcludeEntry
      BY <1>2, <2>2, <2>6, LoopFacts DEF ExcludeEntry, InLoop
    <2>7. CASE SkipEntry
      BY <1>2, <2>2, <2>7, LoopFacts DEF SkipEntry, InLoop
    <2>8. CASE CopyEntry
      BY <1>2, <2>1, <2>2, <2>8, LoopFacts DEF CopyEntry, InLoop
    <2>9. CASE FinishDir
      <3>1. /\ Open(Front(stack)) /\ Len(Front(stack)) = Len(stack) - 1
            /\ \A j \in 1..(Len(stack) - 1) : Front(stack)[j] = stack[j]
            /\ Len(stack) \in Nat \ {0}
        BY <1>2, <2>9, LoopFacts DEF FinishDir
      <3>2. /\ Len(stack') = Len(stack) - 1
            /\ \A j \in 1..(Len(stack) - 1) : stack'[j].dir = stack[j].dir
        <4> DEFINE fs == Front(stack)
        <4>1. src' = src /\ Succeeded(fs, report) /\ Open(fs)
          BY <2>9, <3>1 DEF FinishDir
        <4> HIDE DEF fs
        <4>2. /\ Len(stack') = Len(fs)
              /\ \A j \in 1..Len(fs) : stack'[j].dir = fs[j].dir
          BY <2>0, <4>1, ReturnedFrames
        <4> QED
          BY <3>1, <4>2 DEF fs
      <3>3. ancestors' = ancestors \ {stack[Len(stack)].dir}
        BY <2>9 DEF FinishDir, LessTop, Top
      <3> QED
        BY <1>2, <3>1, <3>2, <3>3 DEF AncestorsAreStack
    <2>10. CASE CopyLeaf
      BY <2>0, <2>2, <2>3, <2>10 DEF CopyLeaf
    <2>11. CASE CopySymlink
      BY <2>0, <2>2, <2>11 DEF CopySymlink
    <2>12. CASE CopySpecial
      BY <2>0, <2>2, <2>12 DEF CopySpecial
    <2>13. CASE CreateFile
      BY <2>0, <2>2, <2>3, <2>13 DEF CreateFile, FileFails
    <2>14. CASE WriteFile
      BY <2>0, <2>2, <2>3, <2>14 DEF WriteFile, FileFails
    <2>15. CASE RenameFile
      BY <2>0, <2>2, <2>15 DEF RenameFile
    <2> QED
      BY <1>2, <2>3, <2>4, <2>5, <2>6, <2>7, <2>8, <2>9, <2>10, <2>11, <2>12, <2>13, <2>14, <2>15
         DEF Next, Step, Exited, vars
  <1> QED
    BY <1>1, <1>2, ShapeAlways, PTL DEF Spec

-----------------------------------------------------------------------------
(* The exit code *)

Entries == [dir : Paths, n : Nat]
Items == [entry : Entries, loc : Locs, dest : Paths]
Reports == [copied : SUBSET Items, excluded : SUBSET Entries, failures : SUBSET Entries,
            skipped : SUBSET Items, manifest : SUBSET Entries]

Nth(dest, n) == [dir |-> dest, n |-> n]
Seen(r) == {c.entry : c \in r.copied \cup r.skipped} \cup r.excluded

\* While nothing has failed, every entry before the one a loop is at has been seen,
\* so have the entries through which the open directories were reached, and a
\* directory that was made is open or has been gone through to its end.
Gone(frames, r) ==
    /\ \A j \in 1..Len(frames) : \A n \in 1..(frames[j].next - 1) :
          Nth(frames[j].dest, n) \in Seen(r)
    /\ \A j \in 1..(Len(frames) - 1) : Nth(frames[j].dest, frames[j].next) \in Seen(r)
    /\ frames # <<>> => Nth(<<>>, 1) \in Seen(r)
Closed(frames, r) ==
    \A c \in r.copied : src.kind[c.loc] = "dir" =>
       \/ \E j \in 1..Len(frames) : frames[j].dir = c.loc /\ frames[j].dest = c.dest
       \/ \A n \in 1..Len(src.entries[c.loc]) : Nth(c.dest, n) \in Seen(r)

Accounted ==
    /\ report \in Reports
    /\ pc # "exited" => exit = -1
    /\ pc = "exited" => exit \in {0, 1, 5}
    /\ exit = 0 => report.failures = {} /\ Nth(<<>>, 1) \in Seen(report)
    /\ report.failures = {} /\ exit \in {-1, 0} => Gone(stack, report) /\ Closed(stack, report)

\* What counting an item, or recording its entry, does to the report.
LEMMA ReportFacts ==
    ASSUME Shape, Open(stack), report \in Reports
    PROVE  /\ EntryIn(stack) \in Entries /\ Item \in Items /\ Item.entry = EntryIn(stack)
           /\ Counted \in Reports /\ Warned \in Reports
           /\ Counted.failures = report.failures /\ Warned.failures = report.failures
           /\ Counted.copied = report.copied \cup {Item} /\ Warned.copied = report.copied
           /\ Seen(Counted) = Seen(report) \cup {EntryIn(stack)}
           /\ Seen(Warned) = Seen(report) \cup {EntryIn(stack)}
           /\ \A r \in Reports : /\ Recorded(r) \in Reports
                                 /\ Recorded(r).failures = r.failures
                                 /\ Recorded(r).copied = r.copied
                                 /\ Seen(Recorded(r)) = Seen(r)
  <1>1. EntryIn(stack) \in Entries
    <2>1. <<>> \in Paths
      BY DEF Paths
    <2>2. CASE stack # <<>>
      <3>1. stack[Len(stack)] \in Frames
        BY <2>2 DEF Open
      <3> QED
        BY <2>2, <3>1 DEF EntryIn, Entries, Frames
    <2> QED
      BY <2>1, <2>2 DEF EntryIn, Entries
  <1>2. Item \in Items /\ Item.entry = EntryIn(stack)
    BY <1>1 DEF Item, Items, Shape
  <1> DEFINE entry == EntryIn(stack)
  <1> HIDE DEF entry
  <1>3. /\ Counted \in Reports /\ Counted.failures = report.failures
        /\ Counted.copied = report.copied \cup {Item}
        /\ Counted.skipped = report.skipped /\ Counted.excluded = report.excluded
    BY <1>2 DEF Counted, Reports
  <1>4. /\ Warned \in Reports /\ Warned.failures = report.failures
        /\ Warned.copied = report.copied
        /\ Warned.skipped = report.skipped \cup {Item} /\ Warned.excluded = report.excluded
    BY <1>2 DEF Warned, Reports
  <1>5. Seen(Counted) = Seen(report) \cup {EntryIn(stack)}
    BY <1>2, <1>3 DEF Seen
  <1>6. Seen(Warned) = Seen(report) \cup {EntryIn(stack)}
    BY <1>2, <1>4 DEF Seen
  <1>7. ASSUME NEW r \in Reports
        PROVE  /\ Recorded(r) \in Reports /\ Recorded(r).failures = r.failures
               /\ Recorded(r).copied = r.copied
               /\ Recorded(r).skipped = r.skipped /\ Recorded(r).excluded = r.excluded
    BY <1>1 DEF Recorded, Reports
  <1>8. \A r \in Reports : Seen(Recorded(r)) = Seen(r)
    BY <1>7 DEF Seen
  <1> QED
    BY <1>1, <1>2, <1>3, <1>4, <1>5, <1>6, <1>7, <1>8

\* A call that fails leaves a failure, or an exit code that is not 0.
LEMMA FailureAccounted ==
    ASSUME Shape, src' = src, exit = -1, NEW fs, Open(fs),
           NEW err, err # "broken_pipe", NEW r \in Reports, Failed(fs, err, r)
    PROVE  Accounted'
  <1>0. Reports' = Reports
    BY DEF Reports, Items, Locs, Entries
  <1>1. CASE fs = <<>>
    <2>1. pc' = "exited" /\ exit' = 1 /\ report' = r
      BY <1>1 DEF Failed
    <2> QED
      BY <1>0, <2>1 DEF Accounted
  <1>2. CASE fs # <<>>
    <2> DEFINE entry == EntryIn(fs)
    <2>1. pc' = "entry" /\ exit' = -1 /\ report' = WithFailure(r, entry)
      BY <1>2 DEF Failed
    <2>2. entry \in Entries
      <3>1. fs[Len(fs)] \in Frames
        BY <1>2 DEF Open
      <3> QED
        BY <1>2, <3>1 DEF EntryIn, Entries, Frames
    <2> HIDE DEF entry
    <2>3. report' \in Reports /\ report'.failures # {}
      BY <2>1, <2>2 DEF WithFailure, Reports
    <2> QED
      BY <1>0, <2>1, <2>3 DEF Accounted
  <1> QED
    BY <1>1, <1>2

\* A call that succeeds accounts for the entry it was made for.
LEMMA SuccessAccounted ==
    ASSUME Shape, Accounted, src' = src, exit = -1,
           NEW fs, Open(fs), Len(fs) = Len(stack),
           \A j \in 1..Len(stack) : /\ fs[j].dir = stack[j].dir
                                    /\ fs[j].dest = stack[j].dest
                                    /\ fs[j].next = stack[j].next,
           NEW r \in Reports, r.failures = report.failures,
           Seen(report) \subseteq Seen(r), EntryIn(stack) \in Seen(r),
           \A c \in r.copied : c \in report.copied \/ src.kind[c.loc] # "dir",
           Succeeded(fs, r)
    PROVE  Accounted'
  <1>0. Reports' = Reports
    BY DEF Reports, Items, Locs, Entries
  <1>1. report' = r
    BY DEF Succeeded
  <1>2. /\ src \in Sources /\ stack \in Seq(Frames) /\ Len(stack) \in Nat
        /\ \A j \in 1..Len(stack) : stack[j].next \in Nat
    BY ShapeFrames DEF Shape, Looping, Open, Frames
  <1>3. fs \in Seq(Frames) /\ (fs = <<>> <=> stack = <<>>)
    BY <1>2 DEF Open
  <1>4. /\ Len(stack') = Len(stack)
        /\ \A j \in 1..Len(stack) : /\ stack'[j].dir = stack[j].dir
                                    /\ stack'[j].dest = stack[j].dest
        /\ \A j \in 1..(Len(stack) - 1) : stack'[j].next = stack[j].next
        /\ stack # <<>> => stack'[Len(stack)].next = stack[Len(stack)].next + 1
    <2>1. /\ Len(stack') = Len(fs)
          /\ \A j \in 1..Len(fs) : /\ stack'[j].dir = fs[j].dir
                                   /\ stack'[j].dest = fs[j].dest
          /\ \A j \in 1..(Len(fs) - 1) : stack'[j].next = fs[j].next
          /\ fs # <<>> => stack'[Len(fs)].next = fs[Len(fs)].next + 1
      BY <1>2, ReturnedFrames
    <2> QED
      BY <1>2, <1>3, <2>1
  <1>5. /\ pc' = "entry" => exit' = -1 /\ stack # <<>>
        /\ pc' = "exited" => stack = <<>> /\ exit' = (IF r.failures = {} THEN 0 ELSE 5)
        /\ pc' \in {"entry", "exited"}
    BY <1>3 DEF Succeeded
  <1>6. ASSUME r.failures = {}
        PROVE  Gone(stack, report)' /\ Closed(stack, report)'
    <2>1. Gone(stack, report) /\ Closed(stack, report)
      BY <1>6 DEF Accounted
    <2>2. ASSUME NEW j \in 1..Len(stack'), NEW n \in 1..(stack'[j].next - 1)
          PROVE  Nth(stack'[j].dest, n) \in Seen(r)
      <3>1. CASE j < Len(stack)
        <4>1. n \in 1..(stack[j].next - 1) /\ j \in 1..Len(stack) /\ stack'[j].dest = stack[j].dest
          BY <1>2, <1>4, <2>2, <3>1
        <4> QED
          BY <2>1, <4>1 DEF Gone
      <3>2. CASE j = Len(stack)
        <4>1. /\ stack # <<>> /\ j \in 1..Len(stack) /\ stack[j].next \in Nat
              /\ stack'[j].next = stack[j].next + 1
              /\ stack'[j].dest = stack[j].dest
          BY <1>2, <1>4, <2>2, <3>2
        <4>2. Nth(stack[j].dest, stack[j].next) \in Seen(r)
          BY <3>2, <4>1 DEF EntryIn, Nth
        <4>3. CASE n = stack[j].next
          BY <4>1, <4>2, <4>3
        <4>4. CASE n # stack[j].next
          <5>1. n \in 1..(stack[j].next - 1)
            BY <2>2, <4>1, <4>4
          <5> QED
            BY <2>1, <4>1, <5>1 DEF Gone
        <4> QED
          BY <4>3, <4>4
      <3> QED
        BY <1>2, <1>4, <2>2, <3>1, <3>2
    <2>3. ASSUME NEW j \in 1..(Len(stack') - 1)
          PROVE  Nth(stack'[j].dest, stack'[j].next) \in Seen(r)
      <3>1. /\ j \in 1..(Len(stack) - 1) /\ stack'[j].dest = stack[j].dest
            /\ stack'[j].next = stack[j].next
        BY <1>2, <1>4, <2>3
      <3> QED
        BY <2>1, <3>1 DEF Gone
    <2>4. stack' # <<>> => Nth(<<>>, 1) \in Seen(r)
      <3>1. stack' # <<>> => stack # <<>>
        BY <1>4, <1>5 DEF Succeeded
      <3> QED
        BY <2>1, <3>1 DEF Gone
    <2>5. Gone(stack, report)'
      BY <1>1, <2>2, <2>3, <2>4 DEF Gone
    <2>6. Closed(stack, report)'
      BY <1>1, <1>2, <1>4, <2>1 DEF Closed
    <2> QED
      BY <2>5, <2>6
  <1>7. stack = <<>> => Nth(<<>>, 1) \in Seen(r)
    BY DEF EntryIn, Nth
  <1> QED
    BY <1>0, <1>1, <1>5, <1>6, <1>7 DEF Accounted

\* A copy begins with nothing to account for.
LEMMA InitAccounted == Init => Accounted
  <1> SUFFICES ASSUME Init PROVE Accounted
    OBVIOUS
  <1>1. report \in Reports
    BY DEF Init, Reports
  <1>2. report.copied = {} /\ stack = <<>> /\ pc = "copy" /\ exit = -1
    BY DEF Init
  <1> QED
    BY <1>1, <1>2 DEF Accounted, Gone, Closed

\* Every step accounts for what it counts, excludes, warns about or fails on.
LEMMA StepAccounted ==
    ASSUME "broken_pipe" \notin ReadErrors, Shape, Accounted, [Next]_vars
    PROVE  Accounted'
  <1>0. /\ src \in Sources /\ report \in Reports
        /\ pc # "exited" => exit = -1
        /\ pc # "entry" => Open(stack)
        /\ stack \in Seq(Frames) /\ Len(stack) \in Nat
    BY DEF Shape, Accounted, Looping, Open
  <1>1. ASSUME src' = src, report' = report, exit' = exit, pc # "exited", pc' # "exited",
               Len(stack') = Len(stack),
               \A j \in 1..Len(stack) : /\ stack'[j].dir = stack[j].dir
                                        /\ stack'[j].dest = stack[j].dest
                                        /\ stack'[j].next = stack[j].next,
               stack' # <<>> => stack # <<>>
        PROVE  Accounted'
    <2>1. Reports' = Reports
      BY <1>1 DEF Reports, Items, Locs, Entries
    <2>2. Gone(stack, report) => Gone(stack, report)'
      BY <1>0, <1>1 DEF Gone
    <2>3. Closed(stack, report) => Closed(stack, report)'
      BY <1>0, <1>1 DEF Closed
    <2> QED
      BY <1>0, <1>1, <2>1, <2>2, <2>3 DEF Accounted
  <1>2. CASE UNCHANGED <<src, stack, report, exit, pc>>
    <2>1. Reports' = Reports
      BY <1>2 DEF Reports, Items, Locs, Entries
    <2> QED
      BY <1>2, <2>1 DEF Accounted, Gone, Closed
  <1>3. ASSUME src' = src, pc # "exited", NEW fs, Open(fs), NEW err \in ReadErrors \cup {"other"},
               NEW r \in Reports, Failed(fs, err, r)
        PROVE  Accounted'
    BY <1>0, <1>3, FailureAccounted
  <1>4. ASSUME src' = src, pc # "exited", Open(stack), NEW r \in Reports,
               r.failures = report.failures,
               Seen(report) \subseteq Seen(r), EntryIn(stack) \in Seen(r),
               \A c \in r.copied : c \in report.copied \/ src.kind[c.loc] # "dir",
               Succeeded(stack, r)
        PROVE  Accounted'
    BY <1>0, <1>4, SuccessAccounted
  \* An entry excluded by its name or skipped.
  <1>5. ASSUME Open(stack)
        PROVE  LET r == [report EXCEPT !.excluded = @ \cup {EntryIn(stack)}]
               IN  /\ r \in Reports /\ r.failures = report.failures /\ r.copied = report.copied
                   /\ Seen(r) = Seen(report) \cup {EntryIn(stack)}
    <2> DEFINE r == [report EXCEPT !.excluded = @ \cup {EntryIn(stack)}]
    <2>1. EntryIn(stack) \in Entries
      BY <1>0, <1>5, ReportFacts
    <2>2. /\ r \in Reports /\ r.failures = report.failures /\ r.copied = report.copied
          /\ r.skipped = report.skipped /\ r.excluded = report.excluded \cup {EntryIn(stack)}
      BY <1>0, <2>1 DEF Reports
    <2>3. Seen(r) = Seen(report) \cup {EntryIn(stack)}
      <3> HIDE DEF r
      <3> QED
        BY <2>2 DEF Seen
    <2> QED
      BY <2>2, <2>3
  \* A leaf that is counted, or only warned about, and may be recorded.
  <1>6. ASSUME Open(stack), src.kind[cur.loc] # "dir",
               NEW r \in {Counted, Warned, Recorded(Counted), Recorded(Warned)}
        PROVE  /\ r \in Reports /\ r.failures = report.failures
               /\ Seen(report) \subseteq Seen(r) /\ EntryIn(stack) \in Seen(r)
               /\ \A c \in r.copied : c \in report.copied \/ src.kind[c.loc] # "dir"
    <2>1. Item.loc = cur.loc
      BY DEF Item
    <2> QED
      BY <1>0, <1>6, <2>1, ReportFacts
  <1>7. CASE Copy
    <2>1. src' = src /\ pc = "copy" /\ stack = <<>> /\ Open(<<>>)
      BY <1>7 DEF Copy, Shape, Open
    <2>2. CASE UNCHANGED <<stack, report, exit>> /\ pc' \in {"dir", "leaf"}
      BY <1>1, <2>1, <2>2
    <2>3. CASE \E err \in ReadErrors : Failed(<<>>, err, report)
      BY <1>0, <1>3, <2>1, <2>3
    <2> QED
      BY <1>7, <2>2, <2>3 DEF Copy
  <1>8. CASE CopyDir
    <2>0. src' = src /\ pc = "dir" /\ Open(stack) /\ cur.loc \in Locs /\ cur.dest \in Paths
      BY <1>0, <1>8 DEF CopyDir, Shape
    <2>1. /\ Counted \in Reports /\ Recorded(Counted) \in Reports
          /\ Recorded(Counted).failures = report.failures
          /\ Recorded(Counted).copied = report.copied \cup {Item}
          /\ Seen(Recorded(Counted)) = Seen(report) \cup {EntryIn(stack)}
      BY <1>0, <2>0, ReportFacts
    <2>2. CASE Failed(stack, "other", report)
      BY <1>0, <1>3, <2>0, <2>2
    <2>3. CASE \E err \in ReadErrors, r \in {Counted, Recorded(Counted)} : Failed(stack, err, r)
      BY <1>3, <2>0, <2>1, <2>3
    <2>4. CASE /\ report' = Recorded(Counted)
               /\ stack' = Append(stack, [dir |-> cur.loc, dest |-> cur.dest, next |-> 1, taken |-> {}])
               /\ pc' = "entry"
               /\ UNCHANGED exit
      <3> DEFINE f == [dir |-> cur.loc, dest |-> cur.dest, next |-> 1, taken |-> {}]
      <3>1. f.dir = cur.loc /\ f.dest = cur.dest /\ f.next = 1
        OBVIOUS
      <3>2. stack' = Append(stack, f)
        BY <2>4
      <3> HIDE DEF f
      <3>3. /\ Len(stack') = Len(stack) + 1 /\ stack'[Len(stack) + 1] = f
            /\ \A j \in 1..Len(stack) : stack'[j] = stack[j]
        BY <1>0, <3>2
      <3>4. Nth(<<>>, 1) = EntryIn(stack) \/ stack # <<>>
        BY DEF EntryIn, Nth
      <3>5. ASSUME Gone(stack, report) PROVE Gone(stack, report)'
        <4>1. \A j \in 1..Len(stack') : \A n \in 1..(stack'[j].next - 1) :
                 Nth(stack'[j].dest, n) \in Seen(report')
          BY <1>0, <2>1, <2>4, <3>1, <3>3, <3>5 DEF Gone
        <4>2. ASSUME NEW j \in 1..(Len(stack') - 1)
              PROVE  Nth(stack'[j].dest, stack'[j].next) \in Seen(report')
          <5>1. j \in 1..Len(stack) /\ stack'[j] = stack[j]
            BY <1>0, <3>3, <4>2
          <5>2. CASE j = Len(stack)
            <6>1. EntryIn(stack) = Nth(stack[j].dest, stack[j].next)
              BY <1>0, <5>1, <5>2 DEF EntryIn, Nth
            <6> QED
              BY <2>1, <2>4, <5>1, <6>1
          <5>3. CASE j # Len(stack)
            BY <1>0, <2>1, <2>4, <3>5, <5>1, <5>3 DEF Gone
          <5> QED
            BY <5>2, <5>3
        <4>3. Nth(<<>>, 1) \in Seen(report')
          BY <2>1, <2>4, <3>4, <3>5 DEF Gone
        <4> QED
          BY <4>1, <4>2, <4>3 DEF Gone
      <3>6. ASSUME Closed(stack, report) PROVE Closed(stack, report)'
        <4> SUFFICES ASSUME NEW c \in report'.copied, src.kind[c.loc] = "dir"
                     PROVE  \/ \E j \in 1..Len(stack') : stack'[j].dir = c.loc /\ stack'[j].dest = c.dest
                            \/ \A n \in 1..Len(src.entries[c.loc]) : Nth(c.dest, n) \in Seen(report')
          BY <2>0 DEF Closed
        <4>1. CASE c \in report.copied
          BY <1>0, <2>1, <2>4, <3>3, <3>6, <4>1 DEF Closed
        <4>2. CASE c = Item
          <5>1. Len(stack) + 1 \in 1..Len(stack')
            BY <1>0, <3>3
          <5>2. c.loc = cur.loc /\ c.dest = cur.dest
            BY <4>2 DEF Item
          <5> QED
            BY <3>1, <3>3, <5>1, <5>2
        <4> QED
          BY <2>1, <2>4, <4>1, <4>2
      <3>7. Reports' = Reports
        BY <2>0 DEF Reports, Items, Locs, Entries
      <3> QED
        BY <1>0, <2>0, <2>1, <2>4, <3>5, <3>6, <3>7 DEF Accounted
    <2> QED
      BY <1>8, <2>2, <2>3, <2>4 DEF CopyDir
  <1>9. CASE ExcludeEntry
    <2>1. src' = src /\ pc = "entry" /\ Open(stack)
      BY <1>9, LoopFacts DEF ExcludeEntry, InLoop
    <2> QED
      BY <1>4, <1>5, <1>9, <2>1 DEF ExcludeEntry
  <1>10. CASE SkipEntry
    <2> DEFINE r == [report EXCEPT !.excluded = @ \cup {EntryIn(stack)}]
    <2> DEFINE fs == Naming
    <2>1. /\ src' = src /\ pc = "entry" /\ Open(stack) /\ Open(fs) /\ Len(fs) = Len(stack)
          /\ \A j \in 1..Len(stack) : /\ fs[j].dir = stack[j].dir
                                      /\ fs[j].dest = stack[j].dest
                                      /\ fs[j].next = stack[j].next
      BY <1>10, LoopFacts DEF SkipEntry, InLoop
    <2>2. /\ r \in Reports /\ r.failures = report.failures /\ r.copied = report.copied
          /\ Seen(r) = Seen(report) \cup {EntryIn(stack)}
      BY <1>5, <2>1
    <2>3. Succeeded(fs, r)
      BY <1>10 DEF SkipEntry
    <2> HIDE DEF r, fs
    <2> QED
      BY <1>0, <2>1, <2>2, <2>3, SuccessAccounted
  <1>11. CASE CopyEntry
    <2>1. /\ src' = src /\ pc = "entry" /\ Open(Naming) /\ Len(Naming) = Len(stack)
          /\ stack # <<>>
          /\ \A j \in 1..Len(stack) : /\ Naming[j].dir = stack[j].dir
                                      /\ Naming[j].dest = stack[j].dest
                                      /\ Naming[j].next = stack[j].next
      BY <1>11, LoopFacts DEF CopyEntry, InLoop
    <2>2. CASE Failed(Naming, "other", report)
      BY <1>0, <1>3, <2>1, <2>2
    <2>3. CASE stack' = Naming /\ pc' \in {"dir", "leaf"} /\ UNCHANGED <<report, exit>>
      BY <1>1, <2>1, <2>3
    <2> QED
      BY <1>11, <2>2, <2>3 DEF CopyEntry
  <1>12. CASE FinishDir
    <2> DEFINE fs == Front(stack)
    <2> DEFINE last == Len(stack)
    <2>1. /\ src' = src /\ pc = "entry" /\ exit = -1 /\ Succeeded(fs, report)
          /\ Top.next > Len(src.entries[Top.dir])
      BY <1>0, <1>12 DEF FinishDir
    <2>2. /\ last \in Nat \ {0} /\ Open(fs) /\ Len(fs) = last - 1
          /\ \A j \in 1..(last - 1) : fs[j] = stack[j]
          /\ stack # <<>> /\ Top \in Frames /\ src.kind[Top.dir] = "dir"
      BY <2>1, LoopFacts
    <2> HIDE DEF fs
    <2>3. /\ Len(stack') = last - 1
          /\ \A j \in 1..(last - 1) : /\ stack'[j].dir = stack[j].dir
                                      /\ stack'[j].dest = stack[j].dest
          /\ \A j \in 1..(last - 2) : stack'[j].next = stack[j].next
          /\ fs # <<>> => stack'[last - 1].next = stack[last - 1].next + 1
          /\ fs # <<>> => last - 1 \in 1..(last - 1)
      <3>1. /\ Len(stack') = Len(fs)
            /\ \A j \in 1..Len(fs) : /\ stack'[j].dir = fs[j].dir
                                     /\ stack'[j].dest = fs[j].dest
            /\ \A j \in 1..(Len(fs) - 1) : stack'[j].next = fs[j].next
            /\ fs # <<>> => stack'[Len(fs)].next = fs[Len(fs)].next + 1
        BY <1>0, <2>1, <2>2, ReturnedFrames
      <3>2. fs # <<>> => Len(fs) \in Nat \ {0}
        BY <2>2 DEF Open
      <3> QED
        BY SMTT(40), <2>2, <3>1, <3>2
    <2>4. /\ report' = report /\ pc' \in {"entry", "exited"}
          /\ pc' = "entry" => exit' = -1 /\ fs # <<>>
          /\ pc' = "exited" => exit' = (IF report.failures = {} THEN 0 ELSE 5) /\ stack' = <<>>
      BY <2>1 DEF Succeeded
    <2>5. Len(src.entries[Top.dir]) \in Nat /\ Top.next \in Nat
      BY <1>0, <2>2, SourceFacts DEF Frames
    <2>6. ASSUME Gone(stack, report) PROVE Gone(stack, report)' /\ Nth(<<>>, 1) \in Seen(report)
      <3>1. ASSUME NEW j \in 1..Len(stack'), NEW n \in 1..(stack'[j].next - 1)
            PROVE  Nth(stack'[j].dest, n) \in Seen(report)
        <4>1. /\ j \in 1..(last - 1) /\ j \in 1..last /\ stack'[j].dest = stack[j].dest
              /\ stack[j] \in Frames
          BY <1>0, <2>2, <2>3, <3>1
        <4>2. stack[j].next \in Nat
          BY <4>1 DEF Frames
        <4>3. CASE j # last - 1
          <5>1. n \in 1..(stack[j].next - 1)
            BY <2>2, <2>3, <3>1, <4>1, <4>3
          <5> QED
            BY <2>6, <4>1, <5>1 DEF Gone
        <4>4. CASE j = last - 1
          <5>1. stack'[j].next = stack[j].next + 1
            <6>1. fs # <<>>
              BY <2>2, <4>1
            <6> QED
              BY <2>3, <4>4, <6>1
          <5>2. CASE n = stack[j].next
            BY <2>6, <4>1, <5>2 DEF Gone
          <5>3. CASE n # stack[j].next
            <6>1. n \in 1..(stack[j].next - 1)
              BY <3>1, <4>2, <5>1, <5>3
            <6> QED
              BY <2>6, <4>1, <6>1 DEF Gone
          <5> QED
            BY <5>2, <5>3
        <4> QED
          BY <4>3, <4>4
      <3>2. ASSUME NEW j \in 1..(Len(stack') - 1)
            PROVE  Nth(stack'[j].dest, stack'[j].next) \in Seen(report)
        <4>1. /\ j \in 1..(last - 1) /\ stack'[j].dest = stack[j].dest
              /\ stack'[j].next = stack[j].next
          BY <2>2, <2>3, <3>2
        <4> QED
          BY <2>6, <4>1 DEF Gone
      <3> QED
        BY <2>2, <2>4, <2>6, <3>1, <3>2 DEF Gone
    <2>7. ASSUME Gone(stack, report), Closed(stack, report) PROVE Closed(stack, report)'
      <3> SUFFICES ASSUME NEW c \in report.copied, src.kind[c.loc] = "dir"
                   PROVE  \/ \E j \in 1..Len(stack') : stack'[j].dir = c.loc /\ stack'[j].dest = c.dest
                          \/ \A n \in 1..Len(src.entries[c.loc]) : Nth(c.dest, n) \in Seen(report)
        BY <2>1, <2>4 DEF Closed
      <3>1. CASE Top.dir = c.loc /\ Top.dest = c.dest
        <4>1. \A n \in 1..(Top.next - 1) : Nth(c.dest, n) \in Seen(report)
          BY <2>2, <2>7, <3>1 DEF Gone, Top
        <4>2. \A n \in 1..Len(src.entries[c.loc]) : n \in 1..(Top.next - 1)
          BY <2>1, <2>5, <3>1
        <4> QED
          BY <4>1, <4>2
      <3>2. CASE \E j \in 1..(last - 1) : stack[j].dir = c.loc /\ stack[j].dest = c.dest
        BY <2>3, <3>2
      <3>3. CASE \A n \in 1..Len(src.entries[c.loc]) : Nth(c.dest, n) \in Seen(report)
        BY <3>3
      <3> QED
        BY <2>2, <2>7, <3>1, <3>2, <3>3 DEF Closed, Top
    <2>8. Reports' = Reports
      BY <2>1 DEF Reports, Items, Locs, Entries
    <2> QED
      BY <1>0, <2>1, <2>4, <2>6, <2>7, <2>8 DEF Accounted
  <1>13. ASSUME src' = src, pc \in LeafSteps, \E err \in ReadErrors : Failed(stack, err, report)
         PROVE  Accounted'
    BY <1>0, <1>3, <1>13 DEF LeafSteps
  <1>14. ASSUME src' = src, pc \in LeafSteps, pc' \in LeafSteps, UNCHANGED <<stack, report, exit>>
         PROVE  Accounted'
    BY <1>1, <1>14 DEF LeafSteps
  <1>15. ASSUME pc \in LeafSteps, src' = src,
                NEW r \in {Counted, Warned, Recorded(Counted), Recorded(Warned)}, Succeeded(stack, r)
         PROVE  Accounted'
    <2>1. Open(stack) /\ src.kind[cur.loc] # "dir" /\ pc # "exited"
      BY <1>0, <1>15 DEF Shape, LeafSteps
    <2> QED
      BY <1>4, <1>6, <1>15, <2>1
  <1>16. CASE CopyLeaf
    <2>1. src' = src /\ pc = "leaf" /\ pc \in LeafSteps
          /\ src.kind[cur.loc] \in LeafSteps
      BY <1>0, <1>16, SourceFacts DEF CopyLeaf, LeafSteps, Shape
    <2> QED
      BY <1>13, <1>14, <1>16, <2>1 DEF CopyLeaf
  <1>17. CASE CopySymlink
    BY <1>13, <1>15, <1>17 DEF CopySymlink, LeafSteps
  <1>18. CASE CopySpecial
    BY <1>15, <1>18 DEF CopySpecial, LeafSteps
  <1>19. CASE CreateFile
    BY <1>13, <1>14, <1>19 DEF CreateFile, FileFails, LeafSteps
  <1>20. CASE WriteFile
    BY <1>13, <1>14, <1>20 DEF WriteFile, FileFails, LeafSteps
  <1>21. CASE RenameFile
    <2>1. src' = src /\ pc = "rename" /\ pc \in LeafSteps /\ Open(stack)
      BY <1>0, <1>21 DEF RenameFile, LeafSteps
    <2>2. CASE Succeeded(stack, Recorded(Counted))
      BY <1>15, <2>1, <2>2
    <2>3. CASE \E err \in ReadErrors : Failed(stack, err, Counted)
      <3>1. Counted \in Reports
        BY <1>0, <2>1, ReportFacts
      <3> QED
        BY <1>3, <2>1, <2>3, <3>1
    <2>4. CASE Failed(stack, "other", report)
      BY <1>0, <1>3, <2>1, <2>4
    <2> QED
      BY <1>21, <2>2, <2>3, <2>4 DEF RenameFile
  <1>22. CASE Exited
    BY <1>2, <1>22 DEF Exited, vars
  <1>23. CASE UNCHANGED vars
    BY <1>2, <1>23 DEF vars
  <1> QED
    BY <1>7, <1>8, <1>9, <1>10, <1>11, <1>12, <1>16, <1>17, <1>18, <1>19, <1>20, <1>21, <1>22, <1>23
       DEF Next, Step

\* A copy of an image, whose reads go through no helper, exits 0 only if each entry
\* of every directory it made was copied, excluded or warned about.
THEOREM PartialCopyIsNotZero ==
    ASSUME "broken_pipe" \notin ReadErrors
    PROVE  Spec => []PartialNeverExitsZero
  <1>1. Init => Accounted
    BY InitAccounted
  <1>2. Shape /\ Accounted /\ [Next]_vars => Accounted'
    BY StepAccounted
  <1>3. Shape /\ Accounted => PartialNeverExitsZero
    <2> SUFFICES ASSUME Shape, Accounted, exit = 0
                 PROVE  /\ Nth(<<>>, 1) \in Seen(report)
                        /\ \A c \in report.copied :
                             src.kind[c.loc] = "dir" =>
                                 \A n \in 1..Len(src.entries[c.loc]) : Nth(c.dest, n) \in Seen(report)
      BY DEF PartialNeverExitsZero, Nth, Seen
    <2>1. pc = "exited" /\ stack = <<>>
      BY DEF Accounted, Shape
    <2>2. Closed(stack, report) /\ Nth(<<>>, 1) \in Seen(report)
      BY DEF Accounted
    <2> QED
      BY <2>1, <2>2 DEF Closed
  <1> QED
    BY <1>1, <1>2, <1>3, ShapeAlways, PTL DEF Spec

-----------------------------------------------------------------------------
(* Where things are copied to *)

Working == {"dir"} \cup LeafSteps

\* A path that lies under another, or is the same, as the copier compares names.
Under(p, q) == Len(p) >= Len(q) /\ \A k \in 1..Len(q) : fold(p[k]) = fold(q[k])

\* The open directories lie one in the other and are counted, what is counted under
\* one of them has a name that is taken there, and no two places are the same.
Nested(C, fs) ==
    /\ \A j \in 1..Len(fs) : Len(fs[j].dest) = j
    /\ \A i, j \in 1..Len(fs) : i <= j => \A k \in 1..i : fs[i].dest[k] = fs[j].dest[k]
    /\ \A j \in 1..Len(fs) : \E c \in C : c.dest = fs[j].dest /\ c.loc = fs[j].dir
TakenBy(C, fs) ==
    \A j \in 1..Len(fs) : \A c \in C :
        Len(c.dest) > j /\ Under(c.dest, fs[j].dest) => fold(c.dest[j + 1]) \in fs[j].taken
Distinct(C) ==
    \A c, d \in C : Len(c.dest) = Len(d.dest) /\ Under(c.dest, d.dest) => c = d
Lie(C, fs) ==
    /\ \A c \in C : c.dest # <<>>
    /\ Nested(C, fs)
    /\ TakenBy(C, fs)
    /\ Distinct(C)

\* A place in the innermost directory under which nothing was copied yet.
Entering(C, fs, dest) ==
    /\ \A c \in C : ~Under(c.dest, dest)
    /\ fs = <<>> => C = {}
    /\ fs # <<>> => /\ Len(dest) = Len(fs) + 1
                    /\ \A k \in 1..Len(fs) : dest[k] = fs[Len(fs)].dest[k]
                    /\ fold(dest[Len(fs) + 1]) \in fs[Len(fs)].taken

\* What NeverIntoItself says of the items counted.
Apart(C) ==
    \A c, d \in C :
        /\ src.kind[c.loc] = "dir" => Len(c.dest) <= MaxDepth + 1
        /\ Len(c.dest) < Len(d.dest) /\ SubSeq(d.dest, 1, Len(c.dest)) = c.dest
               => c.loc # d.loc

Placed ==
    /\ report \in Reports
    /\ Lie(report.copied, stack)
    /\ Apart(report.copied)
    /\ pc \in Working => Entering(report.copied, stack, cur.dest)
    /\ pc \in {"copy", "dir"} /\ stack = <<>> => Len(cur.dest) = 1
    /\ pc = "copy" => report.copied = {}

\* Frames that are fewer, or have taken more names, lie as well.
LEMMA LieKept ==
    ASSUME NEW C, NEW fs, NEW gs, Len(fs) \in Nat, Len(gs) \in 0..Len(fs),
           \A j \in 1..Len(gs) : /\ gs[j].dir = fs[j].dir
                                 /\ gs[j].dest = fs[j].dest
                                 /\ fs[j].taken \subseteq gs[j].taken,
           Lie(C, fs)
    PROVE  Lie(C, gs)
  <1>1. \A j \in 1..Len(gs) : j \in 1..Len(fs)
    OBVIOUS
  <1>2. Nested(C, gs)
    <2>0. Nested(C, fs)
      BY DEF Lie
    <2>1. \A j \in 1..Len(gs) : Len(gs[j].dest) = j
      BY <1>1, <2>0 DEF Nested
    <2>2. \A i, j \in 1..Len(gs) : i <= j => \A k \in 1..i : gs[i].dest[k] = gs[j].dest[k]
      BY <1>1, <2>0 DEF Nested
    <2>3. \A j \in 1..Len(gs) : \E c \in C : c.dest = gs[j].dest /\ c.loc = gs[j].dir
      BY <1>1, <2>0 DEF Nested
    <2> QED
      BY <2>1, <2>2, <2>3 DEF Nested
  <1>3. TakenBy(C, gs)
    BY <1>1 DEF Lie, TakenBy
  <1> QED
    BY <1>2, <1>3 DEF Lie

\* An item counted where nothing was lies where it should.
LEMMA LieCounts ==
    ASSUME NEW C, C \subseteq Items, NEW fs, Len(fs) \in Nat, fs = <<>> <=> Len(fs) = 0,
           NEW item \in Items, item.dest # <<>>,
           Lie(C, fs), Entering(C, fs, item.dest)
    PROVE  Lie(C \cup {item}, fs)
  <1> DEFINE dest == item.dest
  <1>0. /\ \A c \in C : Len(c.dest) \in Nat
        /\ dest \in Paths /\ Len(dest) \in Nat
    BY DEF Items, Paths
  <1>1. Nested(C \cup {item}, fs)
    BY DEF Lie, Nested
  <1>2. ASSUME NEW j \in 1..Len(fs)
        PROVE  fold(dest[j + 1]) \in fs[j].taken
    <2>0. Len(fs) # 0 /\ fs # <<>>
      BY <1>2
    <2>1. CASE j = Len(fs)
      BY <2>0, <2>1 DEF Entering
    <2>2. CASE j # Len(fs)
      <3>1. j + 1 \in 1..Len(fs) /\ Len(fs) \in 1..Len(fs)
        BY <1>2, <2>2
      <3>2. PICK c \in C : c.dest = fs[j + 1].dest
        BY <3>1 DEF Lie, Nested
      <3>3. /\ Len(fs[j].dest) = j /\ Len(fs[j + 1].dest) = j + 1
            /\ \A k \in 1..j : fs[j].dest[k] = fs[j + 1].dest[k]
            /\ fs[j + 1].dest[j + 1] = fs[Len(fs)].dest[j + 1]
        BY <1>2, <3>1 DEF Lie, Nested
      <3>4. Len(c.dest) > j /\ Under(c.dest, fs[j].dest)
        BY <3>2, <3>3 DEF Under
      <3>5. fold(c.dest[j + 1]) \in fs[j].taken
        BY <1>2, <3>4 DEF Lie, TakenBy
      <3>6. dest[j + 1] = fs[Len(fs)].dest[j + 1]
        BY <2>0, <3>1 DEF Entering
      <3> QED
        BY <3>2, <3>3, <3>5, <3>6
    <2> QED
      BY <2>1, <2>2
  <1>3. TakenBy(C \cup {item}, fs)
    <2> SUFFICES ASSUME NEW j \in 1..Len(fs), NEW c \in C \cup {item},
                        Len(c.dest) > j, Under(c.dest, fs[j].dest)
                 PROVE  fold(c.dest[j + 1]) \in fs[j].taken
      BY DEF TakenBy
    <2>1. CASE c \in C
      BY <2>1 DEF Lie, TakenBy
    <2> QED
      BY <1>2, <2>1
  <1>4. Distinct(C \cup {item})
    <2> SUFFICES ASSUME NEW c \in C \cup {item}, NEW d \in C \cup {item},
                        Len(c.dest) = Len(d.dest), Under(c.dest, d.dest)
                 PROVE  c = d
      BY DEF Distinct
    <2>1. CASE c \in C /\ d \in C
      BY <2>1 DEF Lie, Distinct
    <2>2. CASE c \in C /\ d = item
      BY <2>2 DEF Entering
    <2>3. CASE c = item /\ d \in C
      <3>1. Under(d.dest, item.dest)
        BY <1>0, <2>3 DEF Under
      <3> QED
        BY <2>3, <3>1 DEF Entering
    <2> QED
      BY <2>1, <2>2, <2>3
  <1> QED
    BY <1>1, <1>3, <1>4 DEF Lie

\* It is not under itself either, if its directory is not open.
LEMMA ApartCounts ==
    ASSUME NEW C, C \subseteq Items, NEW fs, Len(fs) \in Nat, fs = <<>> <=> Len(fs) = 0,
           NEW item \in Items, item.dest # <<>>,
           Lie(C, fs), Entering(C, fs, item.dest), Apart(C),
           \A j \in 1..Len(fs) : fs[j].dir # item.loc,
           src.kind[item.loc] = "dir" => Len(item.dest) <= MaxDepth + 1
    PROVE  Apart(C \cup {item})
  <1>0. /\ \A c \in C : c.dest \in Paths /\ Len(c.dest) \in Nat
        /\ item.dest \in Paths /\ Len(item.dest) \in Nat
    BY DEF Items, Paths
  <1> SUFFICES ASSUME NEW c \in C \cup {item}, NEW d \in C \cup {item},
                      Len(c.dest) < Len(d.dest), SubSeq(d.dest, 1, Len(c.dest)) = c.dest
               PROVE  c.loc # d.loc
    BY DEF Apart
  <1>1. \A k \in 1..Len(c.dest) : d.dest[k] = c.dest[k]
    <2>1. c.dest \in Paths /\ d.dest \in Paths /\ Len(c.dest) \in Nat /\ Len(d.dest) \in Nat
      BY <1>0
    <2>2. \A k \in 1..Len(c.dest) : SubSeq(d.dest, 1, Len(c.dest))[k] = d.dest[k]
      BY <2>1 DEF Paths
    <2> QED
      BY <2>2
  <1>2. CASE c \in C /\ d \in C
    BY <1>2 DEF Apart
  <1>3. CASE c = item /\ d \in C
    <2>1. Under(d.dest, item.dest)
      BY <1>0, <1>1, <1>3 DEF Under
    <2> QED
      BY <1>3, <2>1 DEF Entering
  <1>4. CASE c \in C /\ d = item
    <2> DEFINE i == Len(c.dest)
    <2>0. Len(fs) # 0 /\ fs # <<>>
      BY <1>4 DEF Entering
    <2>1. i \in 1..Len(fs)
      <3>1. c.dest # <<>>
        BY <1>4 DEF Lie
      <3>2. Len(item.dest) = Len(fs) + 1
        BY <2>0 DEF Entering
      <3>3. i # 0
        BY <1>0, <1>4, <3>1 DEF Paths
      <3> QED
        BY <1>0, <1>4, <3>2, <3>3
    <2>2. PICK b \in C : b.dest = fs[i].dest /\ b.loc = fs[i].dir
      BY <2>1 DEF Lie, Nested
    <2>3. Len(fs[i].dest) = i /\ \A k \in 1..i : fs[i].dest[k] = fs[Len(fs)].dest[k]
      BY <2>1 DEF Lie, Nested
    <2>4. \A k \in 1..i : c.dest[k] = fs[i].dest[k]
      BY <1>1, <1>4, <2>0, <2>1, <2>3 DEF Entering
    <2>5. Len(c.dest) = Len(b.dest) /\ Under(c.dest, b.dest)
      BY <2>1, <2>2, <2>3, <2>4 DEF Under
    <2>6. c = b
      BY <1>4, <2>5 DEF Lie, Distinct
    <2> QED
      BY <1>4, <2>1, <2>2, <2>6
  <1>5. CASE c = item /\ d = item
    BY <1>0, <1>5
  <1> QED
    BY <1>2, <1>3, <1>4, <1>5

\* A directory that is counted and then opened lies where it should.
LEMMA LiePushes ==
    ASSUME NEW C, C \subseteq Items, NEW fs, fs \in Seq(Frames),
           NEW item \in Items, Len(item.dest) = Len(fs) + 1,
           Lie(C, fs), Entering(C, fs, item.dest), Lie(C \cup {item}, fs),
           NEW f \in Frames, f.dir = item.loc, f.dest = item.dest
    PROVE  Lie(C \cup {item}, Append(fs, f))
  <1> DEFINE gs == Append(fs, f)
  <1> DEFINE last == Len(fs) + 1
  <1>0. /\ Len(fs) \in Nat /\ Len(gs) = last /\ gs[last] = f
        /\ \A j \in 1..Len(fs) : gs[j] = fs[j]
        /\ \A j \in 1..Len(gs) : j \in 1..Len(fs) \/ j = last
        /\ \A c \in C : Len(c.dest) \in Nat
        /\ fs = <<>> <=> Len(fs) = 0
    BY DEF Items, Paths
  <1> HIDE DEF gs
  <1>1. \A j \in 1..Len(gs) : Len(gs[j].dest) = j
    BY <1>0 DEF Lie, Nested
  <1>2. ASSUME NEW i \in 1..Len(gs), NEW j \in 1..Len(gs), i <= j, NEW k \in 1..i
        PROVE  gs[i].dest[k] = gs[j].dest[k]
    <2>1. CASE j \in 1..Len(fs)
      <3>1. i \in 1..Len(fs)
        BY <1>0, <1>2, <2>1
      <3> QED
        BY <1>0, <1>2, <2>1, <3>1 DEF Lie, Nested
    <2>2. CASE j = last /\ i \in 1..Len(fs)
      <3>1. /\ Len(fs) \in 1..Len(fs) /\ i <= Len(fs) /\ k \in 1..Len(fs) /\ fs # <<>>
        BY <1>0, <1>2, <2>2
      <3>2. fs[i].dest[k] = fs[Len(fs)].dest[k]
        BY <1>2, <2>2, <3>1 DEF Lie, Nested
      <3>3. item.dest[k] = fs[Len(fs)].dest[k]
        BY <3>1 DEF Entering
      <3> QED
        BY <1>0, <2>2, <3>2, <3>3
    <2>3. CASE j = last /\ i = last
      BY <2>3
    <2> QED
      BY <1>0, <1>2, <2>1, <2>2, <2>3
  <1>3. \A j \in 1..Len(gs) : \E c \in C \cup {item} : c.dest = gs[j].dest /\ c.loc = gs[j].dir
    BY <1>0 DEF Lie, Nested
  <1>4. ASSUME NEW j \in 1..Len(gs), NEW c \in C \cup {item},
               Len(c.dest) > j, Under(c.dest, gs[j].dest)
        PROVE  fold(c.dest[j + 1]) \in gs[j].taken
    <2>1. CASE j \in 1..Len(fs)
      BY <1>0, <1>4, <2>1 DEF Lie, TakenBy
    <2>2. CASE j = last
      <3>1. c # item
        BY <1>0, <1>4, <2>2
      <3> QED
        BY <1>0, <1>4, <2>2, <3>1 DEF Entering
    <2> QED
      BY <1>0, <1>4, <2>1, <2>2
  <1>5. Nested(C \cup {item}, gs)
    BY <1>1, <1>2, <1>3 DEF Nested
  <1>6. TakenBy(C \cup {item}, gs)
    BY <1>4 DEF TakenBy
  <1> QED
    BY <1>5, <1>6 DEF Lie, gs

\* The place of an entry whose name was free is one to enter.
LEMMA EnteringNamed ==
    ASSUME NEW C, C \subseteq Items, NEW fs, fs \in Seq(Frames), fs # <<>>,
           Lie(C, fs), NEW name \in Names, fold(name) \notin fs[Len(fs)].taken,
           NEW gs, gs # <<>>, Len(gs) = Len(fs), gs[Len(fs)].dest = fs[Len(fs)].dest,
           fold(name) \in gs[Len(fs)].taken
    PROVE  Entering(C, gs, Append(fs[Len(fs)].dest, name))
  <1> DEFINE n == Len(fs)
  <1> DEFINE inner == fs[n].dest
  <1> DEFINE dest == Append(inner, name)
  <1>1. n \in Nat \ {0} /\ inner \in Paths /\ Len(inner) = n
    <2>1. n \in Nat \ {0} /\ fs[n] \in Frames
      OBVIOUS
    <2>2. Len(inner) = n
      <3>1. n \in 1..Len(fs)
        BY <2>1
      <3> QED
        BY <3>1 DEF Lie, Nested
    <2> QED
      BY <2>1, <2>2 DEF Frames
  <1>2. /\ Len(dest) = n + 1 /\ dest[n + 1] = name
        /\ \A k \in 1..n : dest[k] = inner[k]
    <2> HIDE DEF inner, n
    <2> QED
      BY <1>1 DEF Paths
  <1> HIDE DEF dest
  <1>3. ASSUME NEW c \in C, Under(c.dest, dest) PROVE FALSE
    <2>1. Len(c.dest) \in Nat
      BY DEF Items, Paths
    <2>2. Len(c.dest) > n /\ Under(c.dest, inner) /\ fold(c.dest[n + 1]) = fold(name)
      BY <1>1, <1>2, <1>3, <2>1 DEF Under
    <2>3. fold(c.dest[n + 1]) \in fs[n].taken
      BY <1>1, <2>2 DEF Lie, TakenBy
    <2> QED
      BY <2>2, <2>3
  <1> QED
    BY <1>1, <1>2, <1>3 DEF Entering, dest

\* What a call returns changes no count of what was copied.
LEMMA ReturnedReport ==
    ASSUME NEW fs, Open(fs), NEW err, NEW r \in Reports, Failed(fs, err, r) \/ Succeeded(fs, r)
    PROVE  report' \in Reports /\ report'.copied = r.copied
  <1>1. CASE report' = r
    BY <1>1
  <1>2. CASE fs # <<>> /\ report' = WithFailure(r, EntryIn(fs))
    <2> DEFINE entry == EntryIn(fs)
    <2>1. entry \in Entries
      <3>1. fs[Len(fs)] \in Frames
        BY <1>2 DEF Open
      <3> QED
        BY <1>2, <3>1 DEF EntryIn, Entries, Frames
    <2> HIDE DEF entry
    <2> QED
      BY <1>2, <2>1 DEF WithFailure, Reports, entry
  <1> QED
    BY <1>1, <1>2 DEF Failed, Succeeded

\* A copy begins with nothing counted.
LEMMA InitPlaced == Init => Placed
  <1> SUFFICES ASSUME Init PROVE Placed
    OBVIOUS
  <1>1. report \in Reports
    BY DEF Init, Reports
  <1>2. /\ report.copied = {} /\ stack = <<>> /\ pc = "copy" /\ cur.dest = <<Dest>>
        /\ Len(stack) = 0 /\ Len(cur.dest) = 1
    BY DEF Init
  <1>3. Lie({}, stack) /\ Apart({})
    BY <1>2 DEF Lie, Nested, TakenBy, Distinct, Apart
  <1> QED
    BY <1>1, <1>2, <1>3 DEF Placed, Working, LeafSteps

\* A call that returns: what it has counted lies in the frames it returns into.
LEMMA ReturnPlaced ==
    ASSUME src \in Sources, src' = src, exit \in {-1, 0, 1, 5},
           NEW fs, Open(fs), NEW err, NEW r \in Reports,
           Failed(fs, err, r) \/ Succeeded(fs, r),
           Lie(r.copied, fs), Apart(r.copied)
    PROVE  Placed'
  <1>1. Reports' = Reports
    BY DEF Reports, Items, Locs, Entries
  <1>2. report' \in Reports /\ report'.copied = r.copied
    BY ReturnedReport
  <1>3. pc' \in {"entry", "exited"}
    BY Returned
  <1>4. Lie(r.copied, stack')
    BY LieKept, ReturnedFrames
  <1>5. Apart(report.copied)'
    BY <1>2 DEF Apart
  <1> QED
    BY <1>1, <1>2, <1>3, <1>4, <1>5 DEF Placed, Working, LeafSteps

\* Every step counts things where they lie.
LEMMA StepPlaced ==
    ASSUME Shape, AncestorsAreStack, Placed, [Next]_vars
    PROVE  Placed'
  <1> DEFINE C == report.copied
  <1>0. /\ src \in Sources /\ exit \in {-1, 0, 1, 5}
        /\ report \in Reports /\ C \subseteq Items
        /\ Lie(C, stack) /\ Apart(C)
        /\ pc # "entry" => Open(stack)
        /\ stack \in Seq(Frames) /\ Len(stack) \in Nat /\ (stack = <<>> <=> Len(stack) = 0)
        /\ cur.loc \in Locs /\ cur.dest \in Paths /\ cur.dest # <<>>
    BY DEF Shape, Placed, Looping, Open, Reports
  <1>1. ASSUME UNCHANGED <<src, report, stack, cur>>,
               pc' = pc \/ (pc \in LeafSteps /\ pc' \in LeafSteps)
        PROVE  Placed'
    <2>1. Reports' = Reports
      BY <1>1 DEF Reports, Items, Locs, Entries
    <2>2. Apart(report.copied)'
      BY <1>0, <1>1 DEF Apart
    <2> QED
      BY <1>0, <1>1, <2>1, <2>2 DEF Placed, Working, LeafSteps
  <1>2. ASSUME src' = src, Open(stack), \E err : Failed(stack, err, report)
        PROVE  Placed'
    BY <1>0, <1>2, ReturnPlaced
  \* Counting the item being copied.
  <1>3. ASSUME pc \in Working, ~Refuses \/ src.kind[cur.loc] # "dir"
        PROVE  /\ Item \in Items /\ Item.dest = cur.dest /\ Item.loc = cur.loc
               /\ Entering(C, stack, cur.dest)
               /\ Lie(C \cup {Item}, stack) /\ Apart(C \cup {Item})
               /\ \A r \in {Counted, Recorded(Counted)} : r \in Reports /\ r.copied = C \cup {Item}
               /\ pc = "dir" => Len(cur.dest) = Len(stack) + 1
    <2>1. Open(stack) /\ pc # "entry" /\ Entering(C, stack, cur.dest)
      BY <1>0, <1>3 DEF Placed, Working, LeafSteps
    <2>2. /\ Item \in Items /\ Item.dest = cur.dest /\ Item.loc = cur.loc
          /\ \A r \in {Counted, Recorded(Counted)} : r \in Reports /\ r.copied = C \cup {Item}
      BY <1>0, <2>1, ReportFacts DEF Item
    <2>3. Lie(C \cup {Item}, stack)
      BY <1>0, <2>1, <2>2, LieCounts
    <2>4. ASSUME NEW j \in 1..Len(stack) PROVE stack[j].dir # cur.loc
      <3>1. src.kind[stack[j].dir] = "dir"
        BY <2>1 DEF Open, Inside
      <3>2. ~Refuses => stack[j].dir # cur.loc
        BY DEF Refuses, AncestorsAreStack
      <3> QED
        BY <1>3, <3>1, <3>2
    <2>5. pc = "dir" => Len(cur.dest) = Len(stack) + 1
      <3>1. CASE stack = <<>>
        <4>1. pc = "dir" => Len(cur.dest) = 1
          BY <3>1 DEF Placed
        <4> QED
          BY <1>0, <3>1, <4>1
      <3>2. CASE stack # <<>>
        BY <2>1, <3>2 DEF Entering
      <3> QED
        BY <3>1, <3>2
    <2>6. src.kind[cur.loc] = "dir" => Len(cur.dest) <= MaxDepth + 1
      <3>1. src.kind[cur.loc] = "dir" => pc = "dir" /\ Len(stack) <= MaxDepth
        <4>1. src.kind[cur.loc] = "dir" => pc = "dir"
          BY <1>3 DEF Shape, Working
        <4>2. ~Refuses => Len(stack) <= MaxDepth
          BY <1>0, MaxDepthAssumption DEF Refuses
        <4> QED
          BY <1>3, <4>1, <4>2
      <3> QED
        BY <1>0, <2>5, <3>1, MaxDepthAssumption
    <2>7. Apart(C \cup {Item})
      BY <1>0, <2>1, <2>2, <2>4, <2>6, ApartCounts
    <2> QED
      BY <2>1, <2>2, <2>3, <2>5, <2>7
  <1>4. ASSUME src' = src, pc \in Working, ~Refuses \/ src.kind[cur.loc] # "dir",
               NEW r \in {Counted, Recorded(Counted)},
               \E err : Failed(stack, err, r) \/ Succeeded(stack, r)
        PROVE  Placed'
    <2>1. Open(stack)
      BY <1>0, <1>4 DEF Working, LeafSteps
    <2> QED
      BY <1>0, <1>3, <1>4, <2>1, ReturnPlaced
  \* Only warning about it.
  <1>5. ASSUME src' = src, pc \in LeafSteps, NEW r \in {Warned, Recorded(Warned)}, Succeeded(stack, r)
        PROVE  Placed'
    <2>1. Open(stack)
      BY <1>0, <1>5 DEF LeafSteps
    <2>2. r \in Reports /\ r.copied = C
      BY <1>0, <1>5, <2>1, ReportFacts
    <2> QED
      BY <1>0, <1>5, <2>1, <2>2, ReturnPlaced
  <1>6. pc \in LeafSteps => pc \in Working /\ src.kind[cur.loc] # "dir" /\ Open(stack)
    BY <1>0 DEF Shape, Working, LeafSteps
  <1>7. CASE Copy
    <2>0. /\ src' = src /\ pc = "copy" /\ stack = <<>> /\ C = {} /\ Open(<<>>)
      BY <1>7 DEF Copy, Shape, Placed, Open
    <2>1. CASE /\ UNCHANGED <<stack, report>>
               /\ \/ pc' = "dir" /\ UNCHANGED cur
                  \/ pc' = "leaf"
      <3>1. Reports' = Reports
        BY <2>0 DEF Reports, Items, Locs, Entries
      <3>2. Apart(report.copied)'
        BY <2>0, <2>1 DEF Apart
      <3>3. Entering(report.copied, stack, cur.dest)'
        BY <2>0, <2>1 DEF Entering
      <3> QED
        BY <1>0, <2>0, <2>1, <3>1, <3>2, <3>3 DEF Placed, Working, LeafSteps
    <2>2. CASE \E err \in ReadErrors : Failed(<<>>, err, report)
      BY <1>2, <2>0, <2>2
    <2> QED
      BY <1>7, <2>1, <2>2 DEF Copy
  <1>8. CASE CopyDir
    <2>0. src' = src /\ cur' = cur /\ pc = "dir" /\ pc \in Working /\ Open(stack)
      BY <1>0, <1>8 DEF CopyDir, Working
    <2>1. CASE Failed(stack, "other", report)
      BY <1>2, <2>0, <2>1
    <2>2. CASE /\ ~Refuses
               /\ \E err \in ReadErrors, r \in {Counted, Recorded(Counted)} : Failed(stack, err, r)
      BY <1>4, <2>0, <2>2
    <2>3. CASE /\ ~Refuses
               /\ report' = Recorded(Counted)
               /\ stack' = Append(stack, [dir |-> cur.loc, dest |-> cur.dest, next |-> 1, taken |-> {}])
               /\ pc' = "entry"
      <3> DEFINE f == [dir |-> cur.loc, dest |-> cur.dest, next |-> 1, taken |-> {}]
      <3>1. f \in Frames /\ f.dir = cur.loc /\ f.dest = cur.dest
        BY <1>0 DEF Frames
      <3>2. stack' = Append(stack, f)
        BY <2>3
      <3> HIDE DEF f
      <3>3. /\ Item \in Items /\ Item.dest = cur.dest /\ Item.loc = cur.loc
            /\ Entering(C, stack, cur.dest)
            /\ Lie(C \cup {Item}, stack) /\ Apart(C \cup {Item})
            /\ report' \in Reports /\ report'.copied = C \cup {Item}
            /\ Len(cur.dest) = Len(stack) + 1
        BY <1>3, <2>0, <2>3
      <3>4. Lie(C \cup {Item}, Append(stack, f))
        BY <1>0, <3>1, <3>3, LiePushes
      <3>5. Reports' = Reports
        BY <2>0 DEF Reports, Items, Locs, Entries
      <3>6. Apart(report.copied)'
        BY <2>0, <3>3 DEF Apart
      <3> QED
        BY <2>3, <3>2, <3>3, <3>4, <3>5, <3>6 DEF Placed, Working, LeafSteps
    <2> QED
      BY <1>8, <2>1, <2>2, <2>3 DEF CopyDir
  <1>9. CASE ExcludeEntry
    <2> DEFINE r == [report EXCEPT !.excluded = @ \cup {EntryIn(stack)}]
    <2>1. src' = src /\ Open(stack) /\ Succeeded(stack, r)
      BY <1>9, LoopFacts DEF ExcludeEntry, InLoop
    <2>2. r \in Reports /\ r.copied = C
      <3>1. EntryIn(stack) \in Entries
        BY <1>0, <2>1, ReportFacts
      <3> QED
        BY <1>0, <3>1 DEF Reports
    <2> HIDE DEF r
    <2> QED
      BY <1>0, <2>1, <2>2, ReturnPlaced
  \* A name is taken.
  <1>10. ASSUME InLoop, Nameable
         PROVE  /\ Open(stack) /\ Open(Naming) /\ Naming # <<>> /\ Lie(C, Naming)
                /\ Entering(C, Naming, Append(Top.dest, Chosen(HostName[Entry.name], Top.taken)))
    <2> DEFINE name == Chosen(HostName[Entry.name], Top.taken)
    <2>1. /\ Open(stack) /\ Open(Naming) /\ Len(Naming) = Len(stack) /\ stack # <<>>
          /\ Len(stack) \in Nat \ {0} /\ name \in Names
          /\ \A j \in 1..Len(stack) : /\ Naming[j].dir = stack[j].dir
                                      /\ Naming[j].dest = stack[j].dest
                                      /\ stack[j].taken \subseteq Naming[j].taken
          /\ fold(name) \in Naming[Len(stack)].taken
      BY <1>0, <1>10, LoopFacts DEF InLoop
    <2>2. fold(name) \notin Top.taken
      BY <1>10, ChosenFree DEF Nameable
    <2> HIDE DEF name
    <2>3. Naming # <<>>
      BY <2>1
    <2>4. Lie(C, Naming)
      BY <1>0, <2>1, LieKept
    <2>5. Entering(C, Naming, Append(Top.dest, name))
      <3>1. Naming[Len(stack)].dest = stack[Len(stack)].dest
        BY <2>1
      <3> QED
        BY <1>0, <2>1, <2>2, <2>3, <3>1, EnteringNamed DEF Top
    <2> QED
      BY <2>1, <2>3, <2>4, <2>5 DEF name
  <1>11. CASE SkipEntry
    <2> DEFINE r == [report EXCEPT !.excluded = @ \cup {EntryIn(stack)}]
    <2>1. src' = src /\ Open(stack) /\ Open(Naming) /\ Lie(C, Naming) /\ Succeeded(Naming, r)
      BY <1>10, <1>11 DEF SkipEntry
    <2>2. r \in Reports /\ r.copied = C
      <3>1. EntryIn(stack) \in Entries
        BY <1>0, <2>1, ReportFacts
      <3> QED
        BY <1>0, <3>1 DEF Reports
    <2> HIDE DEF r
    <2> QED
      BY <1>0, <2>1, <2>2, ReturnPlaced
  <1>12. CASE CopyEntry
    <2>1. /\ src' = src /\ Open(Naming) /\ Naming # <<>> /\ Lie(C, Naming)
          /\ Entering(C, Naming, Append(Top.dest, Chosen(HostName[Entry.name], Top.taken)))
      BY <1>10, <1>12 DEF CopyEntry
    <2>2. CASE Failed(Naming, "other", report)
      BY <1>0, <2>1, <2>2, ReturnPlaced
    <2>3. CASE /\ cur' = [loc |-> Entry.loc,
                          dest |-> Append(Top.dest, Chosen(HostName[Entry.name], Top.taken))]
               /\ stack' = Naming /\ pc' \in {"dir", "leaf"} /\ UNCHANGED report
      <3>1. Reports' = Reports
        BY <2>1 DEF Reports, Items, Locs, Entries
      <3>2. Apart(report.copied)'
        BY <1>0, <2>1, <2>3 DEF Apart
      <3>3. cur'.dest = Append(Top.dest, Chosen(HostName[Entry.name], Top.taken))
        BY <2>3
      <3>4. Entering(report'.copied, stack', cur'.dest)
        BY <2>1, <2>3, <3>3
      <3> QED
        BY <1>0, <2>1, <2>3, <3>1, <3>2, <3>4 DEF Placed
    <2> QED
      BY <1>12, <2>2, <2>3 DEF CopyEntry
  <1>13. CASE FinishDir
    <2> DEFINE fs == Front(stack)
    <2>1. /\ src' = src /\ Succeeded(fs, report) /\ Open(fs) /\ Len(fs) = Len(stack) - 1
          /\ Len(stack) \in Nat \ {0} /\ \A j \in 1..(Len(stack) - 1) : fs[j] = stack[j]
      BY <1>13, LoopFacts DEF FinishDir
    <2> HIDE DEF fs
    <2>2. Lie(C, fs)
      BY <1>0, <2>1, LieKept
    <2> QED
      BY <1>0, <2>1, <2>2, ReturnPlaced
  <1>14. CASE CopyLeaf
    <2>1. src' = src /\ cur' = cur /\ pc = "leaf" /\ pc \in LeafSteps /\ src.kind[cur.loc] \in LeafSteps
      BY <1>0, <1>6, <1>14, SourceFacts DEF CopyLeaf, LeafSteps
    <2> QED
      BY <1>1, <1>2, <1>6, <1>14, <2>1 DEF CopyLeaf
  <1>15. CASE CopySymlink
    <2>1. src' = src /\ pc \in LeafSteps
      BY <1>15 DEF CopySymlink, LeafSteps
    <2> QED
      BY <1>2, <1>4, <1>5, <1>6, <1>15, <2>1 DEF CopySymlink
  <1>16. CASE CopySpecial
    BY <1>5, <1>16 DEF CopySpecial, LeafSteps
  <1>17. CASE CreateFile
    <2>1. src' = src /\ cur' = cur /\ pc \in LeafSteps
      BY <1>17 DEF CreateFile, LeafSteps
    <2>2. CASE pc' = "write" /\ UNCHANGED <<stack, report>>
      BY <1>1, <2>1, <2>2 DEF LeafSteps
    <2>3. CASE FileFails
      BY <1>2, <1>6, <2>1, <2>3 DEF FileFails
    <2> QED
      BY <1>17, <2>2, <2>3 DEF CreateFile
  <1>18. CASE WriteFile
    <2>1. src' = src /\ cur' = cur /\ pc \in LeafSteps
      BY <1>18 DEF WriteFile, LeafSteps
    <2>2. CASE pc' = "rename" /\ UNCHANGED <<stack, report>>
      BY <1>1, <2>1, <2>2 DEF LeafSteps
    <2>3. CASE FileFails
      BY <1>2, <1>6, <2>1, <2>3 DEF FileFails
    <2> QED
      BY <1>18, <2>2, <2>3 DEF WriteFile
  <1>19. CASE RenameFile
    <2>1. src' = src /\ pc \in LeafSteps
      BY <1>19 DEF RenameFile, LeafSteps
    <2> QED
      BY <1>2, <1>4, <1>6, <1>19, <2>1 DEF RenameFile
  <1>20. CASE Exited \/ UNCHANGED vars
    <2>1. UNCHANGED <<src, report, stack, cur>> /\ pc' = pc
      BY <1>20 DEF Exited, vars
    <2> QED
      BY <1>1, <2>1
  <1> QED
    BY <1>7, <1>8, <1>9, <1>11, <1>12, <1>13, <1>14, <1>15, <1>16, <1>17, <1>18, <1>19, <1>20
       DEF Next, Step

\* So in every state.
LEMMA PlacedAlways == Spec => []Placed
  BY InitPlaced, StepPlaced, ShapeAlways, LoopCheckIsExact, PTL DEF Spec

\* A directory is never copied into itself, nor is one made deeper than MAX_DEPTH,
\* however the filesystem's directories loop.
THEOREM NotIntoItself == Spec => []NeverIntoItself
  <1>1. Apart(report.copied) => NeverIntoItself
    BY DEF Apart, NeverIntoItself
  <1>2. Placed => Apart(report.copied)
    BY DEF Placed
  <1> QED
    BY <1>1, <1>2, PlacedAlways, PTL

-----------------------------------------------------------------------------
(* What is copied stays *)

\* What KeepsEveryEntry says of one item.
Safe(c) ==
    /\ Exists(c.dest)
    /\ IF src.kind[c.loc] = "dir" THEN Is(c.dest, "dir")
                                  ELSE At(c.dest) = Object(src.kind[c.loc], c.loc)

EndsClear(dest) == Len(dest) >= 2 => Clear(dest[Len(dest)])

\* Nothing copied has a temporary name, and the file under the temporary name is the
\* one being copied.
Kept ==
    /\ \A c \in report.copied : Safe(c) /\ EndsClear(c.dest)
    /\ pc \in Working => EndsClear(cur.dest)
    /\ pc = "symlink" => src.kind[cur.loc] = "symlink"
    /\ pc \in {"file", "write", "rename"} => src.kind[cur.loc] = "file"
    /\ pc = "write" => out = Key(Temp(cur.dest))
    /\ pc = "rename" => At(Temp(cur.dest)) = Object("file", cur.loc)

\* Paths the host takes for one another the copier does too.
LEMMA SameKey ==
    ASSUME NamesAreClear, NEW p \in Paths, NEW q \in Paths, Key(p) = Key(q)
    PROVE  Len(p) = Len(q) /\ Under(p, q)
  <1>1. Len(p) = Len(q) /\ Len(p) \in Nat
    BY KeyType DEF Paths
  <1>2. ASSUME NEW k \in 1..Len(q) PROVE fold(p[k]) = fold(q[k])
    <2>1. /\ Key(p)[k] = IF HostFolds THEN Lowered(p[k]) ELSE p[k]
          /\ Key(q)[k] = IF HostFolds THEN Lowered(q[k]) ELSE q[k]
      BY <1>1, KeyType
    <2> QED
      BY <2>1 DEF fold, NamesAreClear
  <1> QED
    BY <1>1, <1>2 DEF Under

\* The last token of a clear name is not the temporary suffix, folded or not.
LEMMA ClearKey ==
    ASSUME NEW path \in Paths, path # <<>>, Clear(path[Len(path)])
    PROVE  ~IsTemp(Key(path))
  <1> DEFINE name == path[Len(path)]
  <1>1. Len(path) \in Nat \ {0} /\ name \in Names /\ Len(path) \in 1..Len(path)
    BY DEF Paths
  <1>2. name # <<>> /\ Lower[name[Len(name)]] # Partial
    BY DEF Clear
  <1>3. /\ Len(Key(path)) = Len(path)
        /\ Key(path)[Len(path)] = IF HostFolds THEN Lowered(name) ELSE name
    BY <1>1, KeyType
  <1> HIDE DEF name
  <1>4. Len(name) \in 1..Len(name)
    BY <1>1, <1>2 DEF Names
  <1>5. Len(Lowered(name)) = Len(name) /\ Lowered(name)[Len(name)] = Lower[name[Len(name)]]
    BY <1>1, <1>4, LoweredType
  <1>6. name[Len(name)] # Partial
    BY <1>2, TokensAssumption
  <1>7. CASE HostFolds
    BY <1>2, <1>3, <1>5, <1>7 DEF IsTemp
  <1>8. CASE ~HostFolds
    BY <1>3, <1>6, <1>8 DEF IsTemp
  <1> QED
    BY <1>7, <1>8

\* The names made from clear ones are clear.
LEMMA ChosenClear ==
    ASSUME NamesAreClear, NEW name \in Names, Clear(name), NEW taken, Free(name, taken) # {}
    PROVE  Clear(Chosen(name, taken))
  <1>1. PICK n \in 0..Len(Tilde) : Chosen(name, taken) = Candidate(name, n)
    BY ChosenFree
  <1>2. CASE n = 0
    BY <1>1, <1>2 DEF Candidate
  <1>3. CASE n # 0
    <2>0. Len(Tilde) \in Nat /\ n \in 1..Len(Tilde)
      BY <1>3, TokensAssumption
    <2>1. Tilde[n] \in Tokens /\ Lower[Tilde[n]] # Partial
      BY <2>0, TokensAssumption DEF NamesAreClear
    <2>2. Candidate(name, n) = Append(name, Tilde[n])
      BY <1>3 DEF Candidate
    <2> DEFINE longer == Append(name, Tilde[n])
    <2>3. longer # <<>> /\ longer[Len(longer)] = Tilde[n]
      BY <2>1 DEF Names
    <2> HIDE DEF longer
    <2> QED
      BY <1>1, <2>1, <2>2, <2>3 DEF Clear, longer
  <1> QED
    BY <1>2, <1>3

\* What is being copied, and its temporary sibling, are not places of anything
\* copied before.
LEMMA FarApart ==
    ASSUME NamesAreClear, Shape, Placed, Kept, pc \in Working, NEW c \in report.copied
    PROVE  /\ Key(c.dest) # Key(cur.dest) /\ Key(c.dest) # Key(Temp(cur.dest))
           /\ stack # <<>> /\ Len(cur.dest) >= 2
  <1>1. /\ c.dest \in Paths /\ cur.dest \in Paths /\ cur.dest # <<>> /\ c.dest # <<>>
        /\ Entering(report.copied, stack, cur.dest)
    BY DEF Shape, Placed, Reports, Items, Lie
  <1>2. /\ stack # <<>> /\ Len(cur.dest) = Len(stack) + 1
    BY <1>1 DEF Entering
  <1>3. Len(stack) \in Nat \ {0}
    BY <1>2 DEF Shape, Looping, Open
  <1>4. Key(c.dest) # Key(cur.dest)
    BY <1>1, SameKey DEF Entering
  <1>5. Key(c.dest) # Key(Temp(cur.dest))
    <2> SUFFICES ASSUME Key(c.dest) = Key(Temp(cur.dest)) PROVE FALSE
      OBVIOUS
    <2>1. Len(c.dest) = Len(Temp(cur.dest)) /\ Len(Temp(cur.dest)) = Len(cur.dest)
      BY <1>1, SameKey, TempType
    <2>2. Clear(c.dest[Len(c.dest)])
      BY <1>2, <1>3, <2>1 DEF Kept, EndsClear
    <2> QED
      BY <1>1, <2>2, ClearKey, TempIsTemp
  <1> QED
    BY <1>2, <1>3, <1>4, <1>5

\* An item whose object did not change is as safe as before.
LEMMA StaysSafe ==
    ASSUME NEW c, Safe(c), src' = src, Key(c.dest) \in DOMAIN host',
           host'[Key(c.dest)] = host[Key(c.dest)]
    PROVE  Safe(c)'
  BY DEF Safe, Exists, Is, At, Key, Object

\* One that was just put there is.
LEMMA BecomesSafe ==
    ASSUME NEW c, src' = src, NEW object, Key(c.dest) \in DOMAIN host',
           host'[Key(c.dest)] = object,
           IF src.kind[c.loc] = "dir" THEN object.kind = "dir"
                                      ELSE object = Object(src.kind[c.loc], c.loc)
    PROVE  Safe(c)'
  BY DEF Safe, Exists, Is, At, Key, Object

\* Nothing is copied yet.
LEMMA InitKept == Init => Kept
  BY DEF Init, Kept, Working, LeafSteps

\* A call that returns: what it has counted is safe.
LEMMA ReturnKept ==
    ASSUME src \in Sources, src' = src, exit \in {-1, 0, 1, 5},
           NEW fs, Open(fs), NEW err, NEW r \in Reports,
           Failed(fs, err, r) \/ Succeeded(fs, r),
           \A c \in r.copied : Safe(c)' /\ EndsClear(c.dest)
    PROVE  Kept'
  <1>1. report'.copied = r.copied
    BY ReturnedReport
  <1>2. pc' \in {"entry", "exited"} /\ (pc' = "entry" => fs # <<>>)
    BY Returned
  <1>3. \A c \in report'.copied : Safe(c)' /\ EndsClear(c.dest)
    BY <1>1
  <1> QED
    BY <1>2, <1>3 DEF Kept, Working, LeafSteps

\* Every step that does not write through a symlink keeps what was copied.
LEMMA StepKept ==
    ASSUME NamesAreClear, Shape, Hosted, Placed, Kept, through' = {}, [Next]_vars
    PROVE  Kept'
  <1> DEFINE C == report.copied
  <1>0. /\ src \in Sources /\ exit \in {-1, 0, 1, 5} /\ report \in Reports
        /\ pc # "entry" => Open(stack)
        /\ cur.loc \in Locs /\ cur.dest \in Paths /\ cur.dest # <<>>
        /\ \A c \in C : Safe(c) /\ EndsClear(c.dest) /\ Key(c.dest) \in DOMAIN host
        /\ pc \in Working => EndsClear(cur.dest)
    BY DEF Shape, Placed, Kept, Safe, Exists
  <1>1. pc \in LeafSteps => pc \in Working /\ pc # "exited" /\ Open(stack)
    BY <1>0 DEF Working, LeafSteps
  <1>2. /\ Key(Temp(cur.dest)) # Key(cur.dest) /\ IsTemp(Key(Temp(cur.dest)))
    BY <1>0, TempIsTemp
  \* The host did not change.
  <1>3. ASSUME src' = src, host' = host
        PROVE  \A c \in C : Safe(c)' /\ EndsClear(c.dest)
    <2>1. \A c \in C : Safe(c)'
      BY <1>0, <1>3, StaysSafe
    <2> QED
      BY <1>0, <2>1
  \* It changed where the item, or its temporary file, is.
  <1>4. ASSUME src' = src, pc \in Working,
               \A k \in DOMAIN host : k \notin {Key(cur.dest), Key(Temp(cur.dest))} =>
                   k \in DOMAIN host' /\ host'[k] = host[k]
        PROVE  \A c \in C : Safe(c)' /\ EndsClear(c.dest)
    <2> SUFFICES ASSUME NEW c \in C PROVE Safe(c)'
      BY <1>0
    <2>1. Key(c.dest) # Key(cur.dest) /\ Key(c.dest) # Key(Temp(cur.dest))
      BY <1>4, FarApart
    <2> QED
      BY <1>0, <1>4, <2>1, StaysSafe
  <1>5. ASSUME NEW fs, Open(fs), src' = src, host' = host, pc # "exited", NEW r \in Reports, r.copied = C,
               \E err : Failed(fs, err, r) \/ Succeeded(fs, r)
        PROVE  Kept'
    BY <1>0, <1>3, <1>5, ReturnKept
  \* A call that counts the item returns.
  <1>6. ASSUME pc \in Working, Open(stack)
        PROVE  /\ Item.dest = cur.dest /\ Item.loc = cur.loc
               /\ \A r \in {Counted, Recorded(Counted)} : r \in Reports /\ r.copied = C \cup {Item}
               /\ \A r \in {Warned, Recorded(Warned)} : r \in Reports /\ r.copied = C
    BY <1>0, <1>6, ReportFacts DEF Item
  <1>7. ASSUME pc \in Working, Open(stack), src' = src, cur' = cur,
               \A c \in C \cup {Item} : Safe(c)',
               NEW r \in {Counted, Recorded(Counted)},
               \E err : Failed(stack, err, r) \/ Succeeded(stack, r)
        PROVE  Kept'
    <2>1. \A c \in r.copied : Safe(c)' /\ EndsClear(c.dest)
      BY <1>0, <1>6, <1>7
    <2> QED
      BY <1>0, <1>6, <1>7, <2>1, ReturnKept
  <1>8. CASE Copy
    <2>0. /\ src' = src /\ host' = host /\ pc = "copy" /\ stack = <<>> /\ C = {} /\ Open(<<>>)
      BY <1>8 DEF Copy, Shape, Placed, Open
    <2>1. CASE UNCHANGED <<cur, report>> /\ pc' \in {"dir", "leaf"}
      <3>1. Len(cur.dest) = 1
        BY <2>0 DEF Placed
      <3>2. EndsClear(cur.dest)
        BY <3>1 DEF EndsClear
      <3> QED
        BY <1>0, <1>3, <2>0, <2>1, <3>2 DEF Kept, Working, LeafSteps
    <2>2. CASE /\ cur' = [cur EXCEPT !.dest = <<Dest, HostName[src.name]>>]
               /\ report' = report /\ pc' = "leaf"
      <3> DEFINE dest == <<Dest, HostName[src.name]>>
      <3>1. cur'.dest = dest
        BY <2>2 DEF Shape
      <3>2. Clear(HostName[src.name])
        BY <1>0 DEF NamesAreClear
      <3>3. EndsClear(dest)
        BY <3>2 DEF EndsClear
      <3> HIDE DEF dest
      <3> QED
        BY <1>0, <1>3, <2>0, <2>2, <3>1, <3>3 DEF Kept, Working, LeafSteps
    <2>3. CASE \E err \in ReadErrors : Failed(<<>>, err, report)
      BY <1>0, <1>5, <2>0, <2>3
    <2> QED
      BY <1>8, <2>1, <2>2, <2>3 DEF Copy
  <1>9. CASE CopyDir
    <2>0. /\ src' = src /\ cur' = cur /\ pc = "dir" /\ pc \in Working /\ Open(stack)
          /\ src.kind[cur.loc] = "dir"
      BY <1>0, <1>9 DEF CopyDir, Working, Shape
    <2>1. ASSUME MakeDir(cur.dest)
          PROVE  \A c \in C \cup {Item} : Safe(c)'
      <3>1. CASE Exists(cur.dest)
        <4>1. host' = host /\ Is(cur.dest, "dir")
          BY <2>1, <3>1 DEF MakeDir
        <4>2. Key(Item.dest) \in DOMAIN host' /\ host'[Key(Item.dest)].kind = "dir"
          BY <1>6, <2>0, <3>1, <4>1 DEF Exists, Is, At
        <4>3. \A c \in {Item} : Safe(c)'
          BY <1>6, <2>0, <4>2, BecomesSafe
        <4> QED
          BY <1>3, <2>0, <4>1, <4>3
      <3>2. CASE ~Exists(cur.dest)
        <4> DEFINE object == Object("dir", cur.loc)
        <4>1. host' = Put(cur.dest, object)
          BY <2>1, <3>2 DEF MakeDir
        <4>2. object.kind = "dir"
          BY DEF Object
        <4> HIDE DEF object
        <4>3. /\ DOMAIN host' = DOMAIN host \cup {Key(cur.dest)}
              /\ host'[Key(cur.dest)] = object
              /\ \A k \in DOMAIN host \ {Key(cur.dest)} : host'[k] = host[k]
          BY <4>1 DEF Put, PutAt
        <4>4. \A c \in C : Safe(c)'
          BY <1>4, <2>0, <4>3
        <4>5. \A c \in {Item} : Safe(c)'
          BY <1>6, <2>0, <4>2, <4>3, BecomesSafe
        <4> QED
          BY <4>4, <4>5
      <3> QED
        BY <3>1, <3>2
    <2>2. CASE Failed(stack, "other", report) /\ UNCHANGED host
      BY <1>0, <1>5, <2>0, <2>2
    <2>3. CASE /\ MakeDir(cur.dest)
               /\ \E err \in ReadErrors, r \in {Counted, Recorded(Counted)} : Failed(stack, err, r)
      BY <1>7, <2>0, <2>1, <2>3
    <2>4. CASE MakeDir(cur.dest) /\ report' = Recorded(Counted) /\ pc' = "entry"
      <3>1. report'.copied = C \cup {Item} /\ EndsClear(Item.dest)
        BY <1>0, <1>6, <2>0, <2>4
      <3>2. \A c \in report'.copied : Safe(c)' /\ EndsClear(c.dest)
        BY <1>0, <2>1, <2>4, <3>1
      <3> QED
        BY <2>1, <2>4, <3>2 DEF Kept, Working, LeafSteps
    <2> QED
      BY <1>9, <2>2, <2>3, <2>4 DEF CopyDir
  <1>10. CASE ExcludeEntry
    <2> DEFINE r == [report EXCEPT !.excluded = @ \cup {EntryIn(stack)}]
    <2>1. src' = src /\ host' = host /\ pc = "entry" /\ Open(stack) /\ Succeeded(stack, r)
      BY <1>10, LoopFacts DEF ExcludeEntry, InLoop
    <2>2. r \in Reports /\ r.copied = C
      <3>1. EntryIn(stack) \in Entries
        BY <1>0, <2>1, ReportFacts
      <3> QED
        BY <1>0, <3>1 DEF Reports
    <2> HIDE DEF r
    <2> QED
      BY <1>5, <2>1, <2>2
  <1>11. CASE SkipEntry
    <2> DEFINE r == [report EXCEPT !.excluded = @ \cup {EntryIn(stack)}]
    <2>1. /\ src' = src /\ host' = host /\ pc = "entry" /\ Open(stack) /\ Open(Naming)
          /\ Succeeded(Naming, r)
      BY <1>11, LoopFacts DEF SkipEntry, InLoop
    <2>2. r \in Reports /\ r.copied = C
      <3>1. EntryIn(stack) \in Entries
        BY <1>0, <2>1, ReportFacts
      <3> QED
        BY <1>0, <3>1 DEF Reports
    <2> HIDE DEF r
    <2> QED
      BY <1>5, <2>1, <2>2
  <1>12. CASE CopyEntry
    <2>1. /\ src' = src /\ host' = host /\ pc = "entry" /\ InLoop /\ Nameable /\ Open(Naming)
      BY <1>12, LoopFacts DEF CopyEntry, InLoop
    <2>2. CASE Failed(Naming, "other", report)
      BY <1>0, <1>5, <2>1, <2>2
    <2>3. CASE /\ cur' = [loc |-> Entry.loc,
                          dest |-> Append(Top.dest, Chosen(HostName[Entry.name], Top.taken))]
               /\ pc' \in {"dir", "leaf"} /\ UNCHANGED report
      <3> DEFINE name == Chosen(HostName[Entry.name], Top.taken)
      <3>1. name \in Names /\ Top \in Frames /\ Entry.name \in DOMAIN HostName
        BY <2>1, LoopFacts
      <3>2. Clear(name)
        <4>1. Clear(HostName[Entry.name])
          <5>1. /\ Top.dir \in DOMAIN src.kind /\ src.kind[Top.dir] = "dir"
                /\ Top.next \in 1..Len(src.entries[Top.dir])
            <6>1. Inside(Top)
              BY <2>1, LoopFacts DEF Open, Top
            <6> QED
              BY <3>1, <6>1 DEF Frames, Locs, Inside
          <5>2. src.entries[Top.dir] \in Seq(Range(src.entries[Top.dir]))
            BY <1>0, <5>1, SourcesAssumption
          <5>3. Entry \in Range(src.entries[Top.dir])
            BY <5>1, <5>2 DEF Entry
          <5> QED
            BY <1>0, <5>1, <5>3 DEF NamesAreClear
        <4>2. HostName[Entry.name] \in Names
          BY <3>1, TokensAssumption
        <4> QED
          BY <2>1, <4>1, <4>2, ChosenClear DEF Nameable
      <3> HIDE DEF name
      <3>3. cur'.dest = Append(Top.dest, name)
        BY <2>3 DEF name
      <3>4. EndsClear(cur'.dest)
        <4>1. Top.dest \in Paths
          BY <3>1 DEF Frames
        <4>2. LET d == Append(Top.dest, name) IN d[Len(d)] = name
          BY <3>1, <4>1 DEF Paths
        <4> QED
          BY <3>2, <3>3, <4>2 DEF EndsClear
      <3> QED
        BY <1>0, <1>3, <2>1, <2>3, <3>4 DEF Kept, Working, LeafSteps
    <2> QED
      BY <1>12, <2>2, <2>3 DEF CopyEntry
  <1>13. CASE FinishDir
    BY <1>0, <1>5, <1>13, LoopFacts DEF FinishDir
  <1>14. CASE CopyLeaf
    <2>0. /\ src' = src /\ cur' = cur /\ pc = "leaf" /\ pc \in LeafSteps
          /\ src.kind[cur.loc] \in {"file", "symlink", "special"}
      BY <1>0, <1>14, SourceFacts DEF CopyLeaf, LeafSteps, Shape
    <2>1. CASE /\ host' = Without(cur.dest)
               /\ pc' = src.kind[cur.loc]
               /\ UNCHANGED <<stack, report, exit>>
      <3>1. /\ DOMAIN host' = DOMAIN host \ {Key(cur.dest)}
            /\ \A k \in DOMAIN host \ {Key(cur.dest)} : host'[k] = host[k]
        BY <2>1, WithoutFacts
      <3>2. \A c \in C : Safe(c)' /\ EndsClear(c.dest)
        BY <1>1, <1>4, <2>0, <3>1
      <3> QED
        BY <1>0, <1>1, <2>0, <2>1, <3>2 DEF Kept, Working
    <2>2. CASE (\E err \in ReadErrors : Failed(stack, err, report)) /\ UNCHANGED host
      BY <1>0, <1>1, <1>5, <2>0, <2>2
    <2> QED
      BY <1>14, <2>1, <2>2 DEF CopyLeaf
  <1>15. CASE CopySymlink
    <2>0. /\ src' = src /\ cur' = cur /\ pc = "symlink" /\ pc \in LeafSteps
          /\ src.kind[cur.loc] = "symlink"
      BY <1>15 DEF CopySymlink, LeafSteps, Kept
    <2>1. CASE /\ host' = Put(cur.dest, Object("symlink", cur.loc))
               /\ Succeeded(stack, Recorded(Counted))
      <3> DEFINE object == Object("symlink", cur.loc)
      <3>0. host' = Put(cur.dest, object)
        BY <2>1
      <3> HIDE DEF object
      <3>1. /\ DOMAIN host' = DOMAIN host \cup {Key(cur.dest)}
            /\ host'[Key(cur.dest)] = object
            /\ \A k \in DOMAIN host \ {Key(cur.dest)} : host'[k] = host[k]
        BY <3>0 DEF Put, PutAt
      <3>2. \A c \in C : Safe(c)'
        BY <1>1, <1>4, <2>0, <3>1
      <3>3. \A c \in {Item} : Safe(c)'
        <4>1. Item.dest = cur.dest /\ Item.loc = cur.loc
          BY <1>1, <1>6, <2>0
        <4> QED
          BY <2>0, <3>1, <4>1, BecomesSafe DEF object
      <3> QED
        BY <1>1, <1>7, <2>0, <2>1, <3>2, <3>3
    <2>2. CASE Succeeded(stack, Recorded(Warned)) /\ UNCHANGED host
      BY <1>1, <1>5, <1>6, <2>0, <2>2
    <2>3. CASE (\E err \in ReadErrors : Failed(stack, err, report)) /\ UNCHANGED host
      BY <1>0, <1>1, <1>5, <2>0, <2>3
    <2> QED
      BY <1>15, <2>1, <2>2, <2>3 DEF CopySymlink
  <1>16. CASE CopySpecial
    <2>0. src' = src /\ host' = host /\ pc = "special" /\ pc \in LeafSteps /\ Succeeded(stack, Warned)
      BY <1>16 DEF CopySpecial, LeafSteps
    <2> QED
      BY <1>1, <1>5, <1>6, <2>0
  <1>17. ASSUME src' = src, pc \in LeafSteps, FileFails
         PROVE  Kept'
    <2>1. PICK err \in ReadErrors : /\ host' \in {host, Without(Temp(cur.dest))}
                                    /\ Failed(stack, err, report)
      BY <1>17 DEF FileFails
    <2>2. CASE host' = host
      BY <1>0, <1>1, <1>5, <1>17, <2>1, <2>2
    <2>3. CASE host' = Without(Temp(cur.dest))
      <3>1. /\ DOMAIN host' = DOMAIN host \ {Key(Temp(cur.dest))}
            /\ \A k \in DOMAIN host \ {Key(Temp(cur.dest))} : host'[k] = host[k]
        BY <2>3, WithoutFacts
      <3>2. \A c \in C : Safe(c)' /\ EndsClear(c.dest)
        BY <1>1, <1>4, <1>17, <3>1
      <3> QED
        BY <1>0, <1>1, <1>17, <2>1, <3>2, ReturnKept
    <2> QED
      BY <2>1, <2>2, <2>3
  \* A file is put under the temporary name.
  <1>18. ASSUME src' = src, cur' = cur, report' = report, pc \in {"file", "write"}, NEW it,
                host' = PutAt(Key(Temp(cur.dest)), it),
                \/ pc' = "write" /\ out' = Key(Temp(cur.dest))
                \/ pc' = "rename" /\ it = Object("file", cur.loc)
         PROVE  Kept'
    <2>0. pc \in LeafSteps /\ src.kind[cur.loc] = "file"
      BY <1>18 DEF LeafSteps, Kept
    <2>1. /\ DOMAIN host' = DOMAIN host \cup {Key(Temp(cur.dest))}
          /\ host'[Key(Temp(cur.dest))] = it
          /\ \A k \in DOMAIN host \ {Key(Temp(cur.dest))} : host'[k] = host[k]
      <3>1. host' = PutAt(Key(Temp(cur.dest)), it)
        BY <1>18
      <3> QED
        BY <3>1 DEF PutAt
    <2>2. \A c \in C : Safe(c)' /\ EndsClear(c.dest)
      BY <1>1, <1>4, <1>18, <2>0, <2>1
    <2>4. At(Temp(cur.dest))' = it /\ Key(Temp(cur.dest))' = Key(Temp(cur.dest))
      BY <1>18, <2>1 DEF At, Temp, Key, Lowered
    <2> QED
      BY <1>0, <1>1, <1>18, <2>0, <2>2, <2>4 DEF Kept, Working, LeafSteps, Object
  <1>19. CASE CreateFile
    <2>0. src' = src /\ cur' = cur /\ pc = "file" /\ pc \in LeafSteps
      BY <1>19 DEF CreateFile, LeafSteps
    <2>1. CASE /\ out' = Key(Temp(cur.dest))
               /\ host' = IF out' = Elsewhere THEN host ELSE PutAt(out', Unfinished(cur.loc))
               /\ pc' = "write" /\ report' = report
      <3>1. Key(Temp(cur.dest)) # Elsewhere
        BY <1>0, TempType, KeyType, LinksAssumption
      <3>2. host' = PutAt(Key(Temp(cur.dest)), Unfinished(cur.loc))
        BY <2>1, <3>1
      <3> QED
        BY <1>18, <2>0, <2>1, <3>2
    <2>2. CASE FileFails
      BY <1>17, <2>0, <2>2
    <2>3. CASE through' = through \cup {out'}
      BY <2>3
    <2> QED
      BY <1>19, <2>1, <2>2, <2>3 DEF CreateFile
  <1>20. CASE WriteFile
    <2>0. /\ src' = src /\ cur' = cur /\ pc = "write" /\ pc \in LeafSteps
          /\ out = Key(Temp(cur.dest))
      BY <1>20 DEF WriteFile, LeafSteps, Kept
    <2>1. CASE /\ host' = IF out = Elsewhere THEN host ELSE PutAt(out, Object("file", cur.loc))
               /\ pc' = "rename" /\ report' = report
      <3>1. Key(Temp(cur.dest)) # Elsewhere
        BY <1>0, TempType, KeyType, LinksAssumption
      <3>2. host' = PutAt(Key(Temp(cur.dest)), Object("file", cur.loc))
        BY <2>0, <2>1, <3>1
      <3> QED
        BY <1>18, <2>0, <2>1, <3>2
    <2>2. CASE FileFails
      BY <1>17, <2>0, <2>2
    <2> QED
      BY <1>20, <2>1, <2>2 DEF WriteFile
  <1>21. CASE RenameFile
    <2>0. /\ src' = src /\ cur' = cur /\ pc = "rename" /\ pc \in LeafSteps
          /\ src.kind[cur.loc] = "file" /\ At(Temp(cur.dest)) = Object("file", cur.loc)
      BY <1>21 DEF RenameFile, LeafSteps, Kept
    <2>1. ASSUME host' = [k \in (DOMAIN host \cup {Key(cur.dest)}) \ {Key(Temp(cur.dest))} |->
                            IF k = Key(cur.dest) THEN At(Temp(cur.dest)) ELSE host[k]]
          PROVE  \A c \in C \cup {Item} : Safe(c)'
      <3> DEFINE object == Object("file", cur.loc)
      <3>1. /\ DOMAIN host' = (DOMAIN host \cup {Key(cur.dest)}) \ {Key(Temp(cur.dest))}
            /\ host'[Key(cur.dest)] = object
            /\ \A k \in DOMAIN host \ {Key(cur.dest), Key(Temp(cur.dest))} : host'[k] = host[k]
        BY <1>2, <2>0, <2>1
      <3>2. object.kind = "file"
        BY DEF Object
      <3> HIDE DEF object
      <3>3. \A c \in C : Safe(c)'
        BY <1>1, <1>4, <2>0, <3>1
      <3>4. \A c \in {Item} : Safe(c)'
        <4>1. Item.dest = cur.dest /\ Item.loc = cur.loc
          BY <1>1, <1>6, <2>0
        <4>2. Key(cur.dest) \in DOMAIN host'
          BY <1>2, <3>1
        <4> QED
          BY <2>0, <3>1, <4>1, <4>2, BecomesSafe DEF object
      <3> QED
        BY <3>3, <3>4
    <2>2. CASE /\ host' = [k \in (DOMAIN host \cup {Key(cur.dest)}) \ {Key(Temp(cur.dest))} |->
                            IF k = Key(cur.dest) THEN At(Temp(cur.dest)) ELSE host[k]]
               /\ \/ Succeeded(stack, Recorded(Counted))
                  \/ \E err \in ReadErrors : Failed(stack, err, Counted)
      BY <1>1, <1>7, <2>0, <2>1, <2>2
    <2>3. CASE Failed(stack, "other", report) /\ UNCHANGED host
      BY <1>0, <1>1, <1>5, <2>0, <2>3
    <2> QED
      BY <1>21, <2>2, <2>3 DEF RenameFile
  <1>22. CASE Exited \/ UNCHANGED vars
    <2>1. /\ src' = src /\ cur' = cur /\ report' = report /\ pc' = pc /\ host' = host
          /\ out' = out
      BY <1>22 DEF Exited, vars
    <2>2. \A c \in C : Safe(c)' /\ EndsClear(c.dest)
      BY <1>3, <2>1
    <2>3. At(Temp(cur.dest))' = At(Temp(cur.dest)) /\ Key(Temp(cur.dest))' = Key(Temp(cur.dest))
      BY <2>1 DEF At, Key, Temp, Lowered
    <2> QED
      BY <2>1, <2>2, <2>3 DEF Kept, Object
  <1> QED
    BY <1>8, <1>9, <1>10, <1>11, <1>12, <1>13, <1>14, <1>15, <1>16, <1>19, <1>20, <1>21, <1>22
       DEF Next, Step

\* copy_dir_inner's promise: with the copier folding names wherever the host does, and
\* no name that looks like its temporary files', whatever is counted as copied is on
\* the host, at its own place, until the end, unless a symlink that stood under a
\* temporary name was written through.
THEOREM EveryEntryIsKept ==
    ASSUME NamesAreClear
    PROVE  Spec => []KeepsEveryEntry
  <1> DEFINE KeptSoFar == through = {} => Kept
  <1>1. Init => KeptSoFar
    BY InitKept
  <1>2. Shape /\ Hosted /\ Placed /\ KeptSoFar /\ [Next]_vars => KeptSoFar'
    <2> SUFFICES ASSUME Shape, Hosted, Placed, KeptSoFar, [Next]_vars, through' = {} PROVE Kept'
      OBVIOUS
    <2>1. through \subseteq through'
      BY DEF Next, Step, Exited, vars, Copy, CopyDir, ExcludeEntry, SkipEntry, CopyEntry,
             FinishDir, CopyLeaf, CopySymlink, CopySpecial, CreateFile, WriteFile, RenameFile
    <2> QED
      BY <2>1, StepKept
  <1>3. KeptSoFar => KeepsEveryEntry
    BY DEF Kept, KeepsEveryEntry, Safe
  <1> QED
    BY <1>1, <1>2, <1>3, ShapeAlways, HostedAlways, PlacedAlways, PTL DEF Spec
=============================================================================
