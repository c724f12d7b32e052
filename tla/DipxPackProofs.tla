--------------------------- MODULE DipxPackProofs ---------------------------
(***************************************************************************)
(* What dipx.Pack writes is the closure of the entry under the refs of the *)
(* texts it read, for every source tree, every order of edits and refs     *)
(* that go round in circles: the manifest names those files and no others, *)
(* each once and in the order of their paths, with the bytes in the zip.   *)
(*                                                                         *)
(* And what Open makes of such a bundle: it goes through stage by stage,   *)
(* with what Pack has seen to, and refuses it only for what Pack has not   *)
(* looked at and is really there.                                          *)
(***************************************************************************)
EXTENDS DipxRoundTrip, FiniteSetTheorems, SequenceTheorems, WellFoundedInduction, TLAPS

-----------------------------------------------------------------------------
(* Sequences, and the sort of the files                                    *)

(* A nonempty set of naturals has a least element; FiniteSetsExt!Min       *)
(* returns one of its elements.                                            *)
LEMMA HasLeast ==
  ASSUME NEW S \in SUBSET Nat, S # {} PROVE \E x \in S : \A y \in S : x <= y
<1> DEFINE R == {ss \in Nat \X Nat : ss[1] < ss[2]}
<1>1. IsWellFoundedOn(R, Nat)
  BY NatLessThanWellFounded DEF OpToRel
<1>2. PICK x \in S : \A y \in S : <<y, x>> \notin R
  BY <1>1, WFMin
<1>3. ASSUME NEW y \in S PROVE x <= y
  <2>1. <<y, x>> \in Nat \X Nat /\ <<y, x>> \notin R
    BY <1>2
  <2>2. ~(<<y, x>>[1] < <<y, x>>[2])
    BY <2>1
  <2>3. QED
    BY <2>2
<1>4. QED
  BY <1>3

LEMMA MinIsElement ==
  ASSUME NEW S \in SUBSET Nat, S # {} PROVE Min(S) \in S
  BY HasLeast DEF Min

(* The position of a path in the order, which tells it from the others.    *)
LEMMA PositionOfPath ==
  ASSUME NEW p \in Paths
  PROVE  Position(p) \in 1..Len(PathOrder) /\ PathOrder[Position(p)] = p
<1>1. \E i \in DOMAIN PathOrder : PathOrder[i] = p
  BY DEF Paths, Range
<1>2. QED
  BY <1>1, PathsAssumption DEF Position

\* A sequence of packed files, no two of them with the same path.
IsSeq(s) == \E S : s \in Seq(S)
IsPacking(fs) ==
    /\ IsSeq(fs)
    /\ \A i \in DOMAIN fs : fs[i].path \in Paths \ Unsafe
    /\ \A i, j \in DOMAIN fs : fs[i].path = fs[j].path => i = j

(* A packing is finite: as many files as positions, as many paths.         *)
LEMMA PackingIsFinite ==
  ASSUME NEW fs, IsPacking(fs)
  PROVE  /\ Len(fs) \in Nat /\ DOMAIN fs = 1..Len(fs)
         /\ IsFiniteSet(Range(fs)) /\ Cardinality(Range(fs)) = Len(fs)
         /\ Cardinality({fs[i].path : i \in DOMAIN fs}) = Len(fs)
<1>1. Len(fs) \in Nat /\ DOMAIN fs = 1..Len(fs) /\ fs = [i \in 1..Len(fs) |-> fs[i]]
  BY DEF IsPacking, IsSeq
<1> DEFINE D == 1..Len(fs)
           paths == [i \in D |-> fs[i].path]
<1>2. IsFiniteSet(D) /\ Cardinality(D) = Len(fs)
  <2>1. Len(fs) \in Nat /\ 1 \in Int /\ Len(fs) \in Int
    BY <1>1
  <2>2. QED
    BY ONLY <2>1, FS_Interval
<1>3. fs \in Surjection(D, Range(fs)) /\ fs \in Injection(D, Range(fs))
  BY <1>1 DEF Surjection, Injection, IsInjective, Range, IsPacking
<1>4. paths \in Surjection(D, {fs[i].path : i \in D}) /\ paths \in Injection(D, {fs[i].path : i \in D})
  BY <1>1 DEF Surjection, Injection, IsInjective, IsPacking
<1>5. IsFiniteSet(Range(fs)) /\ Cardinality(Range(fs)) = Len(fs)
  BY <1>2, <1>3, FS_Surjection
<1>6. Cardinality({fs[i].path : i \in D}) = Len(fs)
  <2> HIDE DEF D, paths
  <2>1. QED
    BY <1>2, <1>4, FS_Surjection
<1>7. QED
  BY <1>1, <1>5, <1>6

(* The rank of a file among the others tells it from them, and leaves no   *)
(* rank out.                                                               *)
LEMMA RanksOfFiles ==
  ASSUME NEW fs, IsPacking(fs)
  PROVE  /\ \A f, g \in Range(fs) :
               Position(f.path) < Position(g.path)
                  => Cardinality(Before(fs, f)) < Cardinality(Before(fs, g))
         /\ \A f, g \in Range(fs) : f # g =>
               \/ Position(f.path) < Position(g.path)
               \/ Position(g.path) < Position(f.path)
         /\ \A f \in Range(fs) : Cardinality(Before(fs, f)) \in 0..(Len(fs) - 1)
         /\ \A k \in 1..Len(fs) : \E f \in Range(fs) : Cardinality(Before(fs, f)) = k - 1
<1> DEFINE S == Range(fs)
           n == Len(fs)
           Rank(f) == Cardinality(Before(fs, f))
<1>1. n \in Nat /\ DOMAIN fs = 1..n /\ IsFiniteSet(S) /\ Cardinality(S) = n
  BY PackingIsFinite
<1>2. \A f \in S : f.path \in Paths /\ Position(f.path) \in Int
  BY PositionOfPath, PathsAssumption DEF Range, IsPacking
<1>3. ASSUME NEW f \in S PROVE IsFiniteSet(Before(fs, f)) /\ Rank(f) \in 0..(n - 1)
  <2>1. Before(fs, f) \in SUBSET (S \ {f})
    BY <1>2 DEF Before
  <2>2. IsFiniteSet(S \ {f}) /\ Cardinality(S \ {f}) = n - 1
    BY <1>1, FS_RemoveElement
  <2>3. IsFiniteSet(Before(fs, f)) /\ Rank(f) <= n - 1
    BY <2>1, <2>2, FS_Subset
  <2>4. Rank(f) \in Nat
    BY <2>3, FS_CardinalityType
  <2>5. QED
    BY <1>1, <2>3, <2>4
<1>4. ASSUME NEW f \in S, NEW g \in S, Position(f.path) < Position(g.path)
      PROVE  Rank(f) < Rank(g)
  <2>1. Before(fs, f) \in SUBSET Before(fs, g) /\ f \in Before(fs, g) /\ f \notin Before(fs, f)
    BY <1>2, <1>4 DEF Before
  <2>2. Rank(f) <= Rank(g) /\ (Rank(g) = Rank(f) => Before(fs, g) = Before(fs, f))
    BY <1>3, <2>1, FS_Subset
  <2>3. Rank(f) # Rank(g)
    BY <2>1, <2>2
  <2>4. QED
    BY <1>3, <2>2, <2>3
<1>5. ASSUME NEW f \in S, NEW g \in S, f # g
      PROVE  Position(f.path) < Position(g.path) \/ Position(g.path) < Position(f.path)
  <2>1. f.path # g.path
    BY <1>5 DEF Range, IsPacking
  <2>2. Position(f.path) # Position(g.path)
    BY <1>2, <2>1, PositionOfPath
  <2>3. QED
    BY <1>2, <2>2
<1>6. ASSUME NEW k \in 1..n PROVE \E f \in S : Rank(f) = k - 1
  <2> DEFINE rank == [f \in S |-> Rank(f) + 1]
  <2>1. rank \in Injection(S, 1..n)
    <3>1. \A f \in S : Rank(f) \in Int /\ Rank(f) + 1 \in 1..n
      BY <1>1, <1>3
    <3>2. \A f, g \in S : Rank(f) + 1 = Rank(g) + 1 => f = g
      BY <1>4, <1>5, <3>1
    <3>3. QED
      BY <3>1, <3>2 DEF Injection, IsInjective
  <2>2. IsFiniteSet(1..n) /\ Cardinality(1..n) = n
    BY <1>1, FS_Interval
  <2>3. rank \in Surjection(S, 1..n)
    <3> HIDE DEF rank, S, n
    <3>1. QED
      BY <1>1, <2>1, <2>2, FS_Injection
  <2>4. PICK f \in S : rank[f] = k
    BY <2>3 DEF Surjection
  <2>5. QED
    BY <1>3, <2>4
<1>7. QED
  BY <1>3, <1>4, <1>5, <1>6

(* Sorting keeps the files and puts them in the order of their paths.      *)
LEMMA SortedPermutes ==
  ASSUME NEW fs, IsPacking(fs)
  PROVE  /\ DOMAIN Sorted(fs) = 1..Len(fs)
         /\ Range(Sorted(fs)) = Range(fs)
         /\ \A j, k \in 1..Len(fs) :
               j < k => Position(Sorted(fs)[j].path) < Position(Sorted(fs)[k].path)
<1> DEFINE Rank(f) == Cardinality(Before(fs, f))
<1>1. Len(fs) \in Nat /\ DOMAIN fs = 1..Len(fs)
  BY PackingIsFinite
<1>2. ASSUME NEW k \in 1..Len(fs)
      PROVE  Sorted(fs)[k] \in Range(fs) /\ Rank(Sorted(fs)[k]) = k - 1
  <2>1. \E f \in Range(fs) : Rank(f) = k - 1
    BY RanksOfFiles
  <2>2. Sorted(fs)[k] = CHOOSE f \in Range(fs) : Rank(f) = k - 1
    BY <1>1 DEF Sorted
  <2>3. QED
    BY <2>1, <2>2
<1>3. DOMAIN Sorted(fs) = 1..Len(fs)
  BY <1>1 DEF Sorted
<1>4. ASSUME NEW f \in Range(fs) PROVE f \in Range(Sorted(fs))
  <2>1. Rank(f) \in 0..(Len(fs) - 1)
    BY RanksOfFiles
  <2>2. Rank(f) + 1 \in 1..Len(fs) /\ (Rank(f) + 1) - 1 = Rank(f)
    BY <1>1, <2>1
  <2>3. Sorted(fs)[Rank(f) + 1] \in Range(fs) /\ Rank(Sorted(fs)[Rank(f) + 1]) = Rank(f)
    BY <1>2, <2>2
  <2>4. Sorted(fs)[Rank(f) + 1] = f
    BY <2>1, <2>3, RanksOfFiles
  <2>5. QED
    BY <1>3, <2>2, <2>4 DEF Range
<1>5. Range(Sorted(fs)) \subseteq Range(fs)
  BY <1>2, <1>3 DEF Range
<1>6. ASSUME NEW j \in 1..Len(fs), NEW k \in 1..Len(fs), j < k
      PROVE  Position(Sorted(fs)[j].path) < Position(Sorted(fs)[k].path)
  <2>1. Rank(Sorted(fs)[j]) < Rank(Sorted(fs)[k])
    BY <1>1, <1>2, <1>6
  <2>2. Rank(Sorted(fs)[j]) \in Int /\ Rank(Sorted(fs)[k]) \in Int
    BY <1>1, <1>2
  <2>3. Sorted(fs)[j] \in Range(fs) /\ Sorted(fs)[k] \in Range(fs) /\ Sorted(fs)[j] # Sorted(fs)[k]
    BY <1>2, <2>1, <2>2
  <2>4. ~(Position(Sorted(fs)[k].path) < Position(Sorted(fs)[j].path))
    <3>1. Position(Sorted(fs)[k].path) < Position(Sorted(fs)[j].path)
             => Rank(Sorted(fs)[k]) < Rank(Sorted(fs)[j])
      BY <2>3, RanksOfFiles
    <3>2. QED
      BY <2>1, <2>2, <3>1
  <2>5. QED
    BY <2>3, <2>4, RanksOfFiles
<1>7. QED
  BY <1>3, <1>4, <1>5, <1>6

-----------------------------------------------------------------------------
(* The walk                                                                *)

SourcesHold == DOMAIN disk = Paths /\ \A p \in Paths : IsSource(p, disk[p]) /\ disk[p] \in Contents

\* What the walk has seen to in a text it packs.
Sound(c) == c.refs \in Seq(STRING) /\ c.size \in Nat /\ c.size <= PerFileCap /\ c.parses

PackingHolds ==
    /\ IsPacking(all) /\ all \in Seq([path : Paths, sha : Contents])
    /\ \A i \in DOMAIN all : DiskTargets(all[i].path, all[i].sha) \in Seq(Paths) /\ Sound(all[i].sha)

\* Until it fails, the walk has packed what it has visited and has still to
\* visit the rest of what that refers to.
NothingForgotten ==
    phase # "done" \/ outcome = "ok" =>
        /\ visited = PackedPaths
        /\ {Entry} \cup RefsPacked \subseteq PackedPaths \cup Range(queue)

NothingElse ==
    /\ PackedPaths \subseteq visited
    /\ PackedPaths \cup Range(queue) \subseteq {Entry} \cup RefsPacked

\* What the later phases rely on.
Shaped == phase = "write" \/ outcome = "ok" => ShapeError(Manifest(Entry, Sorted(all))) = "none"
WalkOver == phase \in {"manifest", "write"} \/ outcome = "ok" => queue = <<>>
Wrote ==
    outcome = "ok" =>
        output = [zip |-> [i \in DOMAIN all |-> ZipEntry(Sorted(all)[i].path, Sorted(all)[i].sha)],
                  manifest |-> Manifest(Entry, Sorted(all))]

Walked ==
    /\ TypeOK /\ SourcesHold /\ PackingHolds
    /\ NothingForgotten /\ NothingElse /\ WalkOver /\ Shaped /\ Wrote

(* The walk starts with the entry alone.                                   *)
LEMMA InitWalked == Init => Walked
<1> SUFFICES ASSUME Init PROVE Walked
  OBVIOUS
<1>1. TypeOK
  BY EntryAssumption DEF Init, TypeOK, Outcomes
<1>2. SourcesHold
  <2>1. \A t \in Trees : \A p \in DOMAIN t : t[p] \in Contents
    BY DEF Contents, Range
  <2>2. QED
    BY <2>1, SourcesAssumption DEF Init, SourcesHold
<1>3. DOMAIN all = {} /\ IsSeq(all)
  BY DEF Init, IsSeq
<1>4. PackingHolds
  BY <1>3 DEF PackingHolds, IsPacking
<1>5. Range(queue) = {Entry}
  BY DEF Init, Range
<1>6. PackedPaths = {} /\ RefsPacked = {}
  BY <1>3 DEF PackedPaths, RefsPacked
<1>7. NothingForgotten /\ NothingElse
  BY <1>5, <1>6 DEF Init, NothingForgotten, NothingElse
<1>8. WalkOver /\ Shaped /\ Wrote
  BY DEF Init, WalkOver, Shaped, Wrote
<1>9. QED
  BY <1>1, <1>2, <1>4, <1>7, <1>8 DEF Walked

(* The range of a queue without its head, and of one with more at its end. *)
LEMMA QueueRanges ==
  ASSUME NEW S, NEW q \in Seq(S), NEW r \in Seq(S)
  PROVE  /\ Range(q \o r) = Range(q) \cup Range(r)
         /\ q # <<>> => /\ Head(q) \in S /\ Tail(q) \in Seq(S)
                        /\ Range(q) = {Head(q)} \cup Range(Tail(q))
<1>1. Range(q \o r) = Range(q) \cup Range(r)
  <2>1. q \o r \in Seq(S) /\ Len(q \o r) = Len(q) + Len(r)
    OBVIOUS
  <2>2. \A i \in 1..Len(q) : (q \o r)[i] = q[i]
    OBVIOUS
  <2>3. \A i \in 1..Len(r) : (q \o r)[Len(q) + i] = r[i] /\ Len(q) + i \in 1..(Len(q) + Len(r))
    OBVIOUS
  <2>4. \A i \in 1..(Len(q) + Len(r)) : i \in 1..Len(q) \/ \E j \in 1..Len(r) : i = Len(q) + j
    <3> SUFFICES ASSUME NEW i \in 1..(Len(q) + Len(r)), i \notin 1..Len(q)
                 PROVE  \E j \in 1..Len(r) : i = Len(q) + j
      OBVIOUS
    <3>1. i - Len(q) \in 1..Len(r) /\ i = Len(q) + (i - Len(q))
      OBVIOUS
    <3>2. QED
      BY <3>1
  <2>5. \A i \in 1..Len(q) : i \in 1..(Len(q) + Len(r))
    OBVIOUS
  <2>6. DOMAIN (q \o r) = 1..(Len(q) + Len(r)) /\ DOMAIN q = 1..Len(q) /\ DOMAIN r = 1..Len(r)
    BY <2>1
  <2>7. \A i \in 1..(Len(q) + Len(r)) : (q \o r)[i] \in Range(q) \cup Range(r)
    <3> SUFFICES ASSUME NEW i \in 1..(Len(q) + Len(r)) PROVE (q \o r)[i] \in Range(q) \cup Range(r)
      OBVIOUS
    <3>1. CASE i \in 1..Len(q)
      BY ONLY <2>2, <2>6, <3>1 DEF Range
    <3>2. CASE \E j \in 1..Len(r) : i = Len(q) + j
      BY ONLY <2>3, <2>6, <3>2 DEF Range
    <3>3. QED
      BY <2>4, <3>1, <3>2
  <2>8. Range(q) \subseteq Range(q \o r) /\ Range(r) \subseteq Range(q \o r)
    BY ONLY <2>2, <2>3, <2>5, <2>6 DEF Range
  <2>9. Range(q \o r) \subseteq Range(q) \cup Range(r)
    BY <2>6, <2>7 DEF Range
  <2>10. QED
    BY <2>8, <2>9
<1>2. ASSUME q # <<>>
      PROVE  Head(q) \in S /\ Tail(q) \in Seq(S) /\ Range(q) = {Head(q)} \cup Range(Tail(q))
  <2>1. Head(q) = q[1] /\ Tail(q) \in Seq(S) /\ Len(Tail(q)) = Len(q) - 1 /\ Len(q) >= 1
    BY <1>2
  <2>2. \A i \in 1..(Len(q) - 1) : Tail(q)[i] = q[i + 1]
    BY <1>2
  <2>3. DOMAIN q = 1..Len(q) /\ DOMAIN Tail(q) = 1..(Len(q) - 1)
    BY <2>1
  <2>4. \A i \in 1..Len(q) : i = 1 \/ (i - 1 \in 1..(Len(q) - 1) /\ i = (i - 1) + 1)
    OBVIOUS
  <2>5. 1 \in 1..Len(q) /\ \A i \in 1..(Len(q) - 1) : i + 1 \in 1..Len(q)
    BY <2>1
  <2>6. Range(q) \subseteq {Head(q)} \cup Range(Tail(q))
    <3> SUFFICES ASSUME NEW i \in 1..Len(q) PROVE q[i] \in {Head(q)} \cup Range(Tail(q))
      BY <2>3 DEF Range
    <3>1. CASE i = 1
      BY <2>1, <3>1
    <3>2. CASE i - 1 \in 1..(Len(q) - 1) /\ i = (i - 1) + 1
      <4>1. Tail(q)[i - 1] = q[i]
        BY <2>2, <3>2
      <4>2. QED
        BY <2>3, <3>2, <4>1 DEF Range
    <3>3. QED
      BY <2>4, <3>1, <3>2
  <2>7. Range(Tail(q)) \subseteq Range(q) /\ Head(q) \in Range(q)
    BY ONLY <2>1, <2>2, <2>3, <2>5 DEF Range
  <2>8. QED
    BY <2>1, <2>5, <2>6, <2>7
<1>3. QED
  BY <1>1, <1>2

(* One more file.                                                          *)
LEMMA OneMoreFile ==
  ASSUME NEW fs, IsSeq(fs), NEW f
  PROVE  /\ IsSeq(Append(fs, f))
         /\ DOMAIN Append(fs, f) = DOMAIN fs \cup {Len(fs) + 1}
         /\ Len(fs) + 1 \notin DOMAIN fs
         /\ \A i \in DOMAIN fs : Append(fs, f)[i] = fs[i]
         /\ Append(fs, f)[Len(fs) + 1] = f
<1>1. PICK S : fs \in Seq(S)
  BY DEF IsSeq
<1>2. fs \in Seq(S \cup {f}) /\ f \in S \cup {f}
  BY <1>1
<1>3. Append(fs, f) \in Seq(S \cup {f}) /\ Len(Append(fs, f)) = Len(fs) + 1
  BY <1>2
<1>4. Len(fs) \in Nat /\ DOMAIN fs = 1..Len(fs)
  BY <1>1
<1>5. 1..(Len(fs) + 1) = (1..Len(fs)) \cup {Len(fs) + 1} /\ Len(fs) + 1 \notin 1..Len(fs)
  BY <1>4
<1>6. DOMAIN Append(fs, f) = 1..(Len(fs) + 1)
  BY <1>3
<1>7. \A i \in 1..Len(fs) : Append(fs, f)[i] = fs[i]
  BY <1>2
<1>8. Append(fs, f)[Len(fs) + 1] = f
  BY <1>2
<1>9. QED
  BY <1>3, <1>4, <1>5, <1>6, <1>7, <1>8 DEF IsSeq

(* A file without fault is a file to pack.                                 *)
LEMMA NoSourceError ==
  ASSUME SourcesHold, NEW p \in Paths, SourceError(p) = "none"
  PROVE  p \notin Unsafe /\ DiskTargets(p, disk[p]) \in Seq(Paths) /\ Sound(disk[p]) /\ disk[p] \in Contents
<1>1. /\ disk[p] # Missing /\ disk[p] # Symlink /\ p \notin Unsafe
      /\ Escapes \notin Range(DiskTargets(p, disk[p]))
  BY DEF SourceError
<1> DEFINE t == DiskTargets(p, disk[p])
<1>2. t \in Seq(Paths \cup {Escapes})
  BY <1>1 DEF SourcesHold, IsSource
<1>3. \A i \in 1..Len(t) : t[i] \in Paths
  <2> HIDE DEF t
  <2>1. \A i \in 1..Len(t) : t[i] \in Paths \cup {Escapes} /\ t[i] # Escapes
    BY <1>1, <1>2 DEF Range, t
  <2>2. QED
    BY <2>1
<1>4. t \in Seq(Paths)
  <2> HIDE DEF t
  <2>1. Len(t) \in Nat /\ t = [i \in 1..Len(t) |-> t[i]]
    BY <1>2
  <2>2. t \in [1..Len(t) -> Paths]
    BY <1>3, <2>1
  <2>3. QED
    BY <2>1, <2>2
<1>5. Sound(disk[p])
  <2>1. disk[p].refs \in Seq(STRING) /\ disk[p].size \in Nat
    BY <1>1 DEF SourcesHold, IsSource
  <2>2. ~(disk[p].size > PerFileCap) /\ disk[p].parses
    BY <1>1 DEF SourceError
  <2>3. PerFileCap \in Nat
    BY CapsAssumption
  <2>4. QED
    BY <2>1, <2>2, <2>3 DEF Sound
<1>6. QED
  BY <1>1, <1>4, <1>5 DEF SourcesHold

(* What is wrong with a file is an error that Pack returns.                *)
LEMMA SourceErrors == \A p : SourceError(p) \in Outcomes \ {"ok"}
  BY Zenon DEF SourceError, Outcomes

(* A visit of a file already visited, of a faulty one, and of a good one.  *)
LEMMA VisitAgain ==
  ASSUME Walked, VisitNext, Head(queue) \in visited PROVE Walked'
<1>1. /\ phase = "walk" /\ queue # <<>> /\ queue' = Tail(queue)
      /\ UNCHANGED <<phase, outcome, visited, all, disk, output, edits>>
  BY DEF VisitNext
<1>2. queue \in Seq(Paths) /\ outcome = "none"
  BY <1>1 DEF Walked, TypeOK
<1>3. /\ Tail(queue) \in Seq(Paths) /\ Range(queue) = {Head(queue)} \cup Range(Tail(queue))
  BY <1>1, <1>2, QueueRanges
<1>4. TypeOK'
  BY <1>1, <1>3 DEF Walked, TypeOK
<1>5. SourcesHold' /\ PackingHolds'
  BY <1>1 DEF Walked, SourcesHold, PackingHolds
<1>6. PackedPaths' = PackedPaths /\ RefsPacked' = RefsPacked
  BY <1>1 DEF PackedPaths, RefsPacked
<1>7. NothingForgotten' /\ NothingElse'
  BY <1>1, <1>3, <1>6 DEF Walked, NothingForgotten, NothingElse
<1>8. WalkOver' /\ Shaped' /\ Wrote'
  BY <1>1, <1>2 DEF WalkOver, Shaped, Wrote
<1>9. QED
  BY <1>4, <1>5, <1>7, <1>8 DEF Walked

LEMMA VisitFaulty ==
  ASSUME Walked, VisitNext, Head(queue) \notin visited, SourceError(Head(queue)) # "none"
  PROVE  Walked'
<1>1. /\ phase = "walk" /\ queue # <<>> /\ phase' = "done" /\ outcome' = SourceError(Head(queue))
      /\ visited' = visited \cup {Head(queue)} /\ UNCHANGED <<queue, all, disk, output, edits>>
  BY DEF VisitNext, Quit
<1>2. queue \in Seq(Paths) /\ Head(queue) \in Paths
  BY <1>1, QueueRanges DEF Walked, TypeOK
<1>3. outcome' \in Outcomes /\ outcome' # "ok" /\ outcome' # "none"
  BY <1>1, SourceErrors
<1>4. TypeOK'
  BY <1>1, <1>2, <1>3 DEF Walked, TypeOK
<1>5. SourcesHold' /\ PackingHolds'
  BY <1>1 DEF Walked, SourcesHold, PackingHolds
<1>6. PackedPaths' = PackedPaths /\ RefsPacked' = RefsPacked
  BY <1>1 DEF PackedPaths, RefsPacked
<1>7. NothingForgotten' /\ NothingElse' /\ WalkOver' /\ Shaped' /\ Wrote'
  BY <1>1, <1>3, <1>6 DEF Walked, NothingForgotten, NothingElse, WalkOver, Shaped, Wrote
<1>8. QED
  BY <1>4, <1>5, <1>7 DEF Walked

LEMMA VisitGood ==
  ASSUME Walked, VisitNext, Head(queue) \notin visited, SourceError(Head(queue)) = "none"
  PROVE  Walked'
<1> DEFINE cur == Head(queue)
           f == File(cur, disk[cur])
<1>1. /\ phase = "walk" /\ queue # <<>> /\ visited' = visited \cup {cur}
      /\ all' = Append(all, f) /\ queue' = Tail(queue) \o DiskTargets(cur, disk[cur])
      /\ UNCHANGED <<phase, outcome, disk, output, edits>>
  BY DEF VisitNext
<1>2. queue \in Seq(Paths) /\ outcome = "none" /\ visited \subseteq Paths
  BY <1>1 DEF Walked, TypeOK
<1>3. /\ cur \in Paths /\ Tail(queue) \in Seq(Paths) /\ Range(queue) = {cur} \cup Range(Tail(queue))
  BY <1>1, <1>2, QueueRanges
<1>4. /\ cur \notin Unsafe /\ DiskTargets(cur, disk[cur]) \in Seq(Paths)
      /\ Sound(disk[cur]) /\ disk[cur] \in Contents
  BY <1>3, NoSourceError DEF Walked
<1>5. queue' \in Seq(Paths) /\ Range(queue') = Range(Tail(queue)) \cup Range(DiskTargets(cur, disk[cur]))
  <2> DEFINE t == DiskTargets(cur, disk[cur])
             q == Tail(queue)
  <2>1. q \in Seq(Paths) /\ t \in Seq(Paths) /\ queue' = q \o t
    BY <1>1, <1>3, <1>4
  <2> HIDE DEF t, q
  <2>2. Range(q \o t) = Range(q) \cup Range(t)
    BY <2>1, QueueRanges
  <2>3. q \o t \in Seq(Paths)
    BY <2>1
  <2>4. QED
    BY <2>1, <2>2, <2>3 DEF t, q
<1>6. f.path = cur /\ f.sha = disk[cur]
  BY DEF File
<1>7. /\ IsSeq(all') /\ DOMAIN all' = DOMAIN all \cup {Len(all) + 1} /\ Len(all) + 1 \notin DOMAIN all
      /\ \A i \in DOMAIN all : all'[i] = all[i]
      /\ all'[Len(all) + 1] = f
  BY <1>1, OneMoreFile DEF Walked, PackingHolds, IsPacking
<1>8. /\ PackedPaths' = PackedPaths \cup {cur}
      /\ RefsPacked' = RefsPacked \cup Range(DiskTargets(cur, disk[cur]))
  <2> HIDE DEF f, cur
  <2>1. PackedPaths' = PackedPaths \cup {cur}
    BY <1>6, <1>7 DEF PackedPaths
  <2>2. RefsPacked' = RefsPacked \cup Range(DiskTargets(cur, disk[cur]))
    BY <1>6, <1>7 DEF RefsPacked
  <2>3. QED
    BY <2>1, <2>2
<1> HIDE DEF f, cur
<1>9. PackingHolds'
  <2>1. \A i \in DOMAIN all : all[i].path # cur
    BY DEF Walked, NothingElse, PackedPaths, cur
  <2>2. \A i \in DOMAIN all' : all'[i].path \in Paths \ Unsafe
    BY <1>3, <1>4, <1>6, <1>7 DEF Walked, PackingHolds, IsPacking
  <2>3. \A i, j \in DOMAIN all' : all'[i].path = all'[j].path => i = j
    BY <1>6, <1>7, <2>1 DEF Walked, PackingHolds, IsPacking
  <2>4. \A i \in DOMAIN all' : DiskTargets(all'[i].path, all'[i].sha) \in Seq(Paths) /\ Sound(all'[i].sha)
    BY <1>4, <1>6, <1>7 DEF Walked, PackingHolds
  <2>5. all' \in Seq([path : Paths, sha : Contents])
    <3>1. f \in [path : Paths, sha : Contents]
      BY <1>3, <1>4 DEF f, File
    <3>2. all \in Seq([path : Paths, sha : Contents])
      BY DEF Walked, PackingHolds
    <3>3. QED
      BY <1>1, <3>1, <3>2
  <2>6. QED
    BY <1>7, <2>2, <2>3, <2>4, <2>5 DEF PackingHolds, IsPacking
<1>10. TypeOK'
  BY <1>1, <1>2, <1>3, <1>5, <1>9 DEF Walked, TypeOK, PackingHolds, IsPacking
<1>11. SourcesHold' /\ WalkOver' /\ Shaped' /\ Wrote'
  BY <1>1, <1>2 DEF Walked, SourcesHold, WalkOver, Shaped, Wrote
<1>12. NothingForgotten'
  BY <1>1, <1>3, <1>5, <1>8 DEF Walked, NothingForgotten
<1>13. NothingElse'
  BY <1>1, <1>3, <1>5, <1>8 DEF Walked, NothingElse
<1>14. QED
  BY <1>9, <1>10, <1>11, <1>12, <1>13 DEF Walked

(* The end of the walk.                                                    *)
LEMMA WalkEndsWalked == Walked /\ WalkEnds => Walked'
<1> SUFFICES ASSUME Walked, WalkEnds PROVE Walked'
  OBVIOUS
<1>1. /\ phase = "walk" /\ queue = <<>> /\ phase' = "manifest"
      /\ UNCHANGED <<disk, outcome, queue, visited, all, output, edits>>
  BY DEF WalkEnds
<1>2. outcome = "none"
  BY <1>1 DEF Walked, TypeOK
<1>3. TypeOK' /\ SourcesHold' /\ PackingHolds' /\ WalkOver' /\ Shaped' /\ Wrote'
  BY <1>1, <1>2 DEF Walked, TypeOK, SourcesHold, PackingHolds, WalkOver, Shaped, Wrote
<1>4. PackedPaths' = PackedPaths /\ RefsPacked' = RefsPacked
  BY <1>1 DEF PackedPaths, RefsPacked
<1>5. NothingForgotten' /\ NothingElse'
  BY <1>1, <1>4 DEF Walked, NothingForgotten, NothingElse
<1>6. QED
  BY <1>3, <1>5 DEF Walked

(* The manifest of a walk has no fault but that of two paths that are the  *)
(* same on a file system that ignores case: an entry, no unsafe path, and  *)
(* at least one file.                                                      *)
LEMMA ManifestErrors ==
  ASSUME Walked, phase = "manifest"
  PROVE  ShapeError(Manifest(Entry, Sorted(all))) \in {"none", "ManifestInvalid"}
<1> DEFINE m == Manifest(Entry, Sorted(all))
<1>1. IsPacking(all) /\ queue = <<>> /\ visited = PackedPaths
  BY DEF Walked, PackingHolds, WalkOver, NothingForgotten
<1>2. Entry \in PackedPaths
  <2>1. Range(queue) = {}
    BY <1>1 DEF Range
  <2>2. QED
    BY <2>1 DEF Walked, NothingForgotten
<1>3. m.version = 1 /\ m.entry = Entry /\ m.files = Sorted(all)
  BY DEF Manifest
<1>4. DOMAIN Sorted(all) = 1..Len(all) /\ Range(Sorted(all)) = Range(all)
  BY <1>1, SortedPermutes
<1>5. PathsOf(m) = PackedPaths
  <2>1. PathsOf(m) = {f.path : f \in Range(Sorted(all))}
    BY <1>3 DEF PathsOf, Range
  <2>2. PackedPaths = {f.path : f \in Range(all)}
    BY DEF PackedPaths, Range
  <2>3. QED
    BY <1>4, <2>1, <2>2
<1>6. \A i \in DOMAIN m.files : m.files[i].path \notin Unsafe
  <2>1. \A f \in Range(all) : f.path \notin Unsafe
    BY <1>1 DEF IsPacking, Range
  <2>2. \A i \in DOMAIN Sorted(all) : Sorted(all)[i] \in Range(all)
    BY <1>4 DEF Range
  <2>3. QED
    BY <1>3, <2>1, <2>2
<1>7. Entry \notin Unsafe
  BY <1>1, <1>2 DEF IsPacking, PackedPaths
<1>8. FaultyFiles(m) # {} => Min(FaultyFiles(m)) \in DOMAIN m.files
  <2>1. FaultyFiles(m) \in SUBSET (1..Len(all)) /\ Len(all) \in Nat
    BY <1>1, <1>3, <1>4, PackingIsFinite DEF FaultyFiles
  <2>2. FaultyFiles(m) \in SUBSET Nat
    BY <2>1
  <2>3. QED
    BY <1>3, <1>4, <2>1, <2>2, MinIsElement
<1> HIDE DEF m
<1>9. ShapeError(m) \in {"none", "ManifestInvalid"}
  BY <1>2, <1>3, <1>5, <1>6, <1>7, <1>8 DEF ShapeError
<1>10. QED
  BY <1>9 DEF m

LEMMA BuildManifestWalked == Walked /\ BuildManifest => Walked'
<1> SUFFICES ASSUME Walked, BuildManifest PROVE Walked'
  OBVIOUS
<1> DEFINE error == ShapeError(Manifest(Entry, Sorted(all)))
<1>1. /\ phase = "manifest" /\ UNCHANGED <<disk, queue, visited, all, output, edits>>
      /\ \/ error = "none" /\ phase' = "write" /\ UNCHANGED outcome
         \/ error # "none" /\ phase' = "done" /\ outcome' = error
  BY DEF BuildManifest, Quit
<1>2. outcome = "none" /\ error \in {"none", "ManifestInvalid"} /\ queue = <<>>
  BY <1>1, ManifestErrors DEF Walked, TypeOK, WalkOver
<1>3. Shaped'
  BY <1>1, <1>2 DEF Shaped
<1> HIDE DEF error
<1>4. TypeOK' /\ SourcesHold' /\ PackingHolds' /\ WalkOver' /\ Wrote'
  <2>1. TypeOK'
    BY <1>1, <1>2 DEF Walked, TypeOK, Outcomes
  <2>2. QED
    BY <1>1, <1>2, <2>1 DEF Walked, SourcesHold, PackingHolds, WalkOver, Wrote
<1>5. PackedPaths' = PackedPaths /\ RefsPacked' = RefsPacked
  BY <1>1 DEF PackedPaths, RefsPacked
<1>6. NothingForgotten' /\ NothingElse'
  BY <1>1, <1>2, <1>5 DEF Walked, NothingForgotten, NothingElse
<1>7. QED
  BY <1>3, <1>4, <1>6 DEF Walked

LEMMA WriteBundleWalked == Walked /\ WriteBundle => Walked'
<1> SUFFICES ASSUME Walked, WriteBundle PROVE Walked'
  OBVIOUS
<1>1. /\ phase = "write" /\ phase' = "done" /\ outcome' = "ok"
      /\ output' = [zip |-> [i \in DOMAIN all |-> ZipEntry(Sorted(all)[i].path, Sorted(all)[i].sha)],
                    manifest |-> Manifest(Entry, Sorted(all))]
      /\ UNCHANGED <<disk, queue, visited, all, edits>>
  BY DEF WriteBundle, Quit
<1>2. queue = <<>>
  BY <1>1 DEF Walked, WalkOver
<1>3. TypeOK'
  BY <1>1 DEF Walked, TypeOK, Outcomes
<1>4. SourcesHold' /\ PackingHolds' /\ WalkOver' /\ Shaped'
  BY <1>1, <1>2 DEF Walked, SourcesHold, PackingHolds, WalkOver, Shaped
<1>5. Wrote'
  BY <1>1 DEF Wrote, Sorted, Before
<1>6. PackedPaths' = PackedPaths /\ RefsPacked' = RefsPacked
  BY <1>1 DEF PackedPaths, RefsPacked
<1>7. NothingForgotten' /\ NothingElse'
  BY <1>1, <1>2, <1>6 DEF Walked, NothingForgotten, NothingElse
<1>8. QED
  BY <1>3, <1>4, <1>5, <1>7 DEF Walked

(* Cancelled, and while somebody edits the sources.                        *)
LEMMA PackCancelledWalked == Walked /\ PackCancelled => Walked'
<1> SUFFICES ASSUME Walked, PackCancelled PROVE Walked'
  OBVIOUS
<1>1. /\ phase' = "done" /\ outcome' = "Cancelled"
      /\ UNCHANGED <<disk, queue, visited, all, output, edits>>
  BY DEF PackCancelled, Quit
<1>2. TypeOK'
  BY <1>1 DEF Walked, TypeOK, Outcomes
<1>3. PackedPaths' = PackedPaths /\ RefsPacked' = RefsPacked
  BY <1>1 DEF PackedPaths, RefsPacked
<1>4. QED
  BY <1>1, <1>2, <1>3
     DEF Walked, SourcesHold, PackingHolds, NothingForgotten, NothingElse, WalkOver, Shaped, Wrote

LEMMA EditWalked == Walked /\ Edit => Walked'
<1> SUFFICES ASSUME Walked, Edit PROVE Walked'
  OBVIOUS
<1>1. PICK p \in Paths : \E c \in EditsOf[p] :
         /\ disk' = [disk EXCEPT ![p] = c] /\ edits' = edits + 1
         /\ UNCHANGED <<phase, outcome, queue, visited, all, output>>
  BY DEF Edit
<1>2. TypeOK'
  BY <1>1 DEF Walked, TypeOK
<1>3. SourcesHold'
  <2>1. EditsOf[p] \subseteq Contents
    BY DEF Contents
  <2>2. QED
    BY <1>1, <2>1, SourcesAssumption DEF Walked, SourcesHold
<1>4. PackedPaths' = PackedPaths /\ RefsPacked' = RefsPacked
  BY <1>1 DEF PackedPaths, RefsPacked
<1>5. PackingHolds' /\ NothingForgotten' /\ NothingElse' /\ WalkOver' /\ Shaped'
  BY <1>1, <1>4 DEF Walked, PackingHolds, NothingForgotten, NothingElse, WalkOver, Shaped
<1>6. Wrote'
  BY <1>1 DEF Walked, Wrote
<1>7. QED
  BY <1>2, <1>3, <1>5, <1>6 DEF Walked

LEMMA StutterWalked == Walked /\ UNCHANGED vars => Walked'
<1> SUFFICES ASSUME Walked, UNCHANGED vars PROVE Walked'
  OBVIOUS
<1>1. UNCHANGED <<disk, phase, outcome, queue, visited, all, output, edits>>
  BY DEF vars
<1>2. PackedPaths' = PackedPaths /\ RefsPacked' = RefsPacked
  BY <1>1 DEF PackedPaths, RefsPacked
<1>3. QED
  BY <1>1, <1>2
     DEF Walked, TypeOK, SourcesHold, PackingHolds, NothingForgotten, NothingElse, WalkOver, Shaped, Wrote

LEMMA NextWalked == Walked /\ [Next]_vars => Walked'
<1> SUFFICES ASSUME Walked, [Next]_vars PROVE Walked'
  OBVIOUS
<1>1. CASE VisitNext
  BY <1>1, VisitAgain, VisitFaulty, VisitGood
<1>2. CASE WalkEnds
  BY <1>2, WalkEndsWalked
<1>3. CASE BuildManifest
  BY <1>3, BuildManifestWalked
<1>4. CASE WriteBundle
  BY <1>4, WriteBundleWalked
<1>5. CASE PackCancelled
  BY <1>5, PackCancelledWalked
<1>6. CASE Edit
  BY <1>6, EditWalked
<1>7. CASE UNCHANGED vars
  BY <1>7, StutterWalked
<1>8. QED
  BY <1>1, <1>2, <1>3, <1>4, <1>5, <1>6, <1>7 DEF Next, PackStep

(* The inductive invariant of the walk.                                    *)
THEOREM WalkHolds == Spec => []Walked
<1>1. Init => Walked
  BY InitWalked
<1>2. Walked /\ [Next]_vars => Walked'
  BY NextWalked
<1>3. QED
  BY <1>1, <1>2, PTL DEF Spec

-----------------------------------------------------------------------------
(* What follows                                                            *)

(* Pack's variables keep their types, whatever the tree and the edits: in  *)
(* particular verifyManifestShape finds nothing in Pack's own manifest but *)
(* two names that differ in case only (helpers.go:456, manifest.go).       *)
THEOREM PackTypes == Spec => []TypeOK
<1>1. Walked => TypeOK
  BY DEF Walked
<1>2. QED
  BY <1>1, WalkHolds, PTL

LEMMA WrittenIsClosure == Walked => BundleIsClosure
<1> SUFFICES ASSUME Walked, outcome = "ok" PROVE BundleIsClosure
  BY DEF BundleIsClosure
<1>1. IsPacking(all) /\ queue = <<>>
  BY DEF Walked, PackingHolds, WalkOver
<1>2. /\ output.zip = [i \in DOMAIN all |-> ZipEntry(Sorted(all)[i].path, Sorted(all)[i].sha)]
      /\ output.manifest = Manifest(Entry, Sorted(all))
  BY DEF Walked, Wrote
<1>3. PackedPaths = {Entry} \cup RefsPacked
  <2>1. Range(queue) = {}
    BY <1>1 DEF Range
  <2>2. QED
    BY <2>1 DEF Walked, NothingForgotten, NothingElse
<1>4. /\ Cardinality(PackedPaths) = Len(all) /\ Len(all) \in Nat
      /\ DOMAIN all = 1..Len(all)
  BY <1>1, PackingIsFinite DEF PackedPaths
<1>5. DOMAIN Sorted(all) = 1..Len(all) /\ Range(Sorted(all)) = Range(all)
  BY <1>1, SortedPermutes
<1>6. output.manifest.entry = Entry /\ output.manifest.files = Sorted(all)
  BY <1>2 DEF Manifest
<1>7. PathsOf(output.manifest) = PackedPaths
  <2>1. PathsOf(output.manifest) = {f.path : f \in Range(Sorted(all))}
    BY <1>6 DEF PathsOf, Range
  <2>2. PackedPaths = {f.path : f \in Range(all)}
    BY DEF PackedPaths, Range
  <2>3. QED
    BY <1>5, <2>1, <2>2
<1>8. DigestsMatch
  <2>1. DOMAIN output.zip = 1..Len(all)
    BY <1>2, <1>4
  <2>2. \A i \in DOMAIN output.zip :
           output.zip[i].name = Sorted(all)[i].path /\ output.zip[i].content = Sorted(all)[i].sha
    BY <1>2 DEF ZipEntry
  <2>3. Len(output.zip) = Len(all) /\ Len(Sorted(all)) = Len(all)
    BY <1>4, <1>5, <2>1
  <2>4. QED
    BY <1>6, <2>2, <2>3 DEF DigestsMatch
<1>9. QED
  BY <1>3, <1>4, <1>6, <1>7, <1>8 DEF BundleIsClosure

(* "Walks every transitively-reachable subgraph ref" (dipx.go:226): a      *)
(* bundle that Pack wrote has the entry, what its files refer to, and      *)
(* nothing else, each file once and with the digest of the bytes written,  *)
(* however long the walk was and whatever was edited meanwhile.            *)
THEOREM PackedIsClosure == Spec => []BundleIsClosure
<1>1. Walked => BundleIsClosure
  BY WrittenIsClosure
<1>2. QED
  BY <1>1, WalkHolds, PTL

-----------------------------------------------------------------------------
(* Open reads what Pack wrote                                              *)

(* The operators that Open's module has a copy of.                         *)
LEMMA OpenOperators ==
  /\ O!Paths = Paths /\ O!Escapes = Escapes
  /\ \A m : O!PathsOf(m) = PathsOf(m) /\ O!ShapeError(m) = ShapeError(m)
  /\ \A p, c : O!RefTargets(p, c) = RefTargets(p, c)
  /\ \A s : O!Range(s) = Range(s)
<1>1. \A s : O!Range(s) = Range(s)
  BY DEF O!Range, Range
<1>2. O!Paths = Paths /\ O!Escapes = Escapes
  BY <1>1 DEF O!Paths, Paths, O!Escapes, Escapes
<1>3. \A m : O!PathsOf(m) = PathsOf(m)
  BY DEF O!PathsOf, PathsOf
<1>4. \A m : O!ShapeError(m) = ShapeError(m)
  <2>1. \A m : O!FaultyFiles(m) = FaultyFiles(m)
    BY DEF O!FaultyFiles, FaultyFiles
  <2>2. \A S : O!Min(S) = Min(S)
    BY DEF O!Min, Min
  <2>3. QED
    BY <1>3, <2>1, <2>2 DEF O!ShapeError, ShapeError
<1>5. \A p, c : O!RefTargets(p, c) = RefTargets(p, c)
  BY DEF O!RefTargets, RefTargets
<1>6. QED
  BY <1>1, <1>2, <1>3, <1>4, <1>5

\* The files in the order in which they are written.
Written == Sorted(all)

\* A written bundle: a manifest without fault and one entry for each file of it.
WellWritten ==
    /\ Len(all) \in Nat /\ DOMAIN all = 1..Len(all)
    /\ Written \in Seq([path : Paths, sha : Contents]) /\ Len(Written) = Len(all)
    /\ \A i \in 1..Len(all) : Written[i] \in Range(all)
    /\ O!manifest = Manifest(Entry, Written) /\ O!manifest # NoManifest
    /\ O!ShapeError(O!manifest) = "none"
    /\ Len(output.zip) = Len(all) /\ DOMAIN output.zip = 1..Len(all)
    /\ \A i \in 1..Len(all) : output.zip[i].name = Written[i].path /\ output.zip[i].content = Written[i].sha
    /\ O!Listed = PackedPaths /\ O!Listed = {Written[i].path : i \in 1..Len(all)}
    /\ \A i, j \in 1..Len(all) : Written[i].path = Written[j].path => i = j
    /\ \A i \in 1..Len(all) : Sound(Written[i].sha)

LEMMA BundleIsWellWritten ==
  ASSUME Walked, outcome = "ok"
  PROVE  WellWritten
<1>1. /\ IsPacking(all) /\ all \in Seq([path : Paths, sha : Contents])
      /\ \A i \in DOMAIN all : Sound(all[i].sha)
  BY DEF Walked, PackingHolds
<1>2. /\ output.zip = [i \in DOMAIN all |-> ZipEntry(Written[i].path, Written[i].sha)]
      /\ output.manifest = Manifest(Entry, Written) /\ ShapeError(Manifest(Entry, Written)) = "none"
  BY DEF Walked, Wrote, Shaped, Written
<1>3. Len(all) \in Nat /\ DOMAIN all = 1..Len(all)
  BY <1>1
<1>4. /\ DOMAIN Written = 1..Len(all) /\ Range(Written) = Range(all)
      /\ \A j, k \in 1..Len(all) : j < k => Position(Written[j].path) < Position(Written[k].path)
  BY <1>1, SortedPermutes DEF Written
<1>5. \A i \in 1..Len(all) : Written[i] \in Range(all)
  BY <1>4 DEF Range
<1>6. /\ Written \in Seq([path : Paths, sha : Contents]) /\ Len(Written) = Len(all)
      /\ \A i \in 1..Len(all) : Written[i] \in [path : Paths, sha : Contents]
  <2> DEFINE S == [path : Paths, sha : Contents]
  <2>1. all \in Seq(S)
    BY <1>1
  <2>2. Written = [i \in 1..Len(all) |-> Written[i]]
    BY <1>3 DEF Written, Sorted
  <2> HIDE DEF S
  <2>3. \A f \in Range(all) : f \in S
    BY <1>3, <2>1 DEF Range
  <2>4. Written \in [1..Len(all) -> S]
    BY <1>5, <2>2, <2>3
  <2>5. Written \in Seq(S) /\ Len(Written) = Len(all)
    BY <1>3, <2>4
  <2>6. \A i \in 1..Len(all) : Written[i] \in S
    BY <2>4
  <2>7. QED
    BY <2>5, <2>6 DEF S
<1>7. O!manifest = Manifest(Entry, Written) /\ O!ShapeError(O!manifest) = "none"
  BY <1>2, OpenOperators DEF O!manifest
<1>8. O!manifest # NoManifest
  <2>1. Manifest(Entry, Written) \in [version : {1}, entry : Paths, files : Seq([path : Paths, sha : Contents])]
    BY <1>6, EntryAssumption DEF Manifest
  <2>2. QED
    BY <1>7, <2>1, MarkerAssumption
<1>9. Len(output.zip) = Len(all) /\ DOMAIN output.zip = 1..Len(all)
  BY <1>2, <1>3
<1>10. \A i \in 1..Len(all) : output.zip[i].name = Written[i].path /\ output.zip[i].content = Written[i].sha
  BY <1>2, <1>3 DEF ZipEntry
<1>11. O!Listed = PackedPaths /\ O!Listed = {Written[i].path : i \in 1..Len(all)}
  <2>1. O!Listed = {Written[i].path : i \in DOMAIN Written}
    BY <1>7 DEF O!Listed, O!PathsOf, Manifest
  <2>2. {Written[i].path : i \in DOMAIN Written} = {f.path : f \in Range(Written)}
    BY DEF Range
  <2>3. PackedPaths = {f.path : f \in Range(all)}
    BY DEF PackedPaths, Range
  <2>4. QED
    BY <1>4, <2>1, <2>2, <2>3
<1>12. \A i, j \in 1..Len(all) : Written[i].path = Written[j].path => i = j
  <2> SUFFICES ASSUME NEW i \in 1..Len(all), NEW j \in 1..Len(all), Written[i].path = Written[j].path, i # j
               PROVE  FALSE
    OBVIOUS
  <2>1. Position(Written[i].path) = Position(Written[j].path) /\ Position(Written[i].path) \in Nat
    <3>1. Written[i].path \in Paths
      <4>1. Written[i] \in [path : Paths, sha : Contents]
        BY <1>6
      <4>2. QED
        BY <4>1
    <3>2. Len(PathOrder) \in Nat
      BY PathsAssumption
    <3>3. QED
      BY <3>1, <3>2, PositionOfPath
  <2>2. i < j \/ j < i
    BY <1>3
  <2>3. QED
    BY <1>4, <2>1, <2>2
<1>13. \A i \in 1..Len(all) : Sound(Written[i].sha)
  <2>1. \A f \in Range(all) : Sound(f.sha)
    BY <1>1 DEF Range
  <2>2. QED
    BY <1>5, <2>1
<1>14. QED
  BY <1>3, <1>5, <1>6, <1>7, <1>8, <1>9, <1>10, <1>11, <1>12, <1>13 DEF WellWritten

(* The zip has one entry for each listed file, and no two names are alike. *)
LEMMA EntriesAreFiles ==
  ASSUME WellWritten
  PROVE  /\ \A i \in 1..Len(all) : /\ O!EntriesNamed(Written[i].path) = {i}
                                   /\ O!ContentOf(Written[i].path) = Written[i].sha
         /\ \A i, j \in 1..Len(all) : i < j => Fold(Written[i].path) # Fold(Written[j].path)
         /\ O!files = Written /\ Len(O!files) = Len(all)
<1>1. ASSUME NEW i \in 1..Len(all)
      PROVE  O!EntriesNamed(Written[i].path) = {i} /\ O!ContentOf(Written[i].path) = Written[i].sha
  <2>1. O!EntriesNamed(Written[i].path) = {i}
    BY DEF WellWritten, O!EntriesNamed
  <2>2. QED
    BY <2>1 DEF WellWritten, O!ContentOf
<1>2. ASSUME NEW i \in 1..Len(all), NEW j \in 1..Len(all), i < j
      PROVE  Fold(Written[i].path) # Fold(Written[j].path)
  <2> DEFINE m == Manifest(Entry, Written)
  <2>1. ShapeError(m) = "none" /\ DOMAIN m.files = 1..Len(all) /\ m.files = Written
    BY OpenOperators DEF WellWritten, Manifest
  <2>2. FaultyFiles(m) = {}
    BY <2>1 DEF ShapeError
  <2>3. j \in DOMAIN m.files /\ i \in 1..(j - 1)
    BY <1>2, <2>1 DEF WellWritten
  <2> HIDE DEF m
  <2>4. QED
    BY <2>1, <2>2, <2>3 DEF FaultyFiles
<1>3. O!files = Written
  BY DEF WellWritten, O!files, Manifest
<1>4. QED
  BY <1>1, <1>2, <1>3 DEF WellWritten

(* The total of a list, element by element.                                *)
LEMMA RunningTotal ==
  ASSUME NEW N \in Nat, NEW s \in [1..N -> Nat]
  PROVE  \E f \in [0..N -> Nat] : f[0] = 0 /\ \A k \in 1..N : f[k] = f[k - 1] + s[k]
<1> DEFINE Adds(f, m) == f[0] = 0 /\ \A k \in 1..m : f[k] = f[k - 1] + s[k]
           Good(m) == \E f \in [0..m -> Nat] : Adds(f, m)
           bad == {m \in 0..N : ~Good(m)}
<1>1. Good(0)
  <2> DEFINE f == [k \in 0..0 |-> 0]
  <2>1. f \in [0..0 -> Nat] /\ f[0] = 0 /\ 1..0 = {}
    OBVIOUS
  <2>2. QED
    BY <2>1
<1>2. ASSUME NEW m \in 1..N, Good(m - 1) PROVE Good(m)
  <2>1. PICK g \in [0..(m - 1) -> Nat] : Adds(g, m - 1)
    BY <1>2
  <2> DEFINE f == [k \in 0..m |-> IF k = m THEN g[m - 1] + s[m] ELSE g[k]]
  <2>2. m - 1 \in 0..(m - 1) /\ g[m - 1] \in Nat /\ s[m] \in Nat
    OBVIOUS
  <2>3. f \in [0..m -> Nat]
    <3>1. \A k \in 0..m : k = m \/ k \in 0..(m - 1)
      OBVIOUS
    <3>2. QED
      BY <2>2, <3>1
  <2>4. f[m] = g[m - 1] + s[m] /\ \A k \in 0..(m - 1) : f[k] = g[k]
    OBVIOUS
  <2> HIDE DEF f
  <2>5. Adds(f, m)
    <3>1. f[0] = 0
      BY <2>1, <2>4
    <3>2. ASSUME NEW k \in 1..m PROVE f[k] = f[k - 1] + s[k]
      <4>1. CASE k = m
        BY <2>4, <4>1
      <4>2. CASE k # m
        <5>1. k \in 1..(m - 1) /\ k - 1 \in 0..(m - 1) /\ k \in 0..(m - 1)
          BY <4>2
        <5>2. g[k] = g[k - 1] + s[k]
          BY <2>1, <5>1
        <5>3. QED
          BY <2>4, <5>1, <5>2
      <4>3. QED
        BY <4>1, <4>2
    <3>3. QED
      BY <3>1, <3>2
  <2>6. QED
    BY <2>3, <2>5
<1> HIDE DEF Good
<1>3. bad = {}
  <2> SUFFICES ASSUME bad # {} PROVE FALSE
    OBVIOUS
  <2>1. PICK m \in bad : \A y \in bad : m <= y
    <3>1. bad \in SUBSET Nat
      OBVIOUS
    <3> HIDE DEF bad
    <3>2. QED
      BY <3>1, HasLeast
  <2>2. m \in 0..N /\ ~Good(m) /\ m # 0
    BY <1>1, <2>1
  <2>3. m - 1 \in 0..N /\ m - 1 \notin bad
    BY <2>1, <2>2
  <2>4. QED
    BY <1>2, <2>2, <2>3
<1>4. Good(N)
  BY <1>3
<1>5. QED
  BY <1>4 DEF Good

(* SizeUpTo adds the sizes up, and never goes down.                        *)
LEMMA SizesAddUp ==
  ASSUME WellWritten
  PROVE  /\ SizeUpTo[0] = 0 /\ \A k \in 0..Len(all) : SizeUpTo[k] \in Nat
         /\ \A k \in 1..Len(all) : SizeUpTo[k] = SizeUpTo[k - 1] + Written[k].sha.size
         /\ \A k \in 0..Len(all) : SizeUpTo[k] <= SizeUpTo[Len(all)]
<1> DEFINE N == Len(all)
           s == [k \in 1..N |-> Written[k].sha.size]
           Sums(f) == [k \in 0..N |-> IF k = 0 THEN 0 ELSE f[k - 1] + s[k]]
           bad == {m \in Nat : m \in 0..N /\ SizeUpTo[m] \notin Nat}
           low == {m \in Nat : m \in 0..N /\ ~(SizeUpTo[N - m] <= SizeUpTo[N])}
<1>1. N \in Nat /\ s \in [1..N -> Nat]
  BY DEF WellWritten, Sound
<1>2. SizeUpTo = CHOOSE f : f = Sums(f)
  <2>1. \A k \in 0..N : k # 0 => output.zip[k].content.size = s[k]
    BY DEF WellWritten
  <2>2. Len(output.zip) = N
    BY DEF WellWritten
  <2>3. \A f : [k \in 0..Len(output.zip) |-> IF k = 0 THEN 0 ELSE f[k - 1] + output.zip[k].content.size] = Sums(f)
    BY <2>1, <2>2
  <2>4. QED
    BY <2>3 DEF SizeUpTo
<1> HIDE DEF s
<1>3. \E f : f = Sums(f)
  <2>1. PICK f \in [0..N -> Nat] : f[0] = 0 /\ \A k \in 1..N : f[k] = f[k - 1] + s[k]
    BY <1>1, RunningTotal
  <2>2. \A k \in 0..N : f[k] = IF k = 0 THEN 0 ELSE f[k - 1] + s[k]
    BY <1>1, <2>1
  <2>3. f = Sums(f)
    BY <2>2
  <2>4. QED
    BY <2>3
<1>4. SizeUpTo = Sums(SizeUpTo)
  <2> HIDE DEF Sums
  <2>1. QED
    BY <1>2, <1>3
<1>5. SizeUpTo[0] = 0 /\ \A k \in 1..N : SizeUpTo[k] = SizeUpTo[k - 1] + s[k]
  BY <1>1, <1>4
<1> HIDE DEF N, Sums
<1>6. bad = {}
  <2> SUFFICES ASSUME bad # {} PROVE FALSE
    OBVIOUS
  <2>1. PICK m \in bad : \A y \in bad : m <= y
    <3>1. bad \in SUBSET Nat
      OBVIOUS
    <3> HIDE DEF bad
    <3>2. QED
      BY <3>1, HasLeast
  <2>2. m \in 1..N /\ m - 1 \in 0..N /\ SizeUpTo[m - 1] \in Nat
    BY <1>1, <1>5, <2>1
  <2>3. QED
    BY <1>1, <1>5, <2>1, <2>2
<1>7. low = {}
  <2> SUFFICES ASSUME low # {} PROVE FALSE
    OBVIOUS
  <2>1. PICK m \in low : \A y \in low : m <= y
    <3>1. low \in SUBSET Nat
      OBVIOUS
    <3> HIDE DEF low
    <3>2. QED
      BY <3>1, HasLeast
  <2>2. \A k \in 0..N : SizeUpTo[k] \in Nat
    BY <1>1, <1>6
  <2>3. m \in 1..N
    <3>1. m \in 0..N /\ ~(SizeUpTo[N - m] <= SizeUpTo[N])
      BY <2>1
    <3>2. N - 0 = N /\ SizeUpTo[N] <= SizeUpTo[N]
      BY <1>1, <2>2
    <3>3. m # 0
      BY <3>1, <3>2
    <3>4. QED
      BY <1>1, <3>1, <3>3
  <2>4. SizeUpTo[N - (m - 1)] <= SizeUpTo[N]
    <3>1. m - 1 \in Nat /\ m - 1 \in 0..N /\ ~(m <= m - 1)
      BY <1>1, <2>3
    <3>2. m - 1 \notin low
      <4> HIDE DEF low
      <4>1. QED
        BY <2>1, <3>1
    <3>3. QED
      BY <3>1, <3>2
  <2>5. N - m \in 0..N /\ N - (m - 1) \in 1..N /\ N \in 0..N /\ (N - (m - 1)) - 1 = N - m
    BY <1>1, <2>3
  <2>6. SizeUpTo[N - (m - 1)] = SizeUpTo[N - m] + s[N - (m - 1)] /\ s[N - (m - 1)] \in Nat
    BY <1>1, <1>5, <2>5
  <2>7. SizeUpTo[N - m] <= SizeUpTo[N]
    BY <2>2, <2>4, <2>5, <2>6
  <2>8. QED
    BY <2>1, <2>7
<1>8. \A k \in 0..N : SizeUpTo[k] \in Nat
  BY <1>1, <1>6
<1>9. ASSUME NEW k \in 0..N PROVE SizeUpTo[k] <= SizeUpTo[N]
  <2>1. N - k \in Nat /\ N - k \in 0..N /\ N - (N - k) = k
    BY <1>1, <1>9
  <2>2. QED
    BY <1>7, <2>1
<1>10. \A k \in 1..N : s[k] = Written[k].sha.size
  BY DEF s
<1>11. QED
  BY <1>5, <1>8, <1>9, <1>10 DEF N

\* The first k files have been read and have their digests.
HashedUpTo(k) ==
    /\ DOMAIN verified = {Written[i].path : i \in 1..k}
    /\ \A i \in 1..k : verified[Written[i].path] = Written[i].sha

\* Where the refs of a listed file lead.
Ways == [p \in O!Listed |-> O!TargetsOf(p)]

\* How far Open has come, and that each refusal so far has its cause.
Opening ==
    /\ stage \in O!Stages /\ lax = FALSE
    /\ at \in Nat \ {0} /\ nextRef \in [Paths -> Nat \ {0}]
    /\ stage \in {"zip", "manifest", "extras", "count"} => at = 1 /\ total = 0 /\ DOMAIN verified = {}
    /\ stage = "hash" => at <= Len(all) + 1 /\ total = SizeUpTo[at - 1] /\ HashedUpTo(at - 1)
    /\ stage \in {"parse", "refs", "walk", "conditions"} => HashedUpTo(Len(all))
    /\ stage = "walk" => /\ \A p \in O!Listed : Ways[p] \subseteq O!Listed
                         /\ stack \in Seq(O!Listed)
                         /\ \A i \in 1..(Len(stack) - 1) : stack[i + 1] \in Ways[stack[i]]
    /\ stage \notin {"walk", "done"} => stack = <<>>
    /\ stage # "done" => result = "none"
    /\ RefusedForCause

(* What Open reads does not change while it reads.                         *)
LEMMA SourceStays ==
  ASSUME UNCHANGED <<all, output>>
  PROVE  UNCHANGED <<Written, SizeUpTo, O!Listed, O!files, O!manifest>>
BY DEF Written, SizeUpTo, O!Listed, O!files, O!manifest

LEMMA WaysStay ==
  ASSUME UNCHANGED <<all, output, verified>>
  PROVE  UNCHANGED <<Ways, TooLarge, RefsAgree, Chains(MaxDepth + 1), O!Acyclic(O!Listed)>>
<1>1. O!Listed' = O!Listed
  BY SourceStays
<1>2. Ways' = Ways
  BY <1>1 DEF Ways, O!TargetsOf, O!Graph
<1>3. TooLarge' = TooLarge
  BY DEF TooLarge, SizeUpTo
<1>4. RefsAgree' = RefsAgree
  BY DEF RefsAgree
<1>5. Chains(MaxDepth + 1)' = Chains(MaxDepth + 1)
  BY <1>1 DEF Chains, O!TargetsOf, O!Graph
<1>6. O!Acyclic(O!Listed)' = O!Acyclic(O!Listed)
  BY <1>1 DEF O!Acyclic, O!TargetsOf, O!Graph
<1>7. QED
  BY <1>2, <1>3, <1>4, <1>5, <1>6

(* Open returns, without error or with one that has its cause.             *)
LEMMA Returns ==
  ASSUME Opening, UNCHANGED <<all, output, verified, lax, at, nextRef>>,
         NEW r, r = "ok" \/ Causes(r), stage' = "done", result' = r
  PROVE  Opening'
<1>1. RefusedForCause'
  BY WaysStay DEF RefusedForCause, Causes
<1>2. stage' \in O!Stages /\ lax' = FALSE /\ at' \in Nat \ {0} /\ nextRef' \in [Paths -> Nat \ {0}]
  BY DEF Opening, O!Stages
<1>3. QED
  BY <1>1, <1>2 DEF Opening

(* From one stage to the next.                                             *)
LEMMA ZipIsRead ==
  ASSUME WellWritten, Opening, UNCHANGED <<all, output>>, O!OpenConstrainedZip
  PROVE  Opening'
<1> DEFINE error == IF Len(output.zip) + (IF O!manifest = NoManifest THEN 0 ELSE 1) > MaxFiles THEN "CapExceeded"
                    ELSE IF O!Repeats(output.zip, LAMBDA e : Fold(e.name)) THEN "ZipFeatureForbidden"
                    ELSE "none"
<1>1. /\ stage = "zip" /\ UNCHANGED <<lax, at, verified, total, stack, nextRef, black>>
      /\ IF error = "none" THEN stage' = "manifest" /\ result' = result ELSE stage' = "done" /\ result' = error
  BY DEF O!OpenConstrainedZip, O!Pass, O!Finish, O!search
<1>2. ~O!Repeats(output.zip, LAMBDA e : Fold(e.name))
  BY EntriesAreFiles DEF WellWritten, O!Repeats
<1>3. error = "none" \/ (error = "CapExceeded" /\ Len(all) + 1 > MaxFiles)
  BY <1>2 DEF WellWritten
<1> HIDE DEF error
<1>4. CASE error = "none"
  BY <1>1, <1>4 DEF Opening, O!Stages, RefusedForCause
<1>5. CASE error = "CapExceeded" /\ Len(all) + 1 > MaxFiles
  <2>1. Causes(error)
    BY <1>5 DEF Causes
  <2>2. QED
    BY <1>1, <1>5, <2>1, Returns
<1>6. QED
  BY <1>3, <1>4, <1>5

LEMMA ManifestIsRead ==
  ASSUME WellWritten, Opening, UNCHANGED <<all, output>>, O!ReadManifest
  PROVE  Opening'
<1>1. /\ stage = "manifest" /\ UNCHANGED <<lax, at, verified, total, stack, nextRef, black>>
      /\ stage' = "extras" /\ result' = result
  BY DEF WellWritten, O!ReadManifest, O!Pass, O!search
<1>2. QED
  BY <1>1 DEF Opening, O!Stages, RefusedForCause

LEMMA ExtrasAreChecked ==
  ASSUME WellWritten, Opening, UNCHANGED <<all, output>>, O!CheckExtraEntries
  PROVE  Opening'
<1>1. \A i \in DOMAIN output.zip : output.zip[i].name \in O!Listed
  BY DEF WellWritten
<1>2. /\ stage = "extras" /\ UNCHANGED <<lax, at, verified, total, stack, nextRef, black>>
      /\ stage' = "count" /\ result' = result
  BY <1>1 DEF O!CheckExtraEntries, O!Pass, O!search
<1>3. QED
  BY <1>2 DEF Opening, O!Stages, RefusedForCause

LEMMA FilesAreCounted ==
  ASSUME WellWritten, Opening, UNCHANGED <<all, output>>, O!CountFiles
  PROVE  Opening'
<1>1. /\ stage = "count" /\ UNCHANGED <<lax, at, verified, total, stack, nextRef, black>>
      /\ IF Len(all) > MaxFiles THEN stage' = "done" /\ result' = "CapExceeded"
         ELSE stage' = "hash" /\ result' = result
  BY EntriesAreFiles DEF O!CountFiles, O!Pass, O!Finish, O!search
<1>2. CASE Len(all) > MaxFiles
  <2>1. Causes("CapExceeded")
    BY <1>2, CapsAssumption DEF Causes, WellWritten
  <2>2. QED
    BY <1>1, <1>2, <2>1, Returns
<1>3. CASE ~(Len(all) > MaxFiles)
  <2>1. stage' = "hash" /\ result' = "none" /\ at = 1 /\ total = 0 /\ DOMAIN verified = {} /\ stack = <<>>
    BY <1>1, <1>3 DEF Opening
  <2>2. SizeUpTo' = SizeUpTo /\ Written' = Written /\ SizeUpTo[0] = 0
    BY SourceStays, SizesAddUp
  <2>3. HashedUpTo(0)' /\ 1 <= Len(all') + 1
    BY <1>1, <2>1, <2>2 DEF HashedUpTo, WellWritten
  <2>4. at' = 1 /\ at' - 1 = 0 /\ total' = 0 /\ stack' = <<>>
    BY <1>1, <2>1
  <2>5. HashedUpTo(at - 1)'
    BY <2>3, <2>4 DEF HashedUpTo
  <2>6. QED
    BY <1>1, <2>1, <2>2, <2>3, <2>4, <2>5 DEF Opening, O!Stages, RefusedForCause
<1>4. QED
  BY <1>2, <1>3

(* The next file has its digest; there may be no room left for it.         *)
LEMMA EntryIsVerified ==
  ASSUME WellWritten, Opening, UNCHANGED <<all, output>>, O!VerifyEntry
  PROVE  Opening'
<1> DEFINE f == Written[at]
           N == Len(all)
<1>1. /\ stage = "hash" /\ at \in 1..N /\ total = SizeUpTo[at - 1] /\ HashedUpTo(at - 1)
      /\ lax = FALSE /\ result = "none" /\ stack = <<>> /\ nextRef \in [Paths -> Nat \ {0}]
  BY EntriesAreFiles DEF O!VerifyEntry, Opening, WellWritten
<1>2. /\ O!files[at] = f /\ O!EntriesNamed(f.path) # {} /\ O!ContentOf(f.path) = f.sha
      /\ Sound(f.sha) /\ f \in Range(all)
  BY <1>1, EntriesAreFiles DEF WellWritten
<1>3. /\ SizeUpTo[at - 1] \in Nat /\ SizeUpTo[at] = SizeUpTo[at - 1] + f.sha.size
      /\ SizeUpTo[at] <= SizeUpTo[N] /\ SizeUpTo[N] \in Nat /\ f.sha.size \in Nat /\ f.sha.size <= PerFileCap
  <2>1. N \in Nat /\ at - 1 \in 0..N /\ at \in 0..N /\ N \in 0..N
    BY <1>1 DEF WellWritten
  <2>2. QED
    BY <1>1, <1>2, <2>1, SizesAddUp DEF Sound
<1>4. Len(output.zip) = N
  BY DEF WellWritten
<1>5. UNCHANGED <<lax, stack, nextRef, black>>
      /\ IF O!HashError(f) = "none"
         THEN /\ verified' = [p \in DOMAIN verified \cup {f.path} |->
                                   IF p = f.path THEN O!ContentOf(p) ELSE verified[p]]
              /\ total' = total + O!ContentOf(f.path).size /\ at' = at + 1
              /\ UNCHANGED <<stage, result>>
         ELSE stage' = "done" /\ result' = O!HashError(f) /\ UNCHANGED <<at, verified, total>>
  BY <1>2 DEF O!VerifyEntry, O!Finish, O!search
<1> HIDE DEF f, N
<1>6. O!HashError(f) \in {"none", "CapExceeded"} /\ (O!HashError(f) = "CapExceeded" => TooLarge)
  <2>1. O!HashError(f) = IF O!EffectiveCap <= 0 \/ f.sha.size > O!EffectiveCap THEN "CapExceeded" ELSE "none"
    BY <1>2 DEF O!HashError
  <2>2. /\ O!EffectiveCap = IF PerFileCap < TotalCap - total THEN PerFileCap ELSE TotalCap - total
        /\ PerFileCap \in Nat \ {0} /\ TotalCap \in Nat /\ total \in Nat
    BY <1>1, <1>3, CapsAssumption DEF O!EffectiveCap
  <2>3. CASE total + f.sha.size > TotalCap
    BY <1>1, <1>3, <1>4, <2>1, <2>2, <2>3 DEF TooLarge
  <2>4. CASE ~(total + f.sha.size > TotalCap) /\ total = TotalCap
    <3>1. f.sha.size = 0
      BY <1>3, <2>2, <2>4
    <3>2. \E i \in DOMAIN all : all[i].sha.size = 0
      BY <1>2, <3>1 DEF Range
    <3>3. SizeUpTo[N] = TotalCap \/ SizeUpTo[N] > TotalCap
      BY <1>1, <1>3, <2>2, <2>4
    <3>4. TooLarge
      BY <1>4, <3>2, <3>3 DEF TooLarge
    <3>5. QED
      BY <2>1, <3>4
  <2>5. CASE ~(total + f.sha.size > TotalCap) /\ total # TotalCap
    <3>1. ~(O!EffectiveCap <= 0) /\ ~(f.sha.size > O!EffectiveCap)
      BY <1>3, <2>2, <2>5
    <3>2. QED
      BY <2>1, <3>1
  <2>6. QED
    BY <2>3, <2>4, <2>5
<1>7. CASE O!HashError(f) = "CapExceeded"
  <2>1. Causes("CapExceeded")
    BY <1>6, <1>7 DEF Causes
  <2>2. QED
    BY <1>5, <1>7, <2>1, Returns
<1>8. CASE O!HashError(f) = "none"
  <2>1. /\ verified' = [p \in DOMAIN verified \cup {f.path} |->
                                   IF p = f.path THEN f.sha ELSE verified[p]]
        /\ total' = total + f.sha.size /\ at' = at + 1 /\ UNCHANGED <<stage, result>>
    BY <1>2, <1>5, <1>8
  <2>2. UNCHANGED <<Written, SizeUpTo>>
    BY SourceStays
  <2>3. at' \in Nat \ {0} /\ at' <= N + 1 /\ at' - 1 = at /\ N \in Nat
    BY <1>1, <2>1 DEF WellWritten, N
  <2>4. HashedUpTo(at - 1)'
    <3>1. \A i \in 1..at : i = at \/ i \in 1..(at - 1)
      BY <1>1
    <3>2. \A i \in 1..(at - 1) : i \in 1..at
      BY <1>1
    <3>3. DOMAIN verified' = {Written[i].path : i \in 1..at}
      BY <1>1, <2>1, <3>1, <3>2 DEF HashedUpTo, f
    <3>4. \A i \in 1..at : verified'[Written[i].path] = Written[i].sha
      <4>1. \A i \in 1..(at - 1) : Written[i].path # f.path
        BY <1>1 DEF WellWritten, f, N
      <4>2. QED
        BY <1>1, <2>1, <3>1, <4>1 DEF HashedUpTo, f
    <3>5. QED
      BY <2>2, <2>3, <3>3, <3>4 DEF HashedUpTo
  <2>5. QED
    BY <1>1, <1>3, <1>5, <2>1, <2>2, <2>3, <2>4 DEF Opening, O!Stages, RefusedForCause, N
<1>9. QED
  BY <1>6, <1>7, <1>8

LEMMA HashesAreDone ==
  ASSUME WellWritten, Opening, UNCHANGED <<all, output>>, O!HashesDone
  PROVE  Opening'
<1>1. /\ stage = "hash" /\ at > Len(all) /\ stage' = "parse" /\ at' = 1
      /\ UNCHANGED <<lax, result, verified, total, stack, nextRef, black>>
  BY EntriesAreFiles DEF O!HashesDone, O!search
<1>2. HashedUpTo(Len(all))
  <2>1. at - 1 = Len(all)
    BY <1>1 DEF Opening, WellWritten
  <2>2. QED
    BY <1>1, <2>1 DEF Opening
<1>3. HashedUpTo(Len(all))'
  BY <1>1, <1>2, SourceStays DEF HashedUpTo
<1>4. QED
  BY <1>1, <1>3 DEF Opening, O!Stages, RefusedForCause

(* What has been read is what has been written.                            *)
LEMMA ReadIsWritten ==
  ASSUME WellWritten, HashedUpTo(Len(all))
  PROVE  /\ \A p \in O!Listed : \E i \in DOMAIN all : all[i].path = p /\ verified[p] = all[i].sha
         /\ \A p \in O!Listed : Sound(verified[p]) /\ p \in DOMAIN verified
<1>1. ASSUME NEW p \in O!Listed
      PROVE  /\ \E i \in DOMAIN all : all[i].path = p /\ verified[p] = all[i].sha
             /\ Sound(verified[p]) /\ p \in DOMAIN verified
  <2>1. PICK k \in 1..Len(all) : p = Written[k].path
    BY DEF WellWritten
  <2>2. verified[p] = Written[k].sha /\ p \in DOMAIN verified
    BY <2>1 DEF HashedUpTo
  <2>3. PICK i \in DOMAIN all : all[i] = Written[k]
    BY <2>1 DEF WellWritten, Range
  <2>4. QED
    BY <2>1, <2>2, <2>3 DEF WellWritten
<1>2. QED
  BY <1>1

LEMMA WorkflowsParse ==
  ASSUME WellWritten, Opening, UNCHANGED <<all, output>>, O!ParseAllWorkflows
  PROVE  Opening'
<1>1. stage = "parse" /\ HashedUpTo(Len(all))
  BY DEF O!ParseAllWorkflows, Opening
<1>2. {p \in O!Listed : ~verified[p].parses} = {}
  BY <1>1, ReadIsWritten DEF Sound
<1>3. /\ stage' = "refs" /\ result' = result
      /\ UNCHANGED <<lax, at, verified, total, stack, nextRef, black>>
  BY <1>2 DEF O!ParseAllWorkflows, O!Pass, O!search
<1>4. HashedUpTo(Len(all))'
  BY <1>1, <1>3, SourceStays DEF HashedUpTo
<1>5. QED
  BY <1>1, <1>3, <1>4 DEF Opening, O!Stages, RefusedForCause

(* Where the refs lead on disk and in the bundle alike, they lead to files *)
(* of the bundle.                                                          *)
LEMMA AgreedWaysAreClosed ==
  ASSUME Walked, outcome = "ok", WellWritten, HashedUpTo(Len(all)), RefsAgree
  PROVE  \A p \in O!Listed : O!TargetsOf(p) \subseteq O!Listed /\ O!Escapes \notin O!TargetsOf(p)
<1>1. RefsPacked \subseteq PackedPaths
  BY WrittenIsClosure DEF BundleIsClosure
<1>2. \A i \in DOMAIN all : DiskTargets(all[i].path, all[i].sha) \in Seq(Paths)
  BY DEF Walked, PackingHolds
<1>3. ASSUME NEW p \in O!Listed
      PROVE  O!TargetsOf(p) \subseteq O!Listed /\ O!Escapes \notin O!TargetsOf(p)
  <2>1. PICK i \in DOMAIN all : all[i].path = p /\ verified[p] = all[i].sha
    BY ReadIsWritten
  <2>2. p \in DOMAIN verified
    BY ReadIsWritten
  <2>3. O!Graph(p) = RefTargets(p, verified[p])
    BY <2>2, OpenOperators DEF O!Graph
  <2>4. O!Graph(p) = DiskTargets(all[i].path, all[i].sha)
    BY <2>1, <2>3 DEF RefsAgree
  <2>5. O!TargetsOf(p) = Range(DiskTargets(all[i].path, all[i].sha))
    BY <2>4, OpenOperators DEF O!TargetsOf
  <2>6. O!TargetsOf(p) \subseteq RefsPacked
    BY <2>5 DEF RefsPacked
  <2>7. Range(DiskTargets(all[i].path, all[i].sha)) \subseteq Paths
    BY <1>2 DEF Range
  <2>8. QED
    BY <1>1, <2>5, <2>6, <2>7, PathsAssumption, OpenOperators DEF WellWritten
<1>4. QED
  BY <1>3

LEMMA RefsAreChecked ==
  ASSUME Walked, outcome = "ok", WellWritten, Opening, UNCHANGED <<all, output>>, O!CheckRefs
  PROVE  Opening'
<1> DEFINE error == IF \E p \in O!Listed : O!Escapes \in O!TargetsOf(p) THEN "PathUnsafe"
                    ELSE IF \E p \in O!Listed : ~(O!TargetsOf(p) \subseteq O!Listed) THEN "RefEscape" ELSE "none"
<1>1. /\ stage = "refs" /\ UNCHANGED <<lax, at, verified, total, stack, nextRef, black>>
      /\ IF error = "none" THEN stage' = "walk" /\ result' = result ELSE stage' = "done" /\ result' = error
  BY DEF O!CheckRefs, O!Pass, O!Finish, O!search
<1>2. error \in {"none", "PathUnsafe", "RefEscape"}
  OBVIOUS
<1>3. HashedUpTo(Len(all)) /\ stack = <<>>
  BY <1>1 DEF Opening
<1>4. error # "none" => ~RefsAgree
  BY <1>3, AgreedWaysAreClosed
<1>5. error = "none" => \A p \in O!Listed : O!TargetsOf(p) \subseteq O!Listed
  OBVIOUS
<1> HIDE DEF error
<1>6. CASE error # "none"
  <2>1. Causes(error)
    BY <1>2, <1>4, <1>6 DEF Causes
  <2>2. QED
    BY <1>1, <1>6, <2>1, Returns
<1>7. CASE error = "none"
  <2>1. HashedUpTo(Len(all))' /\ UNCHANGED <<Ways, O!Listed>>
    BY <1>1, <1>3, SourceStays, WaysStay DEF HashedUpTo
  <2>2. \A p \in O!Listed : Ways[p] \subseteq O!Listed
    BY <1>5, <1>7 DEF Ways
  <2>3. stack' = <<>> /\ stack' \in Seq(O!Listed) /\ Len(stack') = 0 /\ 1..(Len(stack') - 1) = {}
    BY <1>1, <1>3
  <2>4. QED
    BY <1>1, <1>7, <2>1, <2>2, <2>3 DEF Opening, O!Stages, RefusedForCause
<1>8. QED
  BY <1>6, <1>7

(* In the search nothing changes but the search.                           *)
LEMMA SearchGoesOn ==
  ASSUME Opening, stage = "walk", UNCHANGED <<all, output, lax, stage, result, verified>>,
         stack' \in Seq(O!Listed), at' \in Nat \ {0}, nextRef' \in [Paths -> Nat \ {0}],
         \A i \in 1..(Len(stack') - 1) : stack'[i + 1] \in Ways[stack'[i]]
  PROVE  Opening'
<1>1. UNCHANGED <<Ways, O!Listed, Written>>
  BY SourceStays, WaysStay
<1>2. HashedUpTo(Len(all))'
  BY <1>1 DEF Opening, HashedUpTo
<1>3. \A p \in O!Listed : Ways[p] \subseteq O!Listed
  BY DEF Opening
<1>4. QED
  BY <1>1, <1>2, <1>3 DEF Opening, O!Stages, RefusedForCause

(* What the search relies on.                                              *)
LEMMA SearchFacts ==
  ASSUME WellWritten, Opening, stage = "walk"
  PROVE  /\ O!Listed \subseteq Paths /\ HashedUpTo(Len(all)) /\ stack \in Seq(O!Listed)
         /\ at \in Nat \ {0} /\ nextRef \in [Paths -> Nat \ {0}] /\ result = "none" /\ lax = FALSE
         /\ \A p \in O!Listed : /\ Ways[p] = O!TargetsOf(p) /\ Ways[p] \subseteq O!Listed
                                /\ \A k \in 1..Len(O!Graph(p)) : O!Graph(p)[k] \in Ways[p]
         /\ \A i \in 1..(Len(stack) - 1) : stack[i + 1] \in Ways[stack[i]]
<1>1. HashedUpTo(Len(all))
  BY DEF Opening
<1>2. O!Listed \subseteq Paths
  <2> DEFINE S == [path : Paths, sha : Contents]
  <2>1. Written \in Seq(S) /\ Len(Written) = Len(all)
    BY DEF WellWritten
  <2>2. \A f \in S : f.path \in Paths
    OBVIOUS
  <2> HIDE DEF S
  <2>3. \A i \in 1..Len(all) : Written[i] \in S
    BY <2>1
  <2>4. QED
    BY <2>2, <2>3 DEF WellWritten
<1>3. ASSUME NEW p \in O!Listed
      PROVE  /\ Ways[p] = O!TargetsOf(p)
             /\ \A k \in 1..Len(O!Graph(p)) : O!Graph(p)[k] \in Ways[p]
  <2>1. Ways[p] = O!TargetsOf(p)
    BY DEF Ways
  <2>2. O!Graph(p) = RefTargets(p, verified[p]) /\ verified[p].refs \in Seq(STRING)
    BY <1>1, ReadIsWritten, OpenOperators DEF O!Graph, Sound
  <2>3. DOMAIN O!Graph(p) = 1..Len(verified[p].refs) /\ Len(verified[p].refs) \in Nat
    BY <2>2 DEF RefTargets
  <2>4. Len(O!Graph(p)) = Len(verified[p].refs)
    BY <2>3
  <2>5. O!TargetsOf(p) = {O!Graph(p)[k] : k \in DOMAIN O!Graph(p)}
    BY DEF O!TargetsOf, O!Range
  <2>6. QED
    BY <2>1, <2>3, <2>4, <2>5
<1>4. QED
  BY <1>1, <1>2, <1>3 DEF Opening

LEMMA SearchIsStarted ==
  ASSUME WellWritten, Opening, UNCHANGED <<all, output>>, O!StartSearch
  PROVE  Opening'
<1> DEFINE root == O!files[at].path
<1>1. /\ stage = "walk" /\ at <= Len(all) /\ stack' = <<root>>
      /\ nextRef' = [nextRef EXCEPT ![root] = 1]
      /\ UNCHANGED <<lax, stage, result, at, verified>>
  BY EntriesAreFiles DEF O!StartSearch
<1>2. /\ O!Listed \subseteq Paths /\ at \in Nat \ {0} /\ nextRef \in [Paths -> Nat \ {0}]
  BY <1>1, SearchFacts
<1>3. root \in O!Listed /\ root \in Paths
  <2>1. at \in 1..Len(all) /\ root = Written[at].path
    <3>1. Len(all) \in Nat
      BY DEF WellWritten
    <3>2. O!files = Written
      BY EntriesAreFiles
    <3>3. at \in 1..Len(all)
      BY <1>1, <1>2, <3>1
    <3>4. QED
      BY <3>2, <3>3
  <2>2. O!Listed = {Written[i].path : i \in 1..Len(all)}
    BY DEF WellWritten
  <2> HIDE DEF root
  <2>3. QED
    BY <1>2, <2>1, <2>2
<1> HIDE DEF root
<1>4. stack' \in Seq(O!Listed) /\ Len(stack') = 1 /\ 1..(Len(stack') - 1) = {}
  BY <1>1, <1>3
<1>5. nextRef' \in [Paths -> Nat \ {0}]
  BY <1>1, <1>2, <1>3
<1>6. QED
  BY <1>1, <1>2, <1>4, <1>5, SearchGoesOn

(* A ref to a file on the stack closes a cycle.                            *)
LEMMA BackIsCycle ==
  ASSUME WellWritten, Opening, stage = "walk", stack # <<>>,
         NEW next \in O!Gray, next \in Ways[stack[Len(stack)]]
  PROVE  ~O!Acyclic(O!Listed)
<1> DEFINE n == Len(stack)
<1>1. /\ n \in Nat \ {0} /\ \A k \in 1..n : stack[k] \in O!Listed
      /\ O!Gray = {stack[k] : k \in 1..n}
  BY SearchFacts DEF O!Gray, O!Range
<1>2. PICK m \in 1..n : stack[m] = next
  BY <1>1
<1> DEFINE T == {stack[k] : k \in m..n}
<1>3. T \in SUBSET O!Listed /\ T # {} /\ next \in T
  BY <1>1, <1>2
<1>4. ASSUME NEW p \in T PROVE O!TargetsOf(p) \cap T # {}
  <2>1. PICK k \in m..n : p = stack[k]
    OBVIOUS
  <2>2. Ways[p] = O!TargetsOf(p)
    BY <1>3, SearchFacts
  <2>3. CASE k = n
    BY <1>3, <2>1, <2>2, <2>3
  <2>4. CASE k # n
    <3>1. k \in 1..(n - 1) /\ k + 1 \in m..n
      BY <1>1, <2>1, <2>4
    <3>2. stack[k + 1] \in Ways[stack[k]]
      BY <3>1, SearchFacts
    <3>3. QED
      BY <2>1, <2>2, <3>1, <3>2
  <2>5. QED
    BY <2>3, <2>4
<1>5. QED
  BY <1>3, <1>4 DEF O!Acyclic

(* The stack with one ref more is a chain of more than MaxDepth refs.      *)
LEMMA DeepStackIsChain ==
  ASSUME WellWritten, Opening, stage = "walk", Len(stack) > MaxDepth,
         NEW next \in O!Listed, next \in Ways[stack[Len(stack)]]
  PROVE  Chains(MaxDepth + 1) # {}
<1> DEFINE n == Len(stack)
           d == MaxDepth + 1
           c == [i \in 1..(d + 1) |-> IF i = d + 1 THEN next ELSE stack[(n - d) + i]]
<1>1. /\ n \in Nat /\ d \in Nat \ {0} /\ n - d \in Nat
      /\ \A k \in 1..n : stack[k] \in O!Listed
  BY SearchFacts, CapsAssumption
<1>2. \A i \in 1..d : (n - d) + i \in 1..n /\ i \in 1..(d + 1) /\ i + 1 \in 1..(d + 1) /\ i # d + 1
  BY <1>1
<1>3. \A i \in 1..(d + 1) : i = d + 1 \/ i \in 1..d
  BY <1>1
<1>4. c \in [1..(d + 1) -> O!Listed]
  BY <1>1, <1>2, <1>3
<1>5. ASSUME NEW i \in 1..d PROVE c[i + 1] \in O!TargetsOf(c[i])
  <2>1. c[i] = stack[(n - d) + i] /\ c[i] \in O!Listed
    BY <1>1, <1>2
  <2>2. Ways[c[i]] = O!TargetsOf(c[i])
    BY <2>1, SearchFacts
  <2>3. CASE i = d
    <3>1. c[i + 1] = next /\ (n - d) + i = n
      BY <1>1, <2>3
    <3>2. QED
      BY <2>1, <2>2, <3>1
  <2>4. CASE i # d
    <3>1. i + 1 \in 1..d /\ (n - d) + i \in 1..(n - 1) /\ (n - d) + (i + 1) = ((n - d) + i) + 1
      BY <1>1, <2>4
    <3>2. c[i + 1] = stack[((n - d) + i) + 1]
      BY <1>2, <3>1
    <3>3. stack[((n - d) + i) + 1] \in Ways[stack[(n - d) + i]]
      BY <3>1, SearchFacts
    <3>4. QED
      BY <2>1, <2>2, <3>2, <3>3
  <2>5. QED
    BY <2>3, <2>4
<1> HIDE DEF c
<1>6. QED
  BY <1>4, <1>5 DEF Chains

LEMMA EdgeIsVisited ==
  ASSUME WellWritten, Opening, UNCHANGED <<all, output>>, O!VisitEdge
  PROVE  Opening'
<1> DEFINE n == Len(stack)
           t == stack[n]
           next == O!Graph(t)[nextRef[t]]
<1>1. /\ stage = "walk" /\ stack # <<>> /\ nextRef[t] <= Len(O!Graph(t))
      /\ UNCHANGED <<lax, at, verified>>
  BY DEF O!VisitEdge, O!Top, O!Last
<1>2. /\ IF next \in O!Gray
         THEN stage' = "done" /\ result' = "RefCycle" /\ UNCHANGED <<stack, nextRef>>
         ELSE IF next \in black
         THEN nextRef' = [nextRef EXCEPT ![t] = @ + 1] /\ UNCHANGED <<stack, stage, result>>
         ELSE IF n > MaxDepth
         THEN stage' = "done" /\ result' = "CapExceeded" /\ UNCHANGED <<stack, nextRef>>
         ELSE /\ stack' = Append(stack, next)
              /\ nextRef' = [nextRef EXCEPT ![t] = @ + 1, ![next] = 1]
              /\ UNCHANGED <<stage, result>>
  BY DEF O!VisitEdge, O!Top, O!Last, O!Finish
<1>3. /\ O!Listed \subseteq Paths /\ stack \in Seq(O!Listed) /\ nextRef \in [Paths -> Nat \ {0}]
      /\ at \in Nat \ {0}
      /\ \A i \in 1..(n - 1) : stack[i + 1] \in Ways[stack[i]]
  BY <1>1, SearchFacts
<1>4. n \in Nat \ {0} /\ t \in O!Listed /\ t \in Paths /\ nextRef[t] \in Nat \ {0}
  BY <1>1, <1>3
<1>5. next \in Ways[t] /\ next \in O!Listed /\ next \in Paths
  <2>1. next \in Ways[t]
    <3>1. \A k \in 1..Len(O!Graph(t)) : O!Graph(t)[k] \in Ways[t]
      BY <1>1, <1>4, SearchFacts
    <3>2. nextRef[t] \in 1..Len(O!Graph(t))
      <4>1. O!Graph(t) = RefTargets(t, verified[t]) /\ verified[t].refs \in Seq(STRING)
        BY <1>1, <1>4, SearchFacts, ReadIsWritten, OpenOperators DEF O!Graph, Sound
      <4>2. Len(O!Graph(t)) \in Nat
        BY <4>1 DEF RefTargets
      <4>3. QED
        BY <1>1, <1>4, <4>2
    <3>3. QED
      BY <3>1, <3>2
  <2>2. Ways[t] \subseteq O!Listed
    BY <1>1, <1>4, SearchFacts
  <2>3. QED
    BY <1>3, <2>1, <2>2
<1> HIDE DEF next
<1>6. CASE next \in O!Gray
  <2>1. Causes("RefCycle")
    BY <1>1, <1>5, <1>6, BackIsCycle DEF Causes
  <2>2. QED
    BY <1>1, <1>2, <1>6, <2>1, Returns
<1>7. CASE next \notin O!Gray /\ next \in black
  <2>1. nextRef' = [nextRef EXCEPT ![t] = @ + 1] /\ UNCHANGED <<stack, stage, result>>
    BY <1>2, <1>7
  <2>2. nextRef' \in [Paths -> Nat \ {0}]
    BY <1>3, <1>4, <2>1
  <2>3. QED
    BY <1>1, <1>3, <2>1, <2>2, SearchGoesOn
<1>8. CASE next \notin O!Gray /\ next \notin black /\ n > MaxDepth
  <2>1. Causes("CapExceeded")
    BY <1>1, <1>5, <1>8, DeepStackIsChain DEF Causes
  <2>2. QED
    BY <1>1, <1>2, <1>8, <2>1, Returns
<1>9. CASE next \notin O!Gray /\ next \notin black /\ ~(n > MaxDepth)
  <2>1. /\ stack' = Append(stack, next)
        /\ nextRef' = [nextRef EXCEPT ![t] = @ + 1, ![next] = 1]
        /\ UNCHANGED <<stage, result>>
    BY <1>2, <1>9
  <2>2. nextRef' \in [Paths -> Nat \ {0}]
    BY <1>3, <1>4, <1>5, <2>1
  <2>3. /\ stack' \in Seq(O!Listed) /\ Len(stack') = n + 1 /\ stack'[n + 1] = next
        /\ \A k \in 1..n : stack'[k] = stack[k]
    BY <1>3, <1>5, <2>1
  <2>4. ASSUME NEW i \in 1..n PROVE stack'[i + 1] \in Ways[stack'[i]]
    <3>1. CASE i = n
      BY <1>4, <1>5, <2>3, <3>1
    <3>2. CASE i # n
      <4>1. i \in 1..(n - 1) /\ i + 1 \in 1..n
        BY <1>4, <3>2
      <4>2. QED
        BY <1>3, <2>3, <4>1
    <3>3. QED
      BY <3>1, <3>2
  <2>5. (n + 1) - 1 = n
    BY <1>4
  <2>6. QED
    BY <1>1, <1>3, <2>1, <2>2, <2>3, <2>4, <2>5, SearchGoesOn
<1>10. QED
  BY <1>6, <1>7, <1>8, <1>9

LEMMA NodeIsLeft ==
  ASSUME WellWritten, Opening, UNCHANGED <<all, output>>, O!LeaveNode
  PROVE  Opening'
<1> DEFINE n == Len(stack)
<1>1. /\ stage = "walk" /\ stack # <<>> /\ stack' = SubSeq(stack, 1, n - 1)
      /\ at' = IF n = 1 THEN at + 1 ELSE at
      /\ UNCHANGED <<lax, stage, result, verified, nextRef>>
  BY DEF O!LeaveNode, O!Front
<1>2. /\ stack \in Seq(O!Listed) /\ at \in Nat \ {0} /\ nextRef \in [Paths -> Nat \ {0}]
      /\ \A i \in 1..(n - 1) : stack[i + 1] \in Ways[stack[i]]
  BY <1>1, SearchFacts
<1>3. n \in Nat \ {0}
  BY <1>1, <1>2
<1>4. /\ stack' \in Seq(O!Listed) /\ Len(stack') = n - 1
      /\ \A k \in 1..(n - 1) : stack'[k] = stack[k]
  <2>1. \A S, s, m : s \in Seq(S) /\ m \in 0..Len(s) =>
           /\ SubSeq(s, 1, m) \in Seq(S) /\ Len(SubSeq(s, 1, m)) = m
           /\ \A k \in 1..m : SubSeq(s, 1, m)[k] = s[k]
    OBVIOUS
  <2>2. n - 1 \in 0..n /\ stack' = SubSeq(stack, 1, n - 1) /\ stack \in Seq(O!Listed)
    BY <1>1, <1>2, <1>3
  <2>3. QED
    BY ONLY <2>1, <2>2
<1>5. \A i \in 1..(Len(stack') - 1) : stack'[i + 1] \in Ways[stack'[i]]
  <2>1. \A i \in 1..(Len(stack') - 1) :
           i \in 1..(n - 1) /\ stack'[i + 1] = stack[i + 1] /\ stack'[i] = stack[i]
    BY <1>3, <1>4
  <2>2. QED
    BY <1>2, <2>1
<1>6. QED
  BY <1>1, <1>2, <1>4, <1>5, SearchGoesOn

LEMMA WalkIsDone ==
  ASSUME WellWritten, Opening, UNCHANGED <<all, output>>, O!WalkDone
  PROVE  Opening'
<1>1. /\ stage = "walk" /\ stage' = "conditions" /\ stack = <<>>
      /\ UNCHANGED <<lax, result, at, verified, total, stack, nextRef, black>>
  BY DEF O!WalkDone, O!Pass, O!search
<1>2. HashedUpTo(Len(all))'
  BY <1>1, SourceStays DEF Opening, HashedUpTo
<1>3. QED
  BY <1>1, <1>2 DEF Opening, O!Stages, RefusedForCause

LEMMA ConditionsAreNormalized ==
  ASSUME WellWritten, Opening, UNCHANGED <<all, output>>, O!NormalizeConditions
  PROVE  Opening'
<1>1. /\ stage = "conditions" /\ stage' = "done" /\ UNCHANGED <<lax, at, verified, nextRef>>
      /\ result' = IF \A p \in O!Listed : verified[p].conditions THEN "ok" ELSE "SubgraphParse"
  BY DEF O!NormalizeConditions, O!Finish, O!search
<1>2. HashedUpTo(Len(all))
  BY <1>1 DEF Opening
<1>3. result' = "ok" \/ Causes(result')
  BY <1>1, <1>2, ReadIsWritten DEF Causes
<1>4. QED
  BY <1>1, <1>3, Returns

(* Every step of Open.                                                     *)
LEMMA OpenStep ==
  ASSUME Walked, outcome = "ok", Opening, UNCHANGED <<all, output>>, O!Next
  PROVE  Opening'
<1>1. WellWritten
  BY BundleIsWellWritten
<1>2. CASE O!OpenConstrainedZip
  BY <1>1, <1>2, ZipIsRead
<1>3. CASE O!ReadManifest
  BY <1>1, <1>3, ManifestIsRead
<1>4. CASE O!CheckExtraEntries
  BY <1>1, <1>4, ExtrasAreChecked
<1>5. CASE O!CountFiles
  BY <1>1, <1>5, FilesAreCounted
<1>6. CASE O!VerifyEntry
  BY <1>1, <1>6, EntryIsVerified
<1>7. CASE O!HashesDone
  BY <1>1, <1>7, HashesAreDone
<1>8. CASE O!ParseAllWorkflows
  BY <1>1, <1>8, WorkflowsParse
<1>9. CASE O!CheckRefs
  BY <1>1, <1>9, RefsAreChecked
<1>10. CASE O!StartSearch
  BY <1>1, <1>10, SearchIsStarted
<1>11. CASE O!VisitEdge
  BY <1>1, <1>11, EdgeIsVisited
<1>12. CASE O!LeaveNode
  BY <1>1, <1>12, NodeIsLeft
<1>13. CASE O!WalkDone
  BY <1>1, <1>13, WalkIsDone
<1>14. CASE O!NormalizeConditions
  BY <1>1, <1>14, ConditionsAreNormalized
<1>15. ~O!Cancelled
  BY DEF O!Cancelled
<1>16. QED
  BY <1>2, <1>3, <1>4, <1>5, <1>6, <1>7, <1>8, <1>9, <1>10, <1>11, <1>12, <1>13, <1>14, <1>15
     DEF O!Next

\* Pack first, and Open only when it has written a bundle.
Packed ==
    /\ Walked /\ lax = FALSE
    /\ outcome # "ok" => O!Begin
    /\ outcome = "ok" => Opening

LEMMA InitPacked == RoundTripInit => Packed
<1> SUFFICES ASSUME RoundTripInit PROVE Packed
  OBVIOUS
<1>1. Walked /\ outcome = "none" /\ O!Begin /\ lax = FALSE
  BY InitWalked DEF RoundTripInit, Init
<1>2. QED
  BY <1>1 DEF Packed

(* A step of Pack, an edit or a cancellation: Open has not begun.          *)
LEMMA PackingKeeps ==
  ASSUME Packed, PackStep \/ PackCancelled \/ Edit, UNCHANGED openVars PROVE Packed'
<1>1. Walked'
  BY NextWalked DEF Packed, Next
<1>2. phase # "done"
  BY DEF PackStep, VisitNext, WalkEnds, BuildManifest, WriteBundle, PackCancelled, Edit
<1>3. outcome = "none"
  BY <1>2 DEF Packed, Walked, TypeOK
<1>4. O!Begin /\ lax = FALSE
  BY <1>3 DEF Packed
<1>5. UNCHANGED <<lax, stage, result, at, verified, total, stack, nextRef, black>>
  BY DEF openVars
<1>6. O!Begin'
  BY <1>4, <1>5 DEF O!Begin
<1>7. Opening'
  <2>1. /\ stage' = "zip" /\ result' = "none" /\ at' = 1 /\ total' = 0 /\ stack' = <<>>
        /\ DOMAIN verified' = {}
    BY <1>4, <1>5 DEF O!Begin
  <2>2. nextRef' \in [Paths -> Nat \ {0}]
    <3>1. nextRef' = [p \in Paths |-> 1]
      BY <1>4, <1>5, OpenOperators DEF O!Begin
    <3>2. QED
      BY <3>1
  <2>3. QED
    BY <1>4, <1>5, <2>1, <2>2 DEF Opening, O!Stages, RefusedForCause
<1>8. QED
  BY <1>1, <1>4, <1>5, <1>6, <1>7 DEF Packed

LEMMA OpeningKeeps ==
  ASSUME Packed, OpenPacked PROVE Packed'
<1>1. outcome = "ok" /\ UNCHANGED vars /\ O!Next
  BY DEF OpenPacked
<1>2. UNCHANGED <<disk, phase, outcome, queue, visited, all, output, edits>>
  BY <1>1 DEF vars
<1>3. Walked'
  BY <1>1, StutterWalked DEF Packed
<1>4. Opening'
  BY <1>1, <1>2, OpenStep DEF Packed
<1>5. lax' = FALSE
  BY <1>4 DEF Opening
<1>6. QED
  BY <1>1, <1>2, <1>3, <1>4, <1>5 DEF Packed

LEMMA StutterKeeps ==
  ASSUME Packed, UNCHANGED allVars PROVE Packed'
<1>1. UNCHANGED vars /\ UNCHANGED openVars
  BY DEF allVars
<1>2. /\ UNCHANGED <<disk, phase, outcome, queue, visited, all, output, edits>>
      /\ UNCHANGED <<lax, stage, result, at, verified, total, stack, nextRef, black>>
  BY <1>1 DEF vars, openVars
<1>3. Walked'
  BY <1>1, StutterWalked DEF Packed
<1>4. O!Begin => O!Begin'
  BY <1>2 DEF O!Begin
<1>5. ASSUME Opening PROVE Opening'
  <2>1. UNCHANGED <<Written, SizeUpTo, O!Listed, Ways>>
    BY <1>2, SourceStays, WaysStay
  <2>2. RefusedForCause'
    BY <1>2, <1>5, WaysStay DEF Opening, RefusedForCause, Causes
  <2>3. HashedUpTo(Len(all)) => HashedUpTo(Len(all))'
    BY <1>2, <2>1 DEF HashedUpTo
  <2>4. HashedUpTo(at - 1) => HashedUpTo(at - 1)'
    BY <1>2, <2>1 DEF HashedUpTo
  <2>5. QED
    BY <1>2, <1>5, <2>1, <2>2, <2>3, <2>4 DEF Opening
<1>6. QED
  BY <1>2, <1>3, <1>4, <1>5 DEF Packed

(* "Pack-produced bundles always pass strict mode" (the format's design    *)
(* document, line 412), as far as it is true: for every source tree, every *)
(* edit while Pack walks it and every size and number of files, Open never *)
(* refuses a bundle fresh from Pack for its zip, its manifest, its digests *)
(* or a text that does not parse, and when it refuses one for something    *)
(* else, there is a reason in the files.                                   *)
THEOREM RefusedOnlyForCause == RoundTripSpec => []RefusedForCause
<1>1. RoundTripInit => Packed
  BY InitPacked
<1>2. Packed /\ [PackOrOpen \/ Around]_allVars => Packed'
  <2> SUFFICES ASSUME Packed, [PackOrOpen \/ Around]_allVars PROVE Packed'
    OBVIOUS
  <2>1. CASE (PackStep \/ PackCancelled \/ Edit) /\ UNCHANGED openVars
    BY <2>1, PackingKeeps
  <2>2. CASE OpenPacked
    BY <2>2, OpeningKeeps
  <2>3. CASE UNCHANGED allVars
    BY <2>3, StutterKeeps
  <2>4. QED
    BY <2>1, <2>2, <2>3 DEF PackOrOpen, Around
<1>3. Packed => RefusedForCause
  BY DEF Packed, Opening, RefusedForCause, O!Begin
<1>4. QED
  BY <1>1, <1>2, <1>3, PTL DEF RoundTripSpec

=============================================================================
