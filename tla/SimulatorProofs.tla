--------------------------- MODULE SimulatorProofs --------------------------
(***************************************************************************)
(* What holds of every run of the simulator, for every workflow, every     *)
(* option set, every evaluation of conditions and every step limit: every  *)
(* safety property that the module states.  Three invariants carry them.   *)
(* IInv is about the counters and the places of the two loops, LogKnown    *)
(* about the event log, WalkKnown about the edges and branches between two *)
(* visits.                                                                 *)
(***************************************************************************)
EXTENDS Simulator, FiniteSetTheorems, SequenceTheorems, WellFoundedInduction, TLAPS

-----------------------------------------------------------------------------
(* What choosing the elements of a sequence at given positions returns,    *)
(* which edges leave a node, and that looking a node up finds one          *)

(* A nonempty set of naturals has a least element; FiniteSetsExt!Min       *)
(* returns it.                                                             *)
LEMMA MinIsLeast ==
  ASSUME NEW S \in SUBSET Nat, S # {}
  PROVE  /\ Min(S) \in S
         /\ \A y \in S : Min(S) <= y
<1> DEFINE R == {ss \in Nat \X Nat : ss[1] < ss[2]}
<1>1. IsWellFoundedOn(R, Nat)
  BY NatLessThanWellFounded DEF OpToRel
<1>2. PICK x \in S : \A y \in S : <<y, x>> \notin R
  BY <1>1, WFMin
<1>3. ASSUME NEW y \in S PROVE x <= y
  <2>1. <<y, x>> \in Nat \X Nat /\ <<y, x>> \notin R
    BY <1>2
  <2>2. ~(<<y, x>>[1] < <<y, x>>[2])
    BY <2>1
  <2>3. QED
    BY <2>2
<1>4. QED
  BY <1>3 DEF Min

-----------------------------------------------------------------------------
(* Positions in a sequence, and Keep                                       *)

\* How many of the positions I come before i.
Before(I, i) == {j \in I : j < i}

(* The k-th of finitely many positions exists and is the only one.         *)
LEMMA KthPosition ==
  ASSUME NEW I \in SUBSET Nat, IsFiniteSet(I)
  PROVE  /\ Cardinality(I) \in Nat
         /\ \A i \in I : Cardinality(Before(I, i)) \in 0..(Cardinality(I) - 1)
         /\ \A i, j \in I : i < j => Cardinality(Before(I, i)) < Cardinality(Before(I, j))
         /\ \A i, j \in I : Cardinality(Before(I, i)) = Cardinality(Before(I, j)) => i = j
         /\ \A k \in 1..Cardinality(I) : \E i \in I : Cardinality(Before(I, i)) = k - 1
<1> DEFINE n == Cardinality(I)
           At(i) == Cardinality(Before(I, i))
<1>1. n \in Nat
  BY FS_CardinalityType
<1>2. ASSUME NEW i \in I PROVE IsFiniteSet(Before(I, i)) /\ At(i) \in 0..(n - 1)
  <2>1. Before(I, i) \in SUBSET (I \ {i})
    BY DEF Before
  <2>2. IsFiniteSet(I \ {i}) /\ Cardinality(I \ {i}) = n - 1
    BY FS_RemoveElement
  <2>3. IsFiniteSet(Before(I, i)) /\ At(i) <= n - 1
    BY <2>1, <2>2, FS_Subset
  <2>4. At(i) \in Nat
    BY <2>3, FS_CardinalityType
  <2>5. QED
    BY <1>1, <2>3, <2>4
<1>3. ASSUME NEW i \in I, NEW j \in I, i < j PROVE At(i) < At(j)
  <2>1. Before(I, i) \in SUBSET Before(I, j) /\ i \in Before(I, j) /\ i \notin Before(I, i)
    <3>1. i \in Int /\ j \in Int /\ \A h \in I : h \in Int
      OBVIOUS
    <3>2. \A h \in I : h < i => h < j
      BY <1>3, <3>1
    <3>3. ~(i < i)
      BY <3>1
    <3>4. QED
      BY ONLY i \in I, i < j, <3>2, <3>3, Zenon DEF Before
  <2>2. At(i) <= At(j) /\ (At(j) = At(i) => Before(I, j) = Before(I, i))
    BY <1>2, <2>1, FS_Subset
  <2>3. At(i) # At(j)
    BY <2>1, <2>2
  <2>4. QED
    BY <1>2, <2>2, <2>3
<1>4. ASSUME NEW i \in I, NEW j \in I, At(i) = At(j) PROVE i = j
  <2>1. ~(i < j) /\ ~(j < i)
    BY <1>2, <1>3, <1>4
  <2>2. QED
    BY <2>1
<1>5. ASSUME NEW k \in 1..n PROVE \E i \in I : At(i) = k - 1
  <2> DEFINE rank == [i \in I |-> At(i) + 1]
  <2>1. rank \in Injection(I, 1..n)
    <3>1. \A i \in I : At(i) \in Int /\ At(i) + 1 \in 1..n
      BY <1>1, <1>2
    <3>2. \A i, j \in I : At(i) + 1 = At(j) + 1 => i = j
      BY <1>4, <3>1
    <3>3. QED
      BY <3>1, <3>2 DEF Injection, IsInjective
  <2>2. IsFiniteSet(1..n) /\ Cardinality(1..n) = n
    BY <1>1, FS_Interval
  <2>3. rank \in Surjection(I, 1..n)
    <3> HIDE DEF rank, n
    <3>1. QED
      BY <2>1, <2>2, FS_Injection DEF n
  <2>4. PICK i \in I : rank[i] = k
    BY <2>3 DEF Surjection
  <2>5. QED
    BY <1>2, <2>4
<1>6. QED
  BY <1>1, <1>2, <1>3, <1>4, <1>5

(* Keep returns the chosen elements and no others, as a sequence.          *)
LEMMA KeepElements ==
  ASSUME NEW S, NEW s \in Seq(S), NEW I \in SUBSET (DOMAIN s)
  PROVE  /\ IsFiniteSet(I) /\ Cardinality(I) \in Nat
         /\ Keep(s, I) \in Seq(S) /\ Len(Keep(s, I)) = Cardinality(I)
         /\ Range(Keep(s, I)) = {s[i] : i \in I}
<1>1. DOMAIN s = 1..Len(s) /\ Len(s) \in Nat
  OBVIOUS
<1>2. IsFiniteSet(DOMAIN s)
  BY <1>1, FS_Interval
<1>3. IsFiniteSet(I) /\ I \in SUBSET Nat
  BY <1>1, <1>2, FS_Subset
<1> DEFINE Kth(k) == CHOOSE i \in I : Cardinality(Before(I, i)) = k - 1
<1>4. \A k \in 1..Cardinality(I) : Kth(k) \in I /\ Cardinality(Before(I, Kth(k))) = k - 1
  BY <1>3, KthPosition
<1>5. Keep(s, I) = [k \in 1..Cardinality(I) |-> s[Kth(k)]]
  BY DEF Keep, Before
<1>6. Cardinality(I) \in Nat
  BY <1>3, KthPosition
<1>7. \A i \in I : s[i] \in S
  BY <1>1
<1> HIDE DEF Kth
<1>8. Keep(s, I) \in Seq(S) /\ Len(Keep(s, I)) = Cardinality(I)
  <2>1. Keep(s, I) \in [1..Cardinality(I) -> S]
    BY <1>4, <1>5, <1>7
  <2>2. QED
    BY <1>6, <2>1
<1>9. Range(Keep(s, I)) \subseteq {s[i] : i \in I}
  BY <1>4, <1>5 DEF Range
<1>10. ASSUME NEW i \in I PROVE s[i] \in Range(Keep(s, I))
  <2>1. Cardinality(Before(I, i)) \in 0..(Cardinality(I) - 1)
    BY <1>3, KthPosition
  <2>2. PICK k \in 1..Cardinality(I) : k - 1 = Cardinality(Before(I, i))
    <3>1. Cardinality(Before(I, i)) + 1 \in 1..Cardinality(I)
          /\ (Cardinality(Before(I, i)) + 1) - 1 = Cardinality(Before(I, i))
      BY <1>6, <2>1
    <3>2. QED
      BY <3>1
  <2>3. Kth(k) = i
    BY <1>3, <1>4, <2>2, KthPosition
  <2>4. QED
    BY <1>5, <2>3 DEF Range
<1>11. QED
  BY <1>3, <1>6, <1>8, <1>9, <1>10

(* Keep looks at the chosen positions only.                                *)
LEMMA KeepSame ==
  ASSUME NEW S, NEW s \in Seq(S), NEW I \in SUBSET (DOMAIN s), NEW t, \A i \in I : t[i] = s[i]
  PROVE  Keep(t, I) = Keep(s, I)
<1> DEFINE Kth(k) == CHOOSE i \in I : Cardinality(Before(I, i)) = k - 1
<1>1. IsFiniteSet(I) /\ I \in SUBSET Nat
  <2>1. DOMAIN s \in SUBSET Nat
    OBVIOUS
  <2>2. QED
    BY <2>1, KeepElements
<1>2. \A k \in 1..Cardinality(I) : Kth(k) \in I
  BY <1>1, KthPosition
<1>3. /\ Keep(s, I) = [k \in 1..Cardinality(I) |-> s[Kth(k)]]
      /\ Keep(t, I) = [k \in 1..Cardinality(I) |-> t[Kth(k)]]
  BY DEF Keep, Before
<1> HIDE DEF Kth
<1>4. QED
  BY <1>2, <1>3

\* t is s with x at its end.  (Under a name of its own: a fact that equates
\* anything with an Append is of no use to the provers.)
Extends(t, s, x) == t = Append(s, x)

(* One position more, behind the others: one element more, at the end.     *)
LEMMA KeepOneMore ==
  ASSUME NEW S, NEW s \in Seq(S), NEW I \in SUBSET (DOMAIN s), NEW x \in S,
         NEW t, Extends(t, s, x)
  PROVE  Extends(Keep(t, I \cup {Len(s) + 1}), Keep(s, I), x)
<1> DEFINE p == Len(s) + 1
           J == I \cup {p}
           n == Cardinality(I)
<1>17. /\ DOMAIN s = 1..Len(s) /\ Len(s) \in Nat /\ t \in Seq(S) /\ DOMAIN t = 1..p /\ t[p] = x
       /\ \A i \in 1..Len(s) : t[i] = s[i]
  BY DEF Extends
<1>18. p \in DOMAIN t /\ \A i \in I : i < p /\ i \in DOMAIN t /\ t[i] = s[i]
  BY <1>17
<1> HIDE DEF p
<1>1. IsFiniteSet(I) /\ n \in Nat /\ Keep(s, I) \in Seq(S) /\ Len(Keep(s, I)) = n
  BY KeepElements
<1>2. I \in SUBSET Nat /\ p \in Nat /\ p \notin I
  BY <1>17, <1>18
<1>3. J \in SUBSET Nat /\ IsFiniteSet(J) /\ Cardinality(J) = n + 1
  BY <1>1, <1>2, FS_AddElement
<1>4. Before(J, p) = I
  BY <1>2, <1>18 DEF Before
<1>5. \A i \in I : Before(J, i) = Before(I, i)
  BY <1>2, <1>18 DEF Before
<1> DEFINE InI(k) == CHOOSE i \in I : Cardinality(Before(I, i)) = k - 1
           InJ(k) == CHOOSE i \in J : Cardinality(Before(J, i)) = k - 1
<1>6. ASSUME NEW k \in 1..(n + 1) PROVE InJ(k) \in J /\ Cardinality(Before(J, InJ(k))) = k - 1
  BY <1>3, KthPosition
<1>7. ASSUME NEW k \in 1..n PROVE InJ(k) = InI(k) /\ InI(k) \in I
  <2>1. InI(k) \in I /\ Cardinality(Before(I, InI(k))) = k - 1
    BY <1>1, <1>2, KthPosition
  <2>2. InI(k) \in J /\ Cardinality(Before(J, InI(k))) = k - 1
    BY <1>5, <2>1
  <2>3. k \in 1..(n + 1)
    BY <1>1
  <2>4. InJ(k) \in J /\ Cardinality(Before(J, InJ(k))) = k - 1
    BY <1>6, <2>3
  <2>5. QED
    <3>1. \A i, j \in J : Cardinality(Before(J, i)) = Cardinality(Before(J, j)) => i = j
      BY <1>3, KthPosition
    <3> HIDE DEF InI, InJ, J
    <3>2. QED
      BY <2>1, <2>2, <2>4, <3>1
<1>8. InJ(n + 1) = p
  <2>1. n + 1 \in 1..(n + 1) /\ (n + 1) - 1 = n
    BY <1>1
  <2>2. InJ(n + 1) \in J /\ Cardinality(Before(J, InJ(n + 1))) = n
    BY <1>6, <2>1
  <2>3. p \in J /\ Cardinality(Before(J, p)) = n
    BY <1>4
  <2>4. QED
    <3> HIDE DEF InJ, J, n
    <3>1. QED
      BY <1>3, <2>2, <2>3, KthPosition
<1>9. Keep(s, I) = [k \in 1..n |-> s[InI(k)]] /\ Keep(t, J) = [k \in 1..(n + 1) |-> t[InJ(k)]]
  BY <1>3 DEF Keep, Before
<1> HIDE DEF InI, InJ, J, n
<1>10. \A k \in 1..n : Keep(t, J)[k] = Keep(s, I)[k]
  BY <1>1, <1>7, <1>9, <1>18
<1>11. Keep(t, J)[n + 1] = t[p]
  BY <1>1, <1>8, <1>9
<1>12. t[p] \in S
  BY <1>17
<1>13. /\ Append(Keep(s, I), t[p]) \in Seq(S) /\ Len(Append(Keep(s, I), t[p])) = n + 1
       /\ \A k \in 1..n : Append(Keep(s, I), t[p])[k] = Keep(s, I)[k]
       /\ Append(Keep(s, I), t[p])[n + 1] = t[p]
  BY <1>1, <1>12
<1>14. Keep(t, J) \in Seq(S) /\ Len(Keep(t, J)) = n + 1
  <2>1. J \in SUBSET (DOMAIN t)
    BY <1>18 DEF J
  <2>2. QED
    BY <1>3, <1>17, <2>1, KeepElements
<1>15. \A k \in 1..(n + 1) : Keep(t, J)[k] = Append(Keep(s, I), t[p])[k]
  <2>1. \A k \in 1..(n + 1) : k \in 1..n \/ k = n + 1
    BY <1>1
  <2>2. QED
    BY <1>10, <1>11, <1>13, <2>1
<1>16. QED
  <2>1. \A a, b \in Seq(S) : Len(a) = n + 1 /\ Len(b) = n + 1 /\ (\A k \in 1..(n + 1) : a[k] = b[k]) => a = b
    BY <1>1
  <2>2. QED
    BY <1>13, <1>14, <1>15, <1>17, <2>1 DEF J, p, Extends

-----------------------------------------------------------------------------
(* Edges                                                                   *)

(* The elements of two sequences put together.                             *)
LEMMA ConcatElements ==
  ASSUME NEW S, NEW q \in Seq(S), NEW r \in Seq(S)
  PROVE  q \o r \in Seq(S) /\ Range(q \o r) = Range(q) \cup Range(r)
<1>1. q \o r \in Seq(S) /\ Len(q \o r) = Len(q) + Len(r)
  OBVIOUS
<1>2. \A i \in 1..Len(q) : (q \o r)[i] = q[i] /\ i \in 1..(Len(q) + Len(r))
  OBVIOUS
<1>3. \A i \in 1..Len(r) : (q \o r)[Len(q) + i] = r[i] /\ Len(q) + i \in 1..(Len(q) + Len(r))
  OBVIOUS
<1>4. ASSUME NEW i \in 1..(Len(q) + Len(r)), i \notin 1..Len(q)
      PROVE  \E j \in 1..Len(r) : i = Len(q) + j
  <2>1. i - Len(q) \in 1..Len(r) /\ i = Len(q) + (i - Len(q))
    BY <1>4
  <2>2. QED
    BY <2>1
<1>5. DOMAIN (q \o r) = 1..(Len(q) + Len(r)) /\ DOMAIN q = 1..Len(q) /\ DOMAIN r = 1..Len(r)
  BY <1>1
<1>6. Range(q) \subseteq Range(q \o r) /\ Range(r) \subseteq Range(q \o r)
  BY ONLY <1>2, <1>3, <1>5 DEF Range
<1>7. ASSUME NEW i \in 1..(Len(q) + Len(r)) PROVE (q \o r)[i] \in Range(q) \cup Range(r)
  <2>1. CASE i \in 1..Len(q)
    BY ONLY <1>2, <1>5, <2>1 DEF Range
  <2>2. CASE \E j \in 1..Len(r) : i = Len(q) + j
    BY ONLY <1>3, <1>5, <2>2 DEF Range
  <2>3. QED
    BY <1>4, <2>1, <2>2
<1>8. Range(q \o r) \subseteq Range(q) \cup Range(r)
  BY <1>5, <1>7 DEF Range
<1>9. QED
  BY <1>1, <1>6, <1>8

(* SequencesExt!FlattenSeq puts the sequences together in their order: its *)
(* elements are theirs.                                                    *)
LEMMA FlattenElements ==
  ASSUME NEW S, NEW ss \in Seq(Seq(S))
  PROVE  /\ FlattenSeq(ss) \in Seq(S)
         /\ Range(FlattenSeq(ss)) = UNION {Range(ss[i]) : i \in DOMAIN ss}
<1> DEFINE n == Len(ss)
           Joined(f, m) == f = [i \in 1..m |-> IF i = 1 THEN ss[i] ELSE f[i - 1] \o ss[i]]
           flatten == CHOOSE f : Joined(f, n)
           Upto(i) == UNION {Range(ss[j]) : j \in 1..i}
<1>1. n \in Nat /\ DOMAIN ss = 1..n /\ \A i \in 1..n : ss[i] \in Seq(S)
  OBVIOUS
<1>2. CASE n = 0
  <2>1. FlattenSeq(ss) = ss /\ ss = <<>> /\ ss \in Seq(S)
    BY <1>2 DEF FlattenSeq
  <2>2. Range(<<>>) = {} /\ DOMAIN <<>> = {}
    BY DEF Range
  <2>3. QED
    BY <2>1, <2>2
<1>3. CASE n # 0
  <2>1. FlattenSeq(ss) = flatten[n]
    BY <1>3 DEF FlattenSeq
  <2> DEFINE Exists(m) == \E f : Joined(f, m) /\ DOMAIN f = 1..m
  <2>2. Exists(1)
    <3>1. Joined([i \in 1..1 |-> ss[1]], 1)
      OBVIOUS
    <3>2. QED
      BY <3>1
  <2>3. ASSUME NEW m \in Nat, m > 1, Exists(m - 1) PROVE Exists(m)
    <3>1. PICK f : Joined(f, m - 1) /\ DOMAIN f = 1..(m - 1)
      BY <2>3
    <3> DEFINE g == [i \in 1..m |-> IF i = m THEN f[m - 1] \o ss[m] ELSE f[i]]
    <3>2. \A i \in 1..(m - 1) : f[i] = IF i = 1 THEN ss[i] ELSE f[i - 1] \o ss[i]
      BY <3>1
    <3>3. ASSUME NEW i \in 1..m PROVE g[i] = IF i = 1 THEN ss[i] ELSE g[i - 1] \o ss[i]
      <4>1. CASE i = m
        <5>1. m - 1 \in 1..m /\ m - 1 # m /\ i # 1
          BY <2>3, <4>1
        <5>2. QED
          BY <4>1, <5>1
      <4>2. CASE i # m
        <5>1. i \in 1..(m - 1) /\ (i # 1 => i - 1 \in 1..m /\ i - 1 # m)
          BY <2>3, <4>2
        <5>2. QED
          BY <3>2, <4>2, <5>1
      <4>3. QED
        BY <4>1, <4>2
    <3>4. Joined(g, m) /\ DOMAIN g = 1..m
      <4>1. g = [i \in 1..m |-> g[i]]
        OBVIOUS
      <4> HIDE DEF g
      <4>2. QED
        BY <3>3, <4>1
    <3>5. QED
      BY <3>4
  <2> HIDE DEF Exists
  <2>4. Exists(n)
    <3> DEFINE Bad == {m \in 1..n : ~Exists(m)}
    <3> SUFFICES ASSUME Bad # {} PROVE FALSE
      BY <1>1, <1>3
    <3>1. Min(Bad) \in Bad /\ \A m \in Bad : Min(Bad) <= m
      <4>1. Bad \in SUBSET Nat
        OBVIOUS
      <4> HIDE DEF Bad
      <4>2. QED
        BY <4>1, MinIsLeast
    <3>2. Min(Bad) \in 1..n /\ ~Exists(Min(Bad)) /\ Min(Bad) # 1
      BY <2>2, <3>1
    <3>3. Min(Bad) - 1 \in 1..n /\ ~(Min(Bad) <= Min(Bad) - 1)
      BY <1>1, <3>2
    <3>4. Exists(Min(Bad) - 1)
      BY <3>1, <3>3
    <3>5. QED
      BY <2>3, <3>2, <3>4
  <2>5. Joined(flatten, n)
    <3>1. \E f : Joined(f, n)
      BY <2>4 DEF Exists
    <3> HIDE DEF Joined
    <3>2. QED
      BY <3>1
  <2>6. \A i \in 1..n : flatten[i] = IF i = 1 THEN ss[i] ELSE flatten[i - 1] \o ss[i]
    <3> HIDE DEF flatten
    <3>1. QED
      BY <2>5
  <2> DEFINE Good(i) == flatten[i] \in Seq(S) /\ Range(flatten[i]) = Upto(i)
  <2> HIDE DEF flatten
  <2>7. Good(1)
    <3>1. flatten[1] = ss[1] /\ 1..1 = {1} /\ 1 \in 1..n
      BY <1>1, <1>3, <2>6
    <3>2. Upto(1) = Range(ss[1])
      BY <3>1
    <3>3. QED
      BY <1>1, <3>1, <3>2
  <2>8. ASSUME NEW i \in 1..n, i # 1, Good(i - 1) PROVE Good(i)
    <3>1. flatten[i] = flatten[i - 1] \o ss[i]
      BY <2>6, <2>8
    <3>2. flatten[i] \in Seq(S) /\ Range(flatten[i]) = Range(flatten[i - 1]) \cup Range(ss[i])
      BY <1>1, <2>8, <3>1, ConcatElements
    <3>3. 1..i = 1..(i - 1) \cup {i}
      BY <1>1
    <3>4. Upto(i) = Upto(i - 1) \cup Range(ss[i])
      BY ONLY <3>3
    <3>5. QED
      BY <2>8, <3>2, <3>4
  <2> HIDE DEF Good
  <2>9. Good(n)
    <3> DEFINE Bad == {i \in 1..n : ~Good(i)}
    <3> SUFFICES ASSUME Bad # {} PROVE FALSE
      BY <1>1, <1>3
    <3>1. Min(Bad) \in Bad /\ \A m \in Bad : Min(Bad) <= m
      <4>1. Bad \in SUBSET Nat
        OBVIOUS
      <4> HIDE DEF Bad
      <4>2. QED
        BY <4>1, MinIsLeast
    <3>2. Min(Bad) \in 1..n /\ ~Good(Min(Bad)) /\ Min(Bad) # 1
      BY <2>7, <3>1
    <3>3. Min(Bad) - 1 \in 1..n /\ ~(Min(Bad) <= Min(Bad) - 1)
      BY <1>1, <3>2
    <3>4. Good(Min(Bad) - 1)
      BY <3>1, <3>3
    <3>5. QED
      BY <2>8, <3>2, <3>4
  <2>10. QED
    BY <1>1, <2>1, <2>9 DEF Good
<1>4. QED
  BY <1>2, <1>3

(* Mapping over a sequence.                                                *)
LEMMA MappedSeq ==
  ASSUME NEW S, NEW s \in Seq(S), NEW T, NEW f, DOMAIN f = DOMAIN s, \A i \in DOMAIN s : f[i] \in T,
         f = [i \in DOMAIN s |-> f[i]]
  PROVE  f \in Seq(T) /\ Len(f) = Len(s)
<1>1. Len(s) \in Nat /\ DOMAIN s = 1..Len(s)
  OBVIOUS
<1>2. f \in [1..Len(s) -> T]
  BY <1>1
<1>3. QED
  BY <1>1, <1>2

(* The edges that leave a node, declared or implied, are a sequence of     *)
(* edges that leave this node (ir/lookup.go, EdgesFrom).                   *)
LEMMA EdgesFromNode ==
  ASSUME NEW w, NEW N, w.nodes \in Seq(N), NEW E, w.edges \in Seq(E),
         NEW id, NEW T, TargetsOf(w, id) \in Seq(T)
  PROVE  /\ EdgesFrom(w, id) \in Seq(Range(EdgesFrom(w, id)))
         /\ \A e \in Range(EdgesFrom(w, id)) : e.from = id
<1> DEFINE ownEdges == {i \in DOMAIN w.edges : w.edges[i].from = id}
           explicit == Keep(w.edges, ownEdges)
           plain == {e.to : e \in {x \in Range(explicit) : x.cond = NoCond}}
           waiting == {i \in DOMAIN w.nodes : w.nodes[i].kind = "fan_in" /\ id \in Range(w.nodes[i].sources)}
           chosen == Keep(w.nodes, waiting)
           joins == [i \in DOMAIN chosen |-> chosen[i].id]
           ends == TargetsOf(w, id) \o joins
           first == {i \in DOMAIN ends : ends[i] \notin plain /\ \A j \in 1..(i - 1) : ends[j] # ends[i]}
           implied == Keep(ends, first)
           implicit == [i \in DOMAIN implied |-> ImplicitEdge(id, implied[i])]
<1>1. EdgesFrom(w, id) = explicit \o implicit
  BY DEF EdgesFrom, IDsWhere
<1>2. explicit \in Seq(E) /\ Range(explicit) = {w.edges[i] : i \in ownEdges}
  BY KeepElements
<1>3. chosen \in Seq(N)
  BY KeepElements
<1>4. joins \in Seq({n.id : n \in N})
  <2>1. \A i \in DOMAIN chosen : chosen[i] \in N
    BY <1>3
  <2>2. \A i \in DOMAIN chosen : chosen[i].id \in {n.id : n \in N}
    BY <2>1
  <2> HIDE DEF chosen
  <2>3. DOMAIN joins = DOMAIN chosen /\ joins = [i \in DOMAIN chosen |-> joins[i]]
        /\ \A i \in DOMAIN chosen : joins[i] \in {n.id : n \in N}
    BY <2>2
  <2> HIDE DEF joins
  <2>4. QED
    BY <1>3, <2>3, MappedSeq
<1> DEFINE U == T \cup {n.id : n \in N}
<1>5. TargetsOf(w, id) \in Seq(U) /\ joins \in Seq(U)
  <2> HIDE DEF joins
  <2>1. QED
    BY <1>4
<1>6. ends \in Seq(U)
  <2> HIDE DEF joins, U
  <2>1. QED
    BY <1>5
<1>7. implied \in Seq(U)
  <2> HIDE DEF ends, U, plain
  <2>1. QED
    BY <1>6, KeepElements
<1>8. implicit \in Seq({ImplicitEdge(id, t) : t \in U})
  <2> HIDE DEF implied
  <2>1. DOMAIN implicit = DOMAIN implied /\ implicit = [i \in DOMAIN implied |-> implicit[i]]
    OBVIOUS
  <2>2. \A i \in DOMAIN implied : implied[i] \in U
    <3> HIDE DEF U
    <3>1. QED
      BY <1>7
  <2>3. \A i \in DOMAIN implied : implicit[i] \in {ImplicitEdge(id, t) : t \in U}
    BY <2>2
  <2> HIDE DEF implicit, U
  <2>4. QED
    BY <1>7, <2>1, <2>3, MappedSeq
<1> DEFINE A == {w.edges[i] : i \in ownEdges} \cup {ImplicitEdge(id, t) : t \in U}
<1>9. \A e \in A : e.from = id
  BY DEF ImplicitEdge, Edge
<1>10. explicit \in Seq(A)
  <2> HIDE DEF explicit, ownEdges
  <2>1. Len(explicit) \in Nat /\ DOMAIN explicit = 1..Len(explicit) /\ explicit = [i \in 1..Len(explicit) |-> explicit[i]]
    BY <1>2
  <2>2. \A i \in 1..Len(explicit) : explicit[i] \in A
    BY <1>2, <2>1 DEF Range
  <2> HIDE DEF A
  <2>3. explicit \in [1..Len(explicit) -> A]
    BY <2>1, <2>2
  <2>4. QED
    BY <2>1, <2>3
<1>11. implicit \in Seq(A)
  <2> HIDE DEF implicit, U, ownEdges
  <2>1. QED
    BY <1>8
<1> HIDE DEF explicit, implicit, A
<1>12. EdgesFrom(w, id) \in Seq(A)
  BY <1>1, <1>10, <1>11
<1>13. \A i \in 1..Len(EdgesFrom(w, id)) : EdgesFrom(w, id)[i] \in A /\ EdgesFrom(w, id)[i] \in Range(EdgesFrom(w, id))
  BY <1>12 DEF Range
<1>14. Len(EdgesFrom(w, id)) \in Nat /\ DOMAIN EdgesFrom(w, id) = 1..Len(EdgesFrom(w, id))
       /\ EdgesFrom(w, id) = [i \in 1..Len(EdgesFrom(w, id)) |-> EdgesFrom(w, id)[i]]
  BY <1>12
<1>15. Range(EdgesFrom(w, id)) \subseteq A
  BY <1>13, <1>14 DEF Range
<1>16. EdgesFrom(w, id) \in [1..Len(EdgesFrom(w, id)) -> Range(EdgesFrom(w, id))]
  BY <1>13, <1>14
<1>17. QED
  BY <1>9, <1>14, <1>15, <1>16

-----------------------------------------------------------------------------
(* Lemmas about the operators of the model                                 *)

(* Looking up an ID that the workflow has returns a node with that ID.     *)
LEMMA NodeOfIsNode ==
  ASSUME NEW w \in Workflows, NEW id \in NodeIDs(w)
  PROVE  /\ NodeOf(w, id) \in NodeRecords
         /\ NodeOf(w, id).id = id
<1> DEFINE I == {i \in 1..Len(w.nodes) : w.nodes[i].id = id}
<1>1. w.nodes \in Seq(NodeRecords)
  BY WorkflowsAssumption
<1>2. I \in SUBSET Nat /\ I # {}
  BY <1>1 DEF NodeIDs
<1>3. Min(I) \in I
  BY <1>2, MinIsLeast
<1>4. NodeOf(w, id) = w.nodes[Min(I)]
  BY <1>2 DEF NodeOf, SelectInSeq
<1>5. Min(I) \in 1..Len(w.nodes) /\ w.nodes[Min(I)].id = id
  BY <1>3
<1>6. w.nodes[Min(I)] \in NodeRecords
  BY <1>1, <1>5, ElementOfSeq
<1>7. QED
  BY <1>4, <1>5, <1>6

LEMMA NodeOfIsListed ==
  ASSUME NEW w \in Workflows, NEW id \in NodeIDs(w)
  PROVE  NodeOf(w, id) \in Range(w.nodes)
<1> DEFINE I == {i \in 1..Len(w.nodes) : w.nodes[i].id = id}
<1>1. w.nodes \in Seq(NodeRecords)
  BY WorkflowsAssumption
<1>2. I \in SUBSET Nat /\ I # {}
  BY <1>1 DEF NodeIDs
<1>3. NodeOf(w, id) = w.nodes[Min(I)]
  BY <1>2 DEF NodeOf, SelectInSeq
<1>4. Min(I) \in I
  BY <1>2, MinIsLeast
<1>5. DOMAIN w.nodes = 1..Len(w.nodes)
  BY <1>1
<1>6. QED
  BY <1>3, <1>4, <1>5 DEF Range

(* A context stays a context: whatever a visit leaves behind, and clearing *)
(* the label.                                                              *)
LEMMA ContextsAreTyped ==
  ASSUME wf \in Workflows, opts \in OptionsFor(wf), NEW n \in NodeRecords,
         NEW c \in [CtxKeys -> CtxValues]
  PROVE  ContextsAfterVisit(c, n) \subseteq [CtxKeys -> CtxValues]
<1>1. NodeDefaults(c, n) \in [CtxKeys -> CtxValues]
  <2>1. \A k \in DOMAIN PerNode(n) : PerNode(n)[k] \in CtxValues
    BY OptionsAssumption DEF PerNode
  <2>2. QED
    BY <2>1, ValuesAssumption DEF NodeDefaults, Injected
<1>2. ASSUME NEW d \in [CtxKeys -> CtxValues], NEW r \in CtxValues
      PROVE  Answered(d, n, r) \in [CtxKeys -> CtxValues]
  BY DEF Answered
<1>3. n.default \in CtxValues
  BY DEF NodeRecords
<1>4. QED
  BY <1>1, <1>2, <1>3, ValuesAssumption DEF ContextsAfterVisit

LEMMA AfterLabelIsTyped ==
  ASSUME NEW n, NEW edges, NEW c \in [CtxKeys -> CtxValues]
  PROVE  AfterLabel(n, edges, c) \in [CtxKeys -> CtxValues]
BY ValuesAssumption, KeysAssumption DEF AfterLabel

(* One visit extends the path by the node and counts it once.              *)
LEMMA VisitExtends ==
  ASSUME wf \in Workflows, wf' = wf,
         nodeVisits \in [NodeIDs(wf) -> Nat], path \in Seq(NodeIDs(wf)),
         VisitsMatchPath,
         NEW n, n.id \in NodeIDs(wf), Visit(n)
  PROVE  /\ nodeVisits' \in [NodeIDs(wf) -> Nat]
         /\ path' \in Seq(NodeIDs(wf))
         /\ path' # <<>> /\ Len(path') = Len(path) + 1
         /\ Last(path') = n.id
         /\ VisitsMatchPath'
<1>1. nodeVisits' \in [NodeIDs(wf) -> Nat]
  BY DEF Visit
<1>2. /\ path' \in Seq(NodeIDs(wf))
      /\ path' # <<>> /\ Len(path') = Len(path) + 1
      /\ \A i \in 1..Len(path) : path'[i] = path[i]
      /\ path'[Len(path) + 1] = n.id
  BY DEF Visit
<1>3. Last(path') = n.id
  BY <1>2 DEF Last
<1>4. ASSUME NEW id \in NodeIDs(wf)
      PROVE  nodeVisits'[id] = Cardinality(Occurrences(id)')
  <2>1. Occurrences(id)' = Occurrences(id) \cup (IF id = n.id THEN {Len(path) + 1} ELSE {})
    <3>1. Len(path) \in Nat /\ DOMAIN path = 1..Len(path) /\ DOMAIN path' = 1..(Len(path) + 1)
      BY <1>2
    <3>2. /\ Occurrences(id) = {i \in 1..Len(path) : path[i] = id}
          /\ Occurrences(id)' = {i \in 1..(Len(path) + 1) : path'[i] = id}
      BY <3>1 DEF Occurrences
    <3>3. QED
      BY ONLY <1>2, <3>1, <3>2
  <2>2. IsFiniteSet(Occurrences(id)) /\ Len(path) + 1 \notin Occurrences(id)
    <3>1. Occurrences(id) \in SUBSET Nat /\ \A i \in Occurrences(id) : i <= Len(path)
      BY DEF Occurrences
    <3>2. Len(path) \in Nat
      OBVIOUS
    <3>3. IsFiniteSet(Occurrences(id))
      BY <3>1, <3>2, FS_BoundedSetOfNaturals
    <3>4. QED
      BY <3>1, <3>2, <3>3
  <2>3. Cardinality(Occurrences(id)') =
          IF id = n.id THEN Cardinality(Occurrences(id)) + 1 ELSE Cardinality(Occurrences(id))
    BY <2>1, <2>2, FS_AddElement
  <2>4. QED
    BY <2>3 DEF Visit, VisitsMatchPath
<1>5. NodeIDs(wf)' = NodeIDs(wf)
  BY DEF NodeIDs
<1>6. QED
  BY <1>1, <1>2, <1>3, <1>4, <1>5 DEF VisitsMatchPath

LEMMA NodeEdges ==
  ASSUME NEW w \in Workflows, NEW id \in NodeIDs(w)
  PROVE  /\ EdgesFrom(w, id) \in Seq(Range(EdgesFrom(w, id)))
         /\ \A e \in Range(EdgesFrom(w, id)) : e.from = id
<1>1. w.nodes \in Seq(NodeRecords) /\ w.edges \in Seq(Range(w.edges))
  BY WorkflowsAssumption
<1>2. TargetsOf(w, id) \in Seq(STRING)
  <2>1. NodeOf(w, id) \in NodeRecords
    BY NodeOfIsNode
  <2>2. NodeOf(w, id).targets \in Seq(STRING) /\ <<>> \in Seq(STRING)
    BY <2>1 DEF NodeRecords
  <2>3. QED
    BY <2>2 DEF TargetsOf
<1>3. QED
  BY <1>1, <1>2, EdgesFromNode

(* Some edge is chosen whenever there is one: among the edges of the first *)
(* pass that finds any, the first.                                         *)
LEMMA ChosenIsEdge ==
  ASSUME NEW n, NEW edges, edges \in Seq(Range(edges)), edges # <<>>, NEW c, NEW visits
  PROVE  ChosenEdge(n, edges, c, visits) \in Range(edges)
<1> DEFINE R(i) == Rank(n, edges, i, c, visits)
           Least(i) == \A j \in DOMAIN edges : R(i) < R(j) \/ (R(i) = R(j) /\ i <= j)
<1>1. DOMAIN edges = 1..Len(edges) /\ Len(edges) \in Nat /\ 1 \in DOMAIN edges
  OBVIOUS
<1>2. \A i \in DOMAIN edges : R(i) \in Nat
  BY DEF Rank
<1> HIDE DEF R
<1> DEFINE Ranks == {R(i) : i \in DOMAIN edges}
<1>3. Min(Ranks) \in Ranks /\ \A r \in Ranks : Min(Ranks) <= r
  <2>1. Ranks \in SUBSET Nat /\ Ranks # {}
    BY <1>1, <1>2
  <2> HIDE DEF Ranks
  <2>2. QED
    BY <2>1, MinIsLeast
<1> DEFINE Best == {i \in DOMAIN edges : R(i) = Min(Ranks)}
<1>4. Min(Best) \in Best /\ \A i \in Best : Min(Best) <= i
  <2>1. PICK i \in DOMAIN edges : R(i) = Min(Ranks)
    BY <1>3
  <2>2. Best \in SUBSET Nat /\ Best # {}
    <3>1. i \in Best
      BY <2>1
    <3>2. Best \subseteq DOMAIN edges /\ DOMAIN edges \subseteq Nat
      BY <1>1
    <3>3. QED
      BY ONLY <3>1, <3>2
  <2> HIDE DEF Best
  <2>3. QED
    BY <2>2, MinIsLeast
<1>5. Min(Best) \in DOMAIN edges /\ R(Min(Best)) = Min(Ranks)
  BY <1>4
<1>6. Least(Min(Best))
  <2> SUFFICES ASSUME NEW j \in DOMAIN edges
               PROVE  R(Min(Best)) < R(j) \/ (R(Min(Best)) = R(j) /\ Min(Best) <= j)
    OBVIOUS
  <2>1. Min(Ranks) <= R(j) /\ Min(Ranks) \in Nat /\ R(j) \in Nat
    BY <1>2, <1>3
  <2>2. CASE R(j) = Min(Ranks)
    <3>1. j \in Best
      BY <2>2
    <3>2. Min(Best) <= j
      BY <1>4, <3>1
    <3>3. QED
      BY <1>5, <2>2, <3>2
  <2>3. CASE R(j) # Min(Ranks)
    BY <1>5, <2>1, <2>3
  <2>4. QED
    BY <2>2, <2>3
<1>7. (CHOOSE i \in DOMAIN edges : Least(i)) \in DOMAIN edges
  <2> HIDE DEF Least, Best
  <2>1. \E i \in DOMAIN edges : Least(i)
    BY <1>5, <1>6
  <2>2. QED
    BY <2>1
<1>8. ChosenEdge(n, edges, c, visits) = edges[CHOOSE i \in DOMAIN edges : Least(i)]
  BY DEF ChosenEdge, R
<1> HIDE DEF Least
<1>9. QED
  BY <1>7, <1>8 DEF Range

-----------------------------------------------------------------------------
(* The inductive invariant                                                 *)

(* What the main loop knows while it walks branches: the parallel node it  *)
(* stands on and the join it goes on at.  The branch loop tests the step   *)
(* budget before each visit, so it leaves the loop at the limit at most.   *)
BranchesKnown ==
    pc = "branch" =>
        /\ current \in NodeIDs(wf)
        /\ NodeOf(wf, current).kind = "parallel"
        /\ join = JoinOf(wf, NodeOf(wf, current).targets)
        /\ steps <= MaxSteps

NothingBeforeStart == pc = "start" => path = <<>> /\ steps = 0

\* validateSimInput ran before either loop did.
EndsKnown == pc \in {"main", "branch"} => {wf.start, wf.exit} \subseteq NodeIDs(wf)

IInv ==
    /\ TypeOK /\ StepBudget /\ VisitsMatchPath /\ StatusIsEarned
    /\ BranchesKnown /\ NothingBeforeStart /\ EndsKnown

LEMMA InitIInv == Init => IInv
<1> SUFFICES ASSUME Init PROVE IInv
  OBVIOUS
<1> USE DEF Init
<1>1. path = <<>> /\ path \in Seq(NodeIDs(wf)) /\ Len(path) = 0 /\ DOMAIN path = {}
  <2>1. path = <<>>
    OBVIOUS
  <2>2. path \in Seq(NodeIDs(wf)) /\ Len(path) = 0
    BY ONLY <2>1
  <2>3. DOMAIN path = {}
    BY ONLY <2>1
  <2>4. QED
    BY ONLY <2>1, <2>2, <2>3
<1>2. ctx \in [CtxKeys -> CtxValues]
  BY OptionsAssumption, ValuesAssumption
<1>3. nodeVisits \in [NodeIDs(wf) -> Nat]
  OBVIOUS
<1>4. wf \in Workflows /\ opts \in OptionsFor(wf) /\ steps = 0 /\ pc = "start" /\ status = "running"
  OBVIOUS
<1>5. TypeOK
  BY ONLY <1>1, <1>2, <1>3, <1>4 DEF TypeOK, Statuses
<1>6. StepBudget
  BY ONLY <1>1, <1>4, MaxStepsAssumption DEF StepBudget
<1>7. NothingBeforeStart /\ BranchesKnown /\ StatusIsEarned /\ EndsKnown
  BY ONLY <1>1, <1>4 DEF NothingBeforeStart, BranchesKnown, StatusIsEarned, EndsKnown
<1>8. VisitsMatchPath
  <2>1. \A id \in NodeIDs(wf) : Occurrences(id) = {}
    BY ONLY <1>1 DEF Occurrences
  <2>2. QED
    BY <2>1, FS_EmptySet DEF VisitsMatchPath
<1>9. QED
  BY ONLY <1>5, <1>6, <1>7, <1>8 DEF IInv

(* A step that leaves the inputs, the visit counts and the path alone      *)
(* leaves the visit counts right.                                          *)
LEMMA UntouchedCounts ==
  ASSUME VisitsMatchPath, UNCHANGED <<wf, nodeVisits, path>>
  PROVE  VisitsMatchPath'
BY DEF VisitsMatchPath, Occurrences

(* An error ends the run from any state before the end.                    *)
LEMMA FailKeeps ==
  ASSUME IInv, Fail
  PROVE  IInv'
<1>1. TypeOK'
  BY DEF IInv, Fail, TypeOK, Statuses, inputs
<1>2. StepBudget' /\ NothingBeforeStart' /\ BranchesKnown' /\ StatusIsEarned' /\ EndsKnown'
  BY DEF IInv, Fail, inputs, StepBudget, NothingBeforeStart, BranchesKnown, StatusIsEarned, EndsKnown
<1>3. VisitsMatchPath'
  BY UntouchedCounts DEF IInv, Fail, inputs
<1>4. QED
  BY <1>1, <1>2, <1>3 DEF IInv

LEMMA StartKeeps ==
  ASSUME IInv, Start
  PROVE  IInv'
<1>1. CASE Fail
  BY <1>1, FailKeeps
<1>2. CASE /\ {wf.start, wf.exit} \subseteq NodeIDs(wf)
           /\ pc = "start" /\ pc' = "main"
           /\ UNCHANGED <<inputs, ctx, nodeVisits, path, steps,
                          current, branchAt, pending, join, status>>
  <2>1. TypeOK'
    BY <1>2 DEF IInv, TypeOK, Statuses, inputs
  <2>2. StepBudget' /\ NothingBeforeStart' /\ BranchesKnown' /\ StatusIsEarned'
    BY <1>2 DEF IInv, TypeOK, inputs, StepBudget, NothingBeforeStart, BranchesKnown, StatusIsEarned
  <2>3. EndsKnown'
    BY <1>2 DEF EndsKnown, inputs
  <2>4. VisitsMatchPath'
    BY <1>2, UntouchedCounts DEF IInv, inputs
  <2>5. QED
    BY <2>1, <2>2, <2>3, <2>4 DEF IInv
<1>3. QED
  BY <1>1, <1>2 DEF Start

LEMMA ReachExitKeeps ==
  ASSUME IInv, ReachExit
  PROVE  IInv'
<1> DEFINE n == NodeOf(wf, current)
<1>1. current \in NodeIDs(wf) /\ wf \in Workflows
  BY DEF IInv, TypeOK, EndsKnown, ReachExit
<1>2. n \in NodeRecords /\ n.id = current
  BY <1>1, NodeOfIsNode
<1>3. /\ pc = "main" /\ steps < MaxSteps /\ current = wf.exit
      /\ Visit(n) /\ ctx' \in ContextsAfterVisit(ctx, n)
      /\ pc' = "done" /\ status' = "success"
      /\ UNCHANGED <<wf, opts, steps>>
  BY DEF ReachExit, Finish, inputs
<1>4. /\ nodeVisits' \in [NodeIDs(wf) -> Nat]
      /\ path' \in Seq(NodeIDs(wf))
      /\ path' # <<>> /\ Len(path') = Len(path) + 1
      /\ Last(path') = n.id
      /\ VisitsMatchPath'
  BY <1>1, <1>2, <1>3, VisitExtends DEF IInv, TypeOK
<1>5. TypeOK'
  <2>1. ctx' \in [CtxKeys -> CtxValues]
    BY <1>2, <1>3, ContextsAreTyped DEF IInv, TypeOK
  <2>2. QED
    BY <1>3, <1>4, <2>1 DEF IInv, TypeOK, Statuses
<1>6. StepBudget'
  BY <1>3, <1>4, MaxStepsAssumption DEF IInv, TypeOK, StepBudget
<1>7. StatusIsEarned'
  BY <1>2, <1>3, <1>4 DEF StatusIsEarned
<1>8. BranchesKnown' /\ NothingBeforeStart' /\ EndsKnown'
  BY <1>3 DEF BranchesKnown, NothingBeforeStart, EndsKnown
<1>9. QED
  BY <1>4, <1>5, <1>6, <1>7, <1>8 DEF IInv

LEMMA ForkKeeps ==
  ASSUME IInv, Fork
  PROVE  IInv'
<1> DEFINE n == NodeOf(wf, current)
<1>1. current \in NodeIDs(wf) /\ wf \in Workflows
  BY DEF IInv, TypeOK, Fork
<1>2. n \in NodeRecords /\ n.id = current
  BY <1>1, NodeOfIsNode
<1>3. /\ pc = "main" /\ steps < MaxSteps
      /\ n.kind = "parallel" /\ Visit(n)
      /\ pc' = "branch" /\ join' = JoinOf(wf, n.targets)
      /\ UNCHANGED <<wf, opts, ctx, steps, current, status>>
  BY DEF Fork, inputs
<1>4. /\ nodeVisits' \in [NodeIDs(wf) -> Nat]
      /\ path' \in Seq(NodeIDs(wf))
      /\ Len(path') = Len(path) + 1
      /\ VisitsMatchPath'
  BY <1>1, <1>2, <1>3, VisitExtends DEF IInv, TypeOK
<1>5. TypeOK'
  BY <1>3, <1>4 DEF IInv, TypeOK, Statuses
<1>6. StepBudget'
  BY <1>3, <1>4, MaxStepsAssumption DEF IInv, TypeOK, StepBudget
<1>7. StatusIsEarned'
  BY <1>3 DEF IInv, TypeOK, StatusIsEarned
<1>8. BranchesKnown'
  BY <1>1, <1>3, MaxStepsAssumption DEF IInv, TypeOK, BranchesKnown
<1>9. NothingBeforeStart' /\ EndsKnown'
  BY <1>3 DEF IInv, NothingBeforeStart, EndsKnown
<1>10. QED
  BY <1>4, <1>5, <1>6, <1>7, <1>8, <1>9 DEF IInv

LEMMA AdvanceKeeps ==
  ASSUME IInv, Advance
  PROVE  IInv'
<1> DEFINE n == NodeOf(wf, current)
           edges == EdgesFrom(wf, current)
<1>1. current \in NodeIDs(wf) /\ wf \in Workflows
  BY DEF IInv, TypeOK, Advance
<1>2. n \in NodeRecords /\ n.id = current
  BY <1>1, NodeOfIsNode
<1>3. /\ pc = "main" /\ steps < MaxSteps /\ Visit(n)
      /\ UNCHANGED <<wf, opts>>
  BY DEF Advance, inputs
<1>4. PICK c \in ContextsAfterVisit(ctx, n) :
        /\ ctx' = AfterLabel(n, edges, c)
        /\ \/ /\ ChosenEdge(n, edges, c, nodeVisits[current] + 1).to = NoNode
              /\ pc' = "done" /\ status' = "dead_end" /\ UNCHANGED steps
           \/ /\ steps' = steps + 1
              /\ UNCHANGED <<pc, status>>
  BY DEF Advance, Finish
<1>5. /\ nodeVisits' \in [NodeIDs(wf) -> Nat]
      /\ path' \in Seq(NodeIDs(wf))
      /\ path' # <<>> /\ Len(path') = Len(path) + 1
      /\ Last(path') = n.id
      /\ VisitsMatchPath'
  BY <1>1, <1>2, <1>3, VisitExtends DEF IInv, TypeOK
<1>6. TypeOK'
  <2>1. c \in [CtxKeys -> CtxValues]
    BY <1>2, ContextsAreTyped DEF IInv, TypeOK
  <2>2. ctx' \in [CtxKeys -> CtxValues]
    BY <1>4, <2>1, AfterLabelIsTyped
  <2>3. QED
    BY <1>3, <1>4, <1>5, <2>2 DEF IInv, TypeOK, Statuses
<1>7. StepBudget'
  BY <1>3, <1>4, <1>5, MaxStepsAssumption DEF IInv, TypeOK, StepBudget
<1>8. StatusIsEarned'
  <2>1. CASE /\ status' = "dead_end"
             /\ ChosenEdge(n, edges, c, nodeVisits[current] + 1).to = NoNode
    <3>1. EdgesFrom(wf', Last(path')) = edges
      BY <1>2, <1>3, <1>5
    <3>2. edges # <<>> => \E e \in Range(edges) : e.to = NoNode
      <4>1. edges \in Seq(Range(edges))
        BY <1>1, NodeEdges
      <4> HIDE DEF edges
      <4>2. QED
        BY <2>1, <4>1, ChosenIsEdge
    <3>3. QED
      BY <1>5, <2>1, <3>1, <3>2 DEF StatusIsEarned, LeadsNowhere
  <2>2. CASE UNCHANGED <<pc, status>>
    BY <1>3, <2>2 DEF IInv, TypeOK, StatusIsEarned
  <2>3. QED
    BY <1>4, <2>1, <2>2
<1>9. BranchesKnown' /\ NothingBeforeStart' /\ EndsKnown'
  BY <1>3, <1>4 DEF IInv, BranchesKnown, NothingBeforeStart, EndsKnown
<1>10. QED
  BY <1>5, <1>6, <1>7, <1>8, <1>9 DEF IInv

(* Steps between two visits: the loops' own variables change and nothing   *)
(* that has been recorded does.                                            *)
LEMMA BetweenVisitsKeeps ==
  ASSUME IInv, pc = "branch",
         UNCHANGED <<inputs, ctx, nodeVisits, path, steps, pc, current, join, status>>
  PROVE  IInv'
<1>1. TypeOK'
  BY DEF IInv, TypeOK, inputs
<1>2. StepBudget' /\ StatusIsEarned' /\ NothingBeforeStart'
  BY DEF IInv, TypeOK, inputs, StepBudget, StatusIsEarned, NothingBeforeStart
<1>3. BranchesKnown' /\ EndsKnown'
  BY DEF IInv, inputs, BranchesKnown, EndsKnown
<1>4. VisitsMatchPath'
  BY UntouchedCounts DEF IInv, inputs
<1>5. QED
  BY <1>1, <1>2, <1>3, <1>4 DEF IInv

LEMMA NextBranchKeeps ==
  ASSUME IInv, NextBranch
  PROVE  IInv'
BY BetweenVisitsKeeps DEF NextBranch

LEMMA BranchArrivesKeeps ==
  ASSUME IInv, BranchArrives
  PROVE  IInv'
BY BetweenVisitsKeeps DEF BranchArrives

LEMMA BranchStepKeeps ==
  ASSUME IInv, BranchStep
  PROVE  IInv'
<1> DEFINE n == NodeOf(wf, branchAt)
           edges == EdgesFrom(wf, branchAt)
<1>1. branchAt \in NodeIDs(wf) /\ wf \in Workflows
  BY DEF IInv, TypeOK, BranchStep
<1>2. n \in NodeRecords /\ n.id = branchAt
  BY <1>1, NodeOfIsNode
<1>3. /\ pc = "branch" /\ steps < MaxSteps /\ Visit(n) /\ steps' = steps + 1
      /\ UNCHANGED <<wf, opts, pc, current, join, status>>
  BY DEF BranchStep, inputs
<1>4. PICK c \in ContextsAfterVisit(ctx, n) : ctx' = AfterLabel(n, edges, c)
  BY DEF BranchStep
<1>5. /\ nodeVisits' \in [NodeIDs(wf) -> Nat]
      /\ path' \in Seq(NodeIDs(wf))
      /\ Len(path') = Len(path) + 1
      /\ VisitsMatchPath'
  BY <1>1, <1>2, <1>3, VisitExtends DEF IInv, TypeOK
<1>6. TypeOK'
  <2>1. c \in [CtxKeys -> CtxValues]
    BY <1>2, ContextsAreTyped DEF IInv, TypeOK
  <2>2. ctx' \in [CtxKeys -> CtxValues]
    BY <1>4, <2>1, AfterLabelIsTyped
  <2>3. QED
    BY <1>3, <1>5, <2>2 DEF IInv, TypeOK, Statuses
<1>7. StepBudget'
  BY <1>3, <1>5, MaxStepsAssumption, SMTT(20) DEF IInv, TypeOK, StepBudget
<1>8. StatusIsEarned' /\ NothingBeforeStart'
  BY <1>3 DEF IInv, TypeOK, StatusIsEarned, NothingBeforeStart
<1>9. BranchesKnown' /\ EndsKnown'
  <2>1. steps' <= MaxSteps
    BY <1>3, MaxStepsAssumption DEF IInv, TypeOK
  <2>2. QED
    BY <1>3, <2>1 DEF IInv, BranchesKnown, EndsKnown
<1>10. QED
  BY <1>5, <1>6, <1>7, <1>8, <1>9 DEF IInv

LEMMA RejoinKeeps ==
  ASSUME IInv, Rejoin
  PROVE  IInv'
<1>1. /\ pc = "branch"
      /\ UNCHANGED <<wf, opts, ctx, nodeVisits, path>>
      /\ \/ /\ join = NoNode
            /\ pc' = "done" /\ status' = "dead_end"
            /\ UNCHANGED <<current, join, steps>>
         \/ /\ pc' = "main" /\ steps' = steps + 1 /\ UNCHANGED status
  BY DEF Rejoin, Finish, inputs
<1>2. TypeOK'
  BY <1>1 DEF IInv, TypeOK, Statuses
<1>3. StepBudget'
  BY <1>1, MaxStepsAssumption DEF IInv, TypeOK, StepBudget, BranchesKnown
<1>4. StatusIsEarned'
  <2>1. CASE join = NoNode /\ status' = "dead_end" /\ UNCHANGED <<current, join, steps>>
    BY <1>1, <2>1
      DEF IInv, BranchesKnown, StatusIsEarned, AtJoinlessFork
  <2>2. CASE UNCHANGED status
    BY <1>1, <2>2 DEF IInv, TypeOK, StatusIsEarned
  <2>3. QED
    BY <1>1, <2>1, <2>2
<1>5. BranchesKnown' /\ NothingBeforeStart' /\ EndsKnown'
  BY <1>1 DEF IInv, BranchesKnown, NothingBeforeStart, EndsKnown
<1>6. VisitsMatchPath'
  BY <1>1, UntouchedCounts DEF IInv
<1>7. QED
  BY <1>2, <1>3, <1>4, <1>5, <1>6 DEF IInv

LEMMA StutterKeeps ==
  ASSUME IInv, UNCHANGED vars
  PROVE  IInv'
<1>1. TypeOK' /\ StepBudget'
  BY DEF vars, IInv, TypeOK, StepBudget
<1>2. StatusIsEarned'
  BY DEF vars, IInv, StatusIsEarned, AtJoinlessFork, LeadsNowhere
<1>3. BranchesKnown' /\ NothingBeforeStart' /\ EndsKnown'
  BY DEF vars, IInv, BranchesKnown, NothingBeforeStart, EndsKnown
<1>4. VisitsMatchPath'
  BY UntouchedCounts DEF vars, IInv
<1>5. QED
  BY <1>1, <1>2, <1>3, <1>4 DEF IInv

LEMMA NextKeeps == IInv /\ [Next]_vars => IInv'
<1> SUFFICES ASSUME IInv, [Next]_vars PROVE IInv'
  OBVIOUS
<1>1. CASE Start
  BY <1>1, StartKeeps
<1>2. CASE UnknownNode
  BY <1>2, FailKeeps DEF UnknownNode
<1>3. CASE PromptError
  BY <1>3, FailKeeps DEF PromptError
<1>4. CASE ReachExit
  BY <1>4, ReachExitKeeps
<1>5. CASE Fork
  BY <1>5, ForkKeeps
<1>6. CASE Advance
  BY <1>6, AdvanceKeeps
<1>7. CASE NextBranch
  BY <1>7, NextBranchKeeps
<1>8. CASE BranchStep
  BY <1>8, BranchStepKeeps
<1>9. CASE BranchArrives
  BY <1>9, BranchArrivesKeeps
<1>10. CASE Rejoin
  BY <1>10, RejoinKeeps
<1>11. CASE StepLimit
  BY <1>11, FailKeeps DEF StepLimit
<1>12. CASE UNCHANGED vars
  BY <1>12, StutterKeeps
<1>13. QED
  BY <1>1, <1>2, <1>3, <1>4, <1>5, <1>6, <1>7, <1>8, <1>9, <1>10, <1>11, <1>12 DEF Next

-----------------------------------------------------------------------------
(* The theorems                                                            *)

(* The inductive invariant holds of every state of every run.              *)
THEOREM Inductive == Spec => []IInv
<1>1. Init => IInv
  BY InitIInv
<1>2. IInv /\ [Next]_vars => IInv'
  BY NextKeeps
<1>3. QED
  BY <1>1, <1>2, PTL DEF Spec

(* The run's state keeps its types: the visit counts are naturals over the *)
(* workflow's nodes and the path only ever names nodes the workflow has.   *)
THEOREM TypeCorrect == Spec => []TypeOK
<1>1. IInv => TypeOK
  BY DEF IInv
<1>2. QED
  BY <1>1, Inductive, PTL

(* The main loop and the branches together spend one budget: whatever the  *)
(* graph, a run visits at most MaxSteps + 1 nodes.                         *)
THEOREM BudgetHolds == Spec => []StepBudget
<1>1. IInv => StepBudget
  BY DEF IInv
<1>2. QED
  BY <1>1, Inductive, PTL

(* The counters that break loops always equal the number of times their    *)
(* node is on the path, however the main loop and branches interleave.     *)
THEOREM CountsAreRight == Spec => []VisitsMatchPath
<1>1. IInv => VisitsMatchPath
  BY DEF IInv
<1>2. QED
  BY <1>1, Inductive, PTL

(* A run that reports success ended at Exit; one that reports a dead end   *)
(* had no edge to take or stood at a fan-out without a join.               *)
THEOREM StatusCorrect == Spec => []StatusIsEarned
<1>1. IInv => StatusIsEarned
  BY DEF IInv
<1>2. QED
  BY <1>1, Inductive, PTL

-----------------------------------------------------------------------------
(* The event log                                                           *)

\* Until the i-th event, the node that was exited last is id.
LastExit(log, i, id) ==
    \E m \in 1..i : /\ log[m].event = "node_exit" /\ log[m].node = id
                    /\ \A j \in (m + 1)..i : log[j].event # "node_exit"

Enters(log, i, id) == {j \in 1..i : log[j] = NodeEvent("node_enter", id)}

(* A log tells of the nodes entered and of the nodes exited, in order, and *)
(* of how often each of them was entered; its edges leave the node exited  *)
(* last and its broken loops were walked more often than limit.            *)
Tells(ids, limit, log, entered, exited, visits) ==
    /\ log \in Seq(Range(log))
    /\ NodesOf(OfKind(log, "node_enter")) = entered
    /\ NodesOf(OfKind(log, "node_exit")) = exited
    /\ \A id \in ids : visits[id] = Cardinality(Enters(log, Len(log), id))
    /\ \A i \in DOMAIN log :
          log[i].event = "edge_traverse" => LastExit(log, i, log[i].from)
    /\ \A i \in DOMAIN log :
          log[i].event = "loop_break" =>
              limit > 0 /\ Cardinality(Enters(log, i, log[i].node)) > limit

LEMMA AppendedLog ==
  ASSUME NEW log, log \in Seq(Range(log)), NEW x
  PROVE  /\ Len(log) \in Nat /\ DOMAIN log = 1..Len(log)
         /\ Append(log, x) \in Seq(Range(Append(log, x)))
         /\ Len(Append(log, x)) = Len(log) + 1
         /\ DOMAIN Append(log, x) = 1..(Len(log) + 1)
         /\ \A i \in 1..Len(log) : Append(log, x)[i] = log[i]
         /\ Append(log, x)[Len(log) + 1] = x
<1> DEFINE longer == Append(log, x)
<1>1. log \in Seq(Range(log) \cup {x}) /\ x \in Range(log) \cup {x}
  <2>1. \A i \in 1..Len(log) : log[i] \in Range(log) \cup {x}
    OBVIOUS
  <2>2. Len(log) \in Nat /\ log = [i \in 1..Len(log) |-> log[i]]
    OBVIOUS
  <2>3. QED
    BY <2>1, <2>2
<1>2. /\ Len(log) \in Nat /\ DOMAIN log = 1..Len(log)
      /\ longer \in Seq(Range(log) \cup {x})
      /\ Len(longer) = Len(log) + 1
      /\ \A i \in 1..Len(log) : longer[i] = log[i]
      /\ longer[Len(log) + 1] = x
  BY <1>1
<1> HIDE DEF longer
<1>3. DOMAIN longer = 1..(Len(log) + 1) /\ longer = [i \in 1..(Len(log) + 1) |-> longer[i]]
  BY <1>2
<1>4. \A i \in 1..(Len(log) + 1) : longer[i] \in Range(longer)
  BY <1>3 DEF Range
<1>5. longer \in Seq(Range(longer))
  BY <1>2, <1>3, <1>4
<1>6. QED
  BY <1>2, <1>3, <1>5 DEF longer

LEMMA NodesOfAppend ==
  ASSUME NEW S, NEW q \in Seq(S), NEW x
  PROVE  NodesOf(Append(q, x)) = Append(NodesOf(q), x.node)
<1> DEFINE n == Len(q)
           nodes == [i \in 1..n |-> q[i].node]
           longer == Append(q, x)
<1>1. n \in Nat /\ DOMAIN q = 1..n
  OBVIOUS
<1>2. NodesOf(q) = nodes
  BY <1>1 DEF NodesOf
<1>3. q \in Seq(S \cup {x})
  OBVIOUS
<1>4. /\ Len(longer) = n + 1 /\ DOMAIN longer = 1..(n + 1)
      /\ \A i \in 1..n : longer[i] = q[i]
      /\ longer[n + 1] = x
  BY <1>3
<1> DEFINE T == {q[i].node : i \in 1..n} \cup {x.node}
<1>5. nodes \in Seq(T) /\ Len(nodes) = n /\ x.node \in T
  BY <1>1
<1>6. /\ DOMAIN Append(nodes, x.node) = 1..(n + 1)
      /\ \A i \in 1..n : Append(nodes, x.node)[i] = q[i].node
      /\ Append(nodes, x.node)[n + 1] = x.node
      /\ Append(nodes, x.node) = [i \in 1..(n + 1) |-> Append(nodes, x.node)[i]]
  <2>1. \A i \in 1..n : nodes[i] = q[i].node
    OBVIOUS
  <2> HIDE DEF nodes, T, n
  <2>2. QED
    BY <1>1, <1>5, <2>1
<1> HIDE DEF longer, n
<1>7. \A i \in 1..(n + 1) : i \in 1..n \/ i = n + 1
  BY <1>1
<1>8. \A i \in 1..(n + 1) : longer[i].node = Append(nodes, x.node)[i]
  BY <1>4, <1>6, <1>7
<1>9. NodesOf(longer) = [i \in 1..(n + 1) |-> longer[i].node]
  BY <1>4 DEF NodesOf
<1>10. QED
  BY <1>2, <1>6, <1>8, <1>9 DEF longer

(* One event more: the nodes the events of a kind name, in order.          *)
LEMMA OneMoreEvent ==
  ASSUME NEW log, log \in Seq(Range(log)), NEW x, NEW kind, NEW longer, Extends(longer, log, x)
  PROVE  IF x.event = kind
         THEN Extends(NodesOf(OfKind(longer, kind)), NodesOf(OfKind(log, kind)), x.node)
         ELSE NodesOf(OfKind(longer, kind)) = NodesOf(OfKind(log, kind))
<1> DEFINE n == Len(log)
           I == {i \in DOMAIN log : log[i].event = kind}
           J == {i \in DOMAIN longer : longer[i].event = kind}
           S == Range(longer)
<1>1. /\ n \in Nat /\ DOMAIN log = 1..n /\ longer \in Seq(S)
      /\ DOMAIN longer = 1..(n + 1)
      /\ \A i \in 1..n : longer[i] = log[i]
      /\ longer[n + 1] = x
  BY AppendedLog DEF Extends
<1>2. log \in Seq(S)
  <2>1. \A i \in 1..n : log[i] \in S
    <3>1. \A i \in 1..n : i \in 1..(n + 1)
      BY <1>1
    <3>2. QED
      BY <1>1, <3>1 DEF Range
  <2>2. log = [i \in 1..n |-> log[i]]
    BY <1>1
  <2> HIDE DEF S
  <2>3. QED
    BY <1>1, <2>1, <2>2
<1>3. I \subseteq 1..n /\ J \subseteq 1..(n + 1) /\ (\A i \in 1..n : i \in I <=> i \in J)
      /\ (n + 1 \in J <=> x.event = kind)
  <2>1. \A i \in 1..n : i \in 1..(n + 1)
    BY <1>1
  <2>2. n + 1 \in 1..(n + 1)
    BY <1>1
  <2> HIDE DEF n
  <2>3. QED
    BY <1>1, <2>1, <2>2
<1> HIDE DEF n, I, J, S
<1>4. \A i \in 1..(n + 1) : i \in 1..n \/ i = n + 1
  BY <1>1
<1>5. OfKind(log, kind) = Keep(log, I) /\ OfKind(longer, kind) = Keep(longer, J)
  BY DEF OfKind, I, J
<1>6. CASE x.event = kind
  <2>1. J = I \cup {n + 1}
    BY <1>1, <1>3, <1>4, <1>6
  <2>3. I \in SUBSET (DOMAIN log)
    BY <1>1, <1>3
  <2>4. Keep(longer, J) = Append(Keep(log, I), x)
    <3>1. x \in S /\ Extends(longer, log, x)
      BY <1>1 DEF Range, S
    <3>2. Extends(Keep(longer, I \cup {Len(log) + 1}), Keep(log, I), x)
      BY ONLY <1>2, <2>3, <3>1, KeepOneMore
    <3>3. QED
      BY <2>1, <3>2 DEF Extends, n
  <2>5. Keep(log, I) \in Seq(S)
    BY <1>2, <2>3, KeepElements
  <2>6. NodesOf(Append(Keep(log, I), x)) = Append(NodesOf(Keep(log, I)), x.node)
    BY <2>5, NodesOfAppend
  <2>7. QED
    BY <1>5, <1>6, <2>4, <2>6 DEF Extends
<1>7. CASE x.event # kind
  <2>1. J = I
    BY <1>3, <1>4, <1>7
  <2>2. Keep(longer, J) = Keep(log, I)
    <3>1. I \in SUBSET (DOMAIN log)
      BY <1>1, <1>3
    <3>2. \A i \in I : longer[i] = log[i]
      BY <1>1, <1>3
    <3>3. QED
      BY <1>2, <2>1, <3>1, <3>2, KeepSame
  <2>3. QED
    BY <1>5, <1>7, <2>2
<1>8. QED
  BY <1>6, <1>7

(* Among the events a log has, appending one changes neither who was       *)
(* entered how often nor who was exited last.                              *)
LEMMA EarlierEvents ==
  ASSUME NEW log, log \in Seq(Range(log)), NEW x, NEW longer, Extends(longer, log, x), NEW id
  PROVE  /\ \A i \in 1..Len(log) : Enters(longer, i, id) = Enters(log, i, id)
         /\ \A i \in 1..Len(log) : LastExit(log, i, id) => LastExit(longer, i, id)
         /\ LastExit(log, Len(log), id) /\ x.event # "node_exit"
               => LastExit(longer, Len(log) + 1, id)
         /\ x.event = "node_exit" /\ x.node = id => LastExit(longer, Len(log) + 1, id)
         /\ Cardinality(Enters(log, Len(log), id)) \in Nat
         /\ Cardinality(Enters(longer, Len(log) + 1, id)) =
               IF x = NodeEvent("node_enter", id) THEN Cardinality(Enters(log, Len(log), id)) + 1
               ELSE Cardinality(Enters(log, Len(log), id))
<1> DEFINE n == Len(log)
<1>1. n \in Nat /\ (\A i \in 1..n : longer[i] = log[i]) /\ longer[n + 1] = x
  BY AppendedLog DEF Extends
<1> HIDE DEF n
<1>2. ASSUME NEW i \in 1..n PROVE Enters(longer, i, id) = Enters(log, i, id)
  <2>1. \A j \in 1..i : j \in 1..n
    BY <1>1
  <2>2. QED
    BY <1>1, <2>1 DEF Enters
<1>3. ASSUME NEW i \in 1..n, LastExit(log, i, id) PROVE LastExit(longer, i, id)
  <2>1. \A j \in 1..i : j \in 1..n /\ longer[j] = log[j]
    BY <1>1
  <2>2. PICK m \in 1..i : /\ log[m].event = "node_exit" /\ log[m].node = id
                          /\ \A j \in (m + 1)..i : log[j].event # "node_exit"
    BY <1>3 DEF LastExit
  <2>3. \A j \in (m + 1)..i : longer[j].event # "node_exit"
    <3>1. \A j \in (m + 1)..i : j \in 1..i
      OBVIOUS
    <3>2. QED
      BY <2>1, <2>2, <3>1
  <2>4. longer[m].event = "node_exit" /\ longer[m].node = id
    BY <2>1, <2>2
  <2>5. QED
    BY <2>3, <2>4 DEF LastExit
<1>4. ASSUME LastExit(log, n, id), x.event # "node_exit" PROVE LastExit(longer, n + 1, id)
  <2>1. PICK m \in 1..n : /\ log[m].event = "node_exit" /\ log[m].node = id
                          /\ \A j \in (m + 1)..n : log[j].event # "node_exit"
    BY <1>4 DEF LastExit
  <2>2. m \in 1..(n + 1) /\ longer[m].event = "node_exit" /\ longer[m].node = id
    BY <1>1, <2>1
  <2>3. ASSUME NEW j \in (m + 1)..(n + 1) PROVE longer[j].event # "node_exit"
    <3>1. CASE j \in (m + 1)..n
      <4>1. j \in 1..n
        BY <3>1
      <4>2. QED
        BY <1>1, <2>1, <3>1, <4>1
    <3>2. CASE j = n + 1
      BY <1>1, <1>4, <3>2
    <3>3. QED
      BY <1>1, <3>1, <3>2
  <2>4. QED
    BY <2>2, <2>3 DEF LastExit
<1>5. ASSUME x.event = "node_exit", x.node = id PROVE LastExit(longer, n + 1, id)
  <2>1. n + 1 \in 1..(n + 1) /\ (n + 1 + 1)..(n + 1) = {}
    BY <1>1
  <2>2. QED
    BY <1>1, <1>5, <2>1 DEF LastExit
<1>6. IsFiniteSet(Enters(log, n, id)) /\ Cardinality(Enters(log, n, id)) \in Nat /\ n + 1 \notin Enters(log, n, id)
  <2>1. Enters(log, n, id) \in SUBSET (1..n)
    BY DEF Enters
  <2>2. IsFiniteSet(1..n)
    BY <1>1, FS_Interval
  <2>3. IsFiniteSet(Enters(log, n, id))
    BY <2>1, <2>2, FS_Subset
  <2>4. QED
    BY <1>1, <2>1, <2>3, FS_CardinalityType
<1>7. Enters(longer, n + 1, id) =
         IF x = NodeEvent("node_enter", id) THEN Enters(log, n, id) \cup {n + 1} ELSE Enters(log, n, id)
  <2>1. \A j \in 1..(n + 1) : j \in 1..n \/ j = n + 1
    BY <1>1
  <2>2. \A j \in 1..n : j \in 1..(n + 1)
    BY <1>1
  <2>3. n + 1 \in 1..(n + 1) /\ n + 1 \notin 1..n
    BY <1>1
  <2>4. QED
    BY ONLY <1>1, <2>1, <2>2, <2>3 DEF Enters
<1>8. Cardinality(Enters(longer, n + 1, id)) =
         IF x = NodeEvent("node_enter", id) THEN Cardinality(Enters(log, n, id)) + 1
         ELSE Cardinality(Enters(log, n, id))
  BY <1>6, <1>7, FS_AddElement
<1>9. QED
  BY <1>2, <1>3, <1>4, <1>5, <1>6, <1>8 DEF n

(* A log goes on telling the truth with one event more, when the event is  *)
(* in its place.                                                           *)
LEMMA TellsOneMore ==
  ASSUME NEW ids, NEW limit, NEW log, NEW entered, NEW exited, NEW visits,
         Tells(ids, limit, log, entered, exited, visits),
         NEW x, NEW longer, Extends(longer, log, x),
         NEW entered2, NEW exited2, NEW visits2,
         IF x.event = "node_enter" THEN Extends(entered2, entered, x.node) ELSE entered2 = entered,
         IF x.event = "node_exit" THEN Extends(exited2, exited, x.node) ELSE exited2 = exited,
         \A id \in ids : visits2[id] = IF x = NodeEvent("node_enter", id) THEN visits[id] + 1 ELSE visits[id],
         x.event = "edge_traverse" => LastExit(log, Len(log), x.from),
         x.event = "loop_break" => limit > 0 /\ Cardinality(Enters(log, Len(log), x.node)) > limit
  PROVE  Tells(ids, limit, longer, entered2, exited2, visits2)
<1> DEFINE n == Len(log)
<1>1. log \in Seq(Range(log))
  BY DEF Tells
<1>2. /\ n \in Nat /\ DOMAIN log = 1..n /\ longer \in Seq(Range(longer))
      /\ Len(longer) = n + 1 /\ DOMAIN longer = 1..(n + 1)
      /\ \A i \in 1..n : longer[i] = log[i]
      /\ longer[n + 1] = x
  BY <1>1, AppendedLog DEF Extends
<1>3. NodesOf(OfKind(longer, "node_enter")) = entered2
  <2>1. IF x.event = "node_enter"
        THEN Extends(NodesOf(OfKind(longer, "node_enter")), NodesOf(OfKind(log, "node_enter")), x.node)
        ELSE NodesOf(OfKind(longer, "node_enter")) = NodesOf(OfKind(log, "node_enter"))
    BY ONLY <1>1, Extends(longer, log, x), OneMoreEvent
  <2>2. NodesOf(OfKind(log, "node_enter")) = entered
    BY DEF Tells
  <2>3. QED
    BY <2>1, <2>2 DEF Extends
<1>4. NodesOf(OfKind(longer, "node_exit")) = exited2
  <2>1. IF x.event = "node_exit"
        THEN Extends(NodesOf(OfKind(longer, "node_exit")), NodesOf(OfKind(log, "node_exit")), x.node)
        ELSE NodesOf(OfKind(longer, "node_exit")) = NodesOf(OfKind(log, "node_exit"))
    BY ONLY <1>1, Extends(longer, log, x), OneMoreEvent
  <2>2. NodesOf(OfKind(log, "node_exit")) = exited
    BY DEF Tells
  <2>3. QED
    BY <2>1, <2>2 DEF Extends
<1>5. \A id \in ids : visits2[id] = Cardinality(Enters(longer, Len(longer), id))
  <2>1. \A id \in ids : visits[id] = Cardinality(Enters(log, n, id))
    BY DEF Tells
  <2>2. \A id \in ids : Cardinality(Enters(longer, n + 1, id)) =
               IF x = NodeEvent("node_enter", id) THEN Cardinality(Enters(log, n, id)) + 1
               ELSE Cardinality(Enters(log, n, id))
    BY <1>1, EarlierEvents
  <2> HIDE DEF n
  <2>3. QED
    BY <1>2, <2>1, <2>2
<1>6. \A i \in 1..(n + 1) : i \in 1..n \/ i = n + 1
  BY <1>2
<1>7. ASSUME NEW i \in 1..(n + 1), longer[i].event = "edge_traverse"
      PROVE  LastExit(longer, i, longer[i].from)
  <2>1. CASE i \in 1..n
    <3>1. LastExit(log, i, log[i].from)
      BY <1>2, <1>7, <2>1 DEF Tells
    <3>2. LastExit(longer, i, log[i].from)
      BY <1>1, <2>1, <3>1, EarlierEvents
    <3>3. QED
      BY <1>2, <2>1, <3>2
  <2>2. CASE i = n + 1
    <3>1. LastExit(log, n, x.from) /\ x.event # "node_exit"
      BY <1>2, <1>7, <2>2
    <3>2. LastExit(longer, n + 1, x.from)
      BY <1>1, <3>1, EarlierEvents
    <3>3. QED
      BY <1>2, <2>2, <3>2
  <2>3. QED
    BY <1>6, <2>1, <2>2
<1>8. ASSUME NEW i \in 1..(n + 1), longer[i].event = "loop_break"
      PROVE  limit > 0 /\ Cardinality(Enters(longer, i, longer[i].node)) > limit
  <2>1. CASE i \in 1..n
    <3>1. limit > 0 /\ Cardinality(Enters(log, i, log[i].node)) > limit
      BY <1>2, <1>8, <2>1 DEF Tells
    <3>2. Enters(longer, i, log[i].node) = Enters(log, i, log[i].node)
      BY <1>1, <2>1, EarlierEvents
    <3>3. QED
      BY <1>2, <2>1, <3>1, <3>2
  <2>2. CASE i = n + 1
    <3>1. limit > 0 /\ Cardinality(Enters(log, n, x.node)) > limit /\ x.event = "loop_break"
      BY <1>2, <1>8, <2>2
    <3>2. x # NodeEvent("node_enter", x.node)
      BY <3>1 DEF NodeEvent
    <3>3. Cardinality(Enters(longer, n + 1, x.node)) = Cardinality(Enters(log, n, x.node))
      BY <1>1, <3>2, EarlierEvents
    <3>4. QED
      BY <1>2, <2>2, <3>1, <3>3
  <2>3. QED
    BY <1>6, <2>1, <2>2
<1>9. QED
  BY <1>2, <1>3, <1>4, <1>5, <1>7, <1>8 DEF Tells

(* A visit is told by an enter event, what its kind adds, and an exit.     *)
LEMMA VisitTells ==
  ASSUME NEW ids, NEW limit, NEW log, NEW p, p \in Seq(ids), NEW visits \in [ids -> Nat],
         Tells(ids, limit, log, p, p, visits),
         NEW n, n.id \in ids
  PROVE  /\ Tells(ids, limit, log \o VisitEvents(n), Append(p, n.id), Append(p, n.id),
                  [visits EXCEPT ![n.id] = @ + 1])
         /\ LastExit(log \o VisitEvents(n), Len(log \o VisitEvents(n)), n.id)
<1> DEFINE q == Append(p, n.id)
           counted == [visits EXCEPT ![n.id] = @ + 1]
           one == Append(log, NodeEvent("node_enter", n.id))
           two(kind) == Append(one, NodeEvent(kind, n.id))
           out == NodeEvent("node_exit", n.id)
<1>1. log \in Seq(Range(log))
  BY DEF Tells
<1>2. Tells(ids, limit, one, q, p, counted)
  <2>1. Extends(one, log, NodeEvent("node_enter", n.id)) /\ Extends(q, p, n.id)
    BY DEF Extends
  <2>2. \A id \in ids : counted[id] =
            IF NodeEvent("node_enter", n.id) = NodeEvent("node_enter", id) THEN visits[id] + 1 ELSE visits[id]
    BY DEF NodeEvent
  <2>3. NodeEvent("node_enter", n.id).event = "node_enter" /\ NodeEvent("node_enter", n.id).node = n.id
    BY DEF NodeEvent
  <2> HIDE DEF one, q, counted
  <2>4. QED
    BY <2>1, <2>2, <2>3, TellsOneMore
<1>3. one \in Seq(Range(one))
  BY <1>2 DEF Tells
<1> HIDE DEF q, counted, one
<1>4. ASSUME NEW kind \in {"parallel_start", "parallel_end"}
      PROVE  Tells(ids, limit, two(kind), q, p, counted) /\ two(kind) \in Seq(Range(two(kind)))
  <2> DEFINE x == NodeEvent(kind, n.id)
             longer == two(kind)
  <2>1. Extends(longer, one, x)
    BY DEF Extends
  <2>2. x.event = kind /\ \A id \in ids : x # NodeEvent("node_enter", id)
    BY DEF NodeEvent
  <2> HIDE DEF x, longer
  <2>3. Tells(ids, limit, longer, q, p, counted)
    BY <1>2, <2>1, <2>2, TellsOneMore
  <2>4. QED
    BY <2>3 DEF Tells, longer
<1>5. ASSUME NEW inner, Tells(ids, limit, inner, q, p, counted)
      PROVE  /\ Tells(ids, limit, Append(inner, out), q, q, counted)
             /\ LastExit(Append(inner, out), Len(Append(inner, out)), n.id)
  <2> DEFINE longer == Append(inner, out)
  <2>1. Extends(longer, inner, out) /\ Extends(q, p, n.id)
    BY DEF Extends, q
  <2>2. out.event = "node_exit" /\ out.node = n.id /\ \A id \in ids : out # NodeEvent("node_enter", id)
    BY DEF NodeEvent
  <2>3. inner \in Seq(Range(inner))
    BY <1>5 DEF Tells
  <2>4. Len(longer) = Len(inner) + 1
    BY <2>3, AppendedLog
  <2> HIDE DEF longer, out
  <2>5. Tells(ids, limit, longer, q, q, counted)
    BY <1>5, <2>1, <2>2, TellsOneMore
  <2>6. LastExit(longer, Len(inner) + 1, n.id)
    BY <2>1, <2>2, <2>3, EarlierEvents
  <2>7. QED
    BY <2>4, <2>5, <2>6 DEF longer
<1>6. \/ log \o VisitEvents(n) = Append(one, out)
      \/ \E kind \in {"parallel_start", "parallel_end"} : log \o VisitEvents(n) = Append(two(kind), out)
  <2> DEFINE in == NodeEvent("node_enter", n.id)
             mid(kind) == NodeEvent(kind, n.id)
             T == Range(log) \cup {in, out} \cup {mid(kind) : kind \in {"parallel_start", "parallel_end"}}
             Add(a, x) == Append(a, x)
             Join(a, b) == a \o b
             Only(x) == <<x>>
             none == <<>>
  <2>1. \A a \in Seq(T) : \A x \in T : Join(a, Only(x)) = Add(a, x) /\ Add(a, x) \in Seq(T)
    OBVIOUS
  <2>2. \A a, b, d \in Seq(T) : Join(a, Join(b, d)) = Join(Join(a, b), d) /\ Join(a, none) = a
    OBVIOUS
  <2>3. log \in Seq(T) /\ none \in Seq(T)
    BY <1>1
  <2>4. /\ in \in T /\ out \in T /\ \A kind \in {"parallel_start", "parallel_end"} : mid(kind) \in T
        /\ \A x \in T : Only(x) \in Seq(T)
    OBVIOUS
  <2>5. \/ VisitEvents(n) = Join(Join(Only(in), none), Only(out))
        \/ \E kind \in {"parallel_start", "parallel_end"} :
              VisitEvents(n) = Join(Join(Only(in), Only(mid(kind))), Only(out))
    BY DEF VisitEvents
  <2>6. /\ log \o VisitEvents(n) = Join(log, VisitEvents(n))
        /\ one = Add(log, in)
        /\ Append(one, out) = Add(one, out)
        /\ \A kind : Append(two(kind), out) = Add(Add(one, mid(kind)), out)
    BY DEF one
  <2> HIDE DEF in, out, mid, T, Add, Join, Only, none
  <2>7. Join(log, Join(Join(Only(in), none), Only(out))) = Add(Add(log, in), out)
    BY ONLY <2>1, <2>2, <2>3, <2>4
  <2>8. ASSUME NEW kind \in {"parallel_start", "parallel_end"}
        PROVE  Join(log, Join(Join(Only(in), Only(mid(kind))), Only(out))) = Add(Add(Add(log, in), mid(kind)), out)
    <3>1. mid(kind) \in T
      BY <2>4
    <3>2. Join(Only(in), Only(mid(kind))) \in Seq(T)
      <4>1. Only(in) \in Seq(T)
        BY <2>4
      <4>2. Join(Only(in), Only(mid(kind))) = Add(Only(in), mid(kind)) /\ Add(Only(in), mid(kind)) \in Seq(T)
        BY <2>1, <3>1, <4>1
      <4>3. QED
        BY <4>2
    <3>3. Join(log, Join(Join(Only(in), Only(mid(kind))), Only(out)))
            = Join(Join(Join(log, Only(in)), Only(mid(kind))), Only(out))
      BY ONLY <2>1, <2>2, <2>3, <2>4, <3>1, <3>2
    <3>4. QED
      BY ONLY <2>1, <2>3, <2>4, <3>1, <3>3, ZenonT(40)
  <2>9. QED
    BY ONLY <2>5, <2>6, <2>7, <2>8
<1> HIDE DEF two, out
<1>7. CASE log \o VisitEvents(n) = Append(one, out)
  BY <1>2, <1>5, <1>7 DEF q, counted
<1>8. ASSUME NEW kind \in {"parallel_start", "parallel_end"}, log \o VisitEvents(n) = Append(two(kind), out)
      PROVE  /\ Tells(ids, limit, log \o VisitEvents(n), q, q, counted)
             /\ LastExit(log \o VisitEvents(n), Len(log \o VisitEvents(n)), n.id)
  BY <1>4, <1>5, <1>8
<1>9. QED
  BY <1>6, <1>7, <1>8 DEF q, counted

(* What is told of the way on: a broken loop, then the edge.               *)
LEMMA RouteTells ==
  ASSUME NEW ids, NEW log, NEW p, NEW visits, opts.maxNodeVisits \in Int,
         Tells(ids, opts.maxNodeVisits, log, p, p, visits),
         NEW n, n.id \in ids, LastExit(log, Len(log), n.id),
         NEW edges, edges \in Seq(Range(edges)), \A e \in Range(edges) : e.from = n.id,
         NEW c, visits[n.id] \in Nat
  PROVE  Tells(ids, opts.maxNodeVisits, log \o RouteEvents(n, edges, c, visits[n.id]), p, p, visits)
<1> DEFINE v == visits[n.id]
           limit == opts.maxNodeVisits
           break == NodeEvent("loop_break", n.id)
           go == TraverseEvent(ChosenEdge(n, edges, c, v))
           Add(q, x) == Append(q, x)
           Join(q, r) == q \o r
           Only(x) == <<x>>
           none == <<>>
           T == Range(log) \cup {break, go}
<1>1. log \in Seq(Range(log))
  BY DEF Tells
<1>2. log \o RouteEvents(n, edges, c, v) \in
         {log} \cup (IF Breaks(n, edges, c, v) THEN {Add(log, break)} ELSE {})
         \cup (IF edges # <<>> THEN {Add(log, go)} ELSE {})
         \cup (IF Breaks(n, edges, c, v) /\ edges # <<>> THEN {Add(Add(log, break), go)} ELSE {})
  <2>1. \A q \in Seq(T) : \A x \in T : Join(q, Only(x)) = Add(q, x) /\ Add(q, x) \in Seq(T)
    OBVIOUS
  <2>2. \A q, r, u \in Seq(T) : Join(q, Join(r, u)) = Join(Join(q, r), u) /\ Join(q, none) = q /\ Join(none, q) = q
    BY SMTT(20)
  <2>3. log \in Seq(T) /\ none \in Seq(T) /\ break \in T /\ go \in T
        /\ Only(break) \in Seq(T) /\ Only(go) \in Seq(T)
    BY <1>1
  <2>4. log \o RouteEvents(n, edges, c, v) =
           Join(log, Join(IF Breaks(n, edges, c, v) THEN Only(break) ELSE none,
                          IF edges = <<>> THEN none ELSE Only(go)))
    BY DEF RouteEvents
  <2> HIDE DEF v, break, go, T, Add, Join, Only, none
  <2>5. /\ Join(log, Join(none, none)) = log
        /\ Join(log, Join(none, Only(go))) = Add(log, go)
        /\ Join(log, Join(Only(break), none)) = Add(log, break)
    BY ONLY <2>1, <2>2, <2>3
  <2>6. Join(log, Join(Only(break), Only(go))) = Add(Add(log, break), go)
    BY ONLY <2>1, <2>2, <2>3
  <2>7. QED
    BY ONLY <2>4, <2>5, <2>6
<1>3. Breaks(n, edges, c, v) => limit > 0 /\ v > limit
  BY DEF Breaks
<1>4. v = Cardinality(Enters(log, Len(log), n.id))
  BY DEF Tells
<1>5. edges # <<>> => ChosenEdge(n, edges, c, v).from = n.id
  BY ChosenIsEdge
<1>6. /\ break.event = "loop_break" /\ break.node = n.id
      /\ \A id \in ids : break # NodeEvent("node_enter", id)
  BY DEF NodeEvent
<1>7. /\ go.event = "edge_traverse" /\ go.from = ChosenEdge(n, edges, c, v).from
      /\ \A id \in ids : go # NodeEvent("node_enter", id)
  BY DEF NodeEvent, TraverseEvent
<1> HIDE DEF v, limit, break, go, T
<1>8. ASSUME Breaks(n, edges, c, v)
      PROVE  /\ Tells(ids, limit, Add(log, break), p, p, visits)
             /\ LastExit(Add(log, break), Len(Add(log, break)), n.id)
  <2> DEFINE longer == Add(log, break)
  <2>1. Extends(longer, log, break)
    BY DEF Extends
  <2>2. Len(longer) = Len(log) + 1
    BY <1>1, AppendedLog
  <2> HIDE DEF longer
  <2>3. LastExit(longer, Len(log) + 1, n.id)
    BY <1>1, <1>6, <2>1, EarlierEvents
  <2>4. Tells(ids, limit, longer, p, p, visits)
    BY <1>3, <1>4, <1>6, <1>8, <2>1, TellsOneMore DEF limit
  <2>5. QED
    BY <2>2, <2>3, <2>4 DEF longer
<1>9. ASSUME NEW inner, edges # <<>>, Tells(ids, limit, inner, p, p, visits),
             LastExit(inner, Len(inner), n.id)
      PROVE  Tells(ids, limit, Add(inner, go), p, p, visits)
  <2> DEFINE longer == Add(inner, go)
  <2>1. Extends(longer, inner, go)
    BY DEF Extends
  <2> HIDE DEF longer
  <2>2. go.from = n.id
    BY <1>5, <1>7, <1>9
  <2>3. Tells(ids, limit, longer, p, p, visits)
    BY <1>7, <1>9, <2>1, <2>2, TellsOneMore
  <2>4. QED
    BY <2>3 DEF longer
<1> HIDE DEF Add
<1>10. QED
  <2>1. Tells(ids, limit, log, p, p, visits)
    BY DEF limit
  <2>2. Breaks(n, edges, c, v) => Tells(ids, limit, Add(log, break), p, p, visits)
    BY <1>8
  <2>3. edges # <<>> => Tells(ids, limit, Add(log, go), p, p, visits)
    BY <1>9, <2>1
  <2>4. Breaks(n, edges, c, v) /\ edges # <<>> => Tells(ids, limit, Add(Add(log, break), go), p, p, visits)
    BY <1>8, <1>9
  <2>5. QED
    BY <1>2, <2>1, <2>2, <2>3, <2>4 DEF v, limit

(* The start and the end of the run name no node.                          *)
LEMMA EndsTell ==
  ASSUME NEW ids, NEW limit, NEW log, NEW p, NEW visits,
         Tells(ids, limit, log, p, p, visits),
         NEW x, x.event \in {"pipeline_start", "pipeline_end"}
  PROVE  Tells(ids, limit, Append(log, x), p, p, visits)
<1> DEFINE longer == Append(log, x)
<1>1. Extends(longer, log, x)
  BY DEF Extends
<1>2. \A id \in ids : x # NodeEvent("node_enter", id)
  BY DEF NodeEvent
<1> HIDE DEF longer
<1>3. Tells(ids, limit, longer, p, p, visits)
  BY <1>1, <1>2, TellsOneMore
<1>4. QED
  BY <1>3 DEF longer

-----------------------------------------------------------------------------
(* What a step does to the log, the context and the path                   *)

(* The node id is visited: the context is what the visit leaves, unless    *)
(* the node asked for a label and spent it, and the log tells of the visit *)
(* and of the way on.                                                      *)
Visits(id) ==
    LET n == NodeOf(wf, id)
        edges == EdgesFrom(wf, id)
        told == events \o VisitEvents(n)
    IN  /\ Visit(n)
        /\ UNCHANGED inputs
        /\ \E c \in ContextsAfterVisit(ctx, n) :
             LET routed == told \o RouteEvents(n, edges, c, nodeVisits[id] + 1)
             IN  \/ /\ id = wf.exit /\ ctx' = c
                    /\ pc' = "done" /\ status' = "success"
                    /\ events' = Append(told, EndEvent("success", Cardinality(Range(path'))))
                 \/ /\ n.kind = "parallel" /\ ctx' = c
                    /\ events' = told /\ UNCHANGED status
                 \/ /\ ctx' = AfterLabel(n, edges, c)
                    /\ events' = routed /\ UNCHANGED status
                 \/ /\ ctx' = AfterLabel(n, edges, c)
                    /\ pc' = "done" /\ status' = "dead_end"
                    /\ events' = Append(routed, EndEvent("dead_end", Cardinality(Range(path'))))

(* Nothing is visited: the run starts, ends or goes on.                    *)
NoVisit ==
    /\ UNCHANGED <<inputs, ctx, nodeVisits, path>>
    /\ \/ UNCHANGED events /\ status' \in {"running", "error"}
       \/ /\ pc = "start" /\ events' = <<[event |-> "pipeline_start"]>>
          /\ UNCHANGED status
       \/ /\ pc' = "done" /\ status' = "dead_end"
          /\ events' = Append(events, EndEvent("dead_end", Cardinality(Range(path))))

LEMMA StepKinds ==
  ASSUME IInv, Next
  PROVE  /\ pc # "done" /\ status = "running" /\ pc' # "start"
         /\ NoVisit \/ \E id \in NodeIDs(wf) : Visits(id)
<1>1. status \in Statuses /\ ((pc = "done") = (status # "running")) /\ pc \in {"start", "main", "branch", "done"}
  BY DEF IInv, TypeOK
<1>2. ASSUME Fail, pc \in {"start", "main", "branch"} PROVE NoVisit /\ pc' # "start"
  BY <1>2 DEF Fail, NoVisit, inputs
<1>3. CASE Start
  <2>1. CASE Fail
    BY <1>1, <1>2, <1>3, <2>1 DEF Start
  <2>2. CASE ~Fail
    BY <1>1, <1>3, <2>2 DEF Start, NoVisit, inputs
  <2>3. QED
    BY <2>1, <2>2
<1>4. CASE UnknownNode
  BY <1>1, <1>2, <1>4 DEF UnknownNode
<1>5. CASE PromptError
  BY <1>1, <1>2, <1>5 DEF PromptError
<1>6. CASE StepLimit
  BY <1>1, <1>2, <1>6 DEF StepLimit
<1>7. CASE ReachExit
  <2>1. current \in NodeIDs(wf)
    BY <1>7 DEF IInv, EndsKnown, ReachExit
  <2>2. Visits(current)
    BY <1>7 DEF ReachExit, Visits, Finish, inputs
  <2>3. QED
    BY <1>1, <1>7, <2>1, <2>2 DEF ReachExit, Finish
<1>8. CASE Fork
  <2>1. ContextsAfterVisit(ctx, NodeOf(wf, current)) = {ctx}
    BY <1>8 DEF Fork, ContextsAfterVisit
  <2>2. Visits(current)
    BY <1>8, <2>1 DEF Fork, Visits, inputs
  <2>3. QED
    BY <1>1, <1>8, <2>2 DEF Fork
<1>9. CASE Advance
  <2>1. Visits(current)
    BY <1>9, ZenonT(40) DEF Advance, Visits, Finish, inputs
  <2>2. QED
    BY <1>1, <1>9, <2>1 DEF Advance, Finish
<1>10. CASE BranchStep
  <2>1. Visits(branchAt)
    BY <1>10 DEF BranchStep, Visits, inputs
  <2>2. QED
    BY <1>1, <1>10, <2>1 DEF BranchStep
<1>11. CASE NextBranch
  BY <1>1, <1>11 DEF NextBranch, NoVisit, inputs
<1>12. CASE BranchArrives
  BY <1>1, <1>12 DEF BranchArrives, NoVisit, inputs
<1>13. CASE Rejoin
  <2>1. CASE join = NoNode
    BY <1>1, <1>13, <2>1 DEF Rejoin, Finish, NoVisit, inputs
  <2>2. CASE join # NoNode
    BY <1>1, <1>13, <2>2 DEF Rejoin, NoVisit, inputs
  <2>3. QED
    BY <2>1, <2>2
<1>14. QED
  BY <1>3, <1>4, <1>5, <1>6, <1>7, <1>8, <1>9, <1>10, <1>11, <1>12, <1>13 DEF Next

(* The nodes with a visit are the nodes of the path.                       *)
LEMMA VisitedAreOnPath ==
  ASSUME IInv
  PROVE  {id \in NodeIDs(wf) : nodeVisits[id] > 0} = Range(path)
<1>1. path \in Seq(NodeIDs(wf)) /\ Len(path) \in Nat /\ DOMAIN path = 1..Len(path)
  BY DEF IInv, TypeOK
<1>2. \A id \in NodeIDs(wf) : nodeVisits[id] = Cardinality(Occurrences(id))
  BY DEF IInv, VisitsMatchPath
<1>3. ASSUME NEW id \in NodeIDs(wf) PROVE (nodeVisits[id] > 0) <=> (Occurrences(id) # {})
  <2>1. Occurrences(id) \in SUBSET (1..Len(path)) /\ IsFiniteSet(1..Len(path))
    BY <1>1, FS_Interval DEF Occurrences
  <2>2. IsFiniteSet(Occurrences(id))
    BY <2>1, FS_Subset
  <2>3. Cardinality(Occurrences(id)) \in Nat /\ (Cardinality(Occurrences(id)) = 0 <=> Occurrences(id) = {})
    BY <2>2, FS_CardinalityType, FS_EmptySet
  <2>4. QED
    BY <1>2, <2>3
<1>4. \A id \in NodeIDs(wf) : Occurrences(id) # {} <=> id \in Range(path)
  BY <1>1 DEF Occurrences, Range
<1>5. Range(path) \subseteq NodeIDs(wf)
  BY <1>1 DEF Range
<1>6. QED
  BY <1>3, <1>4, <1>5

-----------------------------------------------------------------------------
(* The event log tells what the run did                                    *)

LogKnown ==
    /\ pc = "start" => events = <<>>
    /\ Tells(NodeIDs(wf), opts.maxNodeVisits, events, path, path, nodeVisits)
    /\ status \in {"success", "dead_end"} =>
          Last(events) = EndEvent(status, Cardinality(Range(path)))

LEMMA InitLogKnown == Init => LogKnown
<1> SUFFICES ASSUME Init PROVE LogKnown
  OBVIOUS
<1>1. events = <<>> /\ path = <<>> /\ status = "running" /\ \A id \in NodeIDs(wf) : nodeVisits[id] = 0
  BY DEF Init
<1>2. events \in Seq(Range(events)) /\ Len(events) = 0 /\ DOMAIN events = {}
  <2>1. <<>> \in Seq(Range(<<>>)) /\ Len(<<>>) = 0 /\ DOMAIN <<>> = {}
    OBVIOUS
  <2>2. QED
    BY ONLY <1>1, <2>1
<1>3. ASSUME NEW kind PROVE NodesOf(OfKind(events, kind)) = <<>>
  <2> DEFINE I == {i \in DOMAIN events : events[i].event = kind}
  <2>1. I = {} /\ I \in SUBSET (DOMAIN events)
    BY <1>2
  <2>2. Cardinality(I) = 0
    BY <2>1, FS_EmptySet
  <2>3. Keep(events, I) \in Seq(Range(events)) /\ Len(Keep(events, I)) = 0
    BY <1>2, <2>1, <2>2, KeepElements
  <2>4. OfKind(events, kind) = Keep(events, I)
    BY DEF OfKind
  <2> HIDE DEF I
  <2>5. DOMAIN OfKind(events, kind) = {}
    BY <2>3, <2>4
  <2>6. QED
    BY <2>5 DEF NodesOf
<1>4. \A id \in NodeIDs(wf) : nodeVisits[id] = Cardinality(Enters(events, Len(events), id))
  <2>1. \A id : Enters(events, Len(events), id) = {}
    BY <1>2 DEF Enters
  <2>2. QED
    BY <1>1, <2>1, FS_EmptySet
<1>5. QED
  BY <1>1, <1>2, <1>3, <1>4 DEF LogKnown, Tells

LEMMA VisitKeepsLog ==
  ASSUME IInv, LogKnown, NEW id \in NodeIDs(wf), Visits(id), status = "running", pc' # "start"
  PROVE  LogKnown'
<1> DEFINE n == NodeOf(wf, id)
           edges == EdgesFrom(wf, id)
           told == events \o VisitEvents(n)
           ids == NodeIDs(wf)
           limit == opts.maxNodeVisits
<1>1. /\ wf \in Workflows /\ opts \in OptionsFor(wf) /\ path \in Seq(ids)
      /\ nodeVisits \in [ids -> Nat]
  BY DEF IInv, TypeOK
<1>2. n \in NodeRecords /\ n.id = id
  BY <1>1, NodeOfIsNode
<1>3. limit \in Int
  BY <1>1, OptionsAssumption
<1>4. /\ wf' = wf /\ opts' = opts
      /\ nodeVisits' = [nodeVisits EXCEPT ![id] = @ + 1]
      /\ path' = Append(path, id)
  BY <1>2 DEF Visits, Visit, inputs
<1>5. nodeVisits'[id] = nodeVisits[id] + 1 /\ nodeVisits'[id] \in Nat
  BY <1>1, <1>4
<1>6. edges \in Seq(Range(edges)) /\ \A e \in Range(edges) : e.from = id
  BY <1>1, NodeEdges
<1>7. NodeIDs(wf)' = ids /\ opts'.maxNodeVisits = limit
  BY <1>4 DEF NodeIDs
<1> HIDE DEF n, edges, ids
<1>8. Tells(ids, limit, told, path', path', nodeVisits') /\ LastExit(told, Len(told), id)
  <2>1. Tells(ids, limit, events, path, path, nodeVisits)
    BY DEF LogKnown, ids
  <2>2. n.id \in ids
    BY <1>2 DEF ids
  <2>3. /\ Tells(ids, limit, events \o VisitEvents(n), Append(path, n.id), Append(path, n.id),
                 [nodeVisits EXCEPT ![n.id] = @ + 1])
        /\ LastExit(events \o VisitEvents(n), Len(events \o VisitEvents(n)), n.id)
    BY ONLY <1>1, <2>1, <2>2, VisitTells
  <2>4. QED
    BY <1>2, <1>4, <2>3
<1> HIDE DEF told, limit
<1>9. ASSUME NEW c
      PROVE  Tells(ids, limit, told \o RouteEvents(n, edges, c, nodeVisits[id] + 1), path', path', nodeVisits')
  <2>1. n.id \in ids /\ LastExit(told, Len(told), n.id) /\ nodeVisits'[n.id] \in Nat
        /\ nodeVisits'[n.id] = nodeVisits[id] + 1 /\ \A e \in Range(edges) : e.from = n.id
    BY <1>2, <1>5, <1>6, <1>8 DEF ids
  <2>2. opts.maxNodeVisits \in Int /\ Tells(ids, opts.maxNodeVisits, told, path', path', nodeVisits')
    BY <1>3, <1>8 DEF limit
  <2>3. Tells(ids, opts.maxNodeVisits, told \o RouteEvents(n, edges, c, nodeVisits'[n.id]), path', path', nodeVisits')
    BY ONLY <1>6, <2>1, <2>2, RouteTells
  <2>4. QED
    BY <2>1, <2>3 DEF limit
<1>10. ASSUME NEW log, Tells(ids, limit, log, path', path', nodeVisits'), NEW s,
              events' = Append(log, EndEvent(s, Cardinality(Range(path')))), status' = s
       PROVE  LogKnown'
  <2> DEFINE end == EndEvent(s, Cardinality(Range(path')))
  <2>1. end.event = "pipeline_end"
    BY DEF EndEvent
  <2>2. log \in Seq(Range(log))
    BY <1>10 DEF Tells
  <2> HIDE DEF end
  <2>3. Tells(ids, limit, Append(log, end), path', path', nodeVisits')
    BY <1>10, <2>1, EndsTell
  <2>4. Last(Append(log, end)) = end
    BY <2>2, AppendedLog DEF Last
  <2>5. QED
    BY <1>7, <1>10, <2>3, <2>4 DEF LogKnown, end
<1>11. ASSUME Tells(ids, limit, events', path', path', nodeVisits'), UNCHANGED status PROVE LogKnown'
  BY <1>7, <1>11 DEF LogKnown
<1>12. PICK c \in ContextsAfterVisit(ctx, n) :
         LET routed == told \o RouteEvents(n, edges, c, nodeVisits[id] + 1)
         IN  \/ /\ status' = "success"
                /\ events' = Append(told, EndEvent("success", Cardinality(Range(path'))))
             \/ events' = told /\ UNCHANGED status
             \/ events' = routed /\ UNCHANGED status
             \/ /\ status' = "dead_end"
                /\ events' = Append(routed, EndEvent("dead_end", Cardinality(Range(path'))))
  BY DEF Visits, n, edges, told
<1>13. CASE status' = "success" /\ events' = Append(told, EndEvent("success", Cardinality(Range(path'))))
  BY <1>8, <1>10, <1>13
<1>14. CASE events' = told /\ UNCHANGED status
  BY <1>8, <1>11, <1>14
<1>15. CASE events' = told \o RouteEvents(n, edges, c, nodeVisits[id] + 1) /\ UNCHANGED status
  BY <1>9, <1>11, <1>15
<1>16. CASE /\ status' = "dead_end"
            /\ events' = Append(told \o RouteEvents(n, edges, c, nodeVisits[id] + 1),
                                EndEvent("dead_end", Cardinality(Range(path'))))
  BY <1>9, <1>10, <1>16
<1>17. QED
  BY <1>12, <1>13, <1>14, <1>15, <1>16

LEMMA NextKeepsLog == IInv /\ LogKnown /\ [Next]_vars => LogKnown'
<1> SUFFICES ASSUME IInv, LogKnown, [Next]_vars PROVE LogKnown'
  OBVIOUS
<1> DEFINE ids == NodeIDs(wf)
<1>1. CASE UNCHANGED vars
  BY <1>1 DEF vars, LogKnown, NodeIDs
<1>2. CASE Next
  <2>1. pc # "done" /\ status = "running" /\ pc' # "start"
    BY <1>2, StepKinds
  <2>2. CASE NoVisit
    <3>1. UNCHANGED <<wf, opts, nodeVisits, path>> /\ NodeIDs(wf)' = NodeIDs(wf)
      BY <2>2 DEF NoVisit, inputs, NodeIDs
    <3>2. Tells(ids, opts.maxNodeVisits, events, path, path, nodeVisits)
      BY DEF LogKnown
    <3>3. events \in Seq(Range(events))
      BY <3>2 DEF Tells
    <3>4. CASE UNCHANGED events /\ status' \in {"running", "error"}
      BY <2>1, <3>1, <3>2, <3>4 DEF LogKnown
    <3>5. CASE pc = "start" /\ events' = <<[event |-> "pipeline_start"]>> /\ UNCHANGED status
      <4> DEFINE x == [event |-> "pipeline_start"]
      <4>1. events' = Append(events, x)
        BY <3>5 DEF LogKnown
      <4>2. x.event = "pipeline_start"
        OBVIOUS
      <4> HIDE DEF x
      <4>3. Tells(ids, opts.maxNodeVisits, Append(events, x), path, path, nodeVisits)
        BY <3>2, <4>2, EndsTell
      <4>4. QED
        BY <2>1, <3>1, <3>5, <4>1, <4>3 DEF LogKnown
    <3>6. CASE /\ pc' = "done" /\ status' = "dead_end"
               /\ events' = Append(events, EndEvent("dead_end", Cardinality(Range(path))))
      <4> DEFINE end == EndEvent("dead_end", Cardinality(Range(path)))
      <4>1. end.event = "pipeline_end"
        BY DEF EndEvent
      <4> HIDE DEF end
      <4>2. Tells(ids, opts.maxNodeVisits, Append(events, end), path, path, nodeVisits)
        BY <3>2, <4>1, EndsTell
      <4>3. Last(Append(events, end)) = end
        BY <3>3, AppendedLog DEF Last
      <4>4. QED
        BY <2>1, <3>1, <3>6, <4>2, <4>3 DEF LogKnown, end
    <3>7. QED
      BY <2>2, <3>4, <3>5, <3>6 DEF NoVisit
  <2>3. CASE \E id \in NodeIDs(wf) : Visits(id)
    BY <2>1, <2>3, VisitKeepsLog
  <2>4. QED
    BY <1>2, <2>2, <2>3, StepKinds
<1>3. QED
  BY <1>1, <1>2

(* At every state of every run the log tells of the path and of the visit  *)
(* counts that the run has by then, and its last event of the result.      *)
THEOREM LogHolds == Spec => []LogKnown
<1>1. Init => LogKnown
  BY InitLogKnown
<1>2. IInv /\ LogKnown /\ [Next]_vars => LogKnown'
  BY NextKeepsLog
<1>3. QED
  BY <1>1, <1>2, Inductive, PTL DEF Spec

(* The last exit until an event is the exit with the highest position.     *)
LEMMA LastExitIsMax ==
  ASSUME NEW log, NEW i \in Nat, NEW id, LastExit(log, i, id)
  PROVE  LET exits == {j \in 1..i : log[j].event = "node_exit"}
         IN  exits # {} /\ log[Max(exits)].node = id
<1> DEFINE exits == {j \in 1..i : log[j].event = "node_exit"}
<1>1. PICK m \in 1..i : /\ log[m].event = "node_exit" /\ log[m].node = id
                        /\ \A j \in (m + 1)..i : log[j].event # "node_exit"
  BY DEF LastExit
<1>2. m \in exits /\ exits \in SUBSET Int
  BY <1>1
<1>3. ASSUME NEW j \in exits PROVE j <= m
  <2>1. j \in 1..i /\ log[j].event = "node_exit"
    OBVIOUS
  <2>2. j \notin (m + 1)..i
    BY <1>1, <2>1
  <2>3. QED
    BY <2>1, <2>2
<1>4. Max(exits) = m
  <2> HIDE DEF exits
  <2>1. \A x \in exits : (\A y \in exits : x >= y) => x = m
    BY <1>2, <1>3
  <2>2. \A y \in exits : m >= y
    BY <1>2, <1>3
  <2>3. QED
    BY <1>2, <2>1, <2>2 DEF Max
<1>5. QED
  BY <1>1, <1>2, <1>4

(* Enter and exit events pair up with the path, every edge event leaves    *)
(* the node exited last, and the closing event of a run that did not fail  *)
(* reports its status and the number of distinct nodes visited.            *)
THEOREM LogMatchesPath == Spec => []EventsMatchPath
<1>1. IInv /\ LogKnown => EventsMatchPath
  <2> SUFFICES ASSUME IInv, LogKnown PROVE EventsMatchPath
    OBVIOUS
  <2>1. NodesOf(OfKind(events, "node_enter")) = path /\ NodesOf(OfKind(events, "node_exit")) = path
    BY DEF LogKnown, Tells
  <2>2. ASSUME NEW i \in DOMAIN events, events[i].event = "edge_traverse"
        PROVE  LET exits == {j \in 1..i : events[j].event = "node_exit"}
               IN  exits # {} /\ events[Max(exits)].node = events[i].from
    <3>1. LastExit(events, i, events[i].from)
      BY <2>2 DEF LogKnown, Tells
    <3>2. i \in Nat
      <4>1. events \in Seq(Range(events))
        BY DEF LogKnown, Tells
      <4>2. QED
        BY <4>1
    <3>3. QED
      BY <3>1, <3>2, LastExitIsMax
  <2>3. status \in {"success", "dead_end"} =>
          Last(events) = EndEvent(status, Cardinality({id \in NodeIDs(wf) : nodeVisits[id] > 0}))
    BY VisitedAreOnPath DEF LogKnown
  <2>4. QED
    BY <2>1, <2>2, <2>3 DEF EventsMatchPath
<1>2. QED
  BY <1>1, Inductive, LogHolds, PTL

(* A loop is broken only at a node that was entered more often than the    *)
(* limit allows, by the main loop and the branches together.               *)
THEOREM LoopsBreakLate == Spec => []BreaksAreEarned
<1>1. LogKnown => BreaksAreEarned
  BY DEF LogKnown, Tells, BreaksAreEarned, Enters
<1>2. QED
  BY <1>1, LogHolds, PTL

-----------------------------------------------------------------------------
(* The context                                                             *)

(* What a visit makes of one key: an answer typed at a prompt, the label   *)
(* spent, the node's own default, or what it was.                          *)
LEMMA VisitedContext ==
  ASSUME IInv, NEW id \in NodeIDs(wf), Visits(id), NEW k \in CtxKeys
  PROVE  \/ /\ Prompts(NodeOf(wf, id))
            /\ k = "human_response" \/ AnswersUnder(NodeOf(wf, id), k)
         \/ k = "preferred_label" /\ ctx'[k] = NotSet
         \/ ctx'[k] = NodeDefaults(ctx, NodeOf(wf, id))[k]
         \/ ctx'[k] = ctx[k]
<1> DEFINE n == NodeOf(wf, id)
           edges == EdgesFrom(wf, id)
<1>1. ctx \in [CtxKeys -> CtxValues] /\ n \in NodeRecords /\ wf \in Workflows /\ opts \in OptionsFor(wf)
  BY NodeOfIsNode DEF IInv, TypeOK
<1>2. PICK c \in ContextsAfterVisit(ctx, n) : ctx' = c \/ ctx' = AfterLabel(n, edges, c)
  BY DEF Visits
<1>3. c \in [CtxKeys -> CtxValues]
  BY <1>1, ContextsAreTyped
<1>4. \/ Prompts(n) /\ (k = "human_response" \/ AnswersUnder(n, k))
      \/ c[k] = NodeDefaults(ctx, n)[k]
      \/ c[k] = ctx[k]
  <2>1. CASE c = ctx
    BY <2>1
  <2>2. CASE c = NodeDefaults(ctx, n)
    BY <2>2
  <2>3. CASE Prompts(n) /\ \E r : c = Answered(NodeDefaults(ctx, n), n, r)
    <3>1. PICK r : c = Answered(NodeDefaults(ctx, n), n, r)
      BY <2>3
    <3>2. DOMAIN NodeDefaults(ctx, n) = CtxKeys
      BY <1>1 DEF NodeDefaults
    <3>3. c[k] = IF k = "human_response" \/ (n.mode = "interview" /\ k = AnswersKey(n))
                 THEN r ELSE NodeDefaults(ctx, n)[k]
      BY <3>1, <3>2 DEF Answered
    <3>4. QED
      BY <2>3, <3>3 DEF AnswersUnder
  <2>4. QED
    BY <2>1, <2>2, <2>3 DEF ContextsAfterVisit
<1>5. ctx'[k] = c[k] \/ (k = "preferred_label" /\ ctx'[k] = NotSet)
  BY <1>2, <1>3 DEF AfterLabel
<1>6. QED
  BY <1>4, <1>5

(* A visit puts one node more on the path.                                 *)
LEMMA VisitedPath ==
  ASSUME IInv, NEW id \in NodeIDs(wf), Visits(id)
  PROVE  /\ wf' = wf /\ opts' = opts
         /\ path \in Seq(NodeIDs(wf)) /\ path' = Append(path, id)
         /\ Len(path') = Len(path) + 1 /\ path'[Len(path) + 1] = id
         /\ \A i \in 1..Len(path) : path'[i] = path[i]
         /\ Range(path') = Range(path) \cup {id}
<1>1. path \in Seq(NodeIDs(wf)) /\ wf \in Workflows
  BY DEF IInv, TypeOK
<1>2. wf' = wf /\ opts' = opts /\ path' = Append(path, id)
  BY <1>1, NodeOfIsNode DEF Visits, Visit, inputs
<1>3. /\ Len(path) \in Nat /\ DOMAIN path = 1..Len(path)
      /\ Len(path') = Len(path) + 1 /\ path'[Len(path) + 1] = id
      /\ DOMAIN path' = 1..(Len(path) + 1)
      /\ \A i \in 1..Len(path) : path'[i] = path[i]
  BY <1>1, <1>2
<1>4. \A i \in 1..(Len(path) + 1) : i \in 1..Len(path) \/ i = Len(path) + 1
  BY <1>3
<1>5. \A i \in 1..Len(path) : i \in 1..(Len(path) + 1)
  BY <1>3
<1>6. Len(path) + 1 \in 1..(Len(path) + 1)
  BY <1>3
<1>7. Range(path') = Range(path) \cup {id}
  BY ONLY <1>3, <1>4, <1>5, <1>6 DEF Range
<1>8. QED
  BY <1>1, <1>2, <1>3, <1>7

LEMMA InitContext == Init => ScenarioPrevails /\ LabelSpentOnce
<1> SUFFICES ASSUME Init PROVE ScenarioPrevails /\ LabelSpentOnce
  OBVIOUS
<1>1. path = <<>> /\ DOMAIN path = {}
  <2>1. path = <<>>
    BY DEF Init
  <2>2. QED
    BY ONLY <2>1
<1>2. \A k \in CtxKeys \cap DOMAIN opts.global : ctx[k] = opts.global[k]
  BY DEF Init
<1>3. QED
  BY <1>1, <1>2, KeysAssumption DEF ScenarioPrevails, LabelSpentOnce

LEMMA VisitKeepsScenario ==
  ASSUME IInv, ScenarioPrevails, NEW id \in NodeIDs(wf), Visits(id)
  PROVE  ScenarioPrevails'
<1> DEFINE n == NodeOf(wf, id)
<1>1. /\ wf' = wf /\ opts' = opts /\ Range(path') = Range(path) \cup {id}
  BY VisitedPath
<1>2. ctx \in [CtxKeys -> CtxValues] /\ wf \in Workflows
  BY DEF IInv, TypeOK
<1>3. n.id = id
  BY <1>2, NodeOfIsNode
<1> SUFFICES ASSUME NEW k \in {"outcome", "tool_stdout"} \cap DOMAIN opts.global
             PROVE  \/ ctx'[k] = opts.global[k]
                    \/ \E x \in Range(path) \cup {id} :
                          \/ AnswersUnder(NodeOf(wf, x), k)
                          \/ /\ x \in DOMAIN opts.perNode /\ k \in DOMAIN opts.perNode[x]
                             /\ ctx'[k] = Injected(opts.perNode[x][k])
  BY <1>1 DEF ScenarioPrevails, AnswersUnder, Prompts
<1>4. k \in CtxKeys /\ k # "human_response" /\ k # "preferred_label"
  BY KeysAssumption
<1>5. \/ ctx[k] = opts.global[k]
      \/ \E x \in Range(path) :
            \/ AnswersUnder(NodeOf(wf, x), k)
            \/ /\ x \in DOMAIN opts.perNode /\ k \in DOMAIN opts.perNode[x]
               /\ ctx[k] = Injected(opts.perNode[x][k])
  BY DEF ScenarioPrevails
<1>6. AnswersUnder(n, k) \/ ctx'[k] = NodeDefaults(ctx, n)[k] \/ ctx'[k] = ctx[k]
  BY <1>4, VisitedContext
<1>7. CASE AnswersUnder(n, k)
  BY <1>7
<1>8. CASE ctx'[k] = ctx[k]
  BY <1>5, <1>8
<1>9. CASE ctx'[k] = NodeDefaults(ctx, n)[k]
  <2>1. NodeDefaults(ctx, n)[k] = IF k \in DOMAIN PerNode(n) THEN Injected(PerNode(n)[k]) ELSE ctx[k]
    BY <1>2, <1>4 DEF NodeDefaults, Scripted
  <2>2. CASE k \in DOMAIN PerNode(n)
    <3>1. id \in DOMAIN opts.perNode /\ PerNode(n) = opts.perNode[id]
      BY <1>3, <2>2 DEF PerNode
    <3>2. QED
      BY <1>9, <2>1, <2>2, <3>1
  <2>3. CASE k \notin DOMAIN PerNode(n)
    BY <1>5, <1>9, <2>1, <2>3
  <2>4. QED
    BY <2>2, <2>3
<1>10. QED
  BY <1>6, <1>7, <1>8, <1>9

\* The node at the i-th position had a choice to make.
Chose(i) ==
    /\ NodeOf(wf, path[i]).kind = "human" /\ path[i] # wf.exit
    /\ EdgesFrom(wf, path[i]) # <<>> /\ ~Immediate(EdgesFrom(wf, path[i]))

LEMMA VisitKeepsLabelSpent ==
  ASSUME IInv, LabelSpentOnce, NEW id \in NodeIDs(wf), Visits(id)
  PROVE  LabelSpentOnce'
<1> DEFINE n == NodeOf(wf, id)
           edges == EdgesFrom(wf, id)
           label == "preferred_label"
<1>1. /\ wf' = wf /\ opts' = opts /\ path \in Seq(NodeIDs(wf))
      /\ Len(path') = Len(path) + 1 /\ path'[Len(path) + 1] = id
      /\ \A i \in 1..Len(path) : path'[i] = path[i]
      /\ path' \in Seq(NodeIDs(wf))
  <2>1. path' = Append(path, id) /\ path \in Seq(NodeIDs(wf))
    BY VisitedPath
  <2>2. path' \in Seq(NodeIDs(wf))
    BY <2>1
  <2>3. QED
    BY <2>2, VisitedPath
<1>2. ctx \in [CtxKeys -> CtxValues] /\ wf \in Workflows
  BY DEF IInv, TypeOK
<1>3. n.id = id /\ n \in NodeRecords /\ n \in Range(wf.nodes)
  BY <1>2, NodeOfIsNode, NodeOfIsListed
<1> SUFFICES ASSUME \A x \in DOMAIN opts.perNode : label \notin DOMAIN opts.perNode[x],
                    \A x \in Range(wf.nodes) : ~AnswersUnder(x, label),
                    NEW i \in DOMAIN path', Chose(i)'
             PROVE  ctx'[label] \in {"", NotSet}
  BY <1>1 DEF LabelSpentOnce, Chose, AnswersUnder, Prompts
<1>4. label \in CtxKeys /\ label # "human_response"
  BY KeysAssumption
<1>5. CASE i \in 1..Len(path)
  <2>1. Chose(i) /\ i \in DOMAIN path
    BY <1>1, <1>5 DEF Chose
  <2>2. ctx[label] \in {"", NotSet}
    BY <2>1 DEF LabelSpentOnce, Chose
  <2>3. NodeDefaults(ctx, n)[label] = ctx[label]
    <3>1. label \notin DOMAIN PerNode(n)
      BY <1>3 DEF PerNode
    <3>2. label \notin DefaultKeys(n)
      BY DEF DefaultKeys
    <3>3. QED
      BY <1>2, <1>4, <3>1, <3>2 DEF NodeDefaults
  <2>4. ~AnswersUnder(n, label)
    BY <1>3
  <2>5. QED
    BY <1>4, <2>2, <2>3, <2>4, VisitedContext
<1>6. CASE i = Len(path) + 1
  <2>1. n.kind = "human" /\ id # wf.exit /\ edges # <<>> /\ ~Immediate(edges)
    BY <1>1, <1>6 DEF Chose
  <2>2. PICK c \in ContextsAfterVisit(ctx, n) : ctx' = AfterLabel(n, edges, c)
    BY <2>1 DEF Visits
  <2>3. c \in [CtxKeys -> CtxValues]
    BY <1>2, <1>3, ContextsAreTyped DEF IInv, TypeOK
  <2>4. QED
    BY <1>4, <2>1, <2>2, <2>3 DEF AfterLabel, AsksLabel
<1>7. QED
  <2>1. i \in 1..Len(path') /\ Len(path) \in Nat
    BY <1>1
  <2>2. i \in 1..Len(path) \/ i = Len(path) + 1
    BY <1>1, <2>1
  <2>3. QED
    BY <1>5, <1>6, <2>2

LEMMA NextKeepsContext ==
  IInv /\ ScenarioPrevails /\ LabelSpentOnce /\ [Next]_vars => ScenarioPrevails' /\ LabelSpentOnce'
<1> SUFFICES ASSUME IInv, ScenarioPrevails, LabelSpentOnce, [Next]_vars
             PROVE  ScenarioPrevails' /\ LabelSpentOnce'
  OBVIOUS
<1>1. CASE UNCHANGED <<wf, opts, ctx, path>>
  BY <1>1 DEF ScenarioPrevails, LabelSpentOnce, AnswersUnder, Prompts
<1>2. CASE \E id \in NodeIDs(wf) : Visits(id)
  BY <1>2, VisitKeepsScenario, VisitKeepsLabelSpent
<1>3. QED
  BY <1>1, <1>2, StepKinds DEF NoVisit, inputs, vars

(* Defaults never replace what the scenario gave for the whole run; only   *)
(* an entry for a visited node or the answers of an interview do.          *)
THEOREM ScenarioWins == Spec => []ScenarioPrevails
<1>1. Spec => [](ScenarioPrevails /\ LabelSpentOnce)
  BY InitContext, NextKeepsContext, Inductive, PTL DEF Spec
<1>2. QED
  BY <1>1, PTL

(* A label is gone once a human node had a choice to make.                 *)
THEOREM LabelIsSpent == Spec => []LabelSpentOnce
<1>1. Spec => [](ScenarioPrevails /\ LabelSpentOnce)
  BY InitContext, NextKeepsContext, Inductive, PTL DEF Spec
<1>2. QED
  BY <1>1, PTL

-----------------------------------------------------------------------------
(* The walk                                                                *)

\* The nodes walked since the i-th.
Since(i) == WalkedBetween(i, Len(path) + 1)

\* The branches to walk before the join of the i-th node.
Owed(i) == Range(SelectedBranches(TargetsOf(wf, path[i]))) \ {JoinAfter(i)}

\* The i-th node is a fan-out, outside any other, that has not been joined yet.
Open(i) ==
    /\ TargetsOf(wf, path[i]) # <<>> /\ ~InsideBranch(i)
    /\ JoinAfter(i) \notin Since(i)

(* One node more on the path changes nothing that is said of the earlier   *)
(* positions.                                                              *)
LEMMA EarlierPositions ==
  ASSUME IInv, NEW id \in NodeIDs(wf), Visits(id)
  PROVE  /\ Len(path) \in Nat /\ Len(path') = Len(path) + 1
         /\ DOMAIN path = 1..Len(path) /\ DOMAIN path' = 1..(Len(path) + 1)
         /\ \A i \in 1..(Len(path) + 1) : i \in 1..Len(path) \/ i = Len(path) + 1
         /\ path'[Len(path) + 1] = id
         /\ \A i \in 1..Len(path) :
               /\ path'[i] = path[i]
               /\ JoinAfter(i)' = JoinAfter(i) /\ Owed(i)' = Owed(i)
               /\ \A k \in 1..(Len(path) + 1) : WalkedBetween(i, k)' = WalkedBetween(i, k)
               /\ Since(i)' = Since(i) \cup {id}
               /\ InsideBranch(i)' = InsideBranch(i)
               /\ \A x : Continues(i, x)' = Continues(i, x)
<1> DEFINE n == Len(path)
<1>1. /\ wf' = wf /\ opts' = opts /\ path \in Seq(NodeIDs(wf)) /\ path' = Append(path, id)
      /\ Len(path') = Len(path) + 1 /\ path'[Len(path) + 1] = id
      /\ \A i \in 1..n : path'[i] = path[i]
  BY VisitedPath
<1>2. n \in Nat /\ DOMAIN path = 1..n /\ DOMAIN path' = 1..(n + 1) /\ \A i \in 1..(n + 1) : i \in 1..n \/ i = n + 1
  BY <1>1
<1>3. Len(path') = n + 1 /\ path'[n + 1] = id /\ \A i \in 1..n : path'[i] = path[i]
  BY <1>1
<1> HIDE DEF n
<1>4. \A i \in 1..n : JoinAfter(i)' = JoinAfter(i) /\ Owed(i)' = Owed(i)
  BY <1>1, <1>3 DEF JoinAfter, Owed, SelectedBranches
<1>5. \A i \in 1..n : \A k \in 1..(n + 1) : WalkedBetween(i, k)' = WalkedBetween(i, k)
  <2>1. \A i \in 1..n : \A k \in 1..(n + 1) : \A j \in (i + 1)..(k - 1) : path'[j] = path[j]
    <3>1. \A i \in 1..n : \A k \in 1..(n + 1) : \A j \in (i + 1)..(k - 1) : j \in 1..n
      BY <1>2
    <3>2. QED
      BY <1>3, <3>1
  <2>2. QED
    BY <2>1 DEF WalkedBetween
<1>6. ASSUME NEW i \in 1..n PROVE Since(i)' = Since(i) \cup {id}
  <2>1. (n + 2) - 1 = n + 1 /\ (n + 1) - 1 = n
    BY <1>2
  <2>2. \A j \in (i + 1)..(n + 1) : j \in (i + 1)..n \/ j = n + 1
    BY <1>2
  <2>3. n + 1 \in (i + 1)..(n + 1) /\ \A j \in (i + 1)..n : j \in (i + 1)..(n + 1) /\ j \in 1..n
    BY <1>2
  <2>4. Since(i)' = {path'[j] : j \in (i + 1)..(n + 1)} /\ Since(i) = {path[j] : j \in (i + 1)..n}
    <3>1. /\ Since(i)' = {path'[j] : j \in (i + 1)..((Len(path') + 1) - 1)}
          /\ Since(i) = {path[j] : j \in (i + 1)..((n + 1) - 1)}
      BY DEF Since, WalkedBetween, n
    <3>2. (Len(path') + 1) - 1 = n + 1
      BY <1>2, <1>3
    <3>3. QED
      BY <2>1, <3>1, <3>2
  <2>5. QED
    BY ONLY <1>3, <2>2, <2>3, <2>4
<1>7. ASSUME NEW i \in 1..n PROVE InsideBranch(i)' = InsideBranch(i)
  <2>1. \A h \in 1..(i - 1) : h \in 1..n /\ i + 1 \in 1..(n + 1)
    BY <1>2
  <2>2. \A h \in 1..(i - 1) : /\ TargetsOf(wf', path'[h]) = TargetsOf(wf, path[h])
                              /\ JoinAfter(h)' = JoinAfter(h)
                              /\ WalkedBetween(h, i + 1)' = WalkedBetween(h, i + 1)
    BY <1>1, <1>3, <1>4, <1>5, <2>1
  <2>3. QED
    BY <2>2 DEF InsideBranch
<1>8. ASSUME NEW i \in 1..n, NEW x PROVE Continues(i, x)' = Continues(i, x)
  <2>1. \A j \in 1..i : path'[j] = path[j]
    BY <1>2, <1>3
  <2>2. ForkedBefore(i)' = ForkedBefore(i)
    BY <1>1, <2>1 DEF ForkedBefore
  <2>3. EdgesFrom(wf, path[i])' = EdgesFrom(wf, path[i])
    BY <1>1, <1>3
  <2>4. QED
    BY <1>1, <2>2, <2>3 DEF Continues
<1>9. QED
  BY <1>2, <1>3, <1>4, <1>5, <1>6, <1>7, <1>8 DEF n

(* A visit of a node the walk may go on to follows the graph.              *)
LEMMA VisitKeepsRoute ==
  ASSUME IInv, PathFollowsGraph, NEW id \in NodeIDs(wf), Visits(id),
         path # <<>> => Continues(Len(path), id)
  PROVE  PathFollowsGraph'
<1> DEFINE n == Len(path)
<1>1. /\ n \in Nat /\ Len(path') = n + 1 /\ path'[n + 1] = id
      /\ \A i \in 1..n : path'[i] = path[i] /\ \A x : Continues(i, x)' = Continues(i, x)
  BY EarlierPositions
<1>2. path = <<>> <=> n = 0
  BY DEF IInv, TypeOK
<1> SUFFICES ASSUME NEW i \in 1..n, NEW x, x = path'[i + 1] PROVE Continues(i, x)'
  BY <1>1 DEF PathFollowsGraph
<1> HIDE DEF n
<1>3. Continues(i, x)
  <2>1. CASE i = n
    BY <1>1, <1>2, <2>1 DEF n
  <2>2. CASE i # n
    <3>1. i \in 1..(n - 1) /\ i + 1 \in 1..n
      BY <1>1, <2>2
    <3>2. Continues(i, path[i + 1])
      BY <3>1 DEF PathFollowsGraph, n
    <3>3. QED
      BY <1>1, <3>1, <3>2
  <2>3. QED
    BY <2>1, <2>2
<1>4. QED
  BY <1>1, <1>3

(* A visit of a node that joins no fan-out but one whose branches are      *)
(* walked keeps the promise, and closes what it joins.                     *)
LEMMA VisitKeepsBranches ==
  ASSUME IInv, BranchesWalkedBeforeJoin, NEW id \in NodeIDs(wf), Visits(id),
         \A i \in DOMAIN path : Open(i) /\ JoinAfter(i) = id =>
             Owed(i) \subseteq Since(i)
  PROVE  /\ BranchesWalkedBeforeJoin'
         /\ \A i \in DOMAIN path : Open(i)' => Open(i) /\ JoinAfter(i) # id
<1> DEFINE n == Len(path)
<1>1. /\ n \in Nat /\ Len(path') = n + 1
      /\ DOMAIN path = 1..n /\ DOMAIN path' = 1..(n + 1)
      /\ \A i \in 1..(n + 1) : i \in 1..n \/ i = n + 1
      /\ path'[n + 1] = id
      /\ \A i \in 1..n :
               /\ path'[i] = path[i]
               /\ JoinAfter(i)' = JoinAfter(i) /\ Owed(i)' = Owed(i)
               /\ \A k \in 1..(n + 1) : WalkedBetween(i, k)' = WalkedBetween(i, k)
               /\ Since(i)' = Since(i) \cup {id}
               /\ InsideBranch(i)' = InsideBranch(i)
  BY EarlierPositions
<1>2. wf' = wf
  BY VisitedPath
<1> HIDE DEF n
<1>3. ASSUME NEW i \in 1..n, Open(i)' PROVE Open(i) /\ JoinAfter(i) # id
  <2>1. /\ TargetsOf(wf', path'[i]) # <<>> /\ ~InsideBranch(i)'
        /\ JoinAfter(i)' \notin Since(i)'
    BY <1>3 DEF Open
  <2>2. /\ TargetsOf(wf, path[i]) # <<>> /\ ~InsideBranch(i)
        /\ JoinAfter(i) \notin Since(i) \cup {id}
    BY <1>1, <1>2, <2>1
  <2>3. QED
    BY <2>2 DEF Open
<1>4. ASSUME NEW i \in 1..(n + 1), NEW k \in 1..(n + 1),
             TargetsOf(wf, path'[i]) # <<>>, ~InsideBranch(i)', i < k, path'[k] = JoinAfter(i)',
             JoinAfter(i)' \notin WalkedBetween(i, k)'
      PROVE  Owed(i)' \subseteq WalkedBetween(i, k)'
  <2>1. i \in 1..n
    BY <1>1, <1>4
  <2>2. /\ TargetsOf(wf, path[i]) # <<>> /\ ~InsideBranch(i)
        /\ JoinAfter(i) \notin WalkedBetween(i, k)
    BY <1>1, <1>4, <2>1
  <2>3. Owed(i) \subseteq WalkedBetween(i, k)
    <3>1. CASE k = n + 1
      <4>1. JoinAfter(i) = id
        BY <1>1, <1>4, <2>1, <3>1
      <4>2. Open(i)
        BY <2>2, <3>1 DEF Open, Since, n
      <4>3. QED
        BY <1>1, <2>1, <3>1, <4>1, <4>2 DEF Since, n
    <3>2. CASE k \in 1..n
      <4>1. path[k] = JoinAfter(i)
        BY <1>1, <1>4, <2>1, <3>2
      <4>2. QED
        BY <1>1, <1>4, <2>1, <2>2, <3>2, <4>1 DEF BranchesWalkedBeforeJoin, Owed
    <3>3. QED
      BY <1>1, <3>1, <3>2
  <2>4. QED
    BY <1>1, <2>1, <2>3
<1>5. BranchesWalkedBeforeJoin'
  BY <1>1, <1>2, <1>4 DEF BranchesWalkedBeforeJoin, Owed
<1>6. QED
  BY <1>1, <1>3, <1>5

(* The targets of a node, the ones that are walked among them, and that    *)
(* without targets there is no join.                                       *)
LEMMA TargetsTyped ==
  ASSUME wf \in Workflows, NEW id \in NodeIDs(wf)
  PROVE  /\ TargetsOf(wf, id) \in Seq(STRING)
         /\ NoBranch \notin Range(TargetsOf(wf, id))
         /\ SelectedBranches(TargetsOf(wf, id)) \in Seq(Range(TargetsOf(wf, id)))
<1> DEFINE t == TargetsOf(wf, id)
<1>1. NodeOf(wf, id) \in NodeRecords /\ NodeOf(wf, id) \in Range(wf.nodes)
  BY NodeOfIsNode, NodeOfIsListed
<1>2. NodeOf(wf, id).targets \in Seq(STRING) /\ <<>> \in Seq(STRING)
  BY <1>1 DEF NodeRecords
<1>3. t \in Seq(STRING)
  BY <1>2 DEF TargetsOf
<1>4. NoBranch \notin Range(t)
  <2>1. Range(t) \subseteq STRING
    <3> HIDE DEF t
    <3>1. QED
      BY <1>3 DEF Range
  <2>2. QED
    BY <2>1, NoBranchAssumption
<1> HIDE DEF t
<1>5. t \in Seq(Range(t))
  <2>1. Len(t) \in Nat /\ DOMAIN t = 1..Len(t) /\ t = [i \in 1..Len(t) |-> t[i]]
    BY <1>3
  <2>2. \A i \in 1..Len(t) : t[i] \in Range(t)
    BY <2>1 DEF Range
  <2>3. QED
    BY <2>1, <2>2
<1>6. SelectedBranches(t) \in Seq(Range(t))
  <2> DEFINE I == {i \in DOMAIN t : t[i] \in opts.branch}
  <2>1. I \in SUBSET (DOMAIN t)
    OBVIOUS
  <2>2. Keep(t, I) \in Seq(Range(t))
    <3> HIDE DEF I
    <3>1. QED
      BY <1>5, <2>1, KeepElements
  <2>3. SelectedBranches(t) = IF Keep(t, I) = <<>> THEN t ELSE Keep(t, I)
    BY DEF SelectedBranches
  <2> HIDE DEF I
  <2>4. QED
    BY <1>5, <2>2, <2>3
<1>7. QED
  BY <1>3, <1>4, <1>6 DEF t

LEMMA NoTargetsNoJoin ==
  ASSUME NEW w \in Workflows
  PROVE  JoinOf(w, <<>>) = NoNode
<1> DEFINE I == {i \in DOMAIN w.nodes : /\ w.nodes[i].kind = "fan_in"
                                        /\ w.nodes[i].sources # <<>>
                                        /\ Range(w.nodes[i].sources) \subseteq Range(<<>>)}
           chosen == Keep(w.nodes, I)
           joins == [i \in DOMAIN chosen |-> chosen[i].id]
<1>1. w.nodes \in Seq(NodeRecords)
  BY WorkflowsAssumption
<1>2. I = {}
  <2> SUFFICES ASSUME NEW i \in DOMAIN w.nodes, w.nodes[i].sources # <<>>,
                      Range(w.nodes[i].sources) \subseteq Range(<<>>)
               PROVE  FALSE
    OBVIOUS
  <2>1. w.nodes[i] \in NodeRecords
    BY <1>1
  <2>2. w.nodes[i].sources \in Seq(STRING)
    BY <2>1 DEF NodeRecords
  <2>3. 1 \in DOMAIN w.nodes[i].sources
    BY <2>2
  <2>4. w.nodes[i].sources[1] \in Range(w.nodes[i].sources)
    BY <2>3 DEF Range
  <2>5. Range(<<>>) = {}
    BY DEF Range
  <2>6. QED
    BY <2>4, <2>5
<1>3. I \in SUBSET (DOMAIN w.nodes) /\ Cardinality(I) = 0
  BY <1>2, FS_EmptySet
<1>4. JoinOf(w, <<>>) = IF joins = <<>> THEN NoNode ELSE Head(joins)
  BY DEF JoinOf, IDsWhere
<1> HIDE DEF I
<1>5. chosen \in Seq(NodeRecords) /\ Len(chosen) = 0
  BY <1>1, <1>3, KeepElements
<1>6. DOMAIN chosen = {}
  <2> HIDE DEF chosen
  <2>1. QED
    BY <1>5
<1>7. joins = <<>>
  BY <1>6
<1>8. QED
  BY <1>4, <1>7

\* The main loop's next node is an edge on, or the join of the fan-out whose
\* branches are all walked; no other fan-out is open.
OnTheWay ==
    pc = "main" =>
        /\ path # <<>> => Continues(Len(path), current)
        /\ \A i \in DOMAIN path : Open(i) => current = JoinAfter(i) /\ Owed(i) \subseteq Since(i)

\* The fan-out being walked was entered at position h: its join was not visited
\* since, and each branch owed was walked, is being walked or still to come.
Forking(h) ==
    /\ path[h] = current
    /\ join \notin Since(h)
    /\ Owed(h) \subseteq Since(h) \cup Range(pending) \cup {branchAt}
    /\ \A i \in DOMAIN path : Open(i) => i = h

InBranches ==
    pc = "branch" =>
        /\ pending \in Seq(Range(TargetsOf(wf, current)))
        /\ branchAt # NoBranch => TargetsOf(wf, current) # <<>> /\ Continues(Len(path), branchAt)
        /\ join # NoNode => TargetsOf(wf, current) # <<>>
        /\ \E h \in DOMAIN path : Forking(h)

WalkKnown ==
    /\ PathFollowsGraph /\ BranchesWalkedBeforeJoin
    /\ pc \in {"start", "main"} => branchAt = NoBranch
    /\ OnTheWay /\ InBranches

LEMMA InitWalkKnown == Init => WalkKnown
<1> SUFFICES ASSUME Init PROVE WalkKnown
  OBVIOUS
<1>1. path = <<>> /\ pc = "start" /\ branchAt = NoBranch
  BY DEF Init
<1>2. DOMAIN path = {} /\ Len(path) = 0 /\ 1..(Len(path) - 1) = {}
  <2>1. DOMAIN <<>> = {} /\ Len(<<>>) = 0 /\ 1..(0 - 1) = {}
    OBVIOUS
  <2>2. QED
    BY ONLY <1>1, <2>1
<1>3. QED
  BY <1>1, <1>2 DEF WalkKnown, PathFollowsGraph, BranchesWalkedBeforeJoin, OnTheWay, InBranches

(* What is said of the path holds as long as the path does.                *)
LEMMA SamePath ==
  ASSUME UNCHANGED <<wf, opts, path>>
  PROVE  /\ PathFollowsGraph' = PathFollowsGraph
         /\ BranchesWalkedBeforeJoin' = BranchesWalkedBeforeJoin
         /\ \A i : /\ Open(i)' = Open(i) /\ JoinAfter(i)' = JoinAfter(i)
                   /\ Owed(i)' = Owed(i) /\ Since(i)' = Since(i)
         /\ \A i, x : Continues(i, x)' = Continues(i, x)
<1>1. \A i, x : Continues(i, x)' = Continues(i, x)
  BY DEF Continues, ForkedBefore
<1>2. \A i : JoinAfter(i)' = JoinAfter(i) /\ Owed(i)' = Owed(i)
  BY DEF JoinAfter, Owed, SelectedBranches
<1>3. \A i, k : WalkedBetween(i, k)' = WalkedBetween(i, k)
  BY DEF WalkedBetween
<1>4. \A i : Since(i)' = Since(i)
  BY DEF Since, WalkedBetween
<1>5. \A i : InsideBranch(i)' = InsideBranch(i)
  BY <1>2, <1>3 DEF InsideBranch
<1>6. \A i : Open(i)' = Open(i)
  BY <1>2, <1>4, <1>5 DEF Open
<1>7. PathFollowsGraph' = PathFollowsGraph
  BY DEF PathFollowsGraph, Continues, ForkedBefore
<1>8. BranchesWalkedBeforeJoin' = BranchesWalkedBeforeJoin
  BY <1>2, <1>3, <1>5 DEF BranchesWalkedBeforeJoin, SelectedBranches
<1>9. QED
  BY <1>1, <1>2, <1>4, <1>6, <1>7, <1>8

(* Where the path stays as it is: the run starts or ends.                  *)
LEMMA StartOrEndKeepsWalk ==
  ASSUME IInv, WalkKnown, UNCHANGED <<wf, opts, path>>,
         \/ pc' = "done"
         \/ pc = "start" /\ pc' = "main" /\ UNCHANGED branchAt
  PROVE  WalkKnown'
<1>1. PathFollowsGraph' /\ BranchesWalkedBeforeJoin'
  BY SamePath DEF WalkKnown
<1>2. CASE pc' = "done"
  BY <1>1, <1>2 DEF WalkKnown, OnTheWay, InBranches
<1>3. CASE pc = "start" /\ pc' = "main" /\ UNCHANGED branchAt
  <2>1. path' = <<>>
    BY <1>3 DEF IInv, NothingBeforeStart
  <2>2. DOMAIN path' = {}
    <3>1. DOMAIN <<>> = {}
      OBVIOUS
    <3>2. QED
      BY ONLY <2>1, <3>1
  <2>3. OnTheWay'
    BY <2>1, <2>2 DEF OnTheWay
  <2>4. branchAt' = NoBranch /\ InBranches'
    BY <1>3 DEF WalkKnown, InBranches
  <2>5. QED
    BY <1>1, <2>3, <2>4 DEF WalkKnown
<1>4. QED
  BY <1>2, <1>3

(* What is known while branches are walked.                                *)
LEMMA ForkFacts ==
  ASSUME IInv, WalkKnown, pc = "branch"
  PROVE  /\ wf \in Workflows /\ current \in NodeIDs(wf)
         /\ TargetsOf(wf, current) = NodeOf(wf, current).targets
         /\ join = JoinOf(wf, TargetsOf(wf, current))
         /\ NoBranch \notin Range(TargetsOf(wf, current))
         /\ SelectedBranches(TargetsOf(wf, current)) \in Seq(Range(TargetsOf(wf, current)))
         /\ \A i \in DOMAIN path : path[i] = current =>
               /\ JoinAfter(i) = join
               /\ Owed(i) = Range(SelectedBranches(TargetsOf(wf, current))) \ {join}
               /\ i <= Len(path) /\ i \in Nat
         /\ \A i \in DOMAIN path : path[i] = current /\ TargetsOf(wf, current) # <<>> =>
               current \in ForkedBefore(Len(path))
<1>1. wf \in Workflows /\ current \in NodeIDs(wf) /\ NodeOf(wf, current).kind = "parallel"
      /\ join = JoinOf(wf, NodeOf(wf, current).targets)
  BY DEF IInv, TypeOK, BranchesKnown
<1>2. TargetsOf(wf, current) = NodeOf(wf, current).targets
  BY <1>1 DEF TargetsOf
<1>3. /\ NoBranch \notin Range(TargetsOf(wf, current))
      /\ SelectedBranches(TargetsOf(wf, current)) \in Seq(Range(TargetsOf(wf, current)))
  BY <1>1, TargetsTyped
<1>4. path \in Seq(NodeIDs(wf)) /\ DOMAIN path = 1..Len(path) /\ Len(path) \in Nat
  BY DEF IInv, TypeOK
<1>5. ASSUME NEW i \in DOMAIN path, path[i] = current
      PROVE  /\ JoinAfter(i) = join
             /\ Owed(i) = Range(SelectedBranches(TargetsOf(wf, current))) \ {join}
             /\ i <= Len(path) /\ i \in Nat
  BY <1>1, <1>2, <1>4, <1>5 DEF JoinAfter, Owed
<1>6. ASSUME NEW i \in DOMAIN path, path[i] = current, TargetsOf(wf, current) # <<>>
      PROVE  current \in ForkedBefore(Len(path))
  BY <1>4, <1>6 DEF ForkedBefore
<1>7. QED
  BY <1>1, <1>2, <1>3, <1>5, <1>6

LEMMA NextBranchKeepsWalk ==
  ASSUME IInv, WalkKnown, NextBranch
  PROVE  WalkKnown'
<1> DEFINE t == TargetsOf(wf, current)
<1>1. /\ pc = "branch" /\ branchAt = NoBranch /\ pending # <<>>
      /\ branchAt' = Head(pending) /\ pending' = Tail(pending)
      /\ UNCHANGED <<wf, opts, path, pc, current, join>>
  BY DEF NextBranch, inputs
<1>2. pending \in Seq(Range(t)) /\ (join # NoNode => t # <<>>)
  BY <1>1 DEF WalkKnown, InBranches
<1>3. Head(pending) \in Range(t) /\ Tail(pending) \in Seq(Range(t))
      /\ Range(pending) \subseteq {Head(pending)} \cup Range(Tail(pending))
  <2> DEFINE S == Range(t)
  <2>1. Head(pending) \in S /\ Tail(pending) \in Seq(S)
    <3> HIDE DEF S
    <3>1. QED
      BY <1>1, <1>2 DEF S
  <2>2. Len(pending) \in Nat /\ DOMAIN pending = 1..Len(pending) /\ DOMAIN Tail(pending) = 1..(Len(pending) - 1)
    <3> HIDE DEF S
    <3>1. QED
      BY <1>1, <1>2 DEF S
  <2>3. pending[1] = Head(pending) /\ \A i \in 1..(Len(pending) - 1) : Tail(pending)[i] = pending[i + 1]
    <3> HIDE DEF S
    <3>1. QED
      BY <1>1, <1>2 DEF S
  <2>4. ASSUME NEW i \in 1..Len(pending) PROVE pending[i] \in {Head(pending)} \cup Range(Tail(pending))
    <3>1. CASE i = 1
      BY <2>3, <3>1
    <3>2. CASE i # 1
      <4>1. i - 1 \in 1..(Len(pending) - 1) /\ (i - 1) + 1 = i
        BY <2>2, <3>2
      <4>2. Tail(pending)[i - 1] = pending[i] /\ i - 1 \in DOMAIN Tail(pending)
        BY <2>2, <2>3, <4>1
      <4>3. QED
        BY <4>2 DEF Range
    <3>3. QED
      BY <3>1, <3>2
  <2>5. QED
    BY <2>1, <2>2, <2>4 DEF Range
<1>4. t # <<>>
  <2>1. Range(<<>>) = {}
    BY DEF Range
  <2>2. QED
    BY <1>3, <2>1
<1>5. PICK h \in DOMAIN path : Forking(h)
  BY <1>1 DEF WalkKnown, InBranches
<1>6. path[h] = current /\ current \in ForkedBefore(Len(path)) /\ NoBranch \notin Range(t)
      /\ Owed(h) = Range(SelectedBranches(t)) \ {join}
      /\ SelectedBranches(t) \in Seq(Range(t))
  BY <1>1, <1>4, <1>5, ForkFacts DEF Forking
<1>7. Continues(Len(path), branchAt')
  BY <1>1, <1>3, <1>6 DEF Continues
<1>8. Forking(h)'
  <2>1. NoBranch \notin Owed(h)
    <3>1. Range(SelectedBranches(t)) \subseteq Range(t)
      BY <1>6 DEF Range
    <3>2. QED
      BY <1>6, <3>1
  <2>2. Owed(h) \subseteq Since(h) \cup Range(pending') \cup {branchAt'}
    BY <1>1, <1>3, <1>5, <2>1 DEF Forking
  <2>3. QED
    BY <1>1, <1>5, <2>2, SamePath DEF Forking
<1>9. InBranches'
  <2>1. Continues(Len(path), branchAt)'
    BY <1>1, <1>7 DEF Continues, ForkedBefore
  <2>2. TargetsOf(wf, current)' = t
    BY <1>1
  <2>3. QED
    BY <1>1, <1>2, <1>3, <1>4, <1>8, <2>1, <2>2 DEF InBranches
<1>10. PathFollowsGraph' /\ BranchesWalkedBeforeJoin' /\ OnTheWay'
  BY <1>1, SamePath DEF WalkKnown, OnTheWay
<1>11. QED
  BY <1>1, <1>9, <1>10 DEF WalkKnown

LEMMA BranchArrivesKeepsWalk ==
  ASSUME IInv, WalkKnown, BranchArrives
  PROVE  WalkKnown'
<1>1. /\ pc = "branch" /\ branchAt = join /\ branchAt' = NoBranch
      /\ UNCHANGED <<wf, opts, path, pc, current, join, pending>>
  BY DEF BranchArrives, inputs
<1>2. PICK h \in DOMAIN path : Forking(h)
  BY <1>1 DEF WalkKnown, InBranches
<1>3. JoinAfter(h) = join
  BY <1>1, <1>2, ForkFacts DEF Forking
<1>4. Forking(h)'
  <2>1. Owed(h) \subseteq Since(h) \cup Range(pending') \cup {branchAt'}
    BY <1>1, <1>2, <1>3 DEF Forking, Owed
  <2>2. QED
    BY <1>1, <1>2, <2>1, SamePath DEF Forking
<1>5. InBranches'
  BY <1>1, <1>4 DEF InBranches, WalkKnown
<1>6. PathFollowsGraph' /\ BranchesWalkedBeforeJoin' /\ OnTheWay'
  BY <1>1, SamePath DEF WalkKnown, OnTheWay
<1>7. QED
  BY <1>1, <1>5, <1>6 DEF WalkKnown

LEMMA RejoinKeepsWalk ==
  ASSUME IInv, WalkKnown, Rejoin
  PROVE  WalkKnown'
<1>1. CASE join = NoNode
  BY <1>1, StartOrEndKeepsWalk DEF Rejoin, Finish, inputs
<1>2. CASE join # NoNode
  <2>1. /\ pc = "branch" /\ branchAt = NoBranch /\ pending = <<>>
        /\ current' = join /\ pc' = "main"
        /\ UNCHANGED <<wf, opts, path, branchAt>>
    BY <1>2 DEF Rejoin, inputs
  <2>2. PICK h \in DOMAIN path : Forking(h)
    BY <2>1 DEF WalkKnown, InBranches
  <2>3. /\ JoinAfter(h) = join /\ path[h] = current
        /\ Owed(h) = Range(SelectedBranches(TargetsOf(wf, current))) \ {join}
        /\ NoBranch \notin Range(TargetsOf(wf, current))
        /\ SelectedBranches(TargetsOf(wf, current)) \in Seq(Range(TargetsOf(wf, current)))
    BY <2>1, <2>2, ForkFacts DEF Forking
  <2>4. TargetsOf(wf, current) # <<>>
    BY <1>2, <2>1 DEF WalkKnown, InBranches
  <2>5. current \in ForkedBefore(Len(path))
    BY <2>1, <2>2, <2>3, <2>4, ForkFacts
  <2>6. join = JoinOf(wf, TargetsOf(wf, current))
    BY <2>1, ForkFacts
  <2>7. Continues(Len(path), join)
    BY <2>5, <2>6 DEF Continues
  <2>8. Owed(h) \subseteq Since(h)
    <3>1. NoBranch \notin Owed(h)
      <4>1. Range(SelectedBranches(TargetsOf(wf, current))) \subseteq Range(TargetsOf(wf, current))
        BY <2>3 DEF Range
      <4>2. QED
        BY <2>3, <4>1
    <3>2. Range(<<>>) = {}
      BY DEF Range
    <3>3. QED
      BY <2>1, <2>2, <3>1, <3>2 DEF Forking
  <2>9. \A i \in DOMAIN path : Open(i) => join = JoinAfter(i) /\ Owed(i) \subseteq Since(i)
    BY <2>2, <2>3, <2>8 DEF Forking
  <2>10. OnTheWay'
    <3>1. Continues(Len(path), current)'
      BY <2>1, <2>7 DEF Continues, ForkedBefore
    <3>2. \A i \in DOMAIN path' : Open(i)' => current' = JoinAfter(i)' /\ Owed(i)' \subseteq Since(i)'
      BY <2>1, <2>9, SamePath
    <3>3. QED
      BY <3>1, <3>2 DEF OnTheWay
  <2>11. PathFollowsGraph' /\ BranchesWalkedBeforeJoin' /\ InBranches'
    BY <2>1, SamePath DEF WalkKnown, InBranches
  <2>12. QED
    BY <2>1, <2>10, <2>11 DEF WalkKnown
<1>3. QED
  BY <1>1, <1>2

\* The main loop's visits join no fan-out but the one whose branches are walked.
LEMMA MainVisitKeepsWalk ==
  ASSUME IInv, WalkKnown, pc = "main", current \in NodeIDs(wf), Visits(current)
  PROVE  /\ PathFollowsGraph' /\ BranchesWalkedBeforeJoin'
         /\ \A i \in DOMAIN path : ~Open(i)'
<1>1. /\ path # <<>> => Continues(Len(path), current)
      /\ \A i \in DOMAIN path : Open(i) => current = JoinAfter(i) /\ Owed(i) \subseteq Since(i)
  BY DEF WalkKnown, OnTheWay
<1>2. PathFollowsGraph'
  BY <1>1, VisitKeepsRoute DEF WalkKnown
<1>3. BranchesWalkedBeforeJoin' /\ \A i \in DOMAIN path : Open(i)' => Open(i) /\ JoinAfter(i) # current
  BY <1>1, VisitKeepsBranches DEF WalkKnown
<1>4. QED
  BY <1>1, <1>2, <1>3

\* After a visit the walk may go on along any edge of the node.
LEMMA AlongAnEdge ==
  ASSUME IInv, NEW id \in NodeIDs(wf), Visits(id), NEW e \in Range(EdgesFrom(wf, id)), NEW x, x = e.to
  PROVE  \A k : k = Len(path) + 1 => Continues(k, x)'
<1>1. wf' = wf /\ path'[Len(path) + 1] = id
  BY VisitedPath
<1>2. ASSUME NEW k, k = Len(path) + 1 PROVE Continues(k, x)'
  BY <1>1, <1>2 DEF Continues
<1>3. QED
  BY <1>2

LEMMA ReachExitKeepsWalk ==
  ASSUME IInv, WalkKnown, ReachExit
  PROVE  WalkKnown'
<1>1. pc = "main" /\ pc' = "done" /\ current \in NodeIDs(wf)
  BY DEF ReachExit, Finish, IInv, EndsKnown
<1>2. Visits(current)
  BY DEF ReachExit, Visits, Finish, inputs
<1>3. PathFollowsGraph' /\ BranchesWalkedBeforeJoin'
  BY <1>1, <1>2, MainVisitKeepsWalk
<1>4. QED
  BY <1>1, <1>3 DEF WalkKnown, OnTheWay, InBranches

LEMMA ForkKeepsWalk ==
  ASSUME IInv, WalkKnown, Fork
  PROVE  WalkKnown'
<1> DEFINE n == Len(path)
           t == TargetsOf(wf, current)
<1>1. /\ pc = "main" /\ pc' = "branch" /\ current \in NodeIDs(wf)
      /\ NodeOf(wf, current).kind = "parallel"
      /\ pending' = SelectedBranches(NodeOf(wf, current).targets)
      /\ join' = JoinOf(wf, NodeOf(wf, current).targets)
      /\ UNCHANGED <<wf, opts, current, branchAt>>
      /\ branchAt = NoBranch
  BY DEF Fork, inputs, WalkKnown
<1>2. Visits(current)
  <2>1. ContextsAfterVisit(ctx, NodeOf(wf, current)) = {ctx}
    BY <1>1 DEF ContextsAfterVisit
  <2>2. QED
    BY <2>1 DEF Fork, Visits, inputs
<1>3. PathFollowsGraph' /\ BranchesWalkedBeforeJoin' /\ \A i \in DOMAIN path : ~Open(i)'
  BY <1>1, <1>2, MainVisitKeepsWalk
<1>4. wf \in Workflows
  BY DEF IInv, TypeOK
<1>5. /\ t = NodeOf(wf, current).targets /\ SelectedBranches(t) \in Seq(Range(t))
      /\ pending' = SelectedBranches(t) /\ join' = JoinOf(wf, t)
  BY <1>1, <1>4, TargetsTyped DEF TargetsOf
<1>6. join' # NoNode => t # <<>>
  BY <1>4, <1>5, NoTargetsNoJoin
<1>7. /\ n \in Nat /\ Len(path') = n + 1 /\ DOMAIN path = 1..n /\ DOMAIN path' = 1..(n + 1)
      /\ path'[n + 1] = current
      /\ \A i \in 1..(n + 1) : i \in 1..n \/ i = n + 1
  BY <1>1, <1>2, EarlierPositions
<1>8. ASSUME NEW h, h = n + 1 PROVE h \in DOMAIN path' /\ Forking(h)'
  <2>1. Since(h)' = {}
    <3>1. (h + 1)..((Len(path') + 1) - 1) = {}
      BY <1>7, <1>8
    <3>2. QED
      BY <3>1 DEF Since, WalkedBetween
  <2>2. Owed(h)' \subseteq Range(pending')
    <3>1. TargetsOf(wf', path'[h]) = t
      BY <1>1, <1>7, <1>8
    <3>2. Owed(h)' \subseteq Range(SelectedBranches(t))
      <4> HIDE DEF t
      <4>1. QED
        BY <1>1, <3>1 DEF Owed, SelectedBranches
    <3>3. QED
      BY <1>5, <3>2
  <2>3. \A i \in DOMAIN path' : Open(i)' => i = h
    BY <1>3, <1>7, <1>8
  <2>4. path'[h] = current' /\ h \in DOMAIN path'
    BY <1>1, <1>7, <1>8
  <2>5. QED
    BY <2>1, <2>2, <2>3, <2>4 DEF Forking
<1>9. InBranches'
  <2>1. \E h \in DOMAIN path' : Forking(h)'
    BY <1>8
  <2>2. QED
    BY <1>1, <1>5, <1>6, <2>1 DEF InBranches
<1>10. QED
  BY <1>1, <1>3, <1>9 DEF WalkKnown, OnTheWay

LEMMA AdvanceKeepsWalk ==
  ASSUME IInv, WalkKnown, Advance
  PROVE  WalkKnown'
<1> DEFINE n == Len(path)
           edges == EdgesFrom(wf, current)
<1>1. /\ pc = "main" /\ current \in NodeIDs(wf) /\ NodeOf(wf, current).kind # "parallel"
      /\ wf' = wf /\ branchAt = NoBranch
  BY DEF Advance, inputs, WalkKnown
<1>2. Visits(current)
  BY ZenonT(40) DEF Advance, Visits, Finish, inputs
<1>3. PathFollowsGraph' /\ BranchesWalkedBeforeJoin' /\ \A i \in DOMAIN path : ~Open(i)'
  BY <1>1, <1>2, MainVisitKeepsWalk
<1>4. \/ pc' = "done"
      \/ /\ edges # <<>> /\ UNCHANGED <<pc, branchAt>>
         /\ \E c : current' = ChosenEdge(NodeOf(wf, current), edges, c, nodeVisits[current] + 1).to
  <2>1. \A c, v : ChosenEdge(NodeOf(wf, current), <<>>, c, v).to = NoNode
    BY DEF ChosenEdge, NoEdge, Edge
  <2>2. \/ pc' = "done"
        \/ /\ UNCHANGED <<pc, branchAt>>
           /\ \E c : /\ ChosenEdge(NodeOf(wf, current), edges, c, nodeVisits[current] + 1).to # NoNode
                     /\ current' = ChosenEdge(NodeOf(wf, current), edges, c, nodeVisits[current] + 1).to
    BY DEF Advance, Finish
  <2>3. QED
    BY ONLY <2>1, <2>2
<1>5. CASE pc' = "done"
  BY <1>3, <1>5 DEF WalkKnown, OnTheWay, InBranches
<1>6. ASSUME edges # <<>>, UNCHANGED <<pc, branchAt>>, NEW c,
             current' = ChosenEdge(NodeOf(wf, current), edges, c, nodeVisits[current] + 1).to
      PROVE  WalkKnown'
  <2> DEFINE e == ChosenEdge(NodeOf(wf, current), edges, c, nodeVisits[current] + 1)
  <2>1. wf \in Workflows
    BY DEF IInv, TypeOK
  <2>2. e \in Range(edges)
    <3>1. edges \in Seq(Range(edges))
      BY <1>1, <2>1, NodeEdges
    <3> HIDE DEF edges
    <3>2. QED
      BY <1>6, <3>1, ChosenIsEdge
  <2>3. /\ n \in Nat /\ Len(path') = n + 1 /\ DOMAIN path = 1..n /\ DOMAIN path' = 1..(n + 1)
        /\ path'[n + 1] = current
        /\ \A i \in 1..(n + 1) : i \in 1..n \/ i = n + 1
    BY <1>1, <1>2, EarlierPositions
  <2>4. Continues(Len(path), current)'
    <3>1. \A x : x = e.to => \A k : k = Len(path) + 1 => Continues(k, x)'
      <4> HIDE DEF e
      <4>1. QED
        BY <1>1, <1>2, <2>2, AlongAnEdge
    <3>2. QED
      BY <1>6, <2>3, <3>1 DEF Continues, ForkedBefore
  <2>5. \A i \in DOMAIN path' : ~Open(i)'
    <3>1. ASSUME NEW i, i = n + 1 PROVE ~Open(i)'
      <4>1. TargetsOf(wf', path'[i]) = <<>>
        BY <1>1, <2>3, <3>1 DEF TargetsOf
      <4>2. QED
        BY <4>1 DEF Open
    <3>2. QED
      BY <1>3, <2>3, <3>1
  <2>6. QED
    BY <1>1, <1>3, <1>6, <2>4, <2>5 DEF WalkKnown, OnTheWay, InBranches
<1>7. QED
  BY <1>4, <1>5, <1>6

LEMMA BranchStepKeepsWalk ==
  ASSUME IInv, WalkKnown, BranchStep
  PROVE  WalkKnown'
<1> DEFINE n == Len(path)
           t == TargetsOf(wf, current)
           edges == EdgesFrom(wf, branchAt)
<1>1. /\ pc = "branch" /\ branchAt \in NodeIDs(wf) /\ branchAt # join
      /\ UNCHANGED <<wf, opts, pc, current, join, pending>>
  BY DEF BranchStep, inputs
<1>2. Visits(branchAt)
  BY DEF BranchStep, Visits, inputs
<1>3. wf \in Workflows
  BY DEF IInv, TypeOK
<1>4. branchAt # NoBranch
  <2>1. NodeOf(wf, branchAt).id = branchAt /\ NodeOf(wf, branchAt) \in NodeRecords
    BY <1>1, <1>3, NodeOfIsNode
  <2>2. QED
    BY <2>1, NoBranchAssumption DEF NodeRecords
<1>5. t # <<>> /\ Continues(Len(path), branchAt)
  BY <1>1, <1>4 DEF WalkKnown, InBranches
<1>6. PICK h \in DOMAIN path : Forking(h)
  BY <1>1 DEF WalkKnown, InBranches
<1>7. /\ JoinAfter(h) = join /\ path[h] = current
      /\ \A i \in DOMAIN path : Open(i) => JoinAfter(i) = join
  BY <1>1, <1>6, ForkFacts DEF Forking
<1>8. PathFollowsGraph'
  BY <1>1, <1>2, <1>5, VisitKeepsRoute DEF WalkKnown
<1>9. BranchesWalkedBeforeJoin' /\ \A i \in DOMAIN path : Open(i)' => Open(i)
  BY <1>1, <1>2, <1>7, VisitKeepsBranches DEF WalkKnown
<1>10. /\ n \in Nat /\ Len(path') = n + 1 /\ DOMAIN path = 1..n /\ DOMAIN path' = 1..(n + 1)
       /\ path'[n + 1] = branchAt
       /\ \A i \in 1..(n + 1) : i \in 1..n \/ i = n + 1
       /\ \A i \in 1..n : /\ path'[i] = path[i]
                          /\ JoinAfter(i)' = JoinAfter(i) /\ Owed(i)' = Owed(i)
                          /\ Since(i)' = Since(i) \cup {branchAt}
  BY <1>1, <1>2, EarlierPositions
<1>11. h \in 1..n
  BY <1>10
<1>12. ASSUME NEW i, i = n + 1 PROVE ~Open(i)'
  <2>1. InsideBranch(i)'
    <3>1. h \in 1..(i - 1)
      BY <1>10, <1>11, <1>12
    <3>2. TargetsOf(wf', path'[h]) # <<>>
      BY <1>1, <1>5, <1>7, <1>10, <1>11
    <3>3. WalkedBetween(h, i + 1)' = Since(h)'
      <4>1. i = Len(path')
        BY <1>10, <1>12
      <4>2. QED
        BY <4>1 DEF Since, WalkedBetween
    <3>4. JoinAfter(h)' \notin WalkedBetween(h, i + 1)'
      BY <1>1, <1>6, <1>7, <1>10, <1>11, <3>3 DEF Forking
    <3>5. QED
      BY <3>1, <3>2, <3>4 DEF InsideBranch
  <2>2. QED
    BY <2>1 DEF Open
<1>13. Forking(h)'
  <2>1. path'[h] = current' /\ join' \notin Since(h)'
    BY <1>1, <1>6, <1>7, <1>10, <1>11 DEF Forking
  <2>2. Owed(h)' \subseteq Since(h)' \cup Range(pending') \cup {branchAt'}
    BY <1>1, <1>6, <1>10, <1>11 DEF Forking
  <2>3. \A i \in DOMAIN path' : Open(i)' => i = h
    BY <1>6, <1>9, <1>10, <1>12 DEF Forking
  <2>4. QED
    BY <2>1, <2>2, <2>3 DEF Forking
<1>14. branchAt' # NoBranch => Continues(Len(path), branchAt)'
  <2>1. PICK c : branchAt' = EndOr(ChosenEdge(NodeOf(wf, branchAt), edges, c, nodeVisits[branchAt] + 1).to)
    BY DEF BranchStep
  <2> DEFINE e == ChosenEdge(NodeOf(wf, branchAt), edges, c, nodeVisits[branchAt] + 1)
  <2>2. CASE edges = <<>>
    BY <2>1, <2>2 DEF EndOr, ChosenEdge, NoEdge, Edge
  <2>3. CASE edges # <<>>
    <3>1. e \in Range(edges)
      <4>1. edges \in Seq(Range(edges))
        BY <1>1, <1>3, NodeEdges
      <4> HIDE DEF edges
      <4>2. QED
        BY <2>3, <4>1, ChosenIsEdge
    <3>2. \A x : x = e.to => \A k : k = Len(path) + 1 => Continues(k, x)'
      <4> HIDE DEF e
      <4>1. QED
        BY <1>1, <1>2, <3>1, AlongAnEdge
    <3>3. QED
      BY <1>10, <2>1, <3>2 DEF EndOr, Continues, ForkedBefore
  <2>4. QED
    BY <2>2, <2>3
<1>15. InBranches'
  <2>1. h \in DOMAIN path'
    BY <1>10, <1>11
  <2>2. QED
    BY <1>1, <1>5, <1>13, <1>14, <2>1 DEF InBranches, WalkKnown
<1>16. QED
  BY <1>1, <1>8, <1>9, <1>15 DEF WalkKnown, OnTheWay

LEMMA NextKeepsWalk == IInv /\ WalkKnown /\ [Next]_vars => WalkKnown'
<1> SUFFICES ASSUME IInv, WalkKnown, [Next]_vars PROVE WalkKnown'
  OBVIOUS
<1>1. CASE Start
  BY <1>1, StartOrEndKeepsWalk DEF Start, Fail, inputs
<1>2. CASE UnknownNode \/ PromptError \/ StepLimit
  BY <1>2, StartOrEndKeepsWalk DEF UnknownNode, PromptError, StepLimit, Fail, inputs
<1>3. CASE ReachExit
  BY <1>3, ReachExitKeepsWalk
<1>4. CASE Fork
  BY <1>4, ForkKeepsWalk
<1>5. CASE Advance
  BY <1>5, AdvanceKeepsWalk
<1>6. CASE NextBranch
  BY <1>6, NextBranchKeepsWalk
<1>7. CASE BranchStep
  BY <1>7, BranchStepKeepsWalk
<1>8. CASE BranchArrives
  BY <1>8, BranchArrivesKeepsWalk
<1>9. CASE Rejoin
  BY <1>9, RejoinKeepsWalk
<1>10. CASE UNCHANGED vars
  <2>1. UNCHANGED <<wf, opts, path, pc, current, branchAt, pending, join>>
    BY <1>10 DEF vars
  <2>2. PathFollowsGraph' /\ BranchesWalkedBeforeJoin'
    BY <2>1, SamePath DEF WalkKnown
  <2>3. OnTheWay'
    BY <2>1, SamePath DEF WalkKnown, OnTheWay, Continues, ForkedBefore
  <2>4. ASSUME NEW h, Forking(h) PROVE Forking(h)'
    BY <2>1, <2>4, SamePath DEF Forking
  <2>5. InBranches'
    <3>1. Continues(Len(path), branchAt) => Continues(Len(path), branchAt)'
      BY <2>1 DEF Continues, ForkedBefore
    <3>2. QED
      BY <2>1, <2>4, <3>1 DEF WalkKnown, InBranches
  <2>6. QED
    BY <2>1, <2>2, <2>3, <2>5 DEF WalkKnown
<1>11. QED
  BY <1>1, <1>2, <1>3, <1>4, <1>5, <1>6, <1>7, <1>8, <1>9, <1>10 DEF Next

(* At every state of every run the node to visit next is one the graph     *)
(* leads to, and each selected branch of the last fan-out is behind the    *)
(* walk, under way or still owed.                                          *)
THEOREM WalkHolds == Spec => []WalkKnown
<1>1. QED
  BY InitWalkKnown, NextKeepsWalk, Inductive, PTL DEF Spec

(* Every node of the path is one the graph lets the walk go on to.         *)
THEOREM WalkFollowsGraph == Spec => []PathFollowsGraph
<1>1. WalkKnown => PathFollowsGraph
  BY DEF WalkKnown
<1>2. QED
  BY <1>1, WalkHolds, PTL

(* Between a fan-out met by the main loop and the next visit of its join,  *)
(* each of the selected branches is entered.                               *)
THEOREM BranchesComeFirst == Spec => []BranchesWalkedBeforeJoin
<1>1. WalkKnown => BranchesWalkedBeforeJoin
  BY DEF WalkKnown
<1>2. QED
  BY <1>1, WalkHolds, PTL

=============================================================================
