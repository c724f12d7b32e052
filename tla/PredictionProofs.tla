-------------------------- MODULE PredictionProofs --------------------------
(***************************************************************************)
(* What is said of a run without making it, and what is said of one after  *)
(* the fact: the enumerator (simulate/path_enumerator.go), coverage        *)
(* (coverage/coverage.go), the structural checks and lints of validator/,  *)
(* and the test runner (testrunner/).                                      *)
(*                                                                         *)
(* The enumerator's results are the walks that come to an end, all of them *)
(* unless the result limit cut the search short, and a run without fan-outs*)
(* is one of them.  The invariant EnumerationKnown says where the search   *)
(* stands: the calls under way are a walk, every complete walk is recorded *)
(* or lies ahead of it, and what lies ahead is not recorded yet.           *)
(*                                                                         *)
(* The invariant Foreseen says that the log's edges are edges of the graph,*)
(* that the run and all it still has to walk lie where the searches of     *)
(* coverage and lint have been, and where a run stops that finds no way on;*)
(* Walked says that without fan-outs the path is the edges of the log.  The*)
(* modules are instantiated, so some lemmas say what their operators are   *)
(* here.                                                                   *)
(***************************************************************************)
EXTENDS SimulateCommandProofs


-----------------------------------------------------------------------------
(* The enumerator's copies of operators                                    *)

LEMMA EnumeratorOperators ==
  /\ E!NoNode = NoNode
  /\ \A s : E!Range(s) = Range(s) /\ E!Last(s) = Last(s) /\ E!Front(s) = Front(s)
  /\ \A S : E!Cardinality(S) = Cardinality(S)
  /\ \A w : E!NodeIDs(w) = NodeIDs(w) /\ E!ConditionsParse(w) = ConditionsParse(w)
  /\ \A w, id : E!TargetsOf(w, id) = TargetsOf(w, id)
<1>1. E!NoNode = NoNode
  BY DEF E!NoNode, NoNode
<1>2. \A s : E!Range(s) = Range(s) /\ E!Last(s) = Last(s) /\ E!Front(s) = Front(s)
  BY DEF E!Range, Range, E!Last, Last, E!Front, Front
<1>3. \A S : E!Cardinality(S) = Cardinality(S)
  BY DEF E!Cardinality, Cardinality
<1>4. \A w : E!NodeIDs(w) = NodeIDs(w)
  BY DEF E!NodeIDs, NodeIDs
<1>5. \A w : E!ConditionsParse(w) = ConditionsParse(w)
  BY <1>2 DEF E!ConditionsParse, ConditionsParse
<1>6. \A w, id : E!TargetsOf(w, id) = TargetsOf(w, id)
  BY DEF E!TargetsOf, TargetsOf, E!NodeIDs, NodeIDs, E!NodeOf, NodeOf, E!SelectInSeq, SelectInSeq, E!Min, Min
<1>7. QED
  BY <1>1, <1>2, <1>3, <1>4, <1>5, <1>6

LEMMA EnumeratorKeeps ==
  ASSUME NEW S, NEW s \in Seq(S), NEW I \in SUBSET (DOMAIN s)
  PROVE  E!Keep(s, I) = Keep(s, I)
<1>1. IsFiniteSet(I) /\ I \in SUBSET Nat
  <2>1. IsFiniteSet(I)
    BY KeepElements
  <2>2. DOMAIN s \subseteq Nat
    OBVIOUS
  <2>3. QED
    BY <2>1, <2>2
<1>2. \A J : E!Cardinality(J) = Cardinality(J)
  BY EnumeratorOperators
<1> DEFINE Kth(k) == CHOOSE i \in I : Cardinality({j \in I : j < i}) = k - 1
           EKth(k) == CHOOSE i \in I : E!Cardinality({j \in I : j < i}) = k - 1
<1>3. Keep(s, I) = [k \in 1..Cardinality(I) |-> s[Kth(k)]]
  BY DEF Keep
<1>4. E!Keep(s, I) = [k \in 1..E!Cardinality(I) |-> s[EKth(k)]]
  BY DEF E!Keep
<1>5. ASSUME NEW k \in 1..Cardinality(I)
      PROVE  EKth(k) = Kth(k)
  <2>1. \E i \in I : Cardinality(Before(I, i)) = k - 1
    BY <1>1, KthPosition
  <2>2. Kth(k) \in I /\ Cardinality(Before(I, Kth(k))) = k - 1
    BY <2>1 DEF Before
  <2>3. EKth(k) \in I /\ Cardinality(Before(I, EKth(k))) = k - 1
    <3>1. \E i \in I : E!Cardinality({j \in I : j < i}) = k - 1
      BY <1>2, <2>1 DEF Before
    <3>2. EKth(k) \in I /\ E!Cardinality({j \in I : j < EKth(k)}) = k - 1
      BY <3>1
    <3>3. QED
      BY <1>2, <3>2 DEF Before
  <2> HIDE DEF Kth, EKth
  <2>4. QED
    BY <1>1, <2>2, <2>3, KthPosition
<1> HIDE DEF Kth, EKth
<1>6. E!Cardinality(I) = Cardinality(I)
  BY <1>2
<1>7. QED
  BY ONLY <1>3, <1>4, <1>5, <1>6

(* The enumerator sees the edges that the runs see.                        *)
LEMMA EnumeratorEdges ==
  ASSUME wf \in Workflows, NEW id \in NodeIDs(wf)
  PROVE  E!EdgesFrom(wf, id) = EdgesFrom(wf, id)
<1> DEFINE own == {i \in DOMAIN wf.edges : wf.edges[i].from = id}
           explicit == Keep(wf.edges, own)
           plain == {e.to : e \in {x \in Range(explicit) : x.cond = NoCond}}
           waiting == {i \in DOMAIN wf.nodes : wf.nodes[i].kind = "fan_in" /\ id \in Range(wf.nodes[i].sources)}
           chosen == Keep(wf.nodes, waiting)
           joins == [i \in DOMAIN chosen |-> chosen[i].id]
           ends == TargetsOf(wf, id) \o joins
           first == {i \in DOMAIN ends : ends[i] \notin plain /\ \A j \in 1..(i - 1) : ends[j] # ends[i]}
           implied == Keep(ends, first)
<1>1. EdgesFrom(wf, id) = explicit \o [i \in DOMAIN implied |-> ImplicitEdge(id, implied[i])]
  BY DEF EdgesFrom, IDsWhere
<1>2. E!Keep(wf.edges, own) = explicit
  BY GraphTyped, EnumeratorKeeps
<1>3. E!Keep(wf.nodes, waiting) = chosen /\ joins \in Seq(STRING)
  BY ChosenIDs, GraphTyped, EnumeratorKeeps
<1>4. TargetsOf(wf, id) \in Seq(STRING)
  BY TargetsTyped
<1>5. ends \in Seq(STRING)
  <2> HIDE DEF joins
  <2>1. QED
    BY <1>3, <1>4
<1>6. E!Keep(ends, first) = implied
  <2> HIDE DEF ends, plain
  <2>1. QED
    BY <1>5, EnumeratorKeeps
<1>7. /\ \A s : E!Range(s) = Range(s)
      /\ E!TargetsOf(wf, id) = TargetsOf(wf, id)
      /\ \A x : E!ImplicitEdge(id, x) = ImplicitEdge(id, x)
  BY EnumeratorOperators DEF E!ImplicitEdge, ImplicitEdge, E!Edge, Edge
<1> DEFINE Eexplicit == E!Keep(wf.edges, own)
           Eplain == {e.to : e \in {x \in E!Range(Eexplicit) : x.cond = NoCond}}
           Ewaiting == {i \in DOMAIN wf.nodes :
                           wf.nodes[i].kind = "fan_in" /\ id \in E!Range(wf.nodes[i].sources)}
           Echosen == E!Keep(wf.nodes, Ewaiting)
           Ejoins == [i \in DOMAIN Echosen |-> Echosen[i].id]
           Eends == E!TargetsOf(wf, id) \o Ejoins
           Efirst == {i \in DOMAIN Eends : Eends[i] \notin Eplain /\ \A j \in 1..(i - 1) : Eends[j] # Eends[i]}
           Eimplied == E!Keep(Eends, Efirst)
<1>8. E!EdgesFrom(wf, id) = Eexplicit \o [i \in DOMAIN Eimplied |-> E!ImplicitEdge(id, Eimplied[i])]
  BY DEF E!EdgesFrom, E!IDsWhere
<1>9. Eexplicit = explicit /\ Eplain = plain
  BY <1>2, <1>7
<1>10. Ewaiting = waiting
  BY <1>7
<1>11. Echosen = chosen
  BY <1>3, <1>10
<1>12. Eends = ends
  BY <1>7, <1>11
<1>13. Eimplied = implied
  <2> HIDE DEF Eends, ends, Eplain, plain
  <2>1. Efirst = first
    BY <1>9, <1>12
  <2>2. QED
    BY <1>6, <1>12, <2>1
<1> HIDE DEF Eexplicit, Eimplied, explicit, implied
<1>14. QED
  BY <1>1, <1>7, <1>8, <1>9, <1>13

-----------------------------------------------------------------------------
(* The edges of a node                                                     *)

(* Keep picks different elements if the chosen ones are different.         *)
LEMMA KeepApart ==
  ASSUME NEW S, NEW s \in Seq(S), NEW I \in SUBSET (DOMAIN s), \A i, j \in I : s[i] = s[j] => i = j
  PROVE  IsInjective(Keep(s, I))
<1> DEFINE Kth(k) == CHOOSE i \in I : Cardinality(Before(I, i)) = k - 1
<1>1. IsFiniteSet(I) /\ I \in SUBSET Nat /\ Cardinality(I) \in Nat
  <2>1. DOMAIN s \in SUBSET Nat
    OBVIOUS
  <2>2. QED
    BY <2>1, KeepElements
<1>2. \A k \in 1..Cardinality(I) : Kth(k) \in I /\ Cardinality(Before(I, Kth(k))) = k - 1
  BY <1>1, KthPosition
<1>3. Keep(s, I) = [k \in 1..Cardinality(I) |-> s[Kth(k)]]
  BY DEF Keep, Before
<1> HIDE DEF Kth
<1>4. ASSUME NEW k \in 1..Cardinality(I), NEW l \in 1..Cardinality(I), s[Kth(k)] = s[Kth(l)] PROVE k = l
  <2>1. Kth(k) = Kth(l)
    BY <1>2, <1>4
  <2>2. k - 1 = l - 1
    BY <1>2, <2>1
  <2>3. QED
    BY <1>1, <2>2
<1>5. QED
  BY <1>3, <1>4 DEF IsInjective

LEMMA ConcatApart ==
  ASSUME NEW S, NEW q \in Seq(S), NEW r \in Seq(S), IsInjective(q), IsInjective(r),
         Range(q) \cap Range(r) = {}
  PROVE  IsInjective(q \o r)
<1> DEFINE m == Len(q)
           n == Len(r)
           c == q \o r
<1>1. /\ m \in Nat /\ n \in Nat /\ DOMAIN q = 1..m /\ DOMAIN r = 1..n /\ DOMAIN c = 1..(m + n)
      /\ \A i \in 1..m : c[i] = q[i] /\ q[i] \in Range(q)
      /\ \A i \in (m + 1)..(m + n) : c[i] = r[i - m] /\ i - m \in 1..n /\ r[i - m] \in Range(r)
  BY DEF Range
<1> HIDE DEF m, n, c
<1>2. ASSUME NEW i \in 1..(m + n), NEW j \in 1..(m + n), c[i] = c[j] PROVE i = j
  <2>1. (i \in 1..m \/ i \in (m + 1)..(m + n)) /\ (j \in 1..m \/ j \in (m + 1)..(m + n))
    BY <1>1
  <2>2. CASE i \in 1..m /\ j \in 1..m
    BY <1>1, <1>2, <2>2 DEF IsInjective
  <2>3. CASE i \in (m + 1)..(m + n) /\ j \in (m + 1)..(m + n)
    <3>1. i - m = j - m
      BY <1>1, <1>2, <2>3 DEF IsInjective
    <3>2. QED
      BY <1>1, <2>3, <3>1
  <2>4. QED
    BY <1>1, <1>2, <2>1, <2>2, <2>3
<1>3. QED
  BY <1>1, <1>2 DEF IsInjective, c

(* A node has no edge twice if none is declared twice: an implied edge is  *)
(* unconditional, and so is no declared edge to the same node.             *)
LEMMA EdgesApart ==
  ASSUME wf \in Workflows, NEW id \in NodeIDs(wf), IsInjective(wf.edges)
  PROVE  IsInjective(EdgesFrom(wf, id))
<1> DEFINE own == {i \in DOMAIN wf.edges : wf.edges[i].from = id}
           explicit == Keep(wf.edges, own)
           plain == {x.to : x \in {y \in Range(explicit) : y.cond = NoCond}}
           waiting == {i \in DOMAIN wf.nodes : wf.nodes[i].kind = "fan_in" /\ id \in Range(wf.nodes[i].sources)}
           chosen == Keep(wf.nodes, waiting)
           joins == [i \in DOMAIN chosen |-> chosen[i].id]
           targets == TargetsOf(wf, id)
           ends == targets \o joins
           first == {i \in DOMAIN ends : ends[i] \notin plain /\ \A j \in 1..(i - 1) : ends[j] # ends[i]}
           implied == Keep(ends, first)
           implicit == [i \in DOMAIN implied |-> ImplicitEdge(id, implied[i])]
           D == Range(wf.edges)
           P == {ImplicitEdge(id, x) : x \in STRING}
<1>1. EdgesFrom(wf, id) = explicit \o implicit
  BY DEF EdgesFrom, IDsWhere
<1>2. explicit \in Seq(D) /\ IsInjective(explicit)
  <2>1. wf.edges \in Seq(D) /\ \A i, j \in own : wf.edges[i] = wf.edges[j] => i = j
    BY GraphTyped DEF IsInjective
  <2> HIDE DEF D, own
  <2>2. own \in SUBSET (DOMAIN wf.edges)
    BY DEF own
  <2>3. QED
    BY <2>1, <2>2, KeepElements, KeepApart
<1>3. joins \in Seq(STRING)
  BY ChosenIDs
<1>4. targets \in Seq(STRING)
  BY TargetsTyped
<1>5. implied \in Seq(STRING) /\ IsInjective(implied) /\ \A i \in DOMAIN implied : implied[i] \notin plain
  <2> HIDE DEF joins, targets, plain
  <2>1. ends \in Seq(STRING)
    BY <1>3, <1>4
  <2> HIDE DEF ends
  <2>2. first \in SUBSET (DOMAIN ends)
    OBVIOUS
  <2>3. ASSUME NEW i \in first, NEW j \in first, ends[i] = ends[j] PROVE i = j
    <3>1. i \in Nat /\ j \in Nat /\ i >= 1 /\ j >= 1
      BY <2>1
    <3>2. ~(i < j) /\ ~(j < i)
      <4>1. i < j => i \in 1..(j - 1)
        BY <3>1
      <4>2. j < i => j \in 1..(i - 1)
        BY <3>1
      <4>3. QED
        BY <2>3, <4>1, <4>2
    <3>3. QED
      BY <3>1, <3>2
  <2>4. \A i \in first : ends[i] \notin plain
    OBVIOUS
  <2> HIDE DEF first
  <2>5. implied \in Seq(STRING) /\ Range(implied) = {ends[i] : i \in first} /\ IsInjective(implied)
    BY <2>1, <2>2, <2>3, KeepElements, KeepApart
  <2> HIDE DEF implied
  <2>6. QED
    BY <2>4, <2>5 DEF Range
<1>6. \A e \in Range(explicit) : e.cond = NoCond => e.to \in plain
  OBVIOUS
<1> HIDE DEF implied, explicit, plain
<1>7. /\ implicit \in Seq(P) /\ IsInjective(implicit)
      /\ \A x \in Range(implicit) : x.cond = NoCond /\ x.to \notin plain
  <2>1. \A i \in DOMAIN implied : /\ implied[i] \in STRING /\ implicit[i] \in P
                                  /\ implicit[i].cond = NoCond /\ implicit[i].to = implied[i]
    <3>1. \A i \in DOMAIN implied : implied[i] \in STRING
      BY <1>5
    <3>2. \A i \in DOMAIN implied : implicit[i] = ImplicitEdge(id, implied[i])
      OBVIOUS
    <3> HIDE DEF implicit
    <3>3. \A x : ImplicitEdge(id, x).cond = NoCond /\ ImplicitEdge(id, x).to = x
      BY DEF ImplicitEdge, Edge
    <3>4. QED
      BY <3>1, <3>2, <3>3, ZenonT(40)
  <2>2. DOMAIN implicit = DOMAIN implied /\ implicit = [i \in DOMAIN implied |-> implicit[i]]
    OBVIOUS
  <2> HIDE DEF implicit, P
  <2>3. implicit \in Seq(P)
    BY <1>5, <2>1, <2>2, MappedSeq
  <2>4. IsInjective(implicit)
    BY <1>5, <2>1, <2>2 DEF IsInjective
  <2>5. QED
    BY <1>5, <2>1, <2>2, <2>3, <2>4 DEF Range
<1> HIDE DEF implicit, P, D
<1>8. Range(explicit) \cap Range(implicit) = {}
  BY <1>6, <1>7
<1>9. explicit \in Seq(D \cup P) /\ implicit \in Seq(D \cup P)
  BY <1>2, <1>7
<1>10. QED
  BY <1>1, <1>2, <1>7, <1>8, <1>9, ConcatApart

-----------------------------------------------------------------------------
(* Walks, as they are and not as they are made                             *)

Out(id) == EdgesFrom(wf, id)
AllEdges == UNION {Range(Out(id)) : id \in NodeIDs(wf)}
AtEnd(id) == id = wf.exit \/ Out(id) = <<>>
StatusOf(id) == IF id = wf.exit THEN "success" ELSE "dead_end"
VisitsUpTo(nodes, i, id) == Cardinality({j \in 1..i : nodes[j] = id})

Paths == [nodes : Seq(NodeIDs(wf)), edges : Seq(AllEdges), status : {"success", "dead_end"}]

\* The walk goes from its i-th node along its i-th edge.
GoesOnAt(p, i) ==
    /\ p.edges[i] \in Range(Out(p.nodes[i]))
    /\ p.nodes[i + 1] = p.edges[i].to
    /\ ~AtEnd(p.nodes[i])
    /\ VisitsUpTo(p.nodes, i, p.nodes[i + 1]) < 2

IsWalk(p) ==
    /\ p \in Paths
    /\ Len(p.nodes) = Len(p.edges) + 1 /\ Len(p.edges) <= MaxDepth
    /\ p.nodes[1] = wf.start
    /\ \A i \in 1..Len(p.edges) : GoesOnAt(p, i)
    /\ p.status = StatusOf(p.nodes[Len(p.nodes)])

LEMMA OutTyped ==
  ASSUME wf \in Workflows, NEW id \in NodeIDs(wf)
  PROVE  /\ Out(id) \in Seq(AllEdges) /\ Len(Out(id)) \in Nat /\ DOMAIN Out(id) = 1..Len(Out(id))
         /\ \A k \in DOMAIN Out(id) : Out(id)[k] \in Range(Out(id))
         /\ \A e \in Range(Out(id)) : e \in AllEdges /\ \E k \in DOMAIN Out(id) : e = Out(id)[k]
         /\ E!EdgesFrom(wf, id) = Out(id) /\ E!IsEnd(id) = AtEnd(id) /\ E!StatusAt(id) = StatusOf(id)
<1>1. Out(id) \in Seq(Range(Out(id)))
  BY NodeEdges DEF Out
<1>2. Range(Out(id)) \subseteq AllEdges
  BY DEF AllEdges
<1>3. Out(id) \in Seq(AllEdges)
  <2> HIDE DEF Out, AllEdges
  <2>1. QED
    BY <1>1, <1>2
<1>4. E!EdgesFrom(wf, id) = Out(id)
  BY EnumeratorEdges DEF Out
<1>5. E!IsEnd(id) = AtEnd(id) /\ E!StatusAt(id) = StatusOf(id)
  BY <1>4 DEF E!IsEnd, AtEnd, E!StatusAt, StatusOf
<1> HIDE DEF Out, AllEdges
<1>6. QED
  BY <1>1, <1>2, <1>3, <1>4, <1>5 DEF Range

LEMMA VisitsSame ==
  ASSUME NEW i, NEW nodes, NEW others, \A j \in 1..i : nodes[j] = others[j]
  PROVE  \A id : VisitsUpTo(nodes, i, id) = VisitsUpTo(others, i, id)
<1> SUFFICES ASSUME NEW id PROVE VisitsUpTo(nodes, i, id) = VisitsUpTo(others, i, id)
  OBVIOUS
<1>1. {j \in 1..i : nodes[j] = id} = {j \in 1..i : others[j] = id}
  OBVIOUS
<1>2. QED
  BY <1>1 DEF VisitsUpTo

\* The parts of a walk, for the arithmetic of its positions.
LEMMA WalkTyped ==
  ASSUME NEW p, IsWalk(p)
  PROVE  /\ p = [nodes |-> p.nodes, edges |-> p.edges, status |-> p.status]
         /\ p.nodes \in Seq(NodeIDs(wf)) /\ p.edges \in Seq(AllEdges)
         /\ Len(p.edges) \in Nat /\ Len(p.nodes) = Len(p.edges) + 1
         /\ DOMAIN p.nodes = 1..(Len(p.edges) + 1) /\ DOMAIN p.edges = 1..Len(p.edges)
         /\ \A i \in 1..(Len(p.edges) + 1) : p.nodes[i] \in NodeIDs(wf)
         /\ \A i \in 1..Len(p.edges) : p.edges[i] \in AllEdges
<1>1. p \in Paths /\ Len(p.nodes) = Len(p.edges) + 1
  BY DEF IsWalk
<1>2. p.nodes \in Seq(NodeIDs(wf)) /\ p.edges \in Seq(AllEdges)
      /\ p = [nodes |-> p.nodes, edges |-> p.edges, status |-> p.status]
  BY <1>1 DEF Paths
<1>3. QED
  BY <1>1, <1>2

\* p, and then along e.
Longer(p, e) == [nodes |-> Append(p.nodes, e.to), edges |-> Append(p.edges, e), status |-> StatusOf(e.to)]

LEMMA WalkExtends ==
  ASSUME NEW p, IsWalk(p), Len(p.edges) < MaxDepth, ~AtEnd(p.nodes[Len(p.nodes)]),
         NEW e \in Range(Out(p.nodes[Len(p.nodes)])), e.to \in NodeIDs(wf),
         VisitsUpTo(p.nodes, Len(p.nodes), e.to) < 2
  PROVE  IsWalk(Longer(p, e))
<1> DEFINE n == Len(p.edges)
           q == Longer(p, e)
<1>1. /\ n \in Nat /\ n + 1 <= MaxDepth /\ Len(p.nodes) = n + 1
      /\ p.nodes \in Seq(NodeIDs(wf)) /\ p.edges \in Seq(AllEdges)
      /\ p.nodes[n + 1] \in NodeIDs(wf)
  BY WalkTyped, LimitsAssumption
<1>2. e \in AllEdges
  BY <1>1 DEF AllEdges
<1>3. /\ q.nodes \in Seq(NodeIDs(wf)) /\ Len(q.nodes) = n + 2
      /\ \A i \in 1..(n + 1) : q.nodes[i] = p.nodes[i]
      /\ q.nodes[n + 2] = e.to
  BY <1>1 DEF Longer
<1>4. /\ q.edges \in Seq(AllEdges) /\ Len(q.edges) = n + 1
      /\ \A i \in 1..n : q.edges[i] = p.edges[i]
      /\ q.edges[n + 1] = e
  BY <1>1, <1>2 DEF Longer
<1>5. q.status = StatusOf(e.to) /\ q \in Paths
  <2>1. q.status = StatusOf(e.to) /\ q.status \in {"success", "dead_end"}
    BY DEF Longer, StatusOf
  <2>2. q = [nodes |-> q.nodes, edges |-> q.edges, status |-> q.status]
    BY DEF Longer
  <2> HIDE DEF q, n
  <2>3. QED
    BY <1>3, <1>4, <2>1, <2>2 DEF Paths
<1> HIDE DEF q, n
<1>6. ASSUME NEW i \in 1..(n + 1) PROVE GoesOnAt(q, i)
  <2>1. \A id : VisitsUpTo(q.nodes, i, id) = VisitsUpTo(p.nodes, i, id)
    <3>1. \A j \in 1..i : q.nodes[j] = p.nodes[j]
      BY <1>1, <1>3
    <3>2. QED
      BY <3>1, VisitsSame
  <2>2. CASE i = n + 1
    <3>1. q.nodes[i] = p.nodes[n + 1] /\ q.nodes[i + 1] = e.to /\ q.edges[i] = e
      BY <1>1, <1>3, <1>4, <2>2
    <3>2. QED
      BY <1>1, <2>1, <2>2, <3>1 DEF GoesOnAt
  <2>3. CASE i # n + 1
    <3>1. i \in 1..n
      BY <1>1, <2>3
    <3>2. q.nodes[i] = p.nodes[i] /\ q.nodes[i + 1] = p.nodes[i + 1] /\ q.edges[i] = p.edges[i]
      BY <1>1, <1>3, <1>4, <3>1
    <3>3. GoesOnAt(p, i)
      BY <3>1 DEF IsWalk, n
    <3>4. QED
      BY <2>1, <3>2, <3>3 DEF GoesOnAt
  <2>4. QED
    BY <2>2, <2>3
<1>7. q.nodes[1] = wf.start
  BY <1>1, <1>3 DEF IsWalk
<1>8. QED
  BY <1>1, <1>3, <1>4, <1>5, <1>6, <1>7 DEF IsWalk, q

\* The first m edges of p.
Shorter(p, m) == [nodes  |-> [i \in 1..(m + 1) |-> p.nodes[i]], edges |-> [i \in 1..m |-> p.edges[i]],
                  status |-> StatusOf(p.nodes[m + 1])]

LEMMA WalkShrinks ==
  ASSUME NEW p, IsWalk(p), NEW m \in Nat, m < Len(p.edges)
  PROVE  LET q == Shorter(p, m)
             e == p.edges[m + 1]
         IN  /\ IsWalk(q) /\ Len(q.edges) = m /\ Len(q.nodes) = m + 1 /\ q.nodes[m + 1] = p.nodes[m + 1]
             /\ ~AtEnd(q.nodes[m + 1]) /\ e \in Range(Out(q.nodes[m + 1])) /\ e.to \in NodeIDs(wf)
             /\ VisitsUpTo(q.nodes, m + 1, e.to) < 2
             /\ m + 1 = Len(p.edges) => p = Longer(q, e)
<1> DEFINE n == Len(p.edges)
           q == Shorter(p, m)
           e == p.edges[m + 1]
<1>1. /\ n \in Nat /\ n <= MaxDepth /\ m < n
      /\ \A i \in 1..(n + 1) : p.nodes[i] \in NodeIDs(wf)
      /\ \A i \in 1..n : p.edges[i] \in AllEdges
      /\ \A i \in 1..n : GoesOnAt(p, i)
      /\ MaxDepth \in Nat
  BY WalkTyped, LimitsAssumption DEF IsWalk
<1> HIDE DEF n
<1>2. /\ q.nodes \in Seq(NodeIDs(wf)) /\ Len(q.nodes) = m + 1
      /\ \A i \in 1..(m + 1) : q.nodes[i] = p.nodes[i]
  <2>1. \A i \in 1..(m + 1) : p.nodes[i] \in NodeIDs(wf)
    BY <1>1
  <2>2. q.nodes = [i \in 1..(m + 1) |-> p.nodes[i]]
    BY DEF Shorter
  <2> HIDE DEF q
  <2>3. QED
    BY <2>1, <2>2
<1>3. /\ q.edges \in Seq(AllEdges) /\ Len(q.edges) = m
      /\ \A i \in 1..m : q.edges[i] = p.edges[i]
  <2>1. \A i \in 1..m : p.edges[i] \in AllEdges
    BY <1>1
  <2>2. q.edges = [i \in 1..m |-> p.edges[i]]
    BY DEF Shorter
  <2> HIDE DEF q
  <2>3. QED
    BY <2>1, <2>2
<1>4. q.status = StatusOf(p.nodes[m + 1]) /\ q \in Paths
  <2>1. q.status = StatusOf(p.nodes[m + 1]) /\ q.status \in {"success", "dead_end"}
    BY DEF Shorter, StatusOf
  <2>2. q = [nodes |-> q.nodes, edges |-> q.edges, status |-> q.status]
    BY DEF Shorter
  <2> HIDE DEF q
  <2>3. QED
    BY <1>2, <1>3, <2>1, <2>2 DEF Paths
<1> HIDE DEF q
<1>5. ASSUME NEW i \in 1..m PROVE GoesOnAt(q, i)
  <2>1. \A id : VisitsUpTo(q.nodes, i, id) = VisitsUpTo(p.nodes, i, id)
    <3>1. \A j \in 1..i : q.nodes[j] = p.nodes[j]
      BY <1>1, <1>2
    <3>2. QED
      BY <3>1, VisitsSame
  <2>2. q.nodes[i] = p.nodes[i] /\ q.nodes[i + 1] = p.nodes[i + 1] /\ q.edges[i] = p.edges[i]
    BY <1>1, <1>2, <1>3
  <2>3. GoesOnAt(p, i)
    BY <1>1
  <2>4. QED
    BY <2>1, <2>2, <2>3 DEF GoesOnAt
<1>6. q.nodes[1] = wf.start /\ q.nodes[m + 1] = p.nodes[m + 1]
  BY <1>1, <1>2 DEF IsWalk
<1>7. IsWalk(q)
  BY <1>1, <1>2, <1>3, <1>4, <1>5, <1>6 DEF IsWalk
<1>8. /\ ~AtEnd(q.nodes[m + 1]) /\ e \in Range(Out(q.nodes[m + 1])) /\ e.to \in NodeIDs(wf)
      /\ VisitsUpTo(q.nodes, m + 1, e.to) < 2
  <2>1. GoesOnAt(p, m + 1) /\ p.nodes[(m + 1) + 1] \in NodeIDs(wf)
    BY <1>1
  <2>2. \A id : VisitsUpTo(q.nodes, m + 1, id) = VisitsUpTo(p.nodes, m + 1, id)
    BY <1>2, VisitsSame
  <2>3. QED
    BY <1>6, <2>1, <2>2 DEF GoesOnAt
<1>9. ASSUME m + 1 = n PROVE p = Longer(q, e)
  <2>1. p.nodes = Append(q.nodes, e.to)
    <3>1. p.nodes \in Seq(NodeIDs(wf)) /\ Len(p.nodes) = m + 2 /\ p.nodes[m + 2] = e.to
      <4>1. GoesOnAt(p, m + 1) /\ (m + 1) + 1 = m + 2
        BY <1>1
      <4>2. QED
        BY <1>9, <4>1, WalkTyped DEF GoesOnAt, n
    <3>2. \A i \in 1..(m + 1) : p.nodes[i] = q.nodes[i]
      BY <1>2
    <3>3. QED
      BY ONLY <1>2, <1>8, <3>1, <3>2, m \in Nat
  <2>2. p.edges = Append(q.edges, e)
    <3>1. p.edges \in Seq(AllEdges) /\ Len(p.edges) = m + 1
      BY <1>9, WalkTyped DEF n
    <3>2. e \in AllEdges /\ p.edges[m + 1] = e
      BY <1>1, <1>9
    <3> HIDE DEF e
    <3>3. QED
      BY ONLY <1>3, <3>1, <3>2, m \in Nat
  <2>3. p.status = StatusOf(e.to)
    <3>1. GoesOnAt(p, m + 1) /\ Len(p.nodes) = (m + 1) + 1
      BY <1>1, <1>9, WalkTyped DEF n
    <3>2. QED
      BY <3>1 DEF GoesOnAt, IsWalk
  <2>4. QED
    BY <2>1, <2>2, <2>3, WalkTyped DEF Longer
<1>10. QED
  BY <1>2, <1>3, <1>6, <1>7, <1>8, <1>9 DEF q, n

LEMMA EnumeratorExtends ==
  ASSUME wf \in Workflows, NEW p, IsWalk(p)
  PROVE  LET last == p.nodes[Len(p.nodes)]
         IN  /\ last \in NodeIDs(wf)
             /\ E!IsEnd(E!Last(p.nodes)) = AtEnd(last)
             /\ E!Range(E!EdgesFrom(wf, E!Last(p.nodes))) = Range(Out(last))
             /\ \A e : E!MayGoOn(p, e) <=> e.to \in NodeIDs(wf) /\ VisitsUpTo(p.nodes, Len(p.nodes), e.to) < 2
             /\ \A e : e.to \in NodeIDs(wf) => E!Extended(p, e) = Longer(p, e)
<1> DEFINE last == p.nodes[Len(p.nodes)]
<1>1. last \in NodeIDs(wf) /\ DOMAIN p.nodes = 1..Len(p.nodes)
  BY WalkTyped
<1>2. E!Last(p.nodes) = last
  BY EnumeratorOperators DEF Last
<1> HIDE DEF last
<1>3. E!IsEnd(last) = AtEnd(last) /\ E!Range(E!EdgesFrom(wf, last)) = Range(Out(last))
  BY <1>1, OutTyped, EnumeratorOperators
<1>4. ASSUME NEW e
      PROVE E!MayGoOn(p, e) <=> e.to \in NodeIDs(wf) /\ VisitsUpTo(p.nodes, Len(p.nodes), e.to) < 2
  BY <1>1, EnumeratorOperators DEF E!MayGoOn, E!VisitsIn, VisitsUpTo
<1>5. ASSUME NEW e, e.to \in NodeIDs(wf) PROVE E!Extended(p, e) = Longer(p, e)
  <2>1. E!StatusAt(e.to) = StatusOf(e.to)
    BY <1>5, OutTyped
  <2>2. QED
    BY <2>1 DEF E!Extended, E!Path, Longer
<1>6. QED
  BY <1>1, <1>2, <1>3, <1>4, <1>5 DEF last

WalkOf(nodes, edges) == [nodes |-> nodes, edges |-> edges, status |-> StatusOf(nodes[Len(nodes)])]

\* The walk that has gone nowhere yet.
LEMMA StartAlone ==
  ASSUME wf.start \in NodeIDs(wf)
  PROVE  LET one == WalkOf(<<wf.start>>, <<>>)
         IN  IsWalk(one) /\ Len(one.edges) = 0 /\ \A p : IsWalk(p) /\ Len(p.edges) = 0 => p = one
<1> DEFINE one == WalkOf(<<wf.start>>, <<>>)
<1>1. one = [nodes |-> <<wf.start>>, edges |-> <<>>, status |-> StatusOf(wf.start)]
  <2>1. <<wf.start>>[Len(<<wf.start>>)] = wf.start
    OBVIOUS
  <2>2. QED
    BY <2>1 DEF WalkOf
<1> HIDE DEF one
<1>2. IsWalk(one) /\ Len(one.edges) = 0
  <2> DEFINE alone == <<wf.start>>
             nothing == <<>>
  <2>1. one.nodes = alone /\ one.edges = nothing /\ one.status = StatusOf(wf.start)
        /\ one = [nodes |-> one.nodes, edges |-> one.edges, status |-> one.status]
    BY <1>1
  <2>2. alone \in Seq(NodeIDs(wf)) /\ Len(alone) = 1 /\ alone[1] = wf.start
        /\ nothing \in Seq(AllEdges) /\ Len(nothing) = 0
    OBVIOUS
  <2>3. one.status \in {"success", "dead_end"}
    BY <2>1 DEF StatusOf
  <2> HIDE DEF alone, nothing
  <2>4. one \in Paths
    BY <2>1, <2>2, <2>3 DEF Paths
  <2>5. Len(one.nodes) = 1 /\ Len(one.edges) = 0 /\ one.nodes[1] = wf.start
    BY <2>1, <2>2
  <2>6. one.status = StatusOf(one.nodes[Len(one.nodes)]) /\ 1..Len(one.edges) = {}
    BY <2>1, <2>5
  <2>7. Len(one.nodes) = Len(one.edges) + 1 /\ Len(one.edges) <= MaxDepth
    <3>1. MaxDepth \in Nat
      BY LimitsAssumption
    <3>2. QED
      BY ONLY <2>5, <3>1
  <2>8. \A i \in 1..Len(one.edges) : GoesOnAt(one, i)
    BY <2>6
  <2>9. QED
    BY <2>4, <2>5, <2>6, <2>7, <2>8, Zenon DEF IsWalk
<1>3. ASSUME NEW p, IsWalk(p), Len(p.edges) = 0 PROVE p = one
  <2>1. p.nodes \in Seq(NodeIDs(wf)) /\ Len(p.nodes) = 1 /\ p.nodes[1] = wf.start /\ p.edges \in Seq(AllEdges)
    <3>1. p.nodes \in Seq(NodeIDs(wf)) /\ p.edges \in Seq(AllEdges) /\ Len(p.nodes) = Len(p.edges) + 1
      BY <1>3, WalkTyped
    <3>2. p.nodes[1] = wf.start
      BY <1>3 DEF IsWalk
    <3>3. QED
      BY <1>3, <3>1, <3>2
  <2>2. p.nodes = <<wf.start>> /\ p.edges = <<>>
    BY <1>3, <2>1
  <2>3. p.status = StatusOf(wf.start)
    BY <1>3, <2>1 DEF IsWalk
  <2>4. p = [nodes |-> p.nodes, edges |-> p.edges, status |-> p.status]
    BY <1>3, WalkTyped
  <2>5. QED
    BY <1>1, <2>2, <2>3, <2>4
<1>4. QED
  BY <1>2, <1>3 DEF one

(* What the recursive definition of Walks makes, length by length.         *)
LEMMA WalksAre ==
  ASSUME wf \in Workflows, wf.start \in NodeIDs(wf)
  PROVE  \A p : p \in E!Walks <=> IsWalk(p)
<1> DEFINE Of(n) == {p \in Paths : IsWalk(p) /\ Len(p.edges) = n}
           First == {E!Path(<<wf.start>>, <<>>, E!StatusAt(wf.start))}
           More(S) == UNION {{E!Extended(p, e) : e \in {x \in E!Range(E!EdgesFrom(wf, E!Last(p.nodes))) : E!MayGoOn(p, x)}} :
                                p \in {q \in S : ~E!IsEnd(E!Last(q.nodes))}}
           Makes(f) == f = [n \in 0..MaxDepth |-> IF n = 0 THEN First ELSE More(f[n - 1])]
           of == CHOOSE f : Makes(f)
           g == [n \in 0..MaxDepth |-> Of(n)]
<1>1. MaxDepth \in Nat
  BY LimitsAssumption
<1>2. Of(0) = First
  <2>1. First = {WalkOf(<<wf.start>>, <<>>)}
    BY OutTyped DEF E!Path, WalkOf
  <2>2. WalkOf(<<wf.start>>, <<>>) \in Of(0) /\ \A p \in Of(0) : p = WalkOf(<<wf.start>>, <<>>)
    BY StartAlone DEF IsWalk
  <2> HIDE DEF Of
  <2>3. QED
    BY <2>1, <2>2
<1>3. ASSUME NEW n \in 1..MaxDepth PROVE Of(n) = More(Of(n - 1))
  <2>1. n \in Nat /\ n - 1 \in Nat /\ (n - 1) + 1 = n /\ n - 1 < n /\ n <= MaxDepth
    BY <1>1
  <2>2. ASSUME NEW r \in Of(n) PROVE r \in More(Of(n - 1))
    <3> DEFINE q == Shorter(r, n - 1)
               e == r.edges[n]
    <3>1. IsWalk(r) /\ Len(r.edges) = n
      BY <2>2
    <3>2. /\ IsWalk(q) /\ Len(q.edges) = n - 1 /\ Len(q.nodes) = n
          /\ ~AtEnd(q.nodes[n]) /\ e \in Range(Out(q.nodes[n])) /\ e.to \in NodeIDs(wf)
          /\ VisitsUpTo(q.nodes, n, e.to) < 2 /\ r = Longer(q, e)
      BY <2>1, <3>1, WalkShrinks
    <3> HIDE DEF q, e
    <3>3. q \in Of(n - 1) /\ ~E!IsEnd(E!Last(q.nodes))
      BY <3>2, EnumeratorExtends DEF IsWalk
    <3>4. e \in {x \in E!Range(E!EdgesFrom(wf, E!Last(q.nodes))) : E!MayGoOn(q, x)} /\ r = E!Extended(q, e)
      BY <3>2, EnumeratorExtends
    <3> HIDE DEF Of
    <3>5. QED
      BY <3>3, <3>4
  <2>3. ASSUME NEW r \in More(Of(n - 1)) PROVE r \in Of(n)
    <3>1. PICK q \in {x \in Of(n - 1) : ~E!IsEnd(E!Last(x.nodes))} :
                 \E e \in {x \in E!Range(E!EdgesFrom(wf, E!Last(q.nodes))) : E!MayGoOn(q, x)} : r = E!Extended(q, e)
      <4> HIDE DEF Of
      <4>1. QED
        BY <2>3
    <3>2. PICK e \in {x \in E!Range(E!EdgesFrom(wf, E!Last(q.nodes))) : E!MayGoOn(q, x)} : r = E!Extended(q, e)
      BY <3>1
    <3>3. IsWalk(q) /\ Len(q.edges) = n - 1 /\ Len(q.nodes) = n /\ ~AtEnd(q.nodes[n])
      <4>1. IsWalk(q) /\ Len(q.edges) = n - 1 /\ ~E!IsEnd(E!Last(q.nodes))
        BY <3>1
      <4>2. Len(q.nodes) = n
        BY <2>1, <4>1, WalkTyped
      <4>3. QED
        BY <4>1, <4>2, EnumeratorExtends
    <3>4. e \in Range(Out(q.nodes[n])) /\ e.to \in NodeIDs(wf) /\ VisitsUpTo(q.nodes, n, e.to) < 2
          /\ r = Longer(q, e)
      BY <3>2, <3>3, EnumeratorExtends
    <3>5. IsWalk(r)
      <4>1. Len(q.edges) < MaxDepth
        BY <1>1, <2>1, <3>3
      <4>2. IsWalk(Longer(q, e))
        BY <3>3, <3>4, <4>1, WalkExtends
      <4>3. QED
        BY <3>4, <4>2
    <3>6. Len(r.edges) = n
      <4>1. q.edges \in Seq(AllEdges) /\ e \in AllEdges /\ r.edges = Append(q.edges, e)
        <5>1. q.nodes[n] \in NodeIDs(wf)
          BY <2>1, <3>3, WalkTyped
        <5>2. q.edges \in Seq(AllEdges) /\ r.edges = Append(q.edges, e)
          BY <3>3, <3>4, WalkTyped DEF Longer
        <5>3. e \in AllEdges
          BY <3>4, <5>1 DEF AllEdges
        <5>4. QED
          BY <5>2, <5>3
      <4>2. QED
        BY <2>1, <3>3, <4>1
    <3>7. QED
      BY <3>5, <3>6 DEF IsWalk
  <2> HIDE DEF Of, More
  <2>4. QED
    BY <2>2, <2>3
<1> HIDE DEF Of, First, More
<1>4. Makes(g)
  <2>1. \A n \in 0..MaxDepth : g[n] = IF n = 0 THEN First ELSE More(g[n - 1])
    <3> SUFFICES ASSUME NEW n \in 0..MaxDepth PROVE g[n] = IF n = 0 THEN First ELSE More(g[n - 1])
      OBVIOUS
    <3>1. CASE n = 0
      BY <1>2, <3>1
    <3>2. CASE n # 0
      <4>1. n \in 1..MaxDepth /\ n - 1 \in 0..MaxDepth
        BY <1>1, <3>2
      <4>2. QED
        BY <1>3, <3>2, <4>1
    <3>3. QED
      BY <3>1, <3>2
  <2>2. g = [n \in 0..MaxDepth |-> g[n]]
    OBVIOUS
  <2> HIDE DEF g
  <2>3. QED
    BY <2>1, <2>2
<1>5. Makes(of)
  <2>1. \E f : Makes(f)
    BY <1>4
  <2> HIDE DEF Makes
  <2>2. QED
    BY <2>1
<1>6. \A n \in 0..MaxDepth : of[n] = IF n = 0 THEN First ELSE More(of[n - 1])
  <2> HIDE DEF of
  <2>1. QED
    BY <1>5
<1>7. E!Walks = UNION {of[n] : n \in 0..MaxDepth}
  BY DEF E!Walks, First, More
<1> HIDE DEF of, g, Makes
<1>8. \A n \in 0..MaxDepth : of[n] = Of(n)
  <2> DEFINE Bad == {n \in 0..MaxDepth : of[n] # Of(n)}
  <2> SUFFICES ASSUME Bad # {} PROVE FALSE
    OBVIOUS
  <2>1. PICK n \in Bad : \A j \in Bad : n <= j
    <3>1. Bad \in SUBSET Nat
      BY <1>1
    <3> HIDE DEF Bad
    <3>2. Min(Bad) \in Bad /\ \A j \in Bad : Min(Bad) <= j
      BY <3>1, MinIsLeast
    <3>3. QED
      BY <3>2
  <2>2. n \in 0..MaxDepth /\ of[n] # Of(n)
    BY <2>1
  <2>3. CASE n = 0
    BY <1>2, <1>6, <2>2, <2>3
  <2>4. CASE n # 0
    <3>1. n \in 1..MaxDepth /\ n - 1 \in 0..MaxDepth /\ ~(n <= n - 1)
      BY <1>1, <2>2, <2>4
    <3>2. of[n - 1] = Of(n - 1)
      BY <2>1, <3>1
    <3>3. QED
      BY <1>3, <1>6, <2>2, <2>4, <3>1, <3>2
  <2>5. QED
    BY <2>3, <2>4
<1>9. \A p : IsWalk(p) => p \in Paths /\ Len(p.edges) \in 0..MaxDepth
  BY <1>1, WalkTyped DEF IsWalk
<1>10. QED
  BY <1>7, <1>8, <1>9 DEF Of

LEMMA WalksShare ==
  ASSUME NEW p, NEW q, IsWalk(p), IsWalk(q), NEW n \in Nat, n <= Len(p.edges), n <= Len(q.edges),
         \A i \in 1..n : p.edges[i] = q.edges[i]
  PROVE  \A i \in 1..(n + 1) : p.nodes[i] = q.nodes[i]
<1> SUFFICES ASSUME NEW i \in 1..(n + 1) PROVE p.nodes[i] = q.nodes[i]
  OBVIOUS
<1>1. CASE i = 1
  BY <1>1 DEF IsWalk
<1>2. CASE i # 1
  <2>1. i - 1 \in 1..n /\ (i - 1) + 1 = i /\ i - 1 \in 1..Len(p.edges) /\ i - 1 \in 1..Len(q.edges)
    BY <1>2, WalkTyped
  <2>2. GoesOnAt(p, i - 1) /\ GoesOnAt(q, i - 1)
    BY <2>1 DEF IsWalk
  <2>3. QED
    BY <2>1, <2>2 DEF GoesOnAt
<1>3. QED
  BY <1>1, <1>2

\* The edges make the walk.
LEMMA WalksEqual ==
  ASSUME NEW p, NEW q, IsWalk(p), IsWalk(q), p.edges = q.edges
  PROVE  p = q
<1>1. \A i \in 1..(Len(p.edges) + 1) : p.nodes[i] = q.nodes[i]
  <2>1. Len(p.edges) \in Nat
    BY WalkTyped
  <2>2. QED
    BY <2>1, WalksShare
<1>2. p.nodes = q.nodes
  <2>1. /\ p.nodes \in Seq(NodeIDs(wf)) /\ q.nodes \in Seq(NodeIDs(wf))
        /\ Len(p.nodes) = Len(p.edges) + 1 /\ Len(q.nodes) = Len(p.edges) + 1
    BY WalkTyped
  <2>2. QED
    BY <1>1, <2>1
<1>3. p.status = q.status
  BY <1>2 DEF IsWalk
<1>4. QED
  BY <1>2, <1>3, WalkTyped

-----------------------------------------------------------------------------
(* Where the search stands: with the nodes of the calls under way, the     *)
(* edges between them and the counts of the edges they have explored.      *)

Completes(p) == IsWalk(p) /\ AtEnd(p.nodes[Len(p.nodes)])

\* The calls under way are a walk that is not at an end; each but the last
\* has explored the edge it is waiting for.
OnTrail(nodes, edges, counts) ==
    /\ counts \in Seq(Nat) /\ Len(counts) = Len(nodes)
    /\ nodes = <<>> => edges = <<>>
    /\ nodes \in Seq(NodeIDs(wf))
    /\ nodes # <<>> => IsWalk(WalkOf(nodes, edges)) /\ ~AtEnd(nodes[Len(nodes)])
    /\ \A i \in 1..Len(nodes) : counts[i] <= Len(Out(nodes[i]))
    /\ \A i \in 1..(Len(nodes) - 1) : counts[i] \in DOMAIN Out(nodes[i]) /\ edges[i] = Out(nodes[i])[counts[i]]

\* The walk p leaves the trail by an edge that the d-th call has yet to explore.
AheadAt(p, d, nodes, edges, counts) ==
    /\ d <= Len(p.edges)
    /\ \A i \in 1..(d - 1) : p.edges[i] = edges[i]
    /\ \E k \in DOMAIN Out(nodes[d]) : counts[d] < k /\ p.edges[d] = Out(nodes[d])[k]

Ahead(p, nodes, edges, counts) == \E d \in 1..Len(nodes) : AheadAt(p, d, nodes, edges, counts)

\* What was found are complete walks, each once, none of them ahead; those
\* that were not found are, unless the search was cut short.
Found(list, nodes, edges, counts) ==
    /\ list \in Seq(Range(list))
    /\ \A p \in Range(list) : Completes(p)
    /\ Len(list) < MaxResults => \A p : Completes(p) => p \in Range(list) \/ Ahead(p, nodes, edges, counts)
    /\ IsInjective(wf.edges) => IsInjective(list) /\ \A p \in Range(list) : ~Ahead(p, nodes, edges, counts)

Searchable == {wf.start, wf.exit} \subseteq NodeIDs(wf) \ {NoNode} /\ ConditionsParse(wf)

EnumerationKnown ==
    /\ phase \in {"start", "search", "done", "error"}
    /\ phase = "start" => trail = <<>> /\ taken = <<>> /\ tried = <<>> /\ results = <<>>
    /\ phase # "start" /\ Searchable => OnTrail(trail, taken, tried) /\ Found(results, trail, taken, tried)
    /\ phase \in {"search", "done"} => Searchable
    /\ phase \in {"done", "error"} /\ Searchable => trail = <<>>
    /\ phase = "error" /\ Searchable => results = <<>>

LEMMA TrailTyped ==
  ASSUME wf \in Workflows, NEW nodes, NEW edges, NEW counts, OnTrail(nodes, edges, counts), nodes # <<>>
  PROVE  LET n == Len(nodes)
             w == WalkOf(nodes, edges)
         IN  /\ n \in Nat /\ n >= 1 /\ n - 1 \in Nat /\ n - 1 <= MaxDepth
             /\ nodes \in Seq(NodeIDs(wf)) /\ \A i \in 1..n : nodes[i] \in NodeIDs(wf)
             /\ edges \in Seq(AllEdges) /\ Len(edges) = n - 1
             /\ counts \in Seq(Nat) /\ Len(counts) = n /\ \A i \in 1..n : counts[i] \in Nat
             /\ w.nodes = nodes /\ w.edges = edges /\ IsWalk(w)
             /\ nodes[n] \in NodeIDs(wf) /\ ~AtEnd(nodes[n])
<1> DEFINE n == Len(nodes)
           w == WalkOf(nodes, edges)
<1>1. /\ nodes \in Seq(NodeIDs(wf)) /\ IsWalk(w) /\ ~AtEnd(nodes[n])
      /\ counts \in Seq(Nat) /\ Len(counts) = n
  BY DEF OnTrail
<1>2. w.nodes = nodes /\ w.edges = edges
  BY DEF WalkOf
<1> HIDE DEF w
<1>3. n \in Nat /\ n >= 1 /\ n - 1 \in Nat /\ \A i \in 1..n : nodes[i] \in NodeIDs(wf)
  BY <1>1
<1>4. edges \in Seq(AllEdges) /\ n = Len(edges) + 1 /\ Len(edges) \in Nat
  BY <1>1, <1>2, WalkTyped
<1>5. n - 1 <= MaxDepth
  <2>1. Len(edges) <= MaxDepth
    BY <1>1, <1>2 DEF IsWalk
  <2>2. QED
    BY <1>4, <2>1
<1>6. \A i \in 1..n : counts[i] \in Nat
  BY <1>1
<1>7. QED
  BY <1>1, <1>2, <1>3, <1>4, <1>5, <1>6 DEF w

(* A call that has explored more has less ahead of it.                     *)
LEMMA LessAhead ==
  ASSUME wf \in Workflows, NEW nodes, NEW edges, NEW counts, NEW more,
         nodes \in Seq(NodeIDs(wf)), counts \in Seq(Nat), more \in Seq(Nat),
         Len(counts) = Len(nodes), Len(more) = Len(nodes),
         \A i \in 1..Len(nodes) : counts[i] <= more[i],
         NEW p, Ahead(p, nodes, edges, more)
  PROVE  Ahead(p, nodes, edges, counts)
<1>1. PICK d \in 1..Len(nodes) : AheadAt(p, d, nodes, edges, more)
  BY DEF Ahead
<1>2. PICK k \in DOMAIN Out(nodes[d]) : more[d] < k /\ p.edges[d] = Out(nodes[d])[k]
  BY <1>1 DEF AheadAt
<1>3. counts[d] < k
  <2>1. nodes[d] \in NodeIDs(wf) /\ counts[d] \in Nat /\ more[d] \in Nat /\ counts[d] <= more[d]
    BY <1>1
  <2>2. k \in Nat
    BY <2>1, OutTyped
  <2>3. QED
    BY <1>2, <2>1, <2>2
<1>4. QED
  BY <1>1, <1>2, <1>3 DEF Ahead, AheadAt

(* A complete walk that leaves the trail at its last node does so by an    *)
(* edge that may be explored, and ends or goes on behind it.               *)
LEMMA WayOut ==
  ASSUME wf \in Workflows, NEW nodes, NEW edges, NEW counts, OnTrail(nodes, edges, counts), nodes # <<>>,
         NEW p, Completes(p), AheadAt(p, Len(nodes), nodes, edges, counts)
  PROVE  LET n == Len(nodes)
             e == p.edges[n]
         IN  /\ n <= MaxDepth /\ e.to \in NodeIDs(wf) /\ VisitsUpTo(nodes, n, e.to) < 2
             /\ AtEnd(e.to) => p = Longer(WalkOf(nodes, edges), e)
             /\ ~AtEnd(e.to) => n + 1 <= Len(p.edges) /\ p.edges[n + 1] \in Range(Out(e.to))
<1> DEFINE n == Len(nodes)
           e == p.edges[n]
           w == WalkOf(nodes, edges)
<1>1. /\ n \in Nat /\ n >= 1 /\ n - 1 \in Nat /\ Len(edges) = n - 1 /\ edges \in Seq(AllEdges)
      /\ w.nodes = nodes /\ w.edges = edges /\ IsWalk(w) /\ (n - 1) + 1 = n
      /\ Len(w.edges) = n - 1 /\ Len(w.nodes) = n
  BY TrailTyped
<1> HIDE DEF n, w
<1>2. IsWalk(p) /\ AtEnd(p.nodes[Len(p.nodes)]) /\ n <= Len(p.edges) /\ \A i \in 1..(n - 1) : p.edges[i] = edges[i]
  BY DEF Completes, AheadAt, n
<1>3. /\ Len(p.edges) \in Nat /\ Len(p.edges) <= MaxDepth /\ Len(p.nodes) = Len(p.edges) + 1 /\ MaxDepth \in Nat
      /\ \A i \in 1..(Len(p.edges) + 1) : p.nodes[i] \in NodeIDs(wf)
      /\ \A i \in 1..Len(p.edges) : GoesOnAt(p, i)
  BY <1>2, WalkTyped, LimitsAssumption DEF IsWalk
<1>4. \A i \in 1..n : p.nodes[i] = nodes[i]
  <2>1. n - 1 <= Len(p.edges) /\ n - 1 <= Len(w.edges) /\ \A i \in 1..(n - 1) : p.edges[i] = w.edges[i]
    BY <1>1, <1>2, <1>3
  <2>2. \A i \in 1..((n - 1) + 1) : p.nodes[i] = w.nodes[i]
    BY <1>1, <1>2, <2>1, WalksShare
  <2>3. QED
    BY <1>1, <2>2
<1>5. GoesOnAt(p, n) /\ p.nodes[n + 1] = e.to /\ n + 1 \in 1..(Len(p.edges) + 1)
  <2>1. n \in 1..Len(p.edges) /\ n + 1 \in 1..(Len(p.edges) + 1)
    BY <1>1, <1>2, <1>3
  <2>2. GoesOnAt(p, n)
    BY <1>3, <2>1
  <2>3. QED
    BY <2>1, <2>2 DEF GoesOnAt
<1>6. n <= MaxDepth /\ e.to \in NodeIDs(wf) /\ VisitsUpTo(nodes, n, e.to) < 2
  <2>1. VisitsUpTo(p.nodes, n, e.to) = VisitsUpTo(nodes, n, e.to)
    BY <1>4, VisitsSame
  <2>2. VisitsUpTo(p.nodes, n, e.to) < 2
    BY <1>5 DEF GoesOnAt
  <2>3. n <= MaxDepth
    BY <1>1, <1>2, <1>3
  <2>4. QED
    BY <1>3, <1>5, <2>1, <2>2, <2>3
<1>7. ASSUME AtEnd(e.to) PROVE p = Longer(w, e)
  <2>1. Len(p.edges) = n
    <3> SUFFICES ASSUME Len(p.edges) # n PROVE FALSE
      OBVIOUS
    <3>1. n + 1 \in 1..Len(p.edges)
      BY <1>1, <1>2, <1>3
    <3>2. GoesOnAt(p, n + 1)
      BY <1>3, <3>1
    <3>3. QED
      BY <1>5, <1>7, <3>2 DEF GoesOnAt
  <2>2. n - 1 < Len(p.edges)
    BY <1>1, <2>1
  <2> DEFINE s == Shorter(p, n - 1)
  <2>3. IsWalk(s) /\ Len(s.edges) = n - 1 /\ p = Longer(s, e)
    BY <1>1, <1>2, <2>1, <2>2, WalkShrinks
  <2>4. s.edges = w.edges
    <3>1. s.edges = [i \in 1..(n - 1) |-> p.edges[i]]
      BY DEF Shorter
    <3>2. w.edges = [i \in 1..(n - 1) |-> w.edges[i]]
      BY <1>1
    <3> HIDE DEF s
    <3>3. QED
      BY <1>1, <1>2, <3>1, <3>2
  <2> HIDE DEF s, e
  <2>5. s = w
    BY <1>1, <2>3, <2>4, WalksEqual
  <2>6. QED
    BY <2>3, <2>5
<1>8. ASSUME ~AtEnd(e.to) PROVE n + 1 <= Len(p.edges) /\ p.edges[n + 1] \in Range(Out(e.to))
  <2>1. Len(p.edges) # n
    BY <1>2, <1>3, <1>5, <1>8
  <2>2. n + 1 \in 1..Len(p.edges) /\ n + 1 <= Len(p.edges)
    BY <1>1, <1>2, <1>3, <2>1
  <2>3. GoesOnAt(p, n + 1)
    BY <1>3, <2>2
  <2>4. QED
    BY <1>5, <2>2, <2>3 DEF GoesOnAt
<1>9. QED
  BY <1>6, <1>7, <1>8 DEF n, w

\* One result more.
LEMMA AppendedList ==
  ASSUME NEW list, list \in Seq(Range(list)), NEW x, NEW longer, Extends(longer, list, x)
  PROVE  /\ longer \in Seq(Range(longer)) /\ Len(longer) = Len(list) + 1 /\ Len(list) \in Nat
         /\ Range(longer) = Range(list) \cup {x}
         /\ IsInjective(list) /\ x \notin Range(list) => IsInjective(longer)
<1> DEFINE n == Len(list)
           Both == Range(list) \cup {x}
<1>1. n \in Nat /\ DOMAIN list = 1..n /\ \A i \in 1..n : list[i] \in Range(list)
  BY DEF Range
<1>2. longer \in Seq(Both) /\ Len(longer) = n + 1
      /\ (\A i \in 1..n : longer[i] = list[i]) /\ longer[n + 1] = x
  <2>1. list \in Seq(Both) /\ x \in Both
    OBVIOUS
  <2> HIDE DEF Both
  <2>2. QED
    BY <2>1 DEF Extends
<1> HIDE DEF n
<1>3. DOMAIN longer = 1..(n + 1) /\ longer = [i \in 1..(n + 1) |-> longer[i]]
  BY <1>1, <1>2
<1>4. Range(longer) = Both
  <2>1. \A i \in 1..(n + 1) : i \in 1..n \/ i = n + 1
    BY <1>1
  <2>2. n + 1 \in 1..(n + 1) /\ \A i \in 1..n : i \in 1..(n + 1)
    BY <1>1
  <2>3. Range(longer) = {longer[i] : i \in 1..(n + 1)} /\ Range(list) = {list[i] : i \in 1..n}
    BY <1>1, <1>3 DEF Range
  <2>4. QED
    BY <1>2, <2>1, <2>2, <2>3
<1>5. ASSUME IsInjective(list), x \notin Range(list) PROVE IsInjective(longer)
  <2>1. ASSUME NEW i \in 1..(n + 1), NEW j \in 1..(n + 1), longer[i] = longer[j] PROVE i = j
    <3>1. (i \in 1..n \/ i = n + 1) /\ (j \in 1..n \/ j = n + 1)
      BY <1>1
    <3>2. QED
      BY <1>1, <1>2, <1>5, <2>1, <3>1 DEF IsInjective
  <2>2. QED
    BY <1>3, <2>1 DEF IsInjective
<1>6. QED
  BY <1>1, <1>2, <1>4, <1>5 DEF n

\* The last call has explored one edge more.
More(counts, k) == [counts EXCEPT ![Len(counts)] = k]

LEMMA OneMoreExplored ==
  ASSUME wf \in Workflows, NEW nodes, NEW edges, NEW counts, OnTrail(nodes, edges, counts), nodes # <<>>,
         NEW k \in DOMAIN Out(nodes[Len(nodes)]), k = counts[Len(nodes)] + 1
  PROVE  LET n == Len(nodes)
             e == Out(nodes[n])[k]
             more == More(counts, k)
         IN  /\ more \in Seq(Nat) /\ Len(more) = n /\ more[n] = k /\ \A i \in 1..(n - 1) : more[i] = counts[i]
             /\ OnTrail(nodes, edges, more)
             /\ e \in Range(Out(nodes[n])) /\ e \in AllEdges
             /\ \A p : Ahead(p, nodes, edges, more) => Ahead(p, nodes, edges, counts)
             /\ \A p : AheadAt(p, n, nodes, edges, counts) => Ahead(p, nodes, edges, counts)
             /\ \A p : Ahead(p, nodes, edges, counts) =>
                   \/ Ahead(p, nodes, edges, more)
                   \/ AheadAt(p, n, nodes, edges, counts) /\ p.edges[n] = e
<1> DEFINE n == Len(nodes)
           e == Out(nodes[n])[k]
           more == More(counts, k)
<1>1. /\ n \in Nat /\ n >= 1 /\ nodes \in Seq(NodeIDs(wf)) /\ nodes[n] \in NodeIDs(wf)
      /\ counts \in Seq(Nat) /\ Len(counts) = n /\ \A i \in 1..n : counts[i] \in Nat
  BY TrailTyped
<1>2. k \in Nat /\ k <= Len(Out(nodes[n])) /\ counts[n] < k /\ \A j \in DOMAIN Out(nodes[n]) : j \in Nat
  <2>1. counts[n] \in Nat /\ Len(Out(nodes[n])) \in Nat /\ DOMAIN Out(nodes[n]) = 1..Len(Out(nodes[n]))
    BY <1>1, OutTyped
  <2>2. QED
    BY <2>1
<1>3. more \in Seq(Nat) /\ Len(more) = n /\ more[n] = k /\ \A i \in 1..(n - 1) : more[i] = counts[i]
  BY <1>1, <1>2 DEF More
<1>4. e \in Range(Out(nodes[n])) /\ e \in AllEdges
  BY <1>1, OutTyped
<1> HIDE DEF e, more
<1>5. OnTrail(nodes, edges, more)
  <2>1. ASSUME NEW i \in 1..n PROVE more[i] <= Len(Out(nodes[i]))
    <3>1. i = n \/ i \in 1..(n - 1)
      BY <1>1
    <3>2. QED
      BY <1>2, <1>3, <3>1 DEF OnTrail
  <2>2. QED
    BY <1>1, <1>3, <2>1 DEF OnTrail
<1>6. ASSUME NEW p, Ahead(p, nodes, edges, more) PROVE Ahead(p, nodes, edges, counts)
  <2>1. \A i \in 1..n : counts[i] <= more[i]
    <3>1. \A i \in 1..n : i = n \/ i \in 1..(n - 1)
      BY <1>1
    <3>2. \A i \in 1..n : counts[i] <= counts[i]
      BY <1>1
    <3>3. counts[n] <= k
      BY <1>1, <1>2
    <3>4. QED
      BY <1>3, <3>1, <3>2, <3>3
  <2>2. QED
    BY <1>1, <1>3, <1>6, <2>1, LessAhead
<1>7. ASSUME NEW p, AheadAt(p, n, nodes, edges, counts) PROVE Ahead(p, nodes, edges, counts)
  BY <1>1, <1>7 DEF Ahead
<1>8. ASSUME NEW p, Ahead(p, nodes, edges, counts)
      PROVE  \/ Ahead(p, nodes, edges, more)
             \/ AheadAt(p, n, nodes, edges, counts) /\ p.edges[n] = e
  <2>1. PICK d \in 1..n : AheadAt(p, d, nodes, edges, counts)
    BY <1>8 DEF Ahead
  <2>2. PICK j \in DOMAIN Out(nodes[d]) : counts[d] < j /\ p.edges[d] = Out(nodes[d])[j]
    BY <2>1 DEF AheadAt
  <2>3. CASE d = n /\ j = k
    BY <2>1, <2>2, <2>3 DEF e
  <2>4. CASE d = n /\ j # k
    <3>1. more[d] < j
      BY <1>1, <1>2, <1>3, <2>2, <2>4
    <3>2. QED
      BY <2>1, <2>2, <3>1 DEF Ahead, AheadAt
  <2>5. CASE d # n
    <3>1. d \in 1..(n - 1)
      BY <1>1, <2>5
    <3>2. more[d] < j
      BY <1>3, <2>2, <3>1
    <3>3. QED
      BY <2>1, <2>2, <3>2 DEF Ahead, AheadAt
  <2>6. QED
    BY <2>3, <2>4, <2>5
<1>9. QED
  BY <1>3, <1>4, <1>5, <1>6, <1>7, <1>8 DEF e, more

\* shouldExplore, for the node id.
May(id, nodes, list) ==
    /\ Len(list) < MaxResults /\ Len(nodes) <= MaxDepth
    /\ VisitsUpTo(nodes, Len(nodes), id) < 2
    /\ id \in NodeIDs(wf)

(* An edge that is not taken leads to nothing that is missing.             *)
LEMMA ExploreSkips ==
  ASSUME wf \in Workflows, NEW nodes, NEW edges, NEW counts, OnTrail(nodes, edges, counts), nodes # <<>>,
         NEW list, Found(list, nodes, edges, counts),
         NEW k \in DOMAIN Out(nodes[Len(nodes)]), k = counts[Len(nodes)] + 1,
         ~May(Out(nodes[Len(nodes)])[k].to, nodes, list)
  PROVE  OnTrail(nodes, edges, More(counts, k)) /\ Found(list, nodes, edges, More(counts, k))
<1> DEFINE n == Len(nodes)
           e == Out(nodes[n])[k]
           more == More(counts, k)
<1>1. /\ OnTrail(nodes, edges, more)
      /\ \A p : Ahead(p, nodes, edges, more) => Ahead(p, nodes, edges, counts)
      /\ \A p : Ahead(p, nodes, edges, counts) =>
            \/ Ahead(p, nodes, edges, more)
            \/ AheadAt(p, n, nodes, edges, counts) /\ p.edges[n] = e
  BY OneMoreExplored
<1> HIDE DEF n, e, more
<1>2. ASSUME Len(list) < MaxResults, NEW p, Completes(p), p \notin Range(list)
      PROVE  Ahead(p, nodes, edges, more)
  <2>1. Ahead(p, nodes, edges, counts)
    BY <1>2 DEF Found
  <2>2. ASSUME AheadAt(p, n, nodes, edges, counts), p.edges[n] = e PROVE FALSE
    <3>1. n <= MaxDepth /\ e.to \in NodeIDs(wf) /\ VisitsUpTo(nodes, n, e.to) < 2
      BY <1>2, <2>2, WayOut DEF n
    <3>2. QED
      BY <1>2, <3>1 DEF May, n, e
  <2>3. QED
    BY <1>1, <2>1, <2>2
<1>3. QED
  BY <1>1, <1>2 DEF Found, more

(* An edge to an end leads to one complete walk, and it is recorded.       *)
LEMMA ExploreEnds ==
  ASSUME wf \in Workflows, NEW nodes, NEW edges, NEW counts, OnTrail(nodes, edges, counts), nodes # <<>>,
         NEW list, Found(list, nodes, edges, counts),
         NEW k \in DOMAIN Out(nodes[Len(nodes)]), k = counts[Len(nodes)] + 1,
         May(Out(nodes[Len(nodes)])[k].to, nodes, list), AtEnd(Out(nodes[Len(nodes)])[k].to),
         NEW longer, Extends(longer, list, Longer(WalkOf(nodes, edges), Out(nodes[Len(nodes)])[k]))
  PROVE  OnTrail(nodes, edges, More(counts, k)) /\ Found(longer, nodes, edges, More(counts, k))
<1> DEFINE n == Len(nodes)
           e == Out(nodes[n])[k]
           more == More(counts, k)
           w == WalkOf(nodes, edges)
           x == Longer(w, e)
<1>1. /\ OnTrail(nodes, edges, more) /\ e \in Range(Out(nodes[n])) /\ e \in AllEdges /\ more[n] = k
      /\ \A p : Ahead(p, nodes, edges, more) => Ahead(p, nodes, edges, counts)
      /\ \A p : AheadAt(p, n, nodes, edges, counts) => Ahead(p, nodes, edges, counts)
      /\ \A p : Ahead(p, nodes, edges, counts) =>
            \/ Ahead(p, nodes, edges, more)
            \/ AheadAt(p, n, nodes, edges, counts) /\ p.edges[n] = e
      /\ \A i \in 1..(n - 1) : more[i] = counts[i]
  BY OneMoreExplored
<1>2. /\ n \in Nat /\ n >= 1 /\ Len(edges) = n - 1 /\ edges \in Seq(AllEdges) /\ IsWalk(w)
      /\ w.nodes = nodes /\ w.edges = edges /\ nodes \in Seq(NodeIDs(wf)) /\ ~AtEnd(nodes[n])
      /\ \A i \in 1..n : nodes[i] \in NodeIDs(wf) /\ counts[i] \in Nat
  BY TrailTyped
<1>3. n <= MaxDepth /\ VisitsUpTo(nodes, n, e.to) < 2 /\ e.to \in NodeIDs(wf) /\ AtEnd(e.to)
  BY DEF May
<1> HIDE DEF n, e, w, more
<1>4. Completes(x)
  <2>1. Len(w.edges) < MaxDepth /\ ~AtEnd(w.nodes[Len(w.nodes)])
        /\ e \in Range(Out(w.nodes[Len(w.nodes)])) /\ VisitsUpTo(w.nodes, Len(w.nodes), e.to) < 2
    BY <1>1, <1>2, <1>3, LimitsAssumption DEF n
  <2>2. IsWalk(x)
    BY <1>2, <1>3, <2>1, WalkExtends
  <2>3. x.nodes[Len(x.nodes)] = e.to
    <3>1. x.nodes = Append(nodes, e.to)
      BY <1>2 DEF Longer
    <3> HIDE DEF x
    <3>2. QED
      BY <1>2, <1>3, <3>1
  <2>4. QED
    BY <1>3, <2>2, <2>3 DEF Completes
<1>5. x.edges[n] = e /\ Len(x.edges) = n /\ \A i \in 1..(n - 1) : x.edges[i] = edges[i]
  <2>1. x.edges = Append(edges, e)
    BY <1>2 DEF Longer
  <2> HIDE DEF x
  <2>2. QED
    BY <1>1, <1>2, <2>1
<1>6. AheadAt(x, n, nodes, edges, counts)
  <2>1. counts[n] < k /\ k \in DOMAIN Out(nodes[n]) /\ x.edges[n] = Out(nodes[n])[k] /\ n <= Len(x.edges)
    <3>1. counts[n] \in Nat /\ k = counts[n] + 1 /\ k \in DOMAIN Out(nodes[n])
      BY <1>2 DEF n
    <3>2. QED
      BY <1>2, <1>5, <3>1 DEF e
  <2>2. QED
    BY <1>5, <2>1 DEF AheadAt
<1>7. ASSUME IsInjective(wf.edges) PROVE ~Ahead(x, nodes, edges, more)
  <2> SUFFICES ASSUME NEW d \in 1..n, AheadAt(x, d, nodes, edges, more) PROVE FALSE
    BY DEF Ahead, n
  <2>1. PICK j \in DOMAIN Out(nodes[d]) : more[d] < j /\ x.edges[d] = Out(nodes[d])[j]
    BY DEF AheadAt
  <2>2. /\ IsInjective(Out(nodes[d])) /\ nodes[d] \in NodeIDs(wf)
        /\ j \in Nat /\ \A i \in DOMAIN Out(nodes[d]) : i \in Nat
    <3>1. nodes[d] \in NodeIDs(wf)
      BY <1>2
    <3>2. QED
      BY <1>7, <3>1, EdgesApart, OutTyped DEF Out
  <2>3. CASE d = n
    <3>1. j = k
      BY <1>5, <2>1, <2>2, <2>3 DEF IsInjective, e, n
    <3>2. QED
      BY <1>1, <2>1, <2>2, <2>3, <3>1
  <2>4. CASE d # n
    <3>1. d \in 1..(n - 1)
      BY <1>2, <2>4
    <3>2. counts[d] \in DOMAIN Out(nodes[d]) /\ edges[d] = Out(nodes[d])[counts[d]]
      BY <3>1 DEF OnTrail, n
    <3>3. j = counts[d]
      BY <1>5, <2>1, <2>2, <3>1, <3>2 DEF IsInjective
    <3>4. QED
      BY <1>1, <2>1, <2>2, <3>1, <3>3
  <2>5. QED
    BY <2>3, <2>4
<1>8. /\ longer \in Seq(Range(longer)) /\ Len(longer) = Len(list) + 1 /\ Len(list) \in Nat
      /\ Range(longer) = Range(list) \cup {x}
      /\ IsInjective(list) /\ x \notin Range(list) => IsInjective(longer)
  <2>1. list \in Seq(Range(list)) /\ Extends(longer, list, x)
    BY DEF Found, x, w, e, n
  <2> HIDE DEF x
  <2>2. QED
    BY <2>1, AppendedList
<1> HIDE DEF x
<1>9. ASSUME Len(longer) < MaxResults, NEW p, Completes(p), p \notin Range(longer)
      PROVE  Ahead(p, nodes, edges, more)
  <2>1. Len(list) < MaxResults /\ p \notin Range(list) /\ p # x
    BY <1>8, <1>9, LimitsAssumption
  <2>2. Ahead(p, nodes, edges, counts)
    BY <1>9, <2>1 DEF Found
  <2>3. ASSUME AheadAt(p, n, nodes, edges, counts), p.edges[n] = e PROVE FALSE
    <3>1. p = Longer(w, p.edges[n])
      BY <1>3, <1>9, <2>3, WayOut DEF n, w
    <3>2. QED
      BY <2>1, <2>3, <3>1 DEF x
  <2>4. QED
    BY <1>1, <2>2, <2>3
<1>10. \A p \in Range(longer) : Completes(p)
  BY <1>4, <1>8 DEF Found
<1>11. ASSUME IsInjective(wf.edges)
       PROVE  IsInjective(longer) /\ \A p \in Range(longer) : ~Ahead(p, nodes, edges, more)
  <2>1. IsInjective(list) /\ \A p \in Range(list) : ~Ahead(p, nodes, edges, counts)
    BY <1>11 DEF Found
  <2>2. x \notin Range(list)
    BY <1>1, <1>6, <2>1
  <2>3. QED
    BY <1>1, <1>7, <1>8, <1>11, <2>1, <2>2
<1>12. QED
  BY <1>1, <1>8, <1>9, <1>10, <1>11 DEF Found, more

(* An edge to a node that goes on puts that node on the trail, and behind  *)
(* it lies what lay behind the edge.                                       *)
LEMMA ExploreEnters ==
  ASSUME wf \in Workflows, NEW nodes, NEW edges, NEW counts, OnTrail(nodes, edges, counts), nodes # <<>>,
         NEW list, Found(list, nodes, edges, counts),
         NEW k \in DOMAIN Out(nodes[Len(nodes)]), k = counts[Len(nodes)] + 1,
         May(Out(nodes[Len(nodes)])[k].to, nodes, list), ~AtEnd(Out(nodes[Len(nodes)])[k].to)
  PROVE  LET e == Out(nodes[Len(nodes)])[k]
         IN  /\ OnTrail(Append(nodes, e.to), Append(edges, e), Append(More(counts, k), 0))
             /\ Found(list, Append(nodes, e.to), Append(edges, e), Append(More(counts, k), 0))
<1> DEFINE n == Len(nodes)
           e == Out(nodes[n])[k]
           more == More(counts, k)
           w == WalkOf(nodes, edges)
           Nodes == Append(nodes, e.to)
           Edges == Append(edges, e)
           Counts == Append(more, 0)
<1>1. /\ OnTrail(nodes, edges, more) /\ e \in Range(Out(nodes[n])) /\ e \in AllEdges
      /\ more \in Seq(Nat) /\ Len(more) = n /\ more[n] = k
      /\ \A p : Ahead(p, nodes, edges, more) => Ahead(p, nodes, edges, counts)
      /\ \A p : AheadAt(p, n, nodes, edges, counts) => Ahead(p, nodes, edges, counts)
      /\ \A p : Ahead(p, nodes, edges, counts) =>
            \/ Ahead(p, nodes, edges, more)
            \/ AheadAt(p, n, nodes, edges, counts) /\ p.edges[n] = e
  BY OneMoreExplored
<1>2. /\ n \in Nat /\ n >= 1 /\ Len(edges) = n - 1 /\ edges \in Seq(AllEdges) /\ IsWalk(w)
      /\ w.nodes = nodes /\ w.edges = edges /\ nodes \in Seq(NodeIDs(wf)) /\ ~AtEnd(nodes[n])
      /\ \A i \in 1..n : nodes[i] \in NodeIDs(wf)
      /\ counts[n] \in Nat
  BY TrailTyped
<1>3. n <= MaxDepth /\ VisitsUpTo(nodes, n, e.to) < 2 /\ e.to \in NodeIDs(wf) /\ ~AtEnd(e.to)
  BY DEF May
<1>4. k = counts[n] + 1 /\ k \in DOMAIN Out(nodes[n]) /\ e = Out(nodes[n])[k]
  OBVIOUS
<1> HIDE DEF n, e, w, more
<1>5. /\ Nodes \in Seq(NodeIDs(wf)) /\ Len(Nodes) = n + 1 /\ Nodes[n + 1] = e.to
      /\ \A i \in 1..n : Nodes[i] = nodes[i]
  BY <1>2, <1>3 DEF n
<1>6. Edges \in Seq(AllEdges) /\ Len(Edges) = n /\ Edges[n] = e /\ \A i \in 1..(n - 1) : Edges[i] = edges[i]
  BY <1>1, <1>2
<1>7. /\ Counts \in Seq(Nat) /\ Len(Counts) = n + 1 /\ Counts[n + 1] = 0
      /\ \A i \in 1..n : Counts[i] = more[i]
  BY <1>1, <1>2
<1>8. IsWalk(WalkOf(Nodes, Edges))
  <2>1. Len(w.edges) < MaxDepth /\ ~AtEnd(w.nodes[Len(w.nodes)])
        /\ e \in Range(Out(w.nodes[Len(w.nodes)])) /\ VisitsUpTo(w.nodes, Len(w.nodes), e.to) < 2
    BY <1>1, <1>2, <1>3, LimitsAssumption DEF n
  <2>2. IsWalk(Longer(w, e))
    BY <1>2, <1>3, <2>1, WalkExtends
  <2>3. Longer(w, e) = WalkOf(Nodes, Edges)
    <3>1. Nodes[Len(Nodes)] = e.to
      BY <1>5
    <3>2. QED
      BY <1>2, <3>1 DEF Longer, WalkOf
  <2>4. QED
    BY <2>2, <2>3
<1> HIDE DEF Nodes, Edges, Counts
<1>9. Nodes # <<>> /\ n + 1 \in Nat /\ (n + 1) - 1 = n /\ \A i \in 1..(n + 1) : i \in 1..n \/ i = n + 1
  <2>1. n \in Nat /\ Len(Nodes) = n + 1
    <3>1. n \in Nat
      BY <1>2
    <3>2. QED
      BY <1>5, <3>1
  <2>2. n + 1 # 0 /\ n + 1 \in Nat /\ (n + 1) - 1 = n /\ \A i \in 1..(n + 1) : i \in 1..n \/ i = n + 1
    BY ONLY <2>1
  <2>3. Len(<<>>) = 0
    OBVIOUS
  <2>4. QED
    BY ONLY <2>1, <2>2, <2>3
<1>10. OnTrail(Nodes, Edges, Counts)
  <2>1. ASSUME NEW i \in 1..(n + 1) PROVE Counts[i] <= Len(Out(Nodes[i]))
    <3>1. CASE i \in 1..n
      BY <1>1, <1>5, <1>7, <3>1 DEF OnTrail, n
    <3>2. CASE i = n + 1
      <4>1. Len(Out(e.to)) \in Nat
        BY <1>3, OutTyped
      <4>2. QED
        BY <1>5, <1>7, <3>2, <4>1
    <3>3. QED
      BY <1>9, <3>1, <3>2
  <2>2. ASSUME NEW i \in 1..n PROVE Counts[i] \in DOMAIN Out(Nodes[i]) /\ Edges[i] = Out(Nodes[i])[Counts[i]]
    <3>1. CASE i = n
      BY <1>1, <1>4, <1>5, <1>6, <1>7, <3>1
    <3>2. CASE i # n
      <4>1. i \in 1..(n - 1)
        BY <1>2, <3>2
      <4>2. more[i] \in DOMAIN Out(nodes[i]) /\ edges[i] = Out(nodes[i])[more[i]]
        BY <1>1, <4>1 DEF OnTrail, n
      <4>3. QED
        BY <1>5, <1>6, <1>7, <4>1, <4>2
    <3>3. QED
      BY <3>1, <3>2
  <2>3. ~AtEnd(Nodes[Len(Nodes)])
    BY <1>3, <1>5
  <2>4. QED
    BY <1>5, <1>7, <1>8, <1>9, <2>1, <2>2, <2>3 DEF OnTrail
<1>11. ASSUME NEW p, Ahead(p, Nodes, Edges, Counts) PROVE Ahead(p, nodes, edges, counts)
  <2>1. PICK d \in 1..(n + 1) : AheadAt(p, d, Nodes, Edges, Counts)
    BY <1>5, <1>11 DEF Ahead
  <2>2. CASE d \in 1..n
    <3>1. \A i \in 1..(d - 1) : i \in 1..(n - 1)
      BY <1>2, <2>2
    <3>2. AheadAt(p, d, nodes, edges, more)
      BY <1>5, <1>6, <1>7, <2>1, <2>2, <3>1 DEF AheadAt
    <3>3. QED
      BY <1>1, <2>2, <3>2 DEF Ahead, n
  <2>3. CASE d = n + 1
    <3>1. n + 1 <= Len(p.edges) /\ \A i \in 1..n : p.edges[i] = Edges[i]
      BY <1>9, <2>1, <2>3 DEF AheadAt
    <3>2. p.edges[n] = e /\ \A i \in 1..(n - 1) : p.edges[i] = edges[i]
      BY <1>2, <1>6, <3>1
    <3>3. n <= Len(p.edges)
      <4>1. Len(p.edges) >= n + 1
        BY <3>1
      <4>2. QED
        BY <1>2, <4>1, SMT
    <3>4. counts[n] < k
      BY <1>2, <1>4
    <3>5. AheadAt(p, n, nodes, edges, counts)
      BY <1>4, <3>2, <3>3, <3>4 DEF AheadAt
    <3>6. QED
      BY <1>1, <3>5
  <2>4. QED
    BY <1>9, <2>2, <2>3
<1>12. ASSUME Len(list) < MaxResults, NEW p, Completes(p), p \notin Range(list)
       PROVE  Ahead(p, Nodes, Edges, Counts)
  <2>1. Ahead(p, nodes, edges, counts)
    BY <1>12 DEF Found
  <2>2. CASE Ahead(p, nodes, edges, more)
    <3>1. PICK d \in 1..n : AheadAt(p, d, nodes, edges, more)
      BY <2>2 DEF Ahead, n
    <3>2. (\A i \in 1..(d - 1) : i \in 1..(n - 1)) /\ d \in 1..(n + 1)
      BY <1>2
    <3>3. AheadAt(p, d, Nodes, Edges, Counts)
      BY <1>5, <1>6, <1>7, <3>1, <3>2 DEF AheadAt
    <3>4. QED
      BY <1>5, <3>2, <3>3 DEF Ahead
  <2>3. CASE AheadAt(p, n, nodes, edges, counts) /\ p.edges[n] = e
    <3>1. n + 1 <= Len(p.edges) /\ p.edges[n + 1] \in Range(Out(e.to))
      BY <1>3, <1>12, <2>3, WayOut DEF n
    <3>2. PICK j \in DOMAIN Out(e.to) : p.edges[n + 1] = Out(e.to)[j]
      BY <1>3, <3>1, OutTyped
    <3>3. 0 < j
      BY <1>3, OutTyped
    <3>4. \A i \in 1..n : p.edges[i] = Edges[i]
      <4>1. \A i \in 1..n : i \in 1..(n - 1) \/ i = n
        BY <1>2
      <4>2. \A i \in 1..(n - 1) : p.edges[i] = edges[i]
        BY <2>3 DEF AheadAt
      <4>3. QED
        BY <1>6, <2>3, <4>1, <4>2
    <3>5. AheadAt(p, n + 1, Nodes, Edges, Counts)
      BY <1>5, <1>7, <1>9, <3>1, <3>2, <3>3, <3>4 DEF AheadAt
    <3>6. n + 1 \in 1..Len(Nodes)
      BY <1>2, <1>5
    <3>7. QED
      BY <3>5, <3>6 DEF Ahead
  <2>4. QED
    BY <1>1, <2>1, <2>2, <2>3
<1>13. Found(list, Nodes, Edges, Counts)
  BY <1>11, <1>12 DEF Found
<1>14. QED
  BY <1>10, <1>13 DEF Nodes, Edges, Counts, e, more, n

(* A call that has explored all its edges leaves nothing ahead of it.      *)
LEMMA ReturnKeeps ==
  ASSUME wf \in Workflows, NEW nodes, NEW edges, NEW counts, OnTrail(nodes, edges, counts), nodes # <<>>,
         NEW list, Found(list, nodes, edges, counts),
         counts[Len(nodes)] = Len(Out(nodes[Len(nodes)])),
         NEW back, back = IF edges = <<>> THEN <<>> ELSE Front(edges)
  PROVE  OnTrail(Front(nodes), back, Front(counts)) /\ Found(list, Front(nodes), back, Front(counts))
<1> DEFINE n == Len(nodes)
           w == WalkOf(nodes, edges)
           Nodes == Front(nodes)
           Counts == Front(counts)
<1>1. /\ n \in Nat /\ n >= 1 /\ Len(edges) = n - 1 /\ edges \in Seq(AllEdges) /\ IsWalk(w) /\ n - 1 \in Nat
      /\ w.nodes = nodes /\ w.edges = edges /\ nodes \in Seq(NodeIDs(wf))
      /\ counts \in Seq(Nat) /\ Len(counts) = n
      /\ \A i \in 1..n : nodes[i] \in NodeIDs(wf) /\ counts[i] \in Nat
  BY TrailTyped
<1>2. \A i \in 1..(n - 1) : i \in 1..n
  BY <1>1
<1> HIDE DEF n, w
<1>3. /\ Nodes \in Seq(NodeIDs(wf)) /\ Len(Nodes) = n - 1 /\ Nodes = [i \in 1..(n - 1) |-> nodes[i]]
      /\ \A i \in 1..(n - 1) : Nodes[i] = nodes[i]
  <2>1. Nodes = [i \in 1..(n - 1) |-> nodes[i]]
    BY <1>1 DEF Front, n
  <2>2. n - 1 \in Nat /\ \A i \in 1..(n - 1) : nodes[i] \in NodeIDs(wf)
    BY <1>1, <1>2
  <2> HIDE DEF Nodes
  <2>3. QED
    BY ONLY <2>1, <2>2
<1>4. Counts \in Seq(Nat) /\ Len(Counts) = n - 1 /\ \A i \in 1..(n - 1) : Counts[i] = counts[i]
  <2>1. Counts = [i \in 1..(n - 1) |-> counts[i]]
    BY <1>1 DEF Front
  <2> HIDE DEF Counts
  <2>2. QED
    BY <1>1, <1>2, <2>1
<1>5. n > 1 => back = [i \in 1..(n - 2) |-> edges[i]]
  <2>1. n > 1 => edges # <<>> /\ (n - 1) - 1 = n - 2
    BY <1>1
  <2>2. QED
    BY <1>1, <2>1 DEF Front
<1>6. n = 1 => back = <<>>
  BY <1>1
<1>7. n > 1 => \A i \in 1..(n - 2) : back[i] = edges[i]
  BY <1>5
<1> HIDE DEF Nodes, Counts
<1>8. \A p : AheadAt(p, n, nodes, edges, counts) => FALSE
  <2>1. ASSUME NEW k \in DOMAIN Out(nodes[n]), counts[n] < k PROVE FALSE
    <3>1. nodes[n] \in NodeIDs(wf) /\ counts[n] = Len(Out(nodes[n]))
      BY <1>1 DEF n
    <3>2. QED
      BY <2>1, <3>1, OutTyped
  <2>2. QED
    BY <2>1 DEF AheadAt
<1>9. ASSUME NEW p, NEW d \in 1..(n - 1)
      PROVE  AheadAt(p, d, nodes, edges, counts) <=> AheadAt(p, d, Nodes, back, Counts)
  <2>1. n > 1 /\ \A i \in 1..(d - 1) : i \in 1..(n - 2)
    BY <1>1
  <2>2. \A i \in 1..(d - 1) : back[i] = edges[i]
    BY <1>7, <2>1
  <2>3. Nodes[d] = nodes[d] /\ Counts[d] = counts[d]
    BY <1>3, <1>4
  <2>4. QED
    BY <2>2, <2>3 DEF AheadAt
<1>10. \A p : Ahead(p, nodes, edges, counts) <=> Ahead(p, Nodes, back, Counts)
  <2>1. \A d \in 1..n : d \in 1..(n - 1) \/ d = n
    BY <1>1
  <2>2. QED
    BY <1>2, <1>3, <1>8, <1>9, <2>1 DEF Ahead, n
<1>11. Found(list, Nodes, back, Counts)
  BY <1>10 DEF Found
<1>12. n = 1 => Nodes = <<>>
  BY <1>3
<1>13. ASSUME n > 1 PROVE IsWalk(WalkOf(Nodes, back)) /\ ~AtEnd(Nodes[Len(Nodes)])
  <2> DEFINE s == Shorter(w, n - 2)
  <2>1. n - 2 \in Nat /\ n - 2 < Len(w.edges) /\ (n - 2) + 1 = n - 1 /\ n - 1 \in 1..(n - 1)
    BY <1>1, <1>13
  <2>2. IsWalk(s) /\ ~AtEnd(s.nodes[n - 1]) /\ s.nodes[n - 1] = nodes[n - 1]
    BY <1>1, <2>1, WalkShrinks
  <2>3. s = WalkOf(Nodes, back)
    <3>1. s.nodes = Nodes /\ s.edges = back /\ s.status = StatusOf(nodes[n - 1])
      BY <1>1, <1>3, <1>5, <1>13, <2>1 DEF Shorter
    <3>2. s = [nodes |-> s.nodes, edges |-> s.edges, status |-> s.status]
      BY DEF Shorter
    <3>3. Nodes[Len(Nodes)] = nodes[n - 1]
      BY <1>3, <2>1
    <3> HIDE DEF s
    <3>4. QED
      BY <3>1, <3>2, <3>3 DEF WalkOf
  <2>4. Nodes[Len(Nodes)] = nodes[n - 1]
    BY <1>3, <2>1
  <2>5. QED
    BY <2>2, <2>3, <2>4
<1>14. OnTrail(Nodes, back, Counts)
  <2>1. Nodes # <<>> => n > 1
    <3>1. n \in Nat /\ n >= 1
      BY <1>1
    <3>2. QED
      BY <1>12, <3>1
  <2>2. Nodes = <<>> => n = 1
    <3>1. n \in Nat /\ Len(Nodes) = n - 1
      BY <1>1, <1>3
    <3>2. QED
      BY ONLY <3>1
  <2>3. \A i \in 1..(n - 1) : Counts[i] <= Len(Out(Nodes[i]))
    BY <1>2, <1>3, <1>4 DEF OnTrail, n
  <2>4. ASSUME NEW i \in 1..((n - 1) - 1)
        PROVE  Counts[i] \in DOMAIN Out(Nodes[i]) /\ back[i] = Out(Nodes[i])[Counts[i]]
    <3>1. i \in 1..(n - 1) /\ i \in 1..(n - 2) /\ n > 1
      BY <1>1
    <3>2. counts[i] \in DOMAIN Out(nodes[i]) /\ edges[i] = Out(nodes[i])[counts[i]]
      BY <3>1 DEF OnTrail, n
    <3>3. QED
      BY <1>3, <1>4, <1>7, <3>1, <3>2
  <2>5. QED
    BY <1>3, <1>4, <1>6, <1>13, <2>1, <2>2, <2>3, <2>4 DEF OnTrail
<1>15. QED
  BY <1>11, <1>14 DEF Nodes, Counts

(* The start is an end itself: it is the only complete walk.               *)
LEMMA BeginEnds ==
  ASSUME wf \in Workflows, wf.start \in NodeIDs(wf), AtEnd(wf.start),
         NEW longer, Extends(longer, <<>>, WalkOf(<<wf.start>>, <<>>))
  PROVE  OnTrail(<<>>, <<>>, <<>>) /\ Found(longer, <<>>, <<>>, <<>>)
<1> DEFINE one == WalkOf(<<wf.start>>, <<>>)
<1>1. OnTrail(<<>>, <<>>, <<>>)
  BY DEF OnTrail
<1>2. IsWalk(one) /\ Len(one.edges) = 0 /\ \A p : IsWalk(p) /\ Len(p.edges) = 0 => p = one
  BY StartAlone
<1>3. \A p : ~Ahead(p, <<>>, <<>>, <<>>)
  BY DEF Ahead
<1> HIDE DEF one
<1>4. Completes(one)
  <2>1. one.nodes[Len(one.nodes)] = wf.start
    BY <1>2, WalkTyped DEF IsWalk
  <2>2. QED
    BY <1>2, <2>1 DEF Completes
<1>5. ASSUME NEW p, Completes(p) PROVE p = one
  <2>1. IsWalk(p) /\ Len(p.edges) \in Nat
    BY <1>5, WalkTyped DEF Completes
  <2>2. 1 \in 1..Len(p.edges) => GoesOnAt(p, 1) /\ p.nodes[1] = wf.start
    BY <2>1 DEF IsWalk
  <2>3. Len(p.edges) = 0
    BY <2>1, <2>2 DEF GoesOnAt
  <2>4. QED
    BY <1>2, <2>1, <2>3
<1>6. <<>> \in Seq(Range(<<>>)) /\ Range(<<>>) = {} /\ IsInjective(<<>>)
  BY DEF Range, IsInjective
<1>7. longer \in Seq(Range(longer)) /\ Range(longer) = {one} /\ IsInjective(longer)
  <2> DEFINE none == <<>>
  <2>1. none \in Seq(Range(none)) /\ Extends(longer, none, one) /\ Range(none) = {} /\ IsInjective(none)
    BY <1>6 DEF one
  <2> HIDE DEF none
  <2>2. QED
    BY <2>1, AppendedList
<1>8. QED
  BY <1>1, <1>3, <1>4, <1>5, <1>7 DEF Found

(* Any other start has every complete walk ahead of it.                    *)
LEMMA BeginEnters ==
  ASSUME wf \in Workflows, wf.start \in NodeIDs(wf), ~AtEnd(wf.start)
  PROVE  OnTrail(<<wf.start>>, <<>>, <<0>>) /\ Found(<<>>, <<wf.start>>, <<>>, <<0>>)
<1>1. IsWalk(WalkOf(<<wf.start>>, <<>>))
  BY StartAlone
<1>2. Len(Out(wf.start)) \in Nat /\ DOMAIN Out(wf.start) = 1..Len(Out(wf.start))
  BY OutTyped
<1> DEFINE nodes == <<wf.start>>
           counts == <<0>>
<1>3. /\ nodes \in Seq(NodeIDs(wf)) /\ Len(nodes) = 1 /\ nodes[1] = wf.start /\ nodes # <<>>
      /\ counts \in Seq(Nat) /\ Len(counts) = 1 /\ counts[1] = 0
  OBVIOUS
<1> HIDE DEF nodes, counts
<1>4. OnTrail(nodes, <<>>, counts)
  <2>1. IsWalk(WalkOf(nodes, <<>>))
    BY <1>1 DEF nodes
  <2>2. \A i \in 1..Len(nodes) : counts[i] <= Len(Out(nodes[i]))
    BY <1>2, <1>3
  <2>3. 1..(Len(nodes) - 1) = {}
    BY <1>3
  <2>4. QED
    BY <1>3, <2>1, <2>2, <2>3 DEF OnTrail
<1>5. ASSUME NEW p, Completes(p) PROVE Ahead(p, nodes, <<>>, counts)
  <2>1. IsWalk(p) /\ Len(p.edges) \in Nat /\ Len(p.nodes) = Len(p.edges) + 1 /\ AtEnd(p.nodes[Len(p.nodes)])
        /\ p.nodes[1] = wf.start
    BY <1>5, WalkTyped DEF Completes, IsWalk
  <2>2. Len(p.edges) # 0
    BY <2>1
  <2>3. 1 \in 1..Len(p.edges) /\ 1 <= Len(p.edges)
    BY <2>1, <2>2
  <2>4. p.edges[1] \in Range(Out(wf.start))
    BY <2>1, <2>3 DEF IsWalk, GoesOnAt
  <2>5. PICK k \in DOMAIN Out(wf.start) : p.edges[1] = Out(wf.start)[k]
    BY <2>4, OutTyped
  <2>6. 0 < k
    BY <1>2
  <2>7. AheadAt(p, 1, nodes, <<>>, counts)
    BY <1>3, <2>3, <2>5, <2>6 DEF AheadAt
  <2>8. QED
    BY <1>3, <2>7 DEF Ahead
<1>6. <<>> \in Seq(Range(<<>>)) /\ Range(<<>>) = {} /\ IsInjective(<<>>)
  BY DEF Range, IsInjective
<1>7. QED
  BY <1>4, <1>5, <1>6 DEF Found, nodes, counts

-----------------------------------------------------------------------------
(* The steps of the search                                                 *)

Entered(id, edges, counts) ==
    IF AtEnd(id)
    THEN /\ results' = Append(results, [nodes |-> Append(trail, id), edges |-> edges, status |-> StatusOf(id)])
         /\ tried' = counts /\ trail' = trail /\ taken' = taken
    ELSE /\ trail' = Append(trail, id) /\ taken' = edges /\ tried' = Append(counts, 0)
         /\ results' = results

Begins ==
    /\ phase = "start"
    /\ IF Searchable THEN phase' = "search" /\ Entered(wf.start, <<>>, <<>>)
       ELSE phase' = "error" /\ results' = results /\ trail' = trail /\ taken' = taken /\ tried' = tried

Here == trail[Len(trail)]

Explores ==
    /\ phase = "search" /\ phase' = "search" /\ trail # <<>>
    /\ \E k \in DOMAIN Out(Here) :
          /\ k = tried[Len(tried)] + 1
          /\ IF May(Out(Here)[k].to, trail, results)
             THEN Entered(Out(Here)[k].to, Append(taken, Out(Here)[k]), More(tried, k))
             ELSE tried' = More(tried, k) /\ trail' = trail /\ taken' = taken /\ results' = results

Returns ==
    /\ phase = "search" /\ phase' = "search" /\ trail # <<>>
    /\ tried[Len(tried)] = Len(Out(Here))
    /\ trail' = Front(trail) /\ tried' = Front(tried)
    /\ taken' = IF taken = <<>> THEN <<>> ELSE Front(taken)
    /\ results' = results

Stops ==
    /\ phase = "search" /\ trail = <<>>
    /\ phase' = IF results = <<>> THEN "error" ELSE "done"
    /\ results' = results /\ trail' = trail /\ taken' = taken /\ tried' = tried

LEMMA EnumeratorSteps ==
  ASSUME wf \in Workflows, EnumerationKnown, E!Next
  PROVE  wf' = wf /\ (Begins \/ Explores \/ Returns \/ Stops)
<1>1. \A id, edges, counts : id \in NodeIDs(wf) /\ E!Enter(id, edges, counts) => Entered(id, edges, counts)
  <2> SUFFICES ASSUME NEW id, NEW edges, NEW counts, id \in NodeIDs(wf), E!Enter(id, edges, counts)
               PROVE  Entered(id, edges, counts)
    OBVIOUS
  <2>1. E!IsEnd(id) = AtEnd(id) /\ E!StatusAt(id) = StatusOf(id)
    BY OutTyped
  <2>2. QED
    BY <2>1 DEF E!Enter, E!Path, Entered
<1>2. CASE E!Begin
  <2>1. Searchable = ({wf.start, wf.exit} \subseteq E!NodeIDs(wf) \ {E!NoNode} /\ E!ConditionsParse(wf))
    BY EnumeratorOperators DEF Searchable
  <2>2. Searchable => wf.start \in NodeIDs(wf)
    BY DEF Searchable
  <2>3. QED
    BY <1>1, <1>2, <2>1, <2>2 DEF E!Begin, E!search, Begins
<1>3. CASE phase = "search" /\ trail # <<>>
  <2>1. OnTrail(trail, taken, tried)
    BY <1>3 DEF EnumerationKnown
  <2>2. /\ Here \in NodeIDs(wf) /\ Len(trail) \in Nat /\ Len(trail) >= 1 /\ Len(tried) = Len(trail)
        /\ DOMAIN trail = 1..Len(trail) /\ tried[Len(tried)] \in Nat
    BY <1>3, <2>1, TrailTyped DEF Here
  <2>3. E!Here = Here /\ E!Last(tried) = tried[Len(tried)] /\ E!EdgesFrom(wf, Here) = Out(Here)
    BY <2>2, EnumeratorOperators, OutTyped DEF E!Here, Here, Last
  <2>4. Len(Out(Here)) \in Nat /\ DOMAIN Out(Here) = 1..Len(Out(Here))
    BY <2>2, OutTyped
  <2>5. CASE E!ExploreEdge
    <3> DEFINE k == tried[Len(tried)] + 1
               e == Out(Here)[k]
    <3>1. /\ tried[Len(tried)] < Len(Out(Here)) /\ wf' = wf /\ phase' = phase
          /\ IF E!MayEnter(e.to) THEN E!Enter(e.to, Append(taken, e), [tried EXCEPT ![Len(tried)] = k])
             ELSE tried' = [tried EXCEPT ![Len(tried)] = k] /\ UNCHANGED <<trail, taken, results>>
      BY <2>3, <2>5 DEF E!ExploreEdge
    <3>2. k \in DOMAIN Out(Here)
      BY <2>2, <2>4, <3>1
    <3>3. E!MayEnter(e.to) <=> May(e.to, trail, results)
      <4>1. \A id : E!VisitsOf(id) = VisitsUpTo(trail, Len(trail), id)
        BY <2>2, EnumeratorOperators DEF E!VisitsOf, VisitsUpTo
      <4>2. QED
        BY <4>1, EnumeratorOperators DEF E!MayEnter, May
    <3> HIDE DEF e
    <3>4. CASE May(e.to, trail, results)
      <4>1. e.to \in NodeIDs(wf)
        BY <3>4 DEF May
      <4>2. Entered(e.to, Append(taken, e), More(tried, k))
        BY <1>1, <3>1, <3>3, <3>4, <4>1 DEF More
      <4>3. QED
        BY <1>3, <3>1, <3>2, <3>4, <4>2 DEF Explores, e
    <3>5. CASE ~May(e.to, trail, results)
      <4>1. tried' = More(tried, k) /\ trail' = trail /\ taken' = taken /\ results' = results
        BY <3>1, <3>3, <3>5 DEF More
      <4>2. QED
        BY <1>3, <3>1, <3>2, <3>5, <4>1 DEF Explores, e
    <3>6. QED
      BY <3>4, <3>5
  <2>6. CASE E!Return
    BY <1>3, <2>3, <2>6, EnumeratorOperators DEF E!Return, Returns
  <2>7. CASE E!Begin \/ E!Stop
    BY <1>3, <2>7 DEF E!Begin, E!Stop
  <2>8. QED
    BY <2>5, <2>6, <2>7 DEF E!Next
<1>4. CASE E!Stop
  BY <1>4 DEF E!Stop, E!search, Stops
<1>5. QED
  BY <1>2, <1>3, <1>4 DEF E!Next, E!ExploreEdge, E!Return

(* What is said of the search depends on the workflow otherwise.           *)
LEMMA SameSearch ==
  ASSUME wf' = wf
  PROVE  /\ Searchable' <=> Searchable
         /\ \A nodes, edges, counts : OnTrail(nodes, edges, counts)' <=> OnTrail(nodes, edges, counts)
         /\ \A list, nodes, edges, counts :
               Found(list, nodes, edges, counts)' <=> Found(list, nodes, edges, counts)
<1>1. NodeIDs(wf)' = NodeIDs(wf) /\ (\A id : Out(id)' = Out(id)) /\ (\A id : StatusOf(id)' = StatusOf(id))
      /\ (Searchable' <=> Searchable)
  BY DEF NodeIDs, Out, StatusOf, Searchable
<1>2. AllEdges' = AllEdges /\ (\A id : AtEnd(id)' <=> AtEnd(id))
  BY <1>1 DEF AllEdges, AtEnd
<1>3. Paths' = Paths /\ (\A p, i : GoesOnAt(p, i)' <=> GoesOnAt(p, i))
  BY <1>1, <1>2 DEF Paths, GoesOnAt
<1>4. \A p : IsWalk(p)' <=> IsWalk(p)
  BY <1>1, <1>3 DEF IsWalk
<1>5. \A p : Completes(p)' <=> Completes(p)
  BY <1>2, <1>4 DEF Completes
<1>6. \A nodes, edges : WalkOf(nodes, edges)' = WalkOf(nodes, edges)
  BY <1>1 DEF WalkOf
<1>7. \A nodes, edges, counts : OnTrail(nodes, edges, counts)' <=> OnTrail(nodes, edges, counts)
  BY <1>1, <1>2, <1>4, <1>6 DEF OnTrail
<1>8. \A p, d, nodes, edges, counts : AheadAt(p, d, nodes, edges, counts)' <=> AheadAt(p, d, nodes, edges, counts)
  BY <1>1 DEF AheadAt
<1>9. \A p, nodes, edges, counts : Ahead(p, nodes, edges, counts)' <=> Ahead(p, nodes, edges, counts)
  BY <1>8 DEF Ahead
<1>10. \A list, nodes, edges, counts :
          Found(list, nodes, edges, counts)' <=> Found(list, nodes, edges, counts)
  BY <1>5, <1>9 DEF Found
<1>11. QED
  BY <1>1, <1>7, <1>10

SearchedTo == OnTrail(trail, taken, tried) /\ Found(results, trail, taken, tried)

LEMMA SearchedNext ==
  ASSUME wf' = wf, OnTrail(trail', taken', tried'), Found(results', trail', taken', tried')
  PROVE  SearchedTo'
BY SameSearch DEF SearchedTo

LEMMA EnumeratorKeepsKnown ==
  ASSUME wf \in Workflows, EnumerationKnown, E!Next
  PROVE  EnumerationKnown'
<1>1. wf' = wf /\ (Searchable' <=> Searchable)
  BY EnumeratorSteps, SameSearch
<1>2. CASE Begins
  <2>1. CASE Searchable
    <3>1. phase = "start" /\ phase' = "search" /\ wf.start \in NodeIDs(wf)
          /\ trail = <<>> /\ taken = <<>> /\ tried = <<>> /\ results = <<>>
          /\ Entered(wf.start, <<>>, <<>>)
      BY <1>2, <2>1 DEF Begins, Searchable, EnumerationKnown
    <3>2. CASE AtEnd(wf.start)
      <4>1. Extends(results', <<>>, WalkOf(<<wf.start>>, <<>>)) /\ tried' = <<>> /\ trail' = <<>> /\ taken' = <<>>
        <5>1. WalkOf(<<wf.start>>, <<>>)
                = [nodes |-> Append(trail, wf.start), edges |-> <<>>, status |-> StatusOf(wf.start)]
          BY <3>1 DEF WalkOf
        <5>2. QED
          BY <3>1, <3>2, <5>1 DEF Entered, Extends
      <4>2. OnTrail(trail', taken', tried') /\ Found(results', trail', taken', tried')
        BY <3>1, <3>2, <4>1, BeginEnds
      <4>3. QED
        BY <1>1, <2>1, <3>1, <4>2, SearchedNext DEF EnumerationKnown, SearchedTo
    <3>3. CASE ~AtEnd(wf.start)
      <4>1. trail' = <<wf.start>> /\ taken' = <<>> /\ tried' = <<0>> /\ results' = <<>>
        BY <3>1, <3>3 DEF Entered
      <4>2. OnTrail(trail', taken', tried') /\ Found(results', trail', taken', tried')
        BY <3>1, <3>3, <4>1, BeginEnters
      <4>3. QED
        BY <1>1, <2>1, <3>1, <4>2, SearchedNext DEF EnumerationKnown, SearchedTo
    <3>4. QED
      BY <3>2, <3>3
  <2>2. CASE ~Searchable
    BY <1>1, <1>2, <2>2 DEF Begins, EnumerationKnown
  <2>3. QED
    BY <2>1, <2>2
<1>3. CASE Explores
  <2>1. /\ phase = "search" /\ phase' = "search" /\ trail # <<>> /\ Searchable
        /\ OnTrail(trail, taken, tried) /\ Found(results, trail, taken, tried)
    BY <1>3 DEF Explores, EnumerationKnown
  <2>2. Len(tried) = Len(trail)
    BY <2>1 DEF OnTrail
  <2> DEFINE e(k) == Out(Here)[k]
  <2>3. PICK k \in DOMAIN Out(Here) :
          /\ k = tried[Len(trail)] + 1
          /\ IF May(e(k).to, trail, results)
             THEN Entered(e(k).to, Append(taken, e(k)), More(tried, k))
             ELSE tried' = More(tried, k) /\ trail' = trail /\ taken' = taken /\ results' = results
    BY <1>3, <2>2 DEF Explores
  <2>4. OnTrail(trail', taken', tried') /\ Found(results', trail', taken', tried')
    <3>1. CASE ~May(e(k).to, trail, results)
      BY <2>1, <2>3, <3>1, ExploreSkips DEF Here
    <3>2. CASE May(e(k).to, trail, results) /\ AtEnd(e(k).to)
      <4>1. /\ results' = Append(results, [nodes |-> Append(trail, e(k).to), edges |-> Append(taken, e(k)),
                                           status |-> StatusOf(e(k).to)])
            /\ tried' = More(tried, k) /\ trail' = trail /\ taken' = taken
        BY <2>3, <3>2 DEF Entered
      <4>2. Extends(results', results, Longer(WalkOf(trail, taken), e(k)))
        BY <4>1 DEF Extends, Longer, WalkOf
      <4>3. QED
        BY <2>1, <2>3, <3>2, <4>1, <4>2, ExploreEnds DEF Here
    <3>3. CASE May(e(k).to, trail, results) /\ ~AtEnd(e(k).to)
      <4>1. trail' = Append(trail, e(k).to) /\ taken' = Append(taken, e(k)) /\ tried' = Append(More(tried, k), 0)
            /\ results' = results
        BY <2>3, <3>3 DEF Entered
      <4>2. QED
        BY <2>1, <2>3, <3>3, <4>1, ExploreEnters DEF Here
    <3>4. QED
      BY <3>1, <3>2, <3>3
  <2>5. QED
    BY <1>1, <2>1, <2>4, SearchedNext DEF EnumerationKnown, SearchedTo
<1>4. CASE Returns
  <2>1. /\ phase = "search" /\ phase' = "search" /\ trail # <<>> /\ Searchable
        /\ OnTrail(trail, taken, tried) /\ Found(results, trail, taken, tried)
        /\ tried[Len(tried)] = Len(Out(trail[Len(trail)]))
        /\ trail' = Front(trail) /\ tried' = Front(tried) /\ results' = results
        /\ taken' = IF taken = <<>> THEN <<>> ELSE Front(taken)
    BY <1>4 DEF Returns, EnumerationKnown, Here
  <2>2. Len(tried) = Len(trail)
    BY <2>1 DEF OnTrail
  <2>3. OnTrail(trail', taken', tried') /\ Found(results', trail', taken', tried')
    BY <2>1, <2>2, ReturnKeeps
  <2>4. QED
    BY <1>1, <2>1, <2>3, SearchedNext DEF EnumerationKnown, SearchedTo
<1>5. CASE Stops
  <2>1. /\ phase = "search" /\ trail = <<>> /\ trail' = trail /\ taken' = taken /\ tried' = tried /\ results' = results
        /\ phase' = IF results = <<>> THEN "error" ELSE "done"
        /\ Searchable /\ OnTrail(trail, taken, tried) /\ Found(results, trail, taken, tried)
    BY <1>5 DEF Stops, EnumerationKnown
  <2>2. OnTrail(trail', taken', tried') /\ Found(results', trail', taken', tried')
    BY <2>1
  <2>3. QED
    BY <1>1, <2>1, <2>2, SearchedNext DEF EnumerationKnown, SearchedTo
<1>6. QED
  BY <1>2, <1>3, <1>4, <1>5, EnumeratorSteps

LEMMA KnownUntouched ==
  ASSUME EnumerationKnown, wf' = wf, UNCHANGED enumeration
  PROVE  EnumerationKnown'
<1>1. phase' = phase /\ trail' = trail /\ taken' = taken /\ tried' = tried /\ results' = results
  BY DEF enumeration
<1>2. Searchable' <=> Searchable
  BY SameSearch
<1>3. SearchedTo => SearchedTo'
  BY <1>1, SearchedNext DEF SearchedTo
<1>4. QED
  BY <1>1, <1>2, <1>3 DEF EnumerationKnown, SearchedTo

LEMMA EnumerationInit == CommandInit => EnumerationKnown
BY DEF CommandInit, E!Fresh, EnumerationKnown

LEMMA EnumerationStep ==
  ASSUME RunKnown, EnumerationKnown, [CommandNext]_allVars
  PROVE  EnumerationKnown'
<1>1. wf \in Workflows
  BY DEF RunKnown, IInv, TypeOK
<1>2. CASE Validate
  <2>1. wf' = wf
    BY <1>2 DEF Validate, V!Next, V!CheckLocally, V!VisitBreadthFirst, V!FindUnreachableNodes,
                V!VisitNextNode, V!ProcessNeighbor, V!Leave, V!CyclesDone, V!CheckParallelFanIn
  <2>2. QED
    BY <1>2, <2>1, KnownUntouched DEF Validate
<1>3. CASE SimulateAllPaths
  BY <1>1, <1>3, EnumeratorKeepsKnown DEF SimulateAllPaths
<1>4. CASE SimulateSingle
  BY <1>4, WorkflowKept, KnownUntouched DEF SimulateSingle
<1>5. CASE UNCHANGED allVars
  BY <1>5, KnownUntouched DEF allVars, vars
<1>6. QED
  BY <1>2, <1>3, <1>4, <1>5 DEF CommandNext

(* Where the search stands, in every state of the command.                 *)
THEOREM EnumerationHolds == CommandSpec => []EnumerationKnown
<1>1. CommandInit => EnumerationKnown
  BY EnumerationInit
<1>2. RunKnown /\ EnumerationKnown /\ [CommandNext]_allVars => EnumerationKnown'
  BY EnumerationStep
<1>3. QED
  BY <1>1, <1>2, RunHolds, PTL DEF CommandSpec

(* "RunAllPaths enumerates all distinct execution paths", each "from start *)
(* to exit (or a dead end)" (path_enumerator.go:10): the results are the   *)
(* walks that come to an end without a third visit and within the depth    *)
(* limit, each once as long as no edge is declared twice, and all of them  *)
(* unless the result limit cut the search short, for any graph and limits. *)
THEOREM PathsAreListed == CommandSpec => []ResultsAreThePaths
<1>1. RunKnown /\ EnumerationKnown => ResultsAreThePaths
  <2> SUFFICES ASSUME RunKnown, EnumerationKnown, phase = "done" PROVE E!ResultsAreThePaths
    BY DEF ResultsAreThePaths
  <2>1. wf \in Workflows /\ wf.start \in NodeIDs(wf)
    BY DEF RunKnown, IInv, TypeOK, EnumerationKnown, Searchable
  <2>2. trail = <<>> /\ Found(results, trail, taken, tried)
    BY DEF EnumerationKnown
  <2>3. \A p : ~Ahead(p, trail, taken, tried)
    BY <2>2 DEF Ahead
  <2> DEFINE Complete == {p \in E!Walks : E!IsEnd(E!Last(p.nodes))}
  <2>4. \A p : p \in Complete <=> Completes(p)
    <3>1. \A p : p \in E!Walks <=> IsWalk(p)
      BY <2>1, WalksAre
    <3>2. \A p : IsWalk(p) => E!IsEnd(E!Last(p.nodes)) = AtEnd(p.nodes[Len(p.nodes)])
      BY <2>1, EnumeratorExtends
    <3>3. QED
      BY <3>1, <3>2 DEF Completes
  <2>5. E!Range(results) = Range(results)
    BY EnumeratorOperators
  <2> HIDE DEF Complete
  <2>6. E!Range(results) \subseteq Complete
    BY <2>2, <2>4, <2>5 DEF Found
  <2>7. Len(results) < MaxResults => Complete \subseteq E!Range(results)
    BY <2>2, <2>3, <2>4, <2>5 DEF Found
  <2>8. E!IsInjective(wf.edges) => E!IsInjective(results)
    BY <2>2 DEF Found, E!IsInjective, IsInjective
  <2>9. QED
    BY <2>6, <2>7, <2>8 DEF E!ResultsAreThePaths, Complete
<1>2. QED
  BY <1>1, RunHolds, EnumerationHolds, PTL

-----------------------------------------------------------------------------
(* A run without fan-outs is a walk                                        *)

Plain == ~Forks /\ ~EmptyNames

\* Where a run in loop at has come: it left every node but the last along an
\* edge, and it ended at an end.
CameBy(route, at, s) ==
    /\ at # "branch"
    /\ route # <<>> => route[1] = wf.start
    /\ \A i \in 1..(Len(route) - 1) : ~AtEnd(route[i])
    /\ at = "main" /\ route # <<>> => ~AtEnd(route[Len(route)])
    /\ s \in {"success", "dead_end"} =>
          route # <<>> /\ AtEnd(route[Len(route)]) /\ s = StatusOf(route[Len(route)])

\* With what a run that started says of the enumeration that came before it.
RunTraced ==
    /\ pc # "start" => phase \in {"done", "error"}
    /\ pc # "start" /\ status # "error" => Searchable
    /\ Plain => CameBy(path, pc, status)

\* Without a fan-out and without a node named "".
LEMMA PlainGraph ==
  ASSUME wf \in Workflows, Plain
  PROVE  /\ \A id \in NodeIDs(wf) : NodeOf(wf, id).kind # "parallel"
         /\ \A id : TargetsOf(wf, id) = <<>>
         /\ \A id \in NodeIDs(wf) : \A e \in Range(Out(id)) : e.to # NoNode
<1>1. \A id \in NodeIDs(wf) : NodeOf(wf, id).kind # "parallel"
  BY NodeOfIsListed DEF Plain, Forks
<1>2. \A id : TargetsOf(wf, id) = <<>>
  BY <1>1 DEF TargetsOf
<1>3. ASSUME NEW id \in NodeIDs(wf), NEW e \in Range(Out(id)) PROVE e.to # NoNode
  <2>1. e \in Range(wf.edges) \/ e.to \in Range(TargetsOf(wf, id)) \cup NodeIDs(wf)
    BY <1>3, EdgesLead DEF Out
  <2>2. Range(TargetsOf(wf, id)) = {}
    <3>1. Range(<<>>) = {}
      BY DEF Range
    <3>2. QED
      BY <1>2, <3>1
  <2>3. QED
    BY <2>1, <2>2 DEF Plain, EmptyNames
<1>4. QED
  BY <1>1, <1>2, <1>3

\* What the invariant is about depends on the workflow otherwise.
LEMMA SamePlain ==
  ASSUME wf' = wf
  PROVE  /\ Plain' <=> Plain
         /\ Searchable' <=> Searchable
         /\ \A route, at, s : CameBy(route, at, s)' <=> CameBy(route, at, s)
<1>1. (\A id : Out(id)' = Out(id)) /\ NodeIDs(wf)' = NodeIDs(wf)
  BY DEF Out, NodeIDs
<1>2. Plain' <=> Plain
  BY <1>1 DEF Plain, Forks, EmptyNames
<1>3. \A id : (AtEnd(id)' <=> AtEnd(id)) /\ StatusOf(id)' = StatusOf(id)
  BY <1>1 DEF AtEnd, StatusOf
<1>4. \A route, at, s : CameBy(route, at, s)' <=> CameBy(route, at, s)
  BY <1>3 DEF CameBy
<1>5. QED
  BY <1>2, <1>4, SameSearch

\* The main loop visits a node and comes to no other than the start first.
LEMMA PlainVisit ==
  ASSUME RunKnown, RunTraced, Plain, pc = "main", current \in NodeIDs(wf), Visits(current)
  PROVE  /\ path' # <<>> /\ path'[1] = wf.start /\ path'[Len(path')] = current
         /\ \A i \in 1..(Len(path') - 1) : ~AtEnd(path'[i])
<1> DEFINE n == Len(path)
<1>1. /\ n \in Nat /\ path \in Seq(NodeIDs(wf)) /\ Len(path') = n + 1 /\ path'[n + 1] = current
      /\ path' = Append(path, current) /\ \A i \in 1..n : path'[i] = path[i]
  <2>1. IInv
    BY DEF RunKnown
  <2>2. path \in Seq(NodeIDs(wf))
    BY <2>1 DEF IInv, TypeOK
  <2>3. QED
    BY <2>1, <2>2, VisitedPath
<1>2. path' # <<>>
  BY <1>1
<1>3. path'[1] = wf.start
  <2>1. CASE path = <<>>
    <3>1. current = wf.start /\ n = 0
      BY <2>1 DEF RunKnown, Arrived
    <3>2. QED
      BY <1>1, <3>1
  <2>2. CASE path # <<>>
    <3>1. path[1] = wf.start /\ 1 \in 1..n
      BY <1>1, <2>2 DEF RunTraced, CameBy
    <3>2. QED
      BY <1>1, <3>1
  <2>3. QED
    BY <2>1, <2>2
<1>4. ASSUME NEW i \in 1..(Len(path') - 1) PROVE ~AtEnd(path'[i])
  <2>1. i \in 1..n /\ path'[i] = path[i] /\ path # <<>>
    <3>1. i \in 1..n
      BY <1>1
    <3>2. path # <<>>
      BY <1>1, <3>1
    <3>3. QED
      BY <1>1, <3>1, <3>2
  <2>2. i = n \/ i \in 1..(n - 1)
    BY <1>1, <2>1
  <2>3. QED
    BY <2>1, <2>2 DEF RunTraced, CameBy
<1>5. QED
  BY <1>1, <1>2, <1>3, <1>4

LEMMA PlainAdvances ==
  ASSUME RunKnown, RunTraced, Plain, Advance
  PROVE  \/ AtEnd(current) /\ pc' = "done" /\ status' = StatusOf(current)
         \/ ~AtEnd(current) /\ pc' = "main" /\ status' = status
<1> DEFINE edges == EdgesFrom(wf, current)
<1>1. /\ pc = "main" /\ current \in NodeIDs(wf) /\ current # wf.exit
      /\ \E c : LET to == ChosenEdge(NodeOf(wf, current), edges, c, nodeVisits[current] + 1).to
                IN  \/ to = NoNode /\ pc' = "done" /\ status' = "dead_end"
                    \/ to # NoNode /\ pc' = pc /\ status' = status
  BY DEF Advance, Finish
<1>2. PICK c : LET to == ChosenEdge(NodeOf(wf, current), edges, c, nodeVisits[current] + 1).to
               IN  \/ to = NoNode /\ pc' = "done" /\ status' = "dead_end"
                   \/ to # NoNode /\ pc' = pc /\ status' = status
  BY <1>1
<1> DEFINE e == ChosenEdge(NodeOf(wf, current), edges, c, nodeVisits[current] + 1)
<1>3. wf \in Workflows
  BY DEF RunKnown, IInv, TypeOK
<1>4. CASE edges = <<>>
  <2>1. e.to = NoNode
    BY <1>4 DEF ChosenEdge, NoEdge, Edge
  <2>2. AtEnd(current)
    BY <1>4 DEF AtEnd, Out
  <2>3. QED
    BY <1>1, <1>2, <2>1, <2>2 DEF StatusOf
<1>5. CASE edges # <<>>
  <2>1. edges \in Seq(Range(edges))
    BY <1>1, <1>3, NodeEdges
  <2> HIDE DEF edges
  <2>2. e \in Range(edges)
    BY <1>5, <2>1, ChosenIsEdge
  <2>3. e.to # NoNode
    BY <1>1, <1>3, <2>2, PlainGraph DEF Out, edges
  <2>4. ~AtEnd(current)
    BY <1>1, <1>5 DEF AtEnd, Out, edges
  <2>5. QED
    BY <1>1, <1>2, <2>3, <2>4
<1>6. QED
  BY <1>4, <1>5

\* One step of the run.
LEMMA NextTraces ==
  ASSUME RunKnown, RunTraced, Next, phase \in {"done", "error"}, phase' = phase
  PROVE  RunTraced'
<1>1. /\ wf \in Workflows /\ wf' = wf /\ pc # "done" /\ status = "running"
      /\ pc = "start" => path = <<>>
  <2>1. pc # "done"
    BY DEF Next, Start, UnknownNode, PromptError, ReachExit, Fork, Advance, NextBranch, BranchStep,
           BranchArrives, Rejoin, StepLimit
  <2>2. QED
    BY <2>1, WorkflowKept DEF RunKnown, IInv, TypeOK, NothingBeforeStart
<1>2. (Plain' <=> Plain) /\ (Searchable' <=> Searchable)
      /\ \A route, at, s : CameBy(route, at, s)' <=> CameBy(route, at, s)
  BY <1>1, SamePlain
<1>3. pc' # "start" /\ status' # "error" => Searchable
  <2>1. CASE pc = "start"
    BY <2>1 DEF Next, Start, Fail, Searchable, UnknownNode, PromptError, ReachExit, Fork, Advance, NextBranch,
                BranchStep, BranchArrives, Rejoin, StepLimit
  <2>2. CASE pc # "start"
    BY <1>1, <2>2 DEF RunTraced
  <2>3. QED
    BY <2>1, <2>2
<1>4. ASSUME Plain PROVE CameBy(path', pc', status')
  <2>1. pc # "branch" /\ \A id \in NodeIDs(wf) : NodeOf(wf, id).kind # "parallel"
    BY <1>1, <1>4, PlainGraph DEF RunTraced, CameBy
  <2>2. CASE Start
    <3>1. path' = path /\ path = <<>> /\ \/ pc' = "main" /\ status' = status
                                         \/ pc' = "done" /\ status' = "error"
      BY <1>1, <2>2 DEF Start, Fail
    <3>2. 1..(Len(path) - 1) = {}
      <4>1. 1..(Len(<<>>) - 1) = {}
        OBVIOUS
      <4>2. QED
        BY <3>1, <4>1
    <3>3. QED
      BY <1>1, <3>1, <3>2 DEF CameBy
  <2>3. CASE UnknownNode \/ PromptError \/ StepLimit
    <3>1. path' = path /\ pc' = "done" /\ status' = "error"
      BY <2>3 DEF UnknownNode, PromptError, StepLimit, Fail
    <3>2. QED
      BY <1>4, <3>1 DEF RunTraced, CameBy
  <2>4. CASE ReachExit
    <3>1. /\ pc = "main" /\ current = wf.exit /\ current \in NodeIDs(wf) /\ pc' = "done" /\ status' = "success"
          /\ Visits(current)
      BY <2>4 DEF RunKnown, ReachExit, Visits, Finish, inputs, IInv, EndsKnown
    <3>2. AtEnd(current) /\ status' = StatusOf(current)
      BY <3>1 DEF AtEnd, StatusOf
    <3>3. QED
      BY <1>4, <3>1, <3>2, PlainVisit DEF CameBy
  <2>5. CASE Advance
    <3>1. pc = "main" /\ current \in NodeIDs(wf) /\ Visits(current)
      BY <2>5, ZenonT(40) DEF Advance, Visits, Finish, inputs
    <3>2. QED
      BY <1>1, <1>4, <2>5, <3>1, PlainAdvances, PlainVisit DEF CameBy
  <2>6. CASE Fork
    BY <2>1, <2>6 DEF Fork
  <2>7. CASE NextBranch \/ BranchStep \/ BranchArrives \/ Rejoin
    BY <2>1, <2>7 DEF NextBranch, BranchStep, BranchArrives, Rejoin
  <2>8. QED
    BY <2>2, <2>3, <2>4, <2>5, <2>6, <2>7 DEF Next
<1>5. QED
  BY <1>2, <1>3, <1>4 DEF RunTraced

LEMMA TracedKept ==
  ASSUME RunTraced, UNCHANGED vars, pc # "start" => phase' = phase
  PROVE  RunTraced'
<1>1. wf' = wf /\ path' = path /\ pc' = pc /\ status' = status
  BY DEF vars
<1>2. (Plain' <=> Plain) /\ (Searchable' <=> Searchable)
      /\ \A route, at, s : CameBy(route, at, s)' <=> CameBy(route, at, s)
  BY <1>1, SamePlain
<1>3. QED
  BY <1>1, <1>2 DEF RunTraced

LEMMA TracedInit == CommandInit => RunTraced
<1> SUFFICES ASSUME CommandInit PROVE RunTraced
  OBVIOUS
<1>1. Init
  BY DEF CommandInit
<1>2. pc = "start" /\ status = "running" /\ path = <<>>
  BY <1>1, ZenonT(20) DEF Init
<1>3. 1..(Len(path) - 1) = {}
  <2>1. 1..(Len(<<>>) - 1) = {}
    OBVIOUS
  <2>2. QED
    BY <1>2, <2>1
<1>4. CameBy(path, pc, status)
  BY <1>2, <1>3 DEF CameBy
<1>5. QED
  BY <1>2, <1>4 DEF RunTraced

LEMMA TracedStep ==
  ASSUME RunKnown, RunTraced, [CommandNext]_allVars
  PROVE  RunTraced'
<1>1. CASE Validate
  <2>1. UNCHANGED run /\ UNCHANGED enumeration /\ V!Next
    BY <1>1 DEF Validate
  <2>2. wf' = wf
    BY <2>1 DEF V!Next, V!CheckLocally, V!VisitBreadthFirst, V!FindUnreachableNodes, V!VisitNextNode,
                V!ProcessNeighbor, V!Leave, V!CyclesDone, V!CheckParallelFanIn
  <2>3. UNCHANGED vars /\ phase' = phase
    BY <2>1, <2>2 DEF run, vars, enumeration
  <2>4. QED
    BY <2>3, TracedKept
<1>2. CASE SimulateAllPaths
  <2>1. UNCHANGED run /\ E!Next
    BY <1>2 DEF SimulateAllPaths
  <2>2. wf' = wf /\ phase \in {"start", "search"}
    BY <2>1 DEF E!Next, E!Begin, E!ExploreEdge, E!Return, E!Stop
  <2>3. pc = "start"
    BY <2>2 DEF RunTraced
  <2>4. UNCHANGED vars
    BY <2>1, <2>2 DEF run, vars
  <2>5. QED
    BY <2>3, <2>4, TracedKept
<1>3. CASE SimulateSingle
  BY <1>3, NextTraces DEF SimulateSingle, enumeration
<1>4. CASE UNCHANGED allVars
  BY <1>4, TracedKept DEF allVars, vars, enumeration
<1>5. QED
  BY <1>1, <1>2, <1>3, <1>4 DEF CommandNext

(* The path of a run without fan-outs that ended is a complete walk, if it *)
(* is no longer and passes no node more often than the enumerator goes.    *)
LEMMA PathCompletes ==
  ASSUME RunKnown, RunTraced, Plain, Ended, Len(path) <= MaxDepth + 1,
         \A id \in NodeIDs(wf) : nodeVisits[id] <= 2
  PROVE  \E p : Completes(p) /\ p.nodes = path /\ p.status = status
<1> DEFINE n == Len(path) - 1
           Along(i) == CHOOSE e \in Range(Out(path[i])) : e.to = path[i + 1]
           along == [i \in 1..n |-> Along(i)]
           p == [nodes |-> path, edges |-> along, status |-> status]
<1>1. /\ wf \in Workflows /\ path \in Seq(NodeIDs(wf)) /\ PathFollowsGraph /\ VisitsMatchPath
      /\ nodeVisits \in [NodeIDs(wf) -> Nat]
  BY DEF RunKnown, IInv, TypeOK, WalkKnown
<1>2. /\ path # <<>> /\ path[1] = wf.start /\ AtEnd(path[Len(path)]) /\ status = StatusOf(path[Len(path)])
      /\ \A i \in 1..(Len(path) - 1) : ~AtEnd(path[i])
  BY DEF RunTraced, CameBy, Ended
<1>3. /\ n \in Nat /\ Len(path) = n + 1 /\ DOMAIN path = 1..(n + 1) /\ n <= MaxDepth
      /\ \A i \in 1..(n + 1) : path[i] \in NodeIDs(wf)
  BY <1>1, <1>2, LimitsAssumption
<1> HIDE DEF n
<1>4. ASSUME NEW i \in 1..n
      PROVE  /\ Along(i) \in Range(Out(path[i])) /\ Along(i).to = path[i + 1]
             /\ Along(i) \in AllEdges
  <2>1. i \in 1..(Len(path) - 1) /\ i \in 1..(n + 1)
    BY <1>3
  <2>2. Continues(i, path[i + 1])
    BY <1>1, <2>1 DEF PathFollowsGraph
  <2>3. ForkedBefore(i) = {}
    BY <1>1, PlainGraph DEF ForkedBefore
  <2>4. \E e \in Range(Out(path[i])) : e.to = path[i + 1]
    BY <2>2, <2>3 DEF Continues, Out
  <2>5. Along(i) \in Range(Out(path[i])) /\ Along(i).to = path[i + 1]
    BY <2>4
  <2>6. QED
    BY <1>3, <2>1, <2>5 DEF AllEdges
<1> HIDE DEF Along
<1>5. along \in Seq(AllEdges) /\ Len(along) = n /\ \A i \in 1..n : along[i] = Along(i)
  BY <1>3, <1>4
<1> HIDE DEF along
<1>6. p \in Paths /\ p.nodes = path /\ p.edges = along /\ p.status = status
  <2>1. status \in {"success", "dead_end"}
    BY DEF Ended
  <2>2. QED
    BY <1>1, <1>5, <2>1 DEF Paths
<1> HIDE DEF p
<1>7. ASSUME NEW i \in 1..n PROVE VisitsUpTo(path, i, path[i + 1]) < 2
  <2> DEFINE id == path[i + 1]
             all == Occurrences(id)
             before == {j \in 1..i : path[j] = id}
  <2>1. i \in Nat /\ i + 1 \in 1..(n + 1) /\ i + 1 \notin 1..i /\ 1..i \subseteq 1..(n + 1) /\ id \in NodeIDs(wf)
    BY <1>3
  <2>2. IsFiniteSet(all) /\ Cardinality(all) <= 2
    <3>1. IsFiniteSet(1..(n + 1)) /\ all \subseteq 1..(n + 1)
      BY <1>3, FS_Interval DEF Occurrences
    <3>2. IsFiniteSet(all)
      BY <3>1, FS_Subset
    <3>3. nodeVisits[id] = Cardinality(all)
      BY <1>1, <2>1 DEF VisitsMatchPath
    <3>4. QED
      BY <2>1, <3>2, <3>3
  <2>3. before \subseteq all /\ i + 1 \in all /\ i + 1 \notin before
    BY <1>3, <2>1 DEF Occurrences
  <2> HIDE DEF all, before
  <2>4. IsFiniteSet(before) /\ Cardinality(before) <= Cardinality(all) /\ Cardinality(before) # Cardinality(all)
    <3>1. before \in SUBSET all /\ before # all
      BY <2>3
    <3>2. IsFiniteSet(before) /\ Cardinality(before) <= Cardinality(all)
          /\ (Cardinality(all) = Cardinality(before) => all = before)
      BY ONLY <2>2, <3>1, FS_Subset
    <3>3. QED
      BY <3>1, <3>2
  <2>5. Cardinality(before) \in Nat /\ Cardinality(all) \in Nat
    BY <2>2, <2>4, FS_CardinalityType
  <2>6. Cardinality(before) < 2
    BY ONLY <2>2, <2>4, <2>5
  <2>7. QED
    BY <2>6 DEF VisitsUpTo, before
<1>8. ASSUME NEW i \in 1..n PROVE GoesOnAt(p, i)
  <2>1. ~AtEnd(path[i])
    BY <1>2, <1>3
  <2>2. QED
    BY <1>4, <1>5, <1>6, <1>7, <2>1 DEF GoesOnAt
<1>9. IsWalk(p)
  <2>1. Len(p.nodes) = Len(p.edges) + 1 /\ Len(p.edges) <= MaxDepth /\ 1..Len(p.edges) = 1..n
    BY <1>3, <1>5, <1>6
  <2>2. p.status = StatusOf(p.nodes[Len(p.nodes)]) /\ p.nodes[1] = wf.start
    BY <1>2, <1>6
  <2>3. QED
    BY <1>6, <1>8, <2>1, <2>2 DEF IsWalk
<1>10. QED
  BY <1>2, <1>6, <1>9 DEF Completes

(* Whatever conditions, labels and visit limits make of a run without      *)
(* fan-outs, the enumerator listed its path, with the status it ended with *)
(* (simulator/simulate.go Run against path_enumerator.go RunAllPaths), if  *)
(* it stays within the enumerator's limits.                                *)
THEOREM RunsAreListed == CommandSpec => []RunsAreAnnounced
<1>1. CommandInit => RunTraced
  BY TracedInit
<1>2. RunKnown /\ RunTraced /\ [CommandNext]_allVars => RunTraced'
  BY TracedStep
<1>3. RunKnown /\ RunTraced /\ EnumerationKnown => RunsAreAnnounced
  <2> SUFFICES ASSUME RunKnown, RunTraced, EnumerationKnown, Ended, Len(results) < MaxResults,
                      Len(path) <= MaxDepth + 1, Plain, \A id \in NodeIDs(wf) : nodeVisits[id] <= 2
               PROVE  Announced
    BY DEF RunsAreAnnounced, Plain
  <2>1. PICK p : Completes(p) /\ p.nodes = path /\ p.status = status
    BY PathCompletes
  <2>2. pc # "start" /\ status # "error"
    BY DEF RunKnown, IInv, TypeOK, Ended
  <2>3. Searchable /\ phase \in {"done", "error"}
    BY <2>2 DEF RunTraced
  <2>4. trail = <<>> /\ Found(results, trail, taken, tried)
    BY <2>3 DEF EnumerationKnown
  <2>5. ~Ahead(p, trail, taken, tried)
    BY <2>4 DEF Ahead
  <2>6. p \in Range(results)
    BY <2>1, <2>4, <2>5 DEF Found
  <2>7. QED
    BY <2>1, <2>6 DEF Announced, Range
<1>4. QED
  BY <1>1, <1>2, <1>3, RunHolds, EnumerationHolds, PTL DEF CommandSpec

-----------------------------------------------------------------------------
(* The searches of coverage and of lint                                    *)

ClosedUnder(S, adj) == \A p \in adj : p[1] \in S => p[2] \in S

(* A search returns the least set that has its start and that no pair      *)
(* leaves.                                                                 *)
LEMMA SearchIsClosed ==
  ASSUME NEW start, NEW adj
  PROVE  start \in C!BfsFrom(start, adj) /\ ClosedUnder(C!BfsFrom(start, adj), adj)
<1> DEFINE ids == {start} \cup {p[2] : p \in adj}
           closed == {S \in SUBSET ids : start \in S /\ \A p \in adj : p[1] \in S => p[2] \in S}
<1>1. C!BfsFrom(start, adj) = {id \in ids : \A S \in closed : id \in S}
  BY DEF C!BfsFrom
<1>2. start \in C!BfsFrom(start, adj)
  BY <1>1
<1>3. ASSUME NEW p \in adj, p[1] \in C!BfsFrom(start, adj) PROVE p[2] \in C!BfsFrom(start, adj)
  <2>1. p[2] \in ids
    OBVIOUS
  <2>2. \A S \in closed : p[2] \in S
    BY <1>1, <1>3
  <2> HIDE DEF ids, closed
  <2>3. QED
    BY <1>1, <2>1, <2>2
<1>4. QED
  BY <1>2, <1>3 DEF ClosedUnder

LEMMA SearchIsLeast ==
  ASSUME NEW start, NEW adj, NEW S, start \in S, ClosedUnder(S, adj)
  PROVE  C!BfsFrom(start, adj) \subseteq S
<1> DEFINE ids == {start} \cup {p[2] : p \in adj}
           closed == {X \in SUBSET ids : start \in X /\ \A p \in adj : p[1] \in X => p[2] \in X}
<1>1. C!BfsFrom(start, adj) = {id \in ids : \A X \in closed : id \in X}
  BY DEF C!BfsFrom
<1>2. S \cap ids \in closed
  <2>1. S \cap ids \in SUBSET ids /\ start \in S \cap ids
    OBVIOUS
  <2>2. \A p \in adj : p[1] \in S \cap ids => p[2] \in S \cap ids
    BY DEF ClosedUnder
  <2> HIDE DEF ids
  <2>3. QED
    BY <2>1, <2>2
<1> HIDE DEF ids, closed
<1>3. QED
  BY <1>1, <1>2

LEMMA CoverageOperators ==
  /\ \A s : C!Range(s) = Range(s) /\ L!Range(s) = Range(s) /\ T!Range(s) = Range(s)
  /\ \A w : C!NodeIDs(w) = NodeIDs(w) /\ L!NodeIDs(w) = NodeIDs(w)
  /\ \A w, id : L!NodeOf(w, id) = NodeOf(w, id)
  /\ \A w, id : L!TargetsOf(w, id) = TargetsOf(w, id)
  /\ \A w : L!FanOutWays(w) = C!FanOutWays(w) /\ L!FanInWays(w) = C!FanInWays(w)
  /\ \A start, adj : L!BfsFrom(start, adj) = C!BfsFrom(start, adj)
  /\ L!NoNode = NoNode
<1>1. \A s : C!Range(s) = Range(s) /\ L!Range(s) = Range(s) /\ T!Range(s) = Range(s)
  BY DEF C!Range, L!Range, T!Range, Range
<1>2. \A w : C!NodeIDs(w) = NodeIDs(w) /\ L!NodeIDs(w) = NodeIDs(w)
  BY DEF C!NodeIDs, L!NodeIDs, NodeIDs
<1>3. \A w, id : L!NodeOf(w, id) = NodeOf(w, id)
  BY DEF L!NodeOf, NodeOf, L!SelectInSeq, SelectInSeq, L!Min, Min
<1>4. \A w, id : L!TargetsOf(w, id) = TargetsOf(w, id)
  BY <1>2, <1>3 DEF L!TargetsOf, TargetsOf
<1>5. \A w : L!FanOutWays(w) = C!FanOutWays(w) /\ L!FanInWays(w) = C!FanInWays(w)
  BY DEF L!FanOutWays, C!FanOutWays, L!FanInWays, C!FanInWays, L!NodesOfKind, C!NodesOfKind, L!Range, C!Range
<1>6. \A start, adj : L!BfsFrom(start, adj) = C!BfsFrom(start, adj)
  BY DEF L!BfsFrom, C!BfsFrom
<1>7. L!NoNode = NoNode
  BY DEF L!NoNode, NoNode
<1>8. QED
  BY <1>1, <1>2, <1>3, <1>4, <1>5, <1>6, <1>7

-----------------------------------------------------------------------------
(* Edges and ways                                                          *)

Declared(id) == {e \in Range(wf.edges) : e.from = id}
Joining(id) == {n.id : n \in {x \in Range(wf.nodes) : x.kind = "fan_in" /\ id \in Range(x.sources)}}
Implied(id) == Range(TargetsOf(wf, id)) \cup Joining(id)

(* EdgesFrom returns the declared edges, and an edge to every target and   *)
(* join that none of them leads to without a condition.                    *)
LEMMA EdgesAre ==
  ASSUME wf \in Workflows, NEW id \in NodeIDs(wf)
  PROVE  Range(EdgesFrom(wf, id)) =
            Declared(id) \cup {ImplicitEdge(id, t) :
                t \in Implied(id) \ {e.to : e \in {x \in Declared(id) : x.cond = NoCond}}}
<1> DEFINE own == {i \in DOMAIN wf.edges : wf.edges[i].from = id}
           explicit == Keep(wf.edges, own)
           plain == {x.to : x \in {y \in Range(explicit) : y.cond = NoCond}}
           waiting == {i \in DOMAIN wf.nodes : wf.nodes[i].kind = "fan_in" /\ id \in Range(wf.nodes[i].sources)}
           chosen == Keep(wf.nodes, waiting)
           joins == [i \in DOMAIN chosen |-> chosen[i].id]
           targets == TargetsOf(wf, id)
           ends == targets \o joins
           first == {i \in DOMAIN ends : ends[i] \notin plain /\ \A j \in 1..(i - 1) : ends[j] # ends[i]}
           implied == Keep(ends, first)
           implicit == [i \in DOMAIN implied |-> ImplicitEdge(id, implied[i])]
           D == Range(wf.edges)
           P == {ImplicitEdge(id, t) : t \in STRING}
<1>1. EdgesFrom(wf, id) = explicit \o implicit
  BY DEF EdgesFrom, IDsWhere
<1>2. explicit \in Seq(D) /\ Range(explicit) = {wf.edges[i] : i \in own}
  <2>1. wf.edges \in Seq(D)
    BY GraphTyped
  <2> HIDE DEF D
  <2>2. QED
    BY <2>1, KeepElements
<1>3. Range(explicit) = Declared(id)
  BY <1>2 DEF Declared, Range
<1>4. joins \in Seq(STRING) /\ Range(joins) = Joining(id)
  <2>1. joins \in Seq(STRING) /\ Range(joins) = {wf.nodes[i].id : i \in waiting}
    BY ChosenIDs
  <2>2. {wf.nodes[i].id : i \in waiting} = Joining(id)
    BY DEF Joining, Range
  <2>3. QED
    BY <2>1, <2>2
<1>5. targets \in Seq(STRING)
  BY TargetsTyped
<1>6. ends \in Seq(STRING) /\ Range(ends) = Implied(id)
  <2> HIDE DEF joins, targets
  <2>1. ends \in Seq(STRING) /\ Range(ends) = Range(targets) \cup Range(joins)
    BY <1>4, <1>5, ConcatElements
  <2>2. QED
    BY <1>4, <2>1 DEF Implied, targets
<1>7. implied \in Seq(STRING) /\ Range(implied) = Implied(id) \ plain
  <2> HIDE DEF ends, plain
  <2>1. implied \in Seq(STRING) /\ Range(implied) = {ends[i] : i \in first}
    BY <1>6, KeepElements
  <2>2. {ends[i] : i \in first} = Range(ends) \ plain
    BY <1>6, FirstOnes
  <2>3. QED
    BY <1>6, <2>1, <2>2
<1> HIDE DEF implied, explicit
<1>8. implicit \in Seq(P) /\ Range(implicit) = {ImplicitEdge(id, t) : t \in Range(implied)}
  <2>1. \A i \in DOMAIN implied : implicit[i] \in P
    <3>1. \A i \in DOMAIN implied : implied[i] \in STRING
      BY <1>7
    <3>2. QED
      BY <3>1
  <2>2. DOMAIN implicit = DOMAIN implied /\ implicit = [i \in DOMAIN implied |-> implicit[i]]
    OBVIOUS
  <2>3. Range(implicit) = {ImplicitEdge(id, t) : t \in Range(implied)}
    BY DEF Range
  <2>4. implicit \in Seq(P)
    <3> HIDE DEF implicit, P
    <3>1. QED
      BY <1>7, <2>1, <2>2, MappedSeq
  <2>5. QED
    BY <2>3, <2>4
<1> HIDE DEF implicit, P, D
<1>9. Range(EdgesFrom(wf, id)) = Range(explicit) \cup Range(implicit)
  <2> DEFINE S == D \cup P
  <2>1. explicit \in Seq(S) /\ implicit \in Seq(S)
    <3>1. D \subseteq S /\ P \subseteq S
      OBVIOUS
    <3> HIDE DEF S
    <3>2. QED
      BY <1>2, <1>8, <3>1
  <2> HIDE DEF S
  <2>2. QED
    BY <1>1, <2>1, ConcatElements
<1>10. plain = {e.to : e \in {x \in Declared(id) : x.cond = NoCond}}
  BY <1>3
<1> HIDE DEF plain
<1>11. QED
  BY <1>3, <1>7, <1>8, <1>9, <1>10

(* In other words: where the edges lead.                                   *)
LEMMA WhereEdgesLead ==
  ASSUME wf \in Workflows, NEW id \in NodeIDs(wf)
  PROVE  /\ \A e \in Range(EdgesFrom(wf, id)) : e \in Declared(id) \/ e.to \in Implied(id)
         /\ Declared(id) \subseteq Range(EdgesFrom(wf, id))
         /\ \A t \in Implied(id) : \E e \in Range(EdgesFrom(wf, id)) : e.to = t
<1>1. \A t : ImplicitEdge(id, t).to = t
  BY DEF ImplicitEdge, Edge
<1>2. QED
  BY <1>1, EdgesAre

Forward == C!ForwardAdjacency(wf)
Backward == C!ReverseAdjacency(wf)
Onward == L!NonRestartAdjacency(wf)

(* The ways of coverage and lint are the edges of the simulator.           *)
LEMMA WaysAre ==
  /\ Forward = {<<e.from, e.to>> : e \in Range(wf.edges)} \cup C!FanOutWays(wf) \cup C!FanInWays(wf)
  /\ Onward = {<<e.from, e.to>> : e \in {x \in Range(wf.edges) : ~x.restart}}
                 \cup C!FanOutWays(wf) \cup C!FanInWays(wf)
  /\ Backward = {<<p[2], p[1]>> : p \in Forward}
  /\ \A n \in Range(wf.nodes) : n.kind = "parallel" => \A t \in Range(n.targets) : <<n.id, t>> \in C!FanOutWays(wf)
  /\ \A n \in Range(wf.nodes) : n.kind = "fan_in" => \A s \in Range(n.sources) : <<s, n.id>> \in C!FanInWays(wf)
  /\ \A p \in C!FanOutWays(wf) :
        \E n \in Range(wf.nodes) : n.kind = "parallel" /\ p[1] = n.id /\ p[2] \in Range(n.targets)
  /\ \A p \in C!FanInWays(wf) :
        \E n \in Range(wf.nodes) : n.kind = "fan_in" /\ p[2] = n.id /\ p[1] \in Range(n.sources)
<1> DEFINE Outs == C!FanOutWays(wf)
           Ins == C!FanInWays(wf)
           Par == {n \in Range(wf.nodes) : n.kind = "parallel"}
           Fan == {n \in Range(wf.nodes) : n.kind = "fan_in"}
<1>1. /\ Outs = UNION {{<<n.id, t>> : t \in Range(n.targets)} : n \in Par}
      /\ Ins = UNION {{<<s, n.id>> : s \in Range(n.sources)} : n \in Fan}
  BY CoverageOperators DEF C!FanOutWays, C!FanInWays, C!NodesOfKind
<1>2. Forward = {<<e.from, e.to>> : e \in Range(wf.edges)} \cup Outs \cup Ins
  BY CoverageOperators DEF Forward, C!ForwardAdjacency
<1>3. Onward = {<<e.from, e.to>> : e \in {x \in Range(wf.edges) : ~x.restart}} \cup Outs \cup Ins
  BY CoverageOperators DEF Onward, L!NonRestartAdjacency
<1>4. Backward = {<<e.to, e.from>> : e \in Range(wf.edges)}
                    \cup (UNION {{<<t, n.id>> : t \in Range(n.targets)} : n \in Par})
                    \cup (UNION {{<<n.id, s>> : s \in Range(n.sources)} : n \in Fan})
  BY CoverageOperators DEF Backward, C!ReverseAdjacency, C!NodesOfKind
<1>5. \A n \in Range(wf.nodes) : n.kind = "parallel" => \A t \in Range(n.targets) : <<n.id, t>> \in Outs
  BY <1>1
<1>6. \A n \in Range(wf.nodes) : n.kind = "fan_in" => \A s \in Range(n.sources) : <<s, n.id>> \in Ins
  BY <1>1
<1>7. \A p \in Outs : \E n \in Range(wf.nodes) : n.kind = "parallel" /\ p[1] = n.id /\ p[2] \in Range(n.targets)
  BY <1>1
<1>8. \A p \in Ins : \E n \in Range(wf.nodes) : n.kind = "fan_in" /\ p[2] = n.id /\ p[1] \in Range(n.sources)
  BY <1>1
<1>9. Backward = {<<p[2], p[1]>> : p \in Forward}
  <2>1. \A p \in Forward : <<p[2], p[1]>> \in Backward
    BY <1>1, <1>2, <1>4
  <2>2. \A q \in Backward : \E p \in Forward : q = <<p[2], p[1]>>
    <3> SUFFICES ASSUME NEW q \in Backward PROVE \E p \in Forward : q = <<p[2], p[1]>>
      OBVIOUS
    <3>1. CASE q \in {<<e.to, e.from>> : e \in Range(wf.edges)}
      <4>1. PICK e \in Range(wf.edges) : q = <<e.to, e.from>>
        BY <3>1
      <4>2. <<e.from, e.to>> \in Forward
        BY <1>2
      <4>3. QED
        BY <4>1, <4>2
    <3>2. CASE q \in UNION {{<<t, n.id>> : t \in Range(n.targets)} : n \in Par}
      <4>1. PICK n \in Par : \E t \in Range(n.targets) : q = <<t, n.id>>
        BY <3>2
      <4>2. PICK t \in Range(n.targets) : q = <<t, n.id>>
        BY <4>1
      <4>3. <<n.id, t>> \in Forward
        BY <1>2, <1>5
      <4>4. QED
        BY <4>2, <4>3
    <3>3. CASE q \in UNION {{<<n.id, s>> : s \in Range(n.sources)} : n \in Fan}
      <4>1. PICK n \in Fan : \E s \in Range(n.sources) : q = <<n.id, s>>
        BY <3>3
      <4>2. PICK s \in Range(n.sources) : q = <<n.id, s>>
        BY <4>1
      <4>3. <<s, n.id>> \in Forward
        BY <1>2, <1>6
      <4>4. QED
        BY <4>2, <4>3
    <3>4. QED
      BY <1>4, <3>1, <3>2, <3>3
  <2>3. QED
    BY <2>1, <2>2
<1>10. QED
  BY <1>2, <1>3, <1>5, <1>6, <1>7, <1>8, <1>9

Implicit == C!FanOutWays(wf) \cup C!FanInWays(wf)

LEMMA ImpliedAreWays ==
  ASSUME wf \in Workflows, NEW id \in NodeIDs(wf), NEW t \in Implied(id)
  PROVE  <<id, t>> \in Implicit
<1>1. CASE t \in Range(TargetsOf(wf, id))
  <2>1. TargetsOf(wf, id) # <<>>
    BY <1>1, CodedNone
  <2>2. NodeOf(wf, id).kind = "parallel" /\ t \in Range(NodeOf(wf, id).targets)
    BY <1>1, <2>1 DEF TargetsOf
  <2>3. NodeOf(wf, id) \in Range(wf.nodes) /\ NodeOf(wf, id).id = id
    BY NodeOfIsListed, NodeOfIsNode
  <2>4. QED
    BY <2>2, <2>3, WaysAre DEF Implicit
<1>2. CASE t \in Joining(id)
  <2>1. PICK n \in Range(wf.nodes) : n.kind = "fan_in" /\ id \in Range(n.sources) /\ t = n.id
    BY <1>2 DEF Joining
  <2>2. QED
    BY <2>1, WaysAre DEF Implicit
<1>3. QED
  BY <1>1, <1>2 DEF Implied

LEMMA JoinIsOnAWay ==
  ASSUME wf \in Workflows, NEW targets, JoinOf(wf, targets) # NoNode
  PROVE  \E s \in Range(targets) : <<s, JoinOf(wf, targets)>> \in Implicit
<1> DEFINE I == {i \in DOMAIN wf.nodes : /\ wf.nodes[i].kind = "fan_in"
                                        /\ wf.nodes[i].sources # <<>>
                                        /\ Range(wf.nodes[i].sources) \subseteq Range(targets)}
           chosen == Keep(wf.nodes, I)
           joins == [i \in DOMAIN chosen |-> chosen[i].id]
<1>1. JoinOf(wf, targets) = IF joins = <<>> THEN NoNode ELSE Head(joins)
  BY DEF JoinOf, IDsWhere
<1>2. joins \in Seq(NodeIDs(wf)) /\ Range(joins) = {wf.nodes[i].id : i \in I}
  <2>1. I \in SUBSET (DOMAIN wf.nodes)
    OBVIOUS
  <2> HIDE DEF I
  <2>2. QED
    BY <2>1, ChosenIDs
<1> HIDE DEF joins
<1>3. joins # <<>> /\ JoinOf(wf, targets) = joins[1] /\ 1 \in DOMAIN joins
  BY <1>1, <1>2
<1>4. PICK i \in I : JoinOf(wf, targets) = wf.nodes[i].id
  <2>1. joins[1] \in Range(joins)
    BY <1>3 DEF Range
  <2>2. QED
    BY <1>2, <1>3, <2>1
<1> DEFINE n == wf.nodes[i]
<1>5. n \in Range(wf.nodes) /\ n.sources \in Seq(STRING)
  <2>1. n \in Range(wf.nodes)
    BY <1>4 DEF Range
  <2>2. n \in NodeRecords
    BY <2>1, GraphTyped
  <2>3. QED
    BY <2>1, <2>2 DEF NodeRecords
<1>6. n.kind = "fan_in" /\ n.sources # <<>> /\ Range(n.sources) \subseteq Range(targets)
  BY <1>4
<1> HIDE DEF n
<1>7. n.sources[1] \in Range(n.sources)
  <2>1. 1 \in DOMAIN n.sources
    BY <1>5, <1>6
  <2>2. QED
    BY <2>1 DEF Range
<1>8. <<n.sources[1], n.id>> \in Implicit
  BY <1>5, <1>6, <1>7, WaysAre DEF Implicit
<1>9. QED
  BY <1>4, <1>6, <1>7, <1>8 DEF n

-----------------------------------------------------------------------------
(* The edges in the log                                                    *)

Traversed(log) == {<<x.from, x.to>> : x \in {y \in Range(log) : y.event = "edge_traverse"}}

LEMMA TraversedJoined ==
  ASSUME NEW a, a \in Seq(Range(a)), NEW b, b \in Seq(Range(b))
  PROVE  Traversed(a \o b) = Traversed(a) \cup Traversed(b)
<1> DEFINE S == Range(a) \cup Range(b)
<1>1. a \in Seq(S) /\ b \in Seq(S)
  <2>1. Range(a) \subseteq S /\ Range(b) \subseteq S
    OBVIOUS
  <2> HIDE DEF S
  <2>2. QED
    BY <2>1
<1> HIDE DEF S
<1>2. Range(a \o b) = Range(a) \cup Range(b)
  BY <1>1, ConcatElements
<1>3. QED
  BY <1>2 DEF Traversed

LEMMA TraversedAppended ==
  ASSUME NEW log, log \in Seq(Range(log)), NEW x
  PROVE  Traversed(Append(log, x)) =
            Traversed(log) \cup (IF x.event = "edge_traverse" THEN {<<x.from, x.to>>} ELSE {})
<1>1. Range(Append(log, x)) = Range(log) \cup {x}
  <2> DEFINE longer == Append(log, x)
  <2>1. /\ Len(log) \in Nat /\ DOMAIN log = 1..Len(log) /\ DOMAIN longer = 1..(Len(log) + 1)
        /\ \A i \in 1..Len(log) : longer[i] = log[i]
        /\ longer[Len(log) + 1] = x
    BY AppendedLog
  <2> HIDE DEF longer
  <2>2. 1..(Len(log) + 1) = 1..Len(log) \cup {Len(log) + 1}
    BY <2>1
  <2>3. Range(longer) = Range(log) \cup {x}
    BY <2>1, <2>2 DEF Range
  <2>4. QED
    BY <2>3 DEF longer
<1>2. QED
  BY <1>1 DEF Traversed

LEMMA TraversedByVisit ==
  ASSUME NEW log, log \in Seq(Range(log)), NEW n
  PROVE  /\ Traversed(log \o VisitEvents(n)) = Traversed(log)
         /\ log \o VisitEvents(n) \in Seq(Range(log \o VisitEvents(n)))
<1> DEFINE enter == NodeEvent("node_enter", n.id)
           exit == NodeEvent("node_exit", n.id)
           fork == NodeEvent("parallel_start", n.id)
           fanin == NodeEvent("parallel_end", n.id)
           X == {enter, exit, fork, fanin}
           more == VisitEvents(n)
<1>1. \A x \in X : x.event # "edge_traverse"
  BY DEF NodeEvent
<1> DEFINE Only(x) == <<x>>
           none == <<>>
           Join(q, r) == q \o r
<1>2. more \in Seq(X)
  <2>1. none \in Seq(X) /\ (\A x \in X : Only(x) \in Seq(X)) /\ \A q, r \in Seq(X) : Join(q, r) \in Seq(X)
    OBVIOUS
  <2>2. more = Join(Join(Only(enter), IF n.kind = "parallel" THEN Only(fork)
                                      ELSE IF n.kind = "fan_in" THEN Only(fanin) ELSE none), Only(exit))
    BY DEF VisitEvents
  <2>3. {enter, exit, fork, fanin} \subseteq X
    OBVIOUS
  <2> HIDE DEF more, X, enter, exit, fork, fanin, Only, none, Join
  <2>4. QED
    BY ONLY <2>1, <2>2, <2>3
<1> HIDE DEF more, X
<1>3. more \in Seq(Range(more)) /\ Range(more) \subseteq X
  <2>1. Len(more) \in Nat /\ DOMAIN more = 1..Len(more) /\ more = [i \in 1..Len(more) |-> more[i]]
        /\ \A i \in 1..Len(more) : more[i] \in X
    BY <1>2
  <2>2. \A i \in 1..Len(more) : more[i] \in Range(more)
    BY <2>1 DEF Range
  <2>3. QED
    BY <2>1, <2>2 DEF Range
<1>4. Traversed(more) = {}
  BY <1>1, <1>3 DEF Traversed
<1>5. Traversed(log \o more) = Traversed(log)
  <2>1. Traversed(log \o more) = Traversed(log) \cup Traversed(more)
    BY <1>3, TraversedJoined
  <2>2. QED
    BY <1>4, <2>1
<1>6. log \o more \in Seq(Range(log \o more))
  <2> DEFINE S == Range(log) \cup X
             all == log \o more
  <2>1. log \in Seq(S) /\ more \in Seq(S)
    BY <1>2
  <2>2. all \in Seq(S)
    BY <2>1
  <2> HIDE DEF S, all
  <2>3. Len(all) \in Nat /\ DOMAIN all = 1..Len(all) /\ all = [i \in 1..Len(all) |-> all[i]]
    BY <2>2
  <2>4. \A i \in 1..Len(all) : all[i] \in Range(all)
    BY <2>3 DEF Range
  <2>5. all \in Seq(Range(all))
    BY <2>3, <2>4
  <2>6. QED
    BY <2>5 DEF all
<1>7. QED
  BY <1>5, <1>6 DEF more

LEMMA TraversedByRoute ==
  ASSUME NEW log, log \in Seq(Range(log)), NEW n, NEW edges, NEW c, NEW visits
  PROVE  LET e == ChosenEdge(n, edges, c, visits)
             all == log \o RouteEvents(n, edges, c, visits)
         IN  /\ Traversed(all) = Traversed(log) \cup (IF edges = <<>> THEN {} ELSE {<<e.from, e.to>>})
             /\ all \in Seq(Range(all))
<1> DEFINE e == ChosenEdge(n, edges, c, visits)
           break == NodeEvent("loop_break", n.id)
           go == TraverseEvent(e)
           a == IF Breaks(n, edges, c, visits) THEN <<break>> ELSE <<>>
           b == IF edges = <<>> THEN <<>> ELSE <<go>>
           more == a \o b
           X == {break, go}
<1>1. break.event # "edge_traverse" /\ go.event = "edge_traverse" /\ go.from = e.from /\ go.to = e.to
  BY DEF NodeEvent, TraverseEvent
<1>2. RouteEvents(n, edges, c, visits) = more
  BY DEF RouteEvents
<1> HIDE DEF break, go, e
<1>3. /\ a \in Seq(X) /\ Range(a) \subseteq {break}
      /\ b \in Seq(X) /\ Range(b) = IF edges = <<>> THEN {} ELSE {go}
  <2>1. \A x \in X : <<x>> \in Seq(X) /\ Range(<<x>>) = {x}
    BY DEF Range
  <2>2. <<>> \in Seq(X) /\ Range(<<>>) = {}
    BY DEF Range
  <2> HIDE DEF X
  <2>3. break \in X /\ go \in X
    BY DEF X
  <2>4. QED
    BY <2>1, <2>2, <2>3
<1> HIDE DEF a, b, X
<1>4. more \in Seq(X) /\ Range(more) = Range(a) \cup Range(b)
  BY <1>3, ConcatElements
<1> HIDE DEF more
<1>5. more \in Seq(Range(more))
  <2>1. Len(more) \in Nat /\ DOMAIN more = 1..Len(more) /\ more = [i \in 1..Len(more) |-> more[i]]
    BY <1>4
  <2>2. \A i \in 1..Len(more) : more[i] \in Range(more)
    BY <2>1 DEF Range
  <2>3. QED
    BY <2>1, <2>2
<1>6. Traversed(more) = IF edges = <<>> THEN {} ELSE {<<e.from, e.to>>}
  BY <1>1, <1>3, <1>4 DEF Traversed
<1>7. Traversed(log \o more) = Traversed(log) \cup Traversed(more)
  BY <1>5, TraversedJoined
<1>8. log \o more \in Seq(Range(log \o more))
  <2> DEFINE S == Range(log) \cup X
             all == log \o more
  <2>1. log \in Seq(S) /\ more \in Seq(S)
    BY <1>4
  <2>2. all \in Seq(S)
    BY <2>1
  <2> HIDE DEF S, all
  <2>3. Len(all) \in Nat /\ DOMAIN all = 1..Len(all) /\ all = [i \in 1..Len(all) |-> all[i]]
    BY <2>2
  <2>4. \A i \in 1..Len(all) : all[i] \in Range(all)
    BY <2>3 DEF Range
  <2>5. all \in Seq(Range(all))
    BY <2>3, <2>4
  <2>6. QED
    BY <2>5 DEF all
<1>9. QED
  BY <1>2, <1>6, <1>7, <1>8 DEF e

-----------------------------------------------------------------------------
(* Where a step takes the run, and which edge it logs                      *)

\* The run leaves id along e, and says so.
Leaves(id, e) ==
    /\ e \in Range(EdgesFrom(wf, id))
    /\ Traversed(events') = Traversed(events) \cup {<<id, e.to>>}

\* The run finds no edge at id.
FindsNone(id) == EdgesFrom(wf, id) = <<>> /\ Traversed(events') = Traversed(events)

LEMMA ChosenIsLogged ==
  ASSUME wf \in Workflows, NEW id \in NodeIDs(wf), NEW n, NEW c, NEW visits, NEW log, log \in Seq(Range(log)),
         Traversed(log) = Traversed(events),
         Traversed(events') = Traversed(log \o RouteEvents(n, EdgesFrom(wf, id), c, visits))
  PROVE  LET e == ChosenEdge(n, EdgesFrom(wf, id), c, visits)
         IN  Leaves(id, e) \/ (FindsNone(id) /\ e.to = NoNode)
<1> DEFINE edges == EdgesFrom(wf, id)
           e == ChosenEdge(n, edges, c, visits)
<1>1. edges \in Seq(Range(edges)) /\ \A x \in Range(edges) : x.from = id
  BY NodeEdges
<1>2. Traversed(events') = Traversed(log) \cup (IF edges = <<>> THEN {} ELSE {<<e.from, e.to>>})
  BY TraversedByRoute
<1>3. CASE edges = <<>>
  <2>1. e.to = NoNode
    BY <1>3 DEF ChosenEdge, NoEdge, Edge
  <2>2. QED
    BY <1>2, <1>3, <2>1 DEF FindsNone
<1>4. CASE edges # <<>>
  <2> HIDE DEF edges
  <2>1. e \in Range(edges)
    BY <1>1, <1>4, ChosenIsEdge
  <2>2. e.from = id
    BY <1>1, <2>1
  <2>3. QED
    BY <1>2, <1>4, <2>1, <2>2 DEF Leaves, edges
<1>5. QED
  BY <1>3, <1>4

\* The run ends where it is.
EndsHere(s) == pc' = "done" /\ status' = s /\ UNCHANGED <<current, branchAt, pending, join>>

LEMMA EventsTyped ==
  ASSUME LogKnown
  PROVE  events \in Seq(Range(events))
BY DEF LogKnown, Tells

LEMMA AdvanceMoves ==
  ASSUME IInv, LogKnown, Advance
  PROVE  /\ pc = "main" /\ current \in NodeIDs(wf) \ {wf.exit} /\ NodeOf(wf, current).kind # "parallel"
         /\ path' = Append(path, current)
         /\ \/ FindsNone(current) /\ EndsHere("dead_end")
            \/ \E e : /\ Leaves(current, e)
                      /\ \/ e.to = NoNode /\ EndsHere("dead_end")
                         \/ e.to # NoNode /\ current' = e.to /\ UNCHANGED <<pc, branchAt, pending, join, status>>
<1> DEFINE n == NodeOf(wf, current)
           edges == EdgesFrom(wf, current)
           visits == nodeVisits[current] + 1
           Log(c) == events \o VisitEvents(n) \o RouteEvents(n, edges, c, visits)
           Way(c) == ChosenEdge(n, edges, c, visits)
<1>1. /\ pc = "main" /\ current \in NodeIDs(wf) \ {wf.exit} /\ n.kind # "parallel" /\ Visit(n)
      /\ \E c : IF Way(c).to = NoNode
                THEN Finish("dead_end", Log(c), path')
                ELSE /\ current' = Way(c).to /\ events' = Log(c)
                     /\ UNCHANGED <<pc, branchAt, pending, join, status>>
  BY ZenonT(40) DEF Advance
<1>2. PICK c : IF Way(c).to = NoNode
               THEN Finish("dead_end", Log(c), path')
               ELSE /\ current' = Way(c).to /\ events' = Log(c)
                    /\ UNCHANGED <<pc, branchAt, pending, join, status>>
  BY <1>1
<1>3. wf \in Workflows /\ n.id = current
  BY <1>1, NodeOfIsNode DEF IInv, TypeOK
<1>4. path' = Append(path, current)
  BY <1>1, <1>3 DEF Visit
<1> DEFINE told == events \o VisitEvents(n)
<1>5. told \in Seq(Range(told)) /\ Traversed(told) = Traversed(events)
  BY EventsTyped, TraversedByVisit
<1>6. Log(c) = told \o RouteEvents(n, edges, c, visits) /\ Log(c) \in Seq(Range(Log(c)))
  BY <1>5, TraversedByRoute
<1>7. Traversed(events') = Traversed(Log(c))
  <2>1. CASE Way(c).to = NoNode
    <3> DEFINE end == EndEvent("dead_end", Cardinality(Range(path')))
    <3>1. events' = Append(Log(c), end)
      BY <1>2, <2>1 DEF Finish
    <3>2. end.event # "edge_traverse"
      BY DEF EndEvent
    <3> HIDE DEF end, Log
    <3>3. QED
      BY <1>6, <3>1, <3>2, TraversedAppended
  <2>2. CASE Way(c).to # NoNode
    BY <1>2, <2>2
  <2>3. QED
    BY <2>1, <2>2
<1> HIDE DEF told, Log, edges, n, visits
<1>8. Leaves(current, Way(c)) \/ (FindsNone(current) /\ Way(c).to = NoNode)
  BY <1>1, <1>3, <1>5, <1>6, <1>7, ChosenIsLogged DEF edges
<1> HIDE DEF Way
<1>9. CASE Way(c).to = NoNode
  BY <1>1, <1>2, <1>4, <1>8, <1>9 DEF Finish, EndsHere, n
<1>10. CASE Way(c).to # NoNode
  BY <1>1, <1>2, <1>4, <1>8, <1>10 DEF n
<1>11. QED
  BY <1>9, <1>10

LEMMA BranchStepMoves ==
  ASSUME IInv, LogKnown, BranchStep
  PROVE  /\ branchAt \in NodeIDs(wf) /\ path' = Append(path, branchAt)
         /\ UNCHANGED <<pc, current, pending, join, status>>
         /\ \/ FindsNone(branchAt) /\ branchAt' = NoBranch
            \/ \E e : Leaves(branchAt, e) /\ branchAt' = EndOr(e.to)
<1> DEFINE n == NodeOf(wf, branchAt)
           edges == EdgesFrom(wf, branchAt)
           visits == nodeVisits[branchAt] + 1
           Log(c) == events \o VisitEvents(n) \o RouteEvents(n, edges, c, visits)
           Way(c) == ChosenEdge(n, edges, c, visits)
<1>1. /\ branchAt \in NodeIDs(wf) /\ Visit(n)
      /\ UNCHANGED <<pc, current, pending, join, status>>
      /\ \E c : events' = Log(c) /\ branchAt' = EndOr(Way(c).to)
  BY ZenonT(40) DEF BranchStep
<1>2. PICK c : events' = Log(c) /\ branchAt' = EndOr(Way(c).to)
  BY <1>1
<1>3. wf \in Workflows /\ n.id = branchAt
  BY <1>1, NodeOfIsNode DEF IInv, TypeOK
<1>4. path' = Append(path, branchAt)
  BY <1>1, <1>3 DEF Visit
<1> DEFINE told == events \o VisitEvents(n)
<1>5. told \in Seq(Range(told)) /\ Traversed(told) = Traversed(events)
  BY EventsTyped, TraversedByVisit
<1>6. Traversed(events') = Traversed(told \o RouteEvents(n, edges, c, visits))
  BY <1>2
<1> HIDE DEF told, Log, edges, n, visits
<1>7. Leaves(branchAt, Way(c)) \/ (FindsNone(branchAt) /\ Way(c).to = NoNode)
  BY <1>1, <1>3, <1>5, <1>6, ChosenIsLogged DEF edges
<1> HIDE DEF Way
<1>8. Way(c).to = NoNode => branchAt' = NoBranch
  BY <1>2 DEF EndOr
<1>9. QED
  BY <1>1, <1>2, <1>4, <1>7, <1>8

\* Every other step logs no edge.
LEMMA OthersLogNone ==
  ASSUME IInv, LogKnown, Next, ~Advance, ~BranchStep
  PROVE  Traversed(events') = Traversed(events)
<1>1. events \in Seq(Range(events))
  BY EventsTyped
<1>2. ASSUME NEW log, log \in Seq(Range(log)), NEW s, NEW walked, Finish(s, log, walked)
      PROVE  Traversed(events') = Traversed(log)
  <2> DEFINE end == EndEvent(s, Cardinality(Range(walked)))
  <2>1. events' = Append(log, end) /\ end.event # "edge_traverse"
    BY <1>2 DEF Finish, EndEvent
  <2> HIDE DEF end
  <2>2. QED
    BY <1>2, <2>1, TraversedAppended
<1>3. CASE Start
  <2>1. events' = events \/ (events = <<>> /\ events' = <<[event |-> "pipeline_start"]>>)
    BY <1>3 DEF Start, Fail, LogKnown
  <2>2. Traversed(<<>>) = {} /\ Traversed(<<[event |-> "pipeline_start"]>>) = {}
    BY DEF Traversed, Range
  <2>3. QED
    BY <2>1, <2>2
<1>4. CASE UnknownNode \/ PromptError \/ StepLimit
  BY <1>4 DEF UnknownNode, PromptError, StepLimit, Fail
<1>5. CASE ReachExit
  <2> DEFINE told == events \o VisitEvents(NodeOf(wf, current))
  <2>1. told \in Seq(Range(told)) /\ Traversed(told) = Traversed(events)
    BY <1>1, TraversedByVisit
  <2>2. Finish("success", told, path')
    BY <1>5 DEF ReachExit
  <2> HIDE DEF told
  <2>3. QED
    BY <1>2, <2>1, <2>2
<1>6. CASE Fork
  BY <1>1, <1>6, TraversedByVisit DEF Fork
<1>7. CASE NextBranch \/ BranchArrives
  BY <1>7 DEF NextBranch, BranchArrives
<1>8. CASE Rejoin
  <2>1. Finish("dead_end", events, path) \/ events' = events
    BY <1>8 DEF Rejoin
  <2>2. QED
    BY <1>1, <1>2, <2>1
<1>9. QED
  BY <1>3, <1>4, <1>5, <1>6, <1>7, <1>8 DEF Next

-----------------------------------------------------------------------------
(* What the log and the run's place have in common                         *)

LEMMA CommandSteps ==
  ASSUME RunKnown, [CommandNext]_allVars
  PROVE  wf' = wf /\ (UNCHANGED vars \/ (Prepared /\ Next))
<1>1. CASE Validate
  <2>1. V!Next /\ UNCHANGED run
    BY <1>1 DEF Validate
  <2>2. wf' = wf
    BY <2>1 DEF V!Next, V!CheckLocally, V!VisitBreadthFirst, V!FindUnreachableNodes, V!VisitNextNode,
                V!ProcessNeighbor, V!Leave, V!CyclesDone, V!CheckParallelFanIn
  <2>3. QED
    BY <2>1, <2>2 DEF run, vars
<1>2. CASE SimulateAllPaths
  <2>1. E!Next /\ UNCHANGED run
    BY <1>2 DEF SimulateAllPaths
  <2>2. wf' = wf
    BY <2>1 DEF E!Next, E!Begin, E!ExploreEdge, E!Return, E!Stop
  <2>3. QED
    BY <2>1, <2>2 DEF run, vars
<1>3. CASE SimulateSingle
  BY <1>3, WorkflowKept DEF SimulateSingle
<1>4. CASE UNCHANGED allVars
  BY <1>4 DEF allVars, vars
<1>5. QED
  BY <1>1, <1>2, <1>3, <1>4 DEF CommandNext

\* An edge in the log is one of the edges of the node it left.
LoggedEdges ==
    \A p \in Traversed(events) : p[1] \in NodeIDs(wf) /\ \E e \in Range(EdgesFrom(wf, p[1])) : e.to = p[2]

LEMMA LogGrows ==
  ASSUME IInv, LogKnown, Next
  PROVE  /\ Traversed(events) \subseteq Traversed(events')
         /\ \A p \in Traversed(events') \ Traversed(events) :
               p[1] \in NodeIDs(wf) /\ \E e \in Range(EdgesFrom(wf, p[1])) : e.to = p[2]
<1>1. ASSUME NEW id \in NodeIDs(wf), NEW e, Leaves(id, e)
      PROVE  /\ Traversed(events) \subseteq Traversed(events')
             /\ \A p \in Traversed(events') \ Traversed(events) :
                   p[1] \in NodeIDs(wf) /\ \E x \in Range(EdgesFrom(wf, p[1])) : x.to = p[2]
  <2>1. Traversed(events') = Traversed(events) \cup {<<id, e.to>>} /\ e \in Range(EdgesFrom(wf, id))
    BY <1>1 DEF Leaves
  <2>2. QED
    BY <2>1
<1>2. CASE Advance
  <2>1. current \in NodeIDs(wf) /\ (FindsNone(current) \/ \E e : Leaves(current, e))
    BY <1>2, AdvanceMoves
  <2>2. QED
    BY <1>1, <2>1 DEF FindsNone
<1>3. CASE BranchStep
  <2>1. branchAt \in NodeIDs(wf) /\ (FindsNone(branchAt) \/ \E e : Leaves(branchAt, e))
    BY <1>3, BranchStepMoves
  <2>2. QED
    BY <1>1, <2>1 DEF FindsNone
<1>4. CASE ~Advance /\ ~BranchStep
  BY <1>4, OthersLogNone
<1>5. QED
  BY <1>2, <1>3, <1>4

LEMMA LoggedKept ==
  ASSUME IInv, LogKnown, LoggedEdges, wf' = wf, UNCHANGED vars \/ Next
  PROVE  LoggedEdges'
<1>1. NodeIDs(wf)' = NodeIDs(wf) /\ \A id : EdgesFrom(wf, id)' = EdgesFrom(wf, id)
  OBVIOUS
<1>2. CASE UNCHANGED vars
  BY <1>2 DEF LoggedEdges, vars
<1>3. CASE Next
  <2>1. \A p \in Traversed(events') : p[1] \in NodeIDs(wf) /\ \E e \in Range(EdgesFrom(wf, p[1])) : e.to = p[2]
    BY <1>3, LogGrows DEF LoggedEdges
  <2>2. QED
    BY <1>1, <2>1 DEF LoggedEdges
<1>4. QED
  BY <1>2, <1>3

\* The run and what it still has to walk lie in R.
Inside(R) ==
    /\ Range(path) \subseteq R /\ current \in R /\ Range(pending) \subseteq R
    /\ branchAt \in R \cup {NoBranch} /\ join \in R \cup {NoNode}

LEMMA AppendedRange ==
  ASSUME NEW S, NEW s \in Seq(S), NEW x
  PROVE  Range(Append(s, x)) = Range(s) \cup {x}
<1>1. s \in Seq(Range(s))
  <2>1. Len(s) \in Nat /\ DOMAIN s = 1..Len(s) /\ s = [i \in 1..Len(s) |-> s[i]]
    OBVIOUS
  <2>2. \A i \in 1..Len(s) : s[i] \in Range(s)
    BY <2>1 DEF Range
  <2>3. QED
    BY <2>1, <2>2
<1> DEFINE longer == Append(s, x)
<1>2. /\ Len(s) \in Nat /\ DOMAIN s = 1..Len(s) /\ DOMAIN longer = 1..(Len(s) + 1)
      /\ \A i \in 1..Len(s) : longer[i] = s[i]
      /\ longer[Len(s) + 1] = x
  BY <1>1, AppendedLog
<1> HIDE DEF longer
<1>3. 1..(Len(s) + 1) = 1..Len(s) \cup {Len(s) + 1}
  BY <1>2
<1>4. Range(longer) = Range(s) \cup {x}
  BY <1>2, <1>3 DEF Range
<1>5. QED
  BY <1>4 DEF longer

(* A run stays in what its implied ways and the edges it logs do not leave.*)
LEMMA StaysInside ==
  ASSUME IInv, WalkKnown, LogKnown, Next, NEW R, Inside(R),
         ClosedUnder(R, Implicit), ClosedUnder(R, Traversed(events'))
  PROVE  Inside(R)'
<1>1. /\ wf \in Workflows /\ path \in Seq(NodeIDs(wf))
  BY DEF IInv, TypeOK
<1>2. \A x : Range(Append(path, x)) = Range(path) \cup {x}
  BY <1>1, AppendedRange
<1>3. Range(path) \subseteq R /\ current \in R /\ Range(pending) \subseteq R
      /\ branchAt \in R \cup {NoBranch} /\ join \in R \cup {NoNode}
  BY DEF Inside
<1>4. ASSUME NEW id \in R, NEW e, Leaves(id, e) PROVE e.to \in R
  <2>1. <<id, e.to>> \in Traversed(events')
    BY <1>4 DEF Leaves
  <2>2. QED
    BY <2>1 DEF ClosedUnder
<1>5. CASE UNCHANGED <<path, current, pending, branchAt, join>>
  BY <1>3, <1>5 DEF Inside
<1>6. CASE Start \/ UnknownNode \/ PromptError \/ StepLimit
  <2>1. UNCHANGED <<path, current, pending, branchAt, join>>
    BY <1>6 DEF Start, UnknownNode, PromptError, StepLimit, Fail
  <2>2. QED
    BY <1>5, <2>1
<1>7. CASE ReachExit
  <2>1. /\ UNCHANGED <<current, pending, branchAt, join>> /\ current = wf.exit
        /\ path' = Append(path, NodeOf(wf, current).id) /\ pc = "main"
    BY <1>7 DEF ReachExit, Finish, Visit
  <2>2. current \in NodeIDs(wf)
    BY <2>1 DEF IInv, EndsKnown
  <2>3. path' = Append(path, current)
    BY <1>1, <2>1, <2>2, NodeOfIsNode
  <2>4. QED
    BY <1>2, <1>3, <2>1, <2>3 DEF Inside
<1>8. CASE Fork
  <2> DEFINE n == NodeOf(wf, current)
             t == TargetsOf(wf, current)
  <2>1. /\ current \in NodeIDs(wf) /\ n.kind = "parallel" /\ path' = Append(path, n.id)
        /\ pending' = SelectedBranches(n.targets) /\ join' = JoinOf(wf, n.targets)
        /\ UNCHANGED <<current, branchAt>>
    BY <1>8 DEF Fork, Visit
  <2>2. path' = Append(path, current) /\ n.targets = t
    BY <1>1, <2>1, NodeOfIsNode DEF TargetsOf
  <2>3. Range(t) \subseteq R
    <3>1. \A x \in Range(t) : <<current, x>> \in Implicit
      BY <1>1, <2>1, ImpliedAreWays DEF Implied
    <3>2. QED
      BY <1>3, <3>1 DEF ClosedUnder
  <2>4. Range(pending') \subseteq R
    <3>1. SelectedBranches(t) \in Seq(Range(t))
      BY <1>1, <2>1, TargetsTyped
    <3>2. Range(SelectedBranches(t)) \subseteq Range(t)
      BY <3>1 DEF Range
    <3>3. QED
      BY <2>1, <2>2, <2>3, <3>2
  <2>5. join' \in R \cup {NoNode}
    <3>1. JoinOf(wf, t) # NoNode => \E s \in Range(t) : <<s, JoinOf(wf, t)>> \in Implicit
      BY <1>1, JoinIsOnAWay
    <3>2. JoinOf(wf, t) # NoNode => JoinOf(wf, t) \in R
      BY <2>3, <3>1 DEF ClosedUnder
    <3>3. QED
      BY <2>1, <2>2, <3>2
  <2> HIDE DEF n, t
  <2>6. Range(path') \subseteq R
    BY <1>2, <1>3, <2>2
  <2>7. QED
    BY <1>3, <2>1, <2>4, <2>5, <2>6 DEF Inside
<1>9. CASE Advance
  <2>1. /\ path' = Append(path, current)
        /\ \/ UNCHANGED <<current, branchAt, pending, join>>
           \/ \E e : Leaves(current, e) /\ current' = e.to /\ UNCHANGED <<branchAt, pending, join>>
    BY <1>9, AdvanceMoves DEF EndsHere
  <2>2. Range(path') \subseteq R
    BY <1>2, <1>3, <2>1
  <2>3. current' \in R /\ UNCHANGED <<branchAt, pending, join>>
    BY <1>3, <1>4, <2>1
  <2>4. QED
    BY <1>3, <2>2, <2>3 DEF Inside
<1>10. CASE NextBranch
  <2>1. /\ pc = "branch" /\ pending # <<>> /\ branchAt' = Head(pending) /\ pending' = Tail(pending)
        /\ UNCHANGED <<path, current, join>>
    BY <1>10 DEF NextBranch
  <2>2. pending \in Seq(Range(TargetsOf(wf, current)))
    BY <2>1 DEF WalkKnown, InBranches
  <2>3. Head(pending) \in Range(pending) /\ Range(Tail(pending)) \subseteq Range(pending)
    BY <2>1, <2>2 DEF Range
  <2>4. QED
    BY <1>3, <2>1, <2>3 DEF Inside
<1>11. CASE BranchStep
  <2>1. /\ branchAt \in NodeIDs(wf) /\ path' = Append(path, branchAt) /\ UNCHANGED <<current, pending, join>>
        /\ branchAt' = NoBranch \/ \E e : Leaves(branchAt, e) /\ branchAt' = EndOr(e.to)
    BY <1>11, BranchStepMoves
  <2>2. branchAt \in R
    <3>1. branchAt \in STRING
      BY <1>1, <2>1, NodeOfIsNode DEF NodeRecords
    <3>2. QED
      BY <1>3, <3>1, NoBranchAssumption
  <2>3. branchAt' \in R \cup {NoBranch}
    BY <1>4, <2>1, <2>2 DEF EndOr
  <2>4. Range(path') \subseteq R
    BY <1>2, <1>3, <2>1, <2>2
  <2>5. QED
    BY <1>3, <2>1, <2>3, <2>4 DEF Inside
<1>12. CASE BranchArrives
  <2>1. branchAt' = NoBranch /\ UNCHANGED <<path, current, pending, join>>
    BY <1>12 DEF BranchArrives
  <2>2. QED
    BY <1>3, <2>1 DEF Inside
<1>13. CASE Rejoin
  <2>1. /\ UNCHANGED <<path, branchAt, pending>>
        /\ UNCHANGED <<current, join>> \/ (join # NoNode /\ current' = join /\ join' = NoNode)
    BY <1>13 DEF Rejoin, Finish
  <2>2. QED
    BY <1>3, <2>1 DEF Inside
<1>14. QED
  BY <1>6, <1>7, <1>8, <1>9, <1>10, <1>11, <1>12, <1>13 DEF Next

LEMMA LoggedOfKind ==
  ASSUME LogKnown, NEW kind
  PROVE  Range(OfKind(events, kind)) = {x \in Range(events) : x.event = kind}
<1> DEFINE I == {i \in DOMAIN events : events[i].event = kind}
<1>1. events \in Seq(Range(events))
  BY EventsTyped
<1>2. I \in SUBSET (DOMAIN events)
  OBVIOUS
<1>3. {events[i] : i \in I} = {x \in Range(events) : x.event = kind}
  BY DEF Range
<1> HIDE DEF I
<1>4. Range(Keep(events, I)) = {events[i] : i \in I}
  BY <1>1, <1>2, KeepElements
<1>5. QED
  BY <1>3, <1>4 DEF OfKind, I

LEMMA RestartsAreLogged ==
  ASSUME LogKnown
  PROVE  WithoutRestart <=> \A p \in Traversed(events) : \E e \in Range(EdgesFrom(wf, p[1])) : e.to = p[2] /\ ~e.restart
<1> DEFINE Gone == {x \in Range(events) : x.event = "edge_traverse"}
<1>1. Range(OfKind(events, "edge_traverse")) = Gone
  BY LoggedOfKind
<1>2. Traversed(events) = {<<x.from, x.to>> : x \in Gone}
  BY DEF Traversed
<1> HIDE DEF Gone
<1>3. ASSUME WithoutRestart, NEW p \in Traversed(events)
      PROVE  \E e \in Range(EdgesFrom(wf, p[1])) : e.to = p[2] /\ ~e.restart
  <2>1. PICK x \in Gone : p = <<x.from, x.to>>
    BY <1>2
  <2>2. \E e \in Range(EdgesFrom(wf, x.from)) : e.to = x.to /\ ~e.restart
    BY <1>1, <1>3 DEF WithoutRestart
  <2>3. QED
    BY <2>1, <2>2
<1>4. ASSUME \A p \in Traversed(events) : \E e \in Range(EdgesFrom(wf, p[1])) : e.to = p[2] /\ ~e.restart,
             NEW x \in Gone
      PROVE  \E e \in Range(EdgesFrom(wf, x.from)) : e.to = x.to /\ ~e.restart
  <2>1. <<x.from, x.to>> \in Traversed(events)
    BY <1>2
  <2>2. QED
    BY <1>4, <2>1
<1>5. QED
  BY <1>1, <1>3, <1>4 DEF WithoutRestart

LEMMA LoggedAreWays ==
  ASSUME wf \in Workflows, LoggedEdges
  PROVE  /\ Traversed(events) \subseteq {<<p[1], p[2]>> : p \in Traversed(events)}
         /\ \A p \in Traversed(events) : <<p[1], p[2]>> \in Forward
         /\ (\A p \in Traversed(events) : \E e \in Range(EdgesFrom(wf, p[1])) : e.to = p[2] /\ ~e.restart)
            => \A p \in Traversed(events) : <<p[1], p[2]>> \in Onward
<1>1. Traversed(events) \subseteq {<<p[1], p[2]>> : p \in Traversed(events)}
  BY DEF Traversed
<1>2. ASSUME NEW id \in NodeIDs(wf), NEW e \in Range(EdgesFrom(wf, id))
      PROVE  <<id, e.to>> \in Forward /\ (~e.restart => <<id, e.to>> \in Onward)
  <2>1. e \in Declared(id) \/ e.to \in Implied(id)
    BY WhereEdgesLead
  <2>2. CASE e \in Declared(id)
    <3>1. e \in Range(wf.edges) /\ e.from = id
      BY <2>2 DEF Declared
    <3>2. QED
      BY <3>1, WaysAre
  <2>3. CASE e.to \in Implied(id)
    <3>1. <<id, e.to>> \in Implicit
      BY <2>3, ImpliedAreWays
    <3>2. QED
      BY <3>1, WaysAre DEF Implicit
  <2>4. QED
    BY <2>1, <2>2, <2>3
<1>3. QED
  BY <1>1, <1>2 DEF LoggedEdges

\* Where the run is, the search of coverage has been, and the search of lint as
\* well unless the run took a restart edge.
Forwards == Inside(C!BfsFrom(wf.start, Forward))
Onwards == WithoutRestart => Inside(C!BfsFrom(wf.start, Onward))

LEMMA ForwardsKept ==
  ASSUME IInv, WalkKnown, LogKnown, LogKnown', LoggedEdges', wf' = wf, Next
  PROVE  (Forwards => Forwards') /\ (Onwards => Onwards')
<1>1. wf \in Workflows /\ wf' \in Workflows
  BY DEF IInv, TypeOK
<1>2. Traversed(events') \subseteq {<<p[1], p[2]>> : p \in Traversed(events')}
  BY DEF Traversed
<1>3. /\ \A p \in Traversed(events') : <<p[1], p[2]>> \in Forward
      /\ (\A p \in Traversed(events') : \E e \in Range(EdgesFrom(wf, p[1])) : e.to = p[2] /\ ~e.restart)
         => \A p \in Traversed(events') : <<p[1], p[2]>> \in Onward
  <2>1. Traversed(events)' = Traversed(events') /\ Forward' = Forward /\ Onward' = Onward
    BY DEF Traversed, Forward, Onward
  <2>2. \A id : EdgesFrom(wf, id)' = EdgesFrom(wf, id)
    OBVIOUS
  <2>3. (wf \in Workflows /\ LoggedEdges)' =>
          ((\A p \in Traversed(events) : <<p[1], p[2]>> \in Forward)
           /\ ((\A p \in Traversed(events) : \E e \in Range(EdgesFrom(wf, p[1])) : e.to = p[2] /\ ~e.restart)
              => \A p \in Traversed(events) : <<p[1], p[2]>> \in Onward))'
    BY LoggedAreWays, PTL
  <2>4. QED
    BY <1>1, <2>1, <2>2, <2>3
<1>4. Implicit \subseteq Forward /\ Implicit \subseteq Onward
  BY WaysAre DEF Implicit
<1>5. ASSUME NEW R, NEW adj, Inside(R), ClosedUnder(R, adj), Implicit \subseteq adj,
             \A p \in Traversed(events') : <<p[1], p[2]>> \in adj
      PROVE  Inside(R)'
  <2>1. ClosedUnder(R, Implicit)
    BY <1>5 DEF ClosedUnder
  <2>2. ClosedUnder(R, Traversed(events'))
    <3>1. \A p \in Traversed(events') : p[1] \in R => <<p[1], p[2]>>[2] \in R
      BY <1>5 DEF ClosedUnder
    <3>2. QED
      BY <3>1 DEF ClosedUnder
  <2>3. QED
    BY <1>5, <2>1, <2>2, StaysInside
<1>6. ASSUME Forwards PROVE Forwards'
  <2> SUFFICES ASSUME NEW R, R = C!BfsFrom(wf.start, Forward), NEW adj, adj = Forward PROVE Forwards'
    OBVIOUS
  <2>1. Inside(R)'
    <3>1. ClosedUnder(R, adj) /\ Inside(R)
      BY <1>6, SearchIsClosed DEF Forwards
    <3>2. QED
      BY <1>3, <1>4, <1>5, <3>1
  <2>2. C!BfsFrom(wf.start, Forward)' = R
    <3>1. Forward' = Forward
      BY DEF Forward
    <3>2. QED
      BY <3>1
  <2>3. QED
    BY <2>1, <2>2 DEF Forwards, Inside
<1>7. ASSUME Onwards, WithoutRestart' PROVE Inside(C!BfsFrom(wf.start, Onward))'
  <2> SUFFICES ASSUME NEW R, R = C!BfsFrom(wf.start, Onward), NEW adj, adj = Onward
               PROVE  Inside(C!BfsFrom(wf.start, Onward))'
    OBVIOUS
  <2>1. \A p \in Traversed(events') : \E e \in Range(EdgesFrom(wf, p[1])) : e.to = p[2] /\ ~e.restart
    <3>1. LogKnown' => (WithoutRestart <=>
              \A p \in Traversed(events) : \E e \in Range(EdgesFrom(wf, p[1])) : e.to = p[2] /\ ~e.restart)'
      BY RestartsAreLogged, PTL
    <3>2. Traversed(events)' = Traversed(events') /\ \A id : EdgesFrom(wf, id)' = EdgesFrom(wf, id)
      BY DEF Traversed
    <3>3. QED
      BY <1>7, <3>1, <3>2
  <2>2. WithoutRestart
    <3>1. Traversed(events) \subseteq Traversed(events')
      BY LogGrows
    <3>2. QED
      BY <2>1, <3>1, RestartsAreLogged
  <2>3. Inside(R)'
    <3>1. ClosedUnder(R, adj) /\ Inside(R)
      BY <1>7, <2>2, SearchIsClosed DEF Onwards
    <3>2. QED
      BY <1>3, <1>4, <1>5, <2>1, <3>1
  <2>4. C!BfsFrom(wf.start, Onward)' = R
    <3>1. Onward' = Onward
      BY DEF Onward
    <3>2. QED
      BY <3>1
  <2>5. QED
    BY <2>3, <2>4 DEF Inside
<1>8. QED
  BY <1>6, <1>7 DEF Onwards

\* Where a run stops that finds no way on.
Stuck ==
    status = "dead_end" /\ ~AtJoinlessFork =>
        /\ current \in NodeIDs(wf) \ {wf.exit} /\ NodeOf(wf, current).kind # "parallel"
        /\ EdgesFrom(wf, current) = <<>> \/ LeadsNowhere(current)

LEMMA StuckKept ==
  ASSUME IInv, WalkKnown, LogKnown, wf' = wf, UNCHANGED vars \/ Next, Stuck
  PROVE  Stuck'
<1>1. /\ AtJoinlessFork' = (/\ current' \in NodeIDs(wf) /\ NodeOf(wf, current').kind = "parallel"
                           /\ JoinOf(wf, NodeOf(wf, current').targets) = NoNode)
      /\ NodeIDs(wf)' = NodeIDs(wf) /\ wf.exit' = wf.exit
      /\ NodeOf(wf, current)' = NodeOf(wf, current') /\ EdgesFrom(wf, current)' = EdgesFrom(wf, current')
      /\ LeadsNowhere(current)' = LeadsNowhere(current')
  BY DEF AtJoinlessFork, LeadsNowhere
<1>2. CASE UNCHANGED <<status, current>>
  BY <1>1, <1>2 DEF Stuck, AtJoinlessFork
<1>3. CASE UNCHANGED vars
  BY <1>2, <1>3 DEF vars
<1>4. CASE Advance
  <2>1. /\ current \in NodeIDs(wf) \ {wf.exit} /\ NodeOf(wf, current).kind # "parallel"
        /\ \/ FindsNone(current) /\ EndsHere("dead_end")
           \/ \E e : /\ Leaves(current, e)
                     /\ \/ e.to = NoNode /\ EndsHere("dead_end")
                        \/ e.to # NoNode /\ UNCHANGED status
        /\ pc = "main"
    BY <1>4, AdvanceMoves
  <2>2. status' = "dead_end" => current' = current /\ (EdgesFrom(wf, current) = <<>> \/ LeadsNowhere(current))
    <3>1. status # "dead_end"
      BY <2>1 DEF IInv, TypeOK
    <3>2. QED
      BY <2>1, <3>1 DEF FindsNone, EndsHere, Leaves, LeadsNowhere
  <2>3. QED
    BY <1>1, <2>1, <2>2 DEF Stuck
<1>5. CASE Rejoin
  <2>1. pc = "branch" /\ (UNCHANGED status \/ (join = NoNode /\ current' = current))
    BY <1>5 DEF Rejoin, Finish
  <2>2. status # "dead_end"
    BY <2>1 DEF IInv, TypeOK
  <2>3. /\ current \in NodeIDs(wf) /\ NodeOf(wf, current).kind = "parallel"
        /\ join = JoinOf(wf, NodeOf(wf, current).targets)
    BY <2>1 DEF IInv, BranchesKnown
  <2>4. QED
    BY <1>1, <2>1, <2>2, <2>3 DEF Stuck
<1>6. CASE status' # "dead_end"
  BY <1>6 DEF Stuck
<1>7. CASE Next /\ ~Advance /\ ~Rejoin
  <2>1. status' \in {"error", "success"} \/ (UNCHANGED status /\ pc # "done")
    BY <1>7, ZenonT(30) DEF Next, Start, UnknownNode, PromptError, ReachExit, Fork, NextBranch, BranchStep, BranchArrives, StepLimit,
           Fail, Finish
  <2>2. pc # "done" => status # "dead_end"
    BY DEF IInv, TypeOK
  <2>3. QED
    BY <1>6, <2>1, <2>2
<1>8. QED
  BY <1>3, <1>4, <1>5, <1>7

(* A node that no edge leaves for another node is left by no way.          *)
LEMMA StuckIsLeftByNoWay ==
  ASSUME wf \in Workflows, NodesUnique, ~EmptyNames, NEW id \in NodeIDs(wf),
         NodeOf(wf, id).kind # "parallel", EdgesFrom(wf, id) = <<>> \/ LeadsNowhere(id)
  PROVE  \A p \in Forward : p[1] # id
<1>1. TargetsOf(wf, id) = <<>> /\ Range(TargetsOf(wf, id)) = {}
  BY CodedNone DEF TargetsOf
<1>2. Implied(id) = Joining(id) /\ Joining(id) \subseteq NodeIDs(wf)
  BY <1>1, GraphTyped DEF Implied, Joining
<1>3. EdgesFrom(wf, id) = <<>>
  <2>1. ASSUME NEW e \in Range(EdgesFrom(wf, id)) PROVE e.to # NoNode
    <3>1. e \in Declared(id) \/ e.to \in Implied(id)
      BY WhereEdgesLead
    <3>2. QED
      BY <1>2, <3>1 DEF Declared, EmptyNames
  <2>2. QED
    BY <2>1 DEF LeadsNowhere
<1>4. Declared(id) = {} /\ Implied(id) = {}
  <2>1. Range(EdgesFrom(wf, id)) = {}
    BY <1>3, CodedNone
  <2>2. QED
    BY <2>1, WhereEdgesLead
<1>5. ASSUME NEW p \in Forward, p[1] = id PROVE FALSE
  <2>1. CASE p \in {<<e.from, e.to>> : e \in Range(wf.edges)}
    <3>1. PICK e \in Range(wf.edges) : p = <<e.from, e.to>>
      BY <2>1
    <3>2. e \in Declared(id)
      BY <1>5, <3>1 DEF Declared
    <3>3. QED
      BY <1>4, <3>2
  <2>2. CASE p \in C!FanOutWays(wf)
    <3>1. PICK n \in Range(wf.nodes) : n.kind = "parallel" /\ p[1] = n.id /\ p[2] \in Range(n.targets)
      BY <2>2, WaysAre
    <3>2. NodeOf(wf, id) \in Range(wf.nodes) /\ NodeOf(wf, id).id = id
      BY NodeOfIsListed, NodeOfIsNode
    <3>3. n = NodeOf(wf, id)
      BY <1>5, <3>1, <3>2 DEF NodesUnique
    <3>4. QED
      BY <3>1, <3>3
  <2>3. CASE p \in C!FanInWays(wf)
    <3>1. PICK n \in Range(wf.nodes) : n.kind = "fan_in" /\ p[2] = n.id /\ p[1] \in Range(n.sources)
      BY <2>3, WaysAre
    <3>2. n.id \in Implied(id)
      BY <1>5, <3>1 DEF Implied, Joining
    <3>3. QED
      BY <1>4, <3>2
  <2>4. QED
    BY <2>1, <2>2, <2>3, WaysAre
<1>6. QED
  BY <1>5

LEMMA StuckIsASink ==
  ASSUME IInv, Forwards, Stuck, LocallyOK, ~EmptyNames, status = "dead_end", ~AtJoinlessFork
  PROVE  current \in C!SinkNodes(wf)
<1>1. wf \in Workflows
  BY DEF IInv, TypeOK
<1>2. current \in C!BfsFrom(wf.start, Forward)
  BY DEF Forwards, Inside
<1>3. \A p \in Forward : p[1] # current
  BY <1>1, StuckIsLeftByNoWay DEF Stuck, LocallyOK
<1>4. current \notin C!BfsFrom(wf.exit, Backward)
  <2> DEFINE S == ({wf.exit} \cup {p[2] : p \in Backward}) \ {current}
  <2>1. \A p \in Backward : p[2] # current
    BY <1>3, WaysAre
  <2>2. wf.exit \in S
    BY DEF Stuck
  <2>3. ClosedUnder(S, Backward)
    BY <2>1 DEF ClosedUnder
  <2>4. current \notin S
    OBVIOUS
  <2> HIDE DEF S
  <2>5. QED
    BY <2>2, <2>3, <2>4, SearchIsLeast
<1>5. QED
  BY <1>2, <1>4 DEF C!SinkNodes, Forward, Backward

LEMMA NoForkNoTargets ==
  ASSUME wf \in Workflows, ~Forks
  PROVE  /\ \A id : TargetsOf(wf, id) = <<>>
         /\ \A id \in NodeIDs(wf) : NodeOf(wf, id).kind # "parallel"
         /\ \A i : ForkedBefore(i) = {}
<1>1. \A id \in NodeIDs(wf) : NodeOf(wf, id).kind # "parallel"
  BY NodeOfIsListed DEF Forks
<1>2. \A id : TargetsOf(wf, id) = <<>>
  BY <1>1 DEF TargetsOf
<1>3. QED
  BY <1>1, <1>2 DEF ForkedBefore

LEMMA SuccessAvoidsSinks ==
  ASSUME IInv, WalkKnown, status = "success", ~Forks
  PROVE  Range(path) \cap C!SinkNodes(wf) = {}
<1> DEFINE B == C!BfsFrom(wf.exit, Backward)
           P == {k \in Nat : k < Len(path) /\ path[Len(path) - k] \notin B}
<1>1. wf \in Workflows /\ path \in Seq(NodeIDs(wf)) /\ path # <<>> /\ Last(path) = wf.exit
  BY DEF IInv, TypeOK, StatusIsEarned
<1>2. Len(path) \in Nat \ {0} /\ DOMAIN path = 1..Len(path) /\ path[Len(path)] = wf.exit
  BY <1>1 DEF Last
<1>3. wf.exit \in B /\ ClosedUnder(B, Backward)
  BY SearchIsClosed
<1> HIDE DEF B
<1>4. ASSUME NEW k \in P, \A j \in P : k <= j PROVE FALSE
  <2>1. k \in Nat /\ k < Len(path) /\ path[Len(path) - k] \notin B
    BY <1>4
  <2>2. k # 0
    BY <1>2, <1>3, <2>1
  <2> DEFINE i == Len(path) - k
  <2>3. i \in 1..(Len(path) - 1) /\ i + 1 = Len(path) - (k - 1) /\ k - 1 \in Nat /\ k - 1 < Len(path)
    BY <1>2, <2>1, <2>2
  <2>4. path[i + 1] \in B
    <3>1. k - 1 \notin P
      BY <1>4, <2>1
    <3>2. QED
      BY <2>3, <3>1
  <2>5. Continues(i, path[i + 1])
    BY <2>3 DEF WalkKnown, PathFollowsGraph
  <2> HIDE DEF i
  <2>6. PICK e \in Range(EdgesFrom(wf, path[i])) : e.to = path[i + 1]
    BY <1>1, <2>5, NoForkNoTargets DEF Continues
  <2>7. path[i] \in NodeIDs(wf)
    BY <1>1, <1>2, <2>3
  <2>8. <<path[i], e.to>> \in Forward
    <3>1. e \in Declared(path[i]) \/ e.to \in Implied(path[i])
      BY <1>1, <2>7, WhereEdgesLead
    <3>2. e.to \in Implied(path[i]) => <<path[i], e.to>> \in Implicit
      BY <1>1, <2>7, ImpliedAreWays
    <3>3. e \in Declared(path[i]) => e \in Range(wf.edges) /\ e.from = path[i]
      BY DEF Declared
    <3>4. QED
      BY <3>1, <3>2, <3>3, WaysAre DEF Implicit
  <2>9. <<e.to, path[i]>> \in Backward
    BY <2>8, WaysAre
  <2>10. path[i] \in B
    BY <1>3, <2>4, <2>6, <2>9 DEF ClosedUnder
  <2>11. QED
    BY <2>1, <2>10 DEF i
<1>5. P = {}
  <2>1. P \in SUBSET Nat
    OBVIOUS
  <2> HIDE DEF P
  <2>2. P # {} => Min(P) \in P /\ \A j \in P : Min(P) <= j
    BY <2>1, MinIsLeast
  <2>3. QED
    BY <1>4, <2>2
<1>6. \A i \in DOMAIN path : path[i] \in B
  <2> SUFFICES ASSUME NEW i \in DOMAIN path PROVE path[i] \in B
    OBVIOUS
  <2>1. Len(path) - i \in Nat /\ Len(path) - i < Len(path) /\ Len(path) - (Len(path) - i) = i
    BY <1>2
  <2>2. Len(path) - i \notin P
    BY <1>5
  <2>3. QED
    BY <2>1, <2>2
<1>7. QED
  BY <1>6 DEF Range, B, C!SinkNodes, Backward

LEMMA SuccessWasForeseen ==
  ASSUME IInv, Onwards
  PROVE  SuccessHasPath
<1> SUFFICES ASSUME status = "success", WithoutRestart PROVE ~L!SuccessPathMissing(wf)
  BY DEF SuccessHasPath
<1>1. path # <<>> /\ Last(path) = wf.exit /\ path \in Seq(NodeIDs(wf))
  BY DEF IInv, TypeOK, StatusIsEarned
<1>2. wf.exit \in Range(path)
  <2>1. Len(path) \in DOMAIN path /\ path[Len(path)] = wf.exit
    BY <1>1 DEF Last
  <2>2. QED
    BY <2>1 DEF Range
<1>3. wf.exit \in C!BfsFrom(wf.start, Onward)
  BY <1>2 DEF Onwards, Inside
<1>4. L!BfsFrom(wf.start, Onward) = C!BfsFrom(wf.start, Onward)
  BY CoverageOperators
<1>5. QED
  BY <1>3, <1>4 DEF L!SuccessPathMissing, Onward

-----------------------------------------------------------------------------
(* What lint says of a node without an edge to fall back on                *)

LEMMA LintKeeps ==
  ASSUME NEW S, NEW s \in Seq(S), NEW I \in SUBSET (DOMAIN s)
  PROVE  L!Keep(s, I) = Keep(s, I)
<1>1. IsFiniteSet(I) /\ I \in SUBSET Nat
  <2>1. IsFiniteSet(I)
    BY KeepElements
  <2>2. DOMAIN s \subseteq Nat
    OBVIOUS
  <2>3. QED
    BY <2>1, <2>2
<1>2. \A J : L!Cardinality(J) = Cardinality(J)
  BY DEF L!Cardinality, Cardinality
<1> DEFINE Kth(k) == CHOOSE i \in I : Cardinality({j \in I : j < i}) = k - 1
           LKth(k) == CHOOSE i \in I : L!Cardinality({j \in I : j < i}) = k - 1
<1>3. Keep(s, I) = [k \in 1..Cardinality(I) |-> s[Kth(k)]]
  BY DEF Keep
<1>4. L!Keep(s, I) = [k \in 1..L!Cardinality(I) |-> s[LKth(k)]]
  BY DEF L!Keep
<1>5. ASSUME NEW k \in 1..Cardinality(I)
      PROVE  LKth(k) = Kth(k)
  <2>1. \E i \in I : Cardinality(Before(I, i)) = k - 1
    BY <1>1, KthPosition
  <2>2. Kth(k) \in I /\ Cardinality(Before(I, Kth(k))) = k - 1
    BY <2>1 DEF Before
  <2>3. LKth(k) \in I /\ Cardinality(Before(I, LKth(k))) = k - 1
    <3>1. \E i \in I : L!Cardinality({j \in I : j < i}) = k - 1
      BY <1>2, <2>1 DEF Before
    <3>2. LKth(k) \in I /\ L!Cardinality({j \in I : j < LKth(k)}) = k - 1
      BY <3>1
    <3>3. QED
      BY <1>2, <3>2 DEF Before
  <2> HIDE DEF Kth, LKth
  <2>4. QED
    BY <1>1, <2>2, <2>3, KthPosition
<1> HIDE DEF Kth, LKth
<1>6. L!Cardinality(I) = Cardinality(I)
  BY <1>2
<1>7. QED
  BY ONLY <1>3, <1>4, <1>5, <1>6

(* Lint sees the edges that the runs see.                                  *)
LEMMA LintEdges ==
  ASSUME wf \in Workflows, NEW id \in NodeIDs(wf)
  PROVE  L!EdgesFrom(wf, id) = EdgesFrom(wf, id)
<1> DEFINE own == {i \in DOMAIN wf.edges : wf.edges[i].from = id}
           explicit == Keep(wf.edges, own)
           plain == {e.to : e \in {x \in Range(explicit) : x.cond = NoCond}}
           waiting == {i \in DOMAIN wf.nodes : wf.nodes[i].kind = "fan_in" /\ id \in Range(wf.nodes[i].sources)}
           chosen == Keep(wf.nodes, waiting)
           joins == [i \in DOMAIN chosen |-> chosen[i].id]
           ends == TargetsOf(wf, id) \o joins
           first == {i \in DOMAIN ends : ends[i] \notin plain /\ \A j \in 1..(i - 1) : ends[j] # ends[i]}
           implied == Keep(ends, first)
<1>1. EdgesFrom(wf, id) = explicit \o [i \in DOMAIN implied |-> ImplicitEdge(id, implied[i])]
  BY DEF EdgesFrom, IDsWhere
<1>2. L!Keep(wf.edges, own) = explicit
  BY GraphTyped, LintKeeps
<1>3. L!Keep(wf.nodes, waiting) = chosen /\ joins \in Seq(STRING)
  BY ChosenIDs, GraphTyped, LintKeeps
<1>4. TargetsOf(wf, id) \in Seq(STRING)
  BY TargetsTyped
<1>5. ends \in Seq(STRING)
  <2> HIDE DEF joins
  <2>1. QED
    BY <1>3, <1>4
<1>6. L!Keep(ends, first) = implied
  <2> HIDE DEF ends, plain
  <2>1. QED
    BY <1>5, LintKeeps
<1>7. /\ \A s : L!Range(s) = Range(s)
      /\ L!TargetsOf(wf, id) = TargetsOf(wf, id)
      /\ \A x : L!ImplicitEdge(id, x) = ImplicitEdge(id, x)
  BY CoverageOperators DEF L!ImplicitEdge, ImplicitEdge, L!Edge, Edge
<1> DEFINE Lexplicit == L!Keep(wf.edges, own)
           Lplain == {e.to : e \in {x \in L!Range(Lexplicit) : x.cond = NoCond}}
           Lwaiting == {i \in DOMAIN wf.nodes :
                           wf.nodes[i].kind = "fan_in" /\ id \in L!Range(wf.nodes[i].sources)}
           Lchosen == L!Keep(wf.nodes, Lwaiting)
           Ljoins == [i \in DOMAIN Lchosen |-> Lchosen[i].id]
           Lends == L!TargetsOf(wf, id) \o Ljoins
           Lfirst == {i \in DOMAIN Lends : Lends[i] \notin Lplain /\ \A j \in 1..(i - 1) : Lends[j] # Lends[i]}
           Limplied == L!Keep(Lends, Lfirst)
<1>8. L!EdgesFrom(wf, id) = Lexplicit \o [i \in DOMAIN Limplied |-> L!ImplicitEdge(id, Limplied[i])]
  BY DEF L!EdgesFrom, L!IDsWhere
<1>9. Lexplicit = explicit /\ Lplain = plain
  BY <1>2, <1>7
<1>10. Lwaiting = waiting
  BY <1>7
<1>11. Lchosen = chosen
  BY <1>3, <1>10
<1>12. Lends = ends
  BY <1>7, <1>11
<1>13. Limplied = implied
  <2> HIDE DEF Lends, ends, Lplain, plain
  <2>1. Lfirst = first
    BY <1>9, <1>12
  <2>2. QED
    BY <1>6, <1>12, <2>1
<1> HIDE DEF Lexplicit, Limplied, explicit, implied
<1>14. QED
  BY <1>1, <1>7, <1>8, <1>9, <1>13

(* Neither label nor condition decides: no edge is without a condition, and*)
(* none of the conditions holds.                                           *)
LEMMA ForcedFails ==
  ASSUME NEW n, NEW edges, NEW c, NEW visits, Forced(n, edges, c, visits), ~Breaks(n, edges, c, visits)
  PROVE  /\ edges # <<>>
         /\ \A e \in Range(edges) : e.cond # NoCond /\ Holds(e.cond, AfterLabel(n, edges, c)) = FALSE
<1>1. edges # <<>> /\ \A i \in DOMAIN edges : Rank(n, edges, i, c, visits) = 3
  BY DEF Forced
<1>2. ASSUME NEW i \in DOMAIN edges
      PROVE  edges[i].cond # NoCond /\ Holds(edges[i].cond, AfterLabel(n, edges, c)) = FALSE
  <2> DEFINE first == AsksLabel(n, edges, c) /\ i \in Labelled(edges, c)
             plain == edges[i].cond = NoCond
             fits == Holds(edges[i].cond, AfterLabel(n, edges, c)) # Breaks(n, edges, c, visits)
  <2>1. Rank(n, edges, i, c, visits) = IF first THEN 0 ELSE IF plain THEN 2 ELSE IF fits THEN 1 ELSE 3
    BY DEF Rank
  <2>2. Rank(n, edges, i, c, visits) = 3
    BY <1>1
  <2>3. Breaks(n, edges, c, visits) = FALSE
    BY DEF Breaks
  <2> HIDE DEF first, plain, fits
  <2>4. ~plain /\ ~fits
    BY <2>1, <2>2
  <2>5. QED
    BY <2>3, <2>4 DEF plain, fits
<1>3. QED
  BY <1>1, <1>2 DEF Range

(* Where no edge is without a condition and none of the conditions holds,  *)
(* lint warns, or it is silent because of a list of values that misses one.*)
LEMMA LintIsSilentForCause ==
  ASSUME wf \in Workflows, NEW id \in NodeIDs(wf), NEW d \in [CtxKeys -> CtxValues],
         EdgesFrom(wf, id) # <<>>,
         \A e \in Range(EdgesFrom(wf, id)) : e.cond # NoCond /\ Holds(e.cond, d) = FALSE,
         id \notin L!DefaultEdgeMissing(wf), ~MarkerRouted(NodeOf(wf, id))
  PROVE  ValueNotListed(id, d)
<1> DEFINE edges == EdgesFrom(wf, id)
<1>1. L!HasMissingDefault(wf, id)
  <2>1. edges \in Seq(Range(edges))
    BY NodeEdges
  <2>2. Range(edges) # {}
    <3> HIDE DEF edges
    <3>1. 1 \in DOMAIN edges
      BY <2>1 DEF edges
    <3>2. QED
      BY <3>1 DEF Range
  <2>3. L!EdgesFrom(wf, id) = edges /\ L!Range(edges) = Range(edges)
    BY LintEdges, CoverageOperators
  <2>4. \A e \in Range(edges) : e.cond # NoCond
    OBVIOUS
  <2> HIDE DEF edges
  <2>5. QED
    BY <2>2, <2>3, <2>4 DEF L!HasMissingDefault
<1>2. L!Exhaustive(wf, id)
  <2> DEFINE n == NodeOf(wf, id)
  <2>1. n \in Range(wf.nodes) /\ n.id = id /\ L!NodeOf(wf, id) = n /\ L!Range(wf.nodes) = Range(wf.nodes)
    BY NodeOfIsListed, NodeOfIsNode, CoverageOperators
  <2>2. QED
    BY <1>1, <2>1 DEF L!DefaultEdgeMissing
<1> DEFINE cond(i) == wf.edges[i].cond
<1>3. ASSUME NEW i \in L!Parses(wf, id)
      PROVE  cond(i) \in ParsedConditions /\ L!ExprOf(wf, i) = Parsed(cond(i)) /\ Holds(cond(i), d) = FALSE
  <2>1. i \in DOMAIN wf.edges /\ wf.edges[i].from = id /\ cond(i) # NoCond /\ \A j \in 1..i : cond(j) \notin Malformed
    BY DEF L!Parses, L!EdgesOut, L!ParsedEdge
  <2>2. cond(i) \notin Malformed
    <3>1. DOMAIN wf.edges = 1..Len(wf.edges) /\ Len(wf.edges) \in Nat
      BY GraphTyped
    <3>2. i \in 1..i
      BY <2>1, <3>1
    <3>3. QED
      BY <2>1, <3>2
  <2>3. wf.edges[i] \in Declared(id) /\ wf.edges[i] \in Range(wf.edges)
    BY <2>1 DEF Declared, Range
  <2>4. wf.edges[i] \in Range(edges)
    BY <2>3, WhereEdgesLead
  <2>5. cond(i) \in ParsedConditions
    <3> DEFINE Conds(w) == {e.cond : e \in Range(w.edges)}
               All == UNION {Conds(w) : w \in Workflows}
    <3>1. cond(i) \in Conds(wf)
      BY <2>3
    <3>2. ParsedConditions = All \ ({NoCond} \cup Malformed)
      BY DEF ParsedConditions
    <3>3. cond(i) # NoCond /\ cond(i) \notin Malformed
      BY <2>1, <2>2
    <3> HIDE DEF cond, Conds
    <3>4. cond(i) \in All
      BY <3>1
    <3> HIDE DEF All
    <3>5. QED
      BY ONLY <3>2, <3>3, <3>4
  <2>6. QED
    BY <2>4, <2>5 DEF L!ExprOf
<1> HIDE DEF edges
<1>4. ~L!HasComplementaryPair(wf, id)
  <2> SUFFICES ASSUME NEW i \in L!Parses(wf, id), NEW j \in L!Parses(wf, id),
                      L!IsComparison(L!ExprOf(wf, i)),
                      L!ExprOf(wf, j).op = "not", L!IsComparison(L!ExprOf(wf, j).inner),
                      L!SameComparison(L!ExprOf(wf, i), L!ExprOf(wf, j).inner)
               PROVE  FALSE
    BY DEF L!HasComplementaryPair
  <2>1. cond(i) \in ParsedConditions /\ cond(j) \in ParsedConditions
        /\ Holds(cond(i), d) = FALSE /\ Holds(cond(j), d) = FALSE
    BY <1>3
  <2>2. Holds(cond(j), d) = ~Holds(cond(i), d)
    <3>1. L!ExprOf(wf, i) = Parsed(cond(i)) /\ L!ExprOf(wf, j) = Parsed(cond(j))
      BY <1>3
    <3> HIDE DEF cond
    <3>2. /\ Parsed(cond(j)).inner.op = Parsed(cond(i)).op
          /\ Parsed(cond(j)).inner.variable = Parsed(cond(i)).variable
          /\ Parsed(cond(j)).inner.value = Parsed(cond(i)).value
      BY <3>1 DEF L!SameComparison
    <3>3. QED
      BY <2>1, <3>1, <3>2, NegationsAssumption
  <2>3. QED
    BY <2>1, <2>2
<1>5. \A v \in L!VariablesTested(wf, id) : Resolved(v, d) \notin L!ValuesOf(wf, id, v)
  <2> SUFFICES ASSUME NEW i \in L!Equalities(wf, id)
               PROVE  Resolved(L!ExprOf(wf, i).variable, d) # L!ExprOf(wf, i).value
    BY DEF L!VariablesTested, L!ValuesOf
  <2>1. i \in L!Parses(wf, id) /\ L!IsEquality(Parsed(cond(i)))
    BY <1>3 DEF L!Equalities
  <2>2. Holds(cond(i), d) = (Resolved(Parsed(cond(i)).variable, d) = Parsed(cond(i)).value)
    <3>1. cond(i) \in ParsedConditions
      BY <1>3, <2>1
    <3> HIDE DEF cond
    <3>2. QED
      BY <2>1, <3>1, EqualitiesAssumption
  <2>3. QED
    BY <1>3, <2>1, <2>2
<1>6. L!VariablesTested(wf, id) # {}
  <2>1. CASE L!CoversKnownSet(wf, id)
    <3>1. PICK v : "success" \in L!ValuesOf(wf, id, v)
      BY <2>1 DEF L!CoversKnownSet
    <3>2. PICK i \in L!Equalities(wf, id) : L!ExprOf(wf, i).variable = v
      BY <3>1 DEF L!ValuesOf
    <3>3. QED
      BY <3>2 DEF L!VariablesTested
  <2>2. CASE L!IsCompletePartition(wf, id)
    <3>1. L!Cardinality(L!VariablesTested(wf, id)) = 1
      BY <2>2 DEF L!IsCompletePartition
    <3>2. \A S : L!Cardinality(S) = Cardinality(S)
      BY DEF L!Cardinality, Cardinality
    <3>3. Cardinality(L!VariablesTested(wf, id)) = 1
      BY <3>1, <3>2
    <3>4. Cardinality({}) = 0
      BY FS_EmptySet
    <3>5. ASSUME L!VariablesTested(wf, id) = {} PROVE FALSE
      <4>1. Cardinality(L!VariablesTested(wf, id)) = Cardinality({})
        BY ONLY <3>5
      <4>2. QED
        BY <3>3, <3>4, <4>1
    <3>6. QED
      BY <3>5
  <2>3. QED
    BY <1>2, <1>4, <2>1, <2>2 DEF L!Exhaustive
<1>7. QED
  BY <1>2, <1>4, <1>5, <1>6 DEF L!Exhaustive, ValueNotListed

LEMMA LintWarns == IInv => ForcedOnlyWhereWarned
<1> SUFFICES ASSUME IInv, NEW id \in Leaving, NEW c \in ContextsAfterVisit(ctx, NodeOf(wf, id)),
                    Forced(NodeOf(wf, id), EdgesFrom(wf, id), c, nodeVisits[id] + 1),
                    ~Breaks(NodeOf(wf, id), EdgesFrom(wf, id), c, nodeVisits[id] + 1),
                    id \notin L!DefaultEdgeMissing(wf), ~MarkerRouted(NodeOf(wf, id))
             PROVE  ValueNotListed(id, AfterLabel(NodeOf(wf, id), EdgesFrom(wf, id), c))
  BY DEF ForcedOnlyWhereWarned
<1> DEFINE n == NodeOf(wf, id)
           edges == EdgesFrom(wf, id)
           visits == nodeVisits[id] + 1
           d == AfterLabel(n, edges, c)
<1>1. wf \in Workflows /\ opts \in OptionsFor(wf) /\ ctx \in [CtxKeys -> CtxValues] /\ id \in NodeIDs(wf)
  BY DEF IInv, TypeOK, Leaving
<1>2. d \in [CtxKeys -> CtxValues]
  <2>1. n \in NodeRecords
    BY <1>1, NodeOfIsNode
  <2>2. c \in [CtxKeys -> CtxValues]
    BY <1>1, <2>1, ContextsAreTyped
  <2>3. QED
    BY <2>2, AfterLabelIsTyped
<1>3. edges # <<>> /\ \A e \in Range(edges) : e.cond # NoCond /\ Holds(e.cond, d) = FALSE
  BY ForcedFails
<1>4. QED
  BY <1>1, <1>2, <1>3, LintIsSilentForCause

-----------------------------------------------------------------------------
(* Coverage and lint foresaw the run                                       *)

Foreseen == RunKnown /\ LogKnown /\ LoggedEdges /\ Forwards /\ Onwards /\ Stuck

LEMMA ForeseenInit == CommandInit => Foreseen
<1> SUFFICES ASSUME CommandInit PROVE Foreseen
  OBVIOUS
<1>1. Init /\ RunKnown /\ LogKnown
  BY RunKnownInit, InitLogKnown DEF CommandInit
<1>2. /\ path = <<>> /\ events = <<>> /\ status = "running" /\ current = wf.start
      /\ branchAt = NoBranch /\ pending = <<>> /\ join = NoNode
  BY <1>1, ZenonT(20) DEF Init
<1>3. Traversed(events) = {} /\ Range(path) = {} /\ Range(pending) = {}
  BY <1>2, CodedNone DEF Traversed
<1>4. \A R : wf.start \in R => Inside(R)
  BY <1>2, <1>3 DEF Inside
<1>5. Forwards /\ Onwards
  BY <1>4, SearchIsClosed DEF Forwards, Onwards
<1>6. QED
  BY <1>1, <1>2, <1>3, <1>5 DEF Foreseen, LoggedEdges, Stuck

LEMMA InsideKept ==
  ASSUME Forwards, Onwards, LogKnown, LogKnown', wf' = wf, UNCHANGED vars
  PROVE  Forwards' /\ Onwards'
<1>1. UNCHANGED <<path, current, pending, branchAt, join, events>>
  BY DEF vars
<1>2. WithoutRestart' = WithoutRestart
  BY <1>1 DEF WithoutRestart, OfKind
<1>3. Forward' = Forward /\ Onward' = Onward
  BY DEF Forward, Onward
<1>4. QED
  BY <1>1, <1>2, <1>3 DEF Forwards, Onwards, Inside

LEMMA ForeseenStep ==
  ASSUME Foreseen, [CommandNext]_allVars
  PROVE  Foreseen'
<1>1. IInv /\ WalkKnown /\ LogKnown /\ LoggedEdges /\ Forwards /\ Onwards /\ Stuck
  BY DEF Foreseen, RunKnown
<1>2. wf' = wf /\ (UNCHANGED vars \/ Next) /\ RunKnown'
  BY CommandSteps, RunKnownStep DEF Foreseen
<1>3. LogKnown' /\ LoggedEdges' /\ Stuck'
  BY <1>1, <1>2, NextKeepsLog, LoggedKept, StuckKept
<1>4. Forwards' /\ Onwards'
  BY <1>1, <1>2, <1>3, ForwardsKept, InsideKept
<1>5. QED
  BY <1>2, <1>3, <1>4 DEF Foreseen

THEOREM ForeseenHolds == CommandSpec => []Foreseen
<1>1. CommandInit => Foreseen
  BY ForeseenInit
<1>2. Foreseen /\ [CommandNext]_allVars => Foreseen'
  BY ForeseenStep
<1>3. QED
  BY <1>1, <1>2, PTL DEF CommandSpec

(* A run of a validated workflow stops short of Exit only at a sink that   *)
(* coverage names (or at a fan-out without a join), one that succeeds      *)
(* without a restart edge came along a path that lint found, and where     *)
(* lint says nothing of a missing default a run finds an edge that fits,   *)
(* but for a list of values that misses one (coverage/coverage.go,         *)
(* validator/lint_reachability.go, simulate/simulate.go).                  *)
THEOREM RunsForeseen == CommandSpec => []RunsAreForeseen
<1>1. Foreseen => DeadEndsAreSinks
  <2> SUFFICES ASSUME Foreseen PROVE DeadEndsAreSinks
    OBVIOUS
  <2>1. IInv /\ WalkKnown /\ Vetted /\ Forwards /\ Stuck
    BY DEF Foreseen, RunKnown
  <2>2. status = "dead_end" => LocallyOK
    BY <2>1 DEF IInv, TypeOK, Vetted, Prepared, HasErrors
  <2>3. QED
    BY <2>1, <2>2, StuckIsASink, SuccessAvoidsSinks DEF DeadEndsAreSinks
<1>2. Foreseen => SuccessHasPath
  BY SuccessWasForeseen DEF Foreseen, RunKnown
<1>3. Foreseen => ForcedOnlyWhereWarned
  BY LintWarns DEF Foreseen, RunKnown
<1>4. QED
  BY <1>1, <1>2, <1>3, ForeseenHolds, PTL DEF RunsAreForeseen

-----------------------------------------------------------------------------
(* What a test case says of the path                                       *)

(* The search of a test finds the first place at or behind the one it      *)
(* starts from.                                                            *)
LEMMA FindsFirst ==
  ASSUME NEW S, NEW p \in Seq(S), NEW id, NEW from \in Nat
  PROVE  LET k == T!FindInPath(p, id, from)
         IN  /\ k = 0 => \A j \in DOMAIN p : from <= j => p[j] # id
             /\ k # 0 => /\ k \in DOMAIN p /\ from <= k /\ p[k] = id
                         /\ \A j \in DOMAIN p : from <= j /\ p[j] = id => k <= j
             /\ k \in Nat
<1> DEFINE found == {j \in DOMAIN p : j >= from /\ p[j] = id}
           k == T!FindInPath(p, id, from)
<1>1. k = IF found = {} THEN 0 ELSE Min(found)
  BY DEF T!FindInPath, T!Min, Min
<1>2. DOMAIN p = 1..Len(p) /\ Len(p) \in Nat
  OBVIOUS
<1>3. found \in SUBSET Nat
  BY <1>2
<1>4. CASE found = {}
  <2>1. k = 0
    BY <1>1, <1>4
  <2>2. \A j \in DOMAIN p : from <= j => p[j] # id
    BY <1>2, <1>4
  <2> HIDE DEF k
  <2>3. QED
    BY <2>1, <2>2 DEF k
<1>5. CASE found # {}
  <2>1. k \in found /\ \A j \in found : k <= j
    <3> HIDE DEF found, k
    <3>1. QED
      BY <1>1, <1>3, <1>5, MinIsLeast
  <2> HIDE DEF k
  <2>2. k \in DOMAIN p /\ from <= k /\ p[k] = id /\ k \in Nat /\ k # 0
    BY <1>2, <2>1
  <2>3. \A j \in DOMAIN p : from <= j /\ p[j] = id => k <= j
    BY <1>2, <2>1
  <2>4. QED
    BY <2>2, <2>3 DEF k
<1>6. QED
  BY <1>4, <1>5

\* Where the search goes on behind id.
Behind(p, i, id) == IF i = 0 \/ T!FindInPath(p, id, i) = 0 THEN 0 ELSE T!FindInPath(p, id, i) + 1

LEMMA NothingToFind ==
  ASSUME NEW p
  PROVE  T!PathContains(p, <<>>)
<1> DEFINE Search(at) == [k \in 1..(Len(<<>>) + 1) |->
                            IF k = 1 THEN 1 ELSE Behind(p, at[k - 1], <<>>[k - 1])]
           found == CHOOSE at : at = Search(at)
<1>1. T!PathContains(p, <<>>) <=> found[Len(<<>>) + 1] # 0
  BY DEF T!PathContains, Behind
<1>2. Len(<<>>) + 1 = 1
  OBVIOUS
<1>3. \E at : at = Search(at)
  <2> DEFINE f == [k \in 1..1 |-> 1]
  <2>1. f = Search(f)
    BY <1>2
  <2>2. QED
    BY <2>1
<1>4. found = Search(found)
  <2> HIDE DEF Search
  <2>1. QED
    BY <1>3
<1> HIDE DEF found
<1>5. found[1] = 1
  BY <1>2, <1>4
<1>6. QED
  BY <1>1, <1>2, <1>5

LEMMA ThreeToFind ==
  ASSUME NEW p, NEW a, NEW b, NEW c
  PROVE  T!PathContains(p, <<a, b, c>>) <=> Behind(p, Behind(p, Behind(p, 1, a), b), c) # 0
<1> DEFINE ids == <<a, b, c>>
           Search(at) == [k \in 1..(Len(ids) + 1) |-> IF k = 1 THEN 1 ELSE Behind(p, at[k - 1], ids[k - 1])]
           found == CHOOSE at : at = Search(at)
           x == Behind(p, 1, a)
           y == Behind(p, x, b)
           z == Behind(p, y, c)
<1>1. T!PathContains(p, ids) <=> found[Len(ids) + 1] # 0
  BY DEF T!PathContains, Behind
<1>2. Len(ids) + 1 = 4 /\ ids[1] = a /\ ids[2] = b /\ ids[3] = c
  OBVIOUS
<1> HIDE DEF ids
<1>3. \E at : at = Search(at)
  <2> DEFINE f == [k \in 1..4 |-> IF k = 1 THEN 1 ELSE IF k = 2 THEN x ELSE IF k = 3 THEN y ELSE z]
  <2>1. f[1] = 1 /\ f[2] = x /\ f[3] = y /\ f[4] = z
    OBVIOUS
  <2>2. \A k \in 1..4 : f[k] = IF k = 1 THEN 1 ELSE Behind(p, f[k - 1], ids[k - 1])
    <3> SUFFICES ASSUME NEW k \in 1..4 PROVE f[k] = IF k = 1 THEN 1 ELSE Behind(p, f[k - 1], ids[k - 1])
      OBVIOUS
    <3> HIDE DEF f
    <3>1. k = 1 \/ k = 2 \/ k = 3 \/ k = 4
      OBVIOUS
    <3>2. CASE k = 1
      BY <2>1, <3>2
    <3>3. CASE k = 2
      BY <1>2, <2>1, <3>3
    <3>4. CASE k = 3
      BY <1>2, <2>1, <3>4
    <3>5. CASE k = 4
      BY <1>2, <2>1, <3>5
    <3>6. QED
      BY <3>1, <3>2, <3>3, <3>4, <3>5
  <2>3. DOMAIN f = 1..4 /\ f = [k \in 1..4 |-> f[k]]
    OBVIOUS
  <2> HIDE DEF f
  <2>4. f = Search(f)
    BY <1>2, <2>2, <2>3
  <2>5. QED
    BY <2>4
<1>4. found = Search(found)
  <2> HIDE DEF Search
  <2>1. QED
    BY <1>3
<1> HIDE DEF found
<1>5. \A k \in 1..4 : found[k] = IF k = 1 THEN 1 ELSE Behind(p, found[k - 1], ids[k - 1])
  BY <1>2, <1>4
<1>6. found[1] = 1
  BY <1>5
<1>7. found[2] = x
  <2>1. found[2] = Behind(p, found[2 - 1], ids[2 - 1])
    BY <1>5
  <2>2. QED
    BY <1>2, <1>6, <2>1
<1>8. found[3] = y
  <2>1. found[3] = Behind(p, found[3 - 1], ids[3 - 1])
    BY <1>5
  <2>2. QED
    BY <1>2, <1>7, <2>1
<1>9. found[4] = z
  <2>1. found[4] = Behind(p, found[4 - 1], ids[4 - 1])
    BY <1>5
  <2>2. QED
    BY <1>2, <1>8, <2>1
<1>10. QED
  BY <1>1, <1>2, <1>9 DEF ids

(* Looking for each ID behind the first place of the one before loses      *)
(* nothing.                                                                *)
LEMMA GreedyFinds ==
  ASSUME path \in Seq(NodeIDs(wf)), NEW a, NEW b, NEW c
  PROVE  T!PathContains(path, <<a, b, c>>) <=> OccurInOrder(a, b, c)
<1> DEFINE x == T!FindInPath(path, a, 1)
           y == T!FindInPath(path, b, x + 1)
           z == T!FindInPath(path, c, y + 1)
<1>1. DOMAIN path \subseteq Nat \ {0}
  OBVIOUS
<1>2. /\ x = 0 => \A j \in DOMAIN path : 1 <= j => path[j] # a
      /\ x # 0 => /\ x \in DOMAIN path /\ path[x] = a
                  /\ \A j \in DOMAIN path : 1 <= j /\ path[j] = a => x <= j
      /\ x \in Nat
  BY FindsFirst
<1> HIDE DEF x
<1>3. /\ y = 0 => \A j \in DOMAIN path : x + 1 <= j => path[j] # b
      /\ y # 0 => /\ y \in DOMAIN path /\ x + 1 <= y /\ path[y] = b
                  /\ \A j \in DOMAIN path : x + 1 <= j /\ path[j] = b => y <= j
      /\ y \in Nat
  <2>1. x + 1 \in Nat
    BY <1>2
  <2>2. QED
    BY <2>1, FindsFirst
<1> HIDE DEF y
<1>4. /\ z = 0 => \A j \in DOMAIN path : y + 1 <= j => path[j] # c
      /\ z # 0 => /\ z \in DOMAIN path /\ y + 1 <= z /\ path[z] = c
      /\ z \in Nat
  <2>1. y + 1 \in Nat
    BY <1>3
  <2>2. QED
    BY <2>1, FindsFirst
<1> HIDE DEF z
<1>5. Behind(path, Behind(path, Behind(path, 1, a), b), c) # 0 <=> x # 0 /\ y # 0 /\ z # 0
  <2>1. Behind(path, 1, a) = IF x = 0 THEN 0 ELSE x + 1
    BY DEF Behind, x
  <2>2. x # 0 => Behind(path, x + 1, b) = IF y = 0 THEN 0 ELSE y + 1
    BY <1>2 DEF Behind, y
  <2>3. x # 0 /\ y # 0 => Behind(path, y + 1, c) = IF z = 0 THEN 0 ELSE z + 1
    BY <1>3 DEF Behind, z
  <2>4. \A id : Behind(path, 0, id) = 0
    BY DEF Behind
  <2>5. x + 1 # 0 /\ y + 1 # 0 /\ z + 1 # 0
    BY <1>2, <1>3, <1>4
  <2>6. QED
    BY <2>1, <2>2, <2>3, <2>4, <2>5
<1>6. ASSUME x # 0, y # 0, z # 0 PROVE OccurInOrder(a, b, c)
  <2>1. x \in Occurrences(a) /\ y \in Occurrences(b) /\ z \in Occurrences(c) /\ x < y /\ y < z
    BY <1>2, <1>3, <1>4, <1>6 DEF Occurrences
  <2>2. QED
    BY <2>1 DEF OccurInOrder
<1>7. ASSUME OccurInOrder(a, b, c) PROVE x # 0 /\ y # 0 /\ z # 0
  <2>1. PICK i \in Occurrences(a), j \in Occurrences(b), k \in Occurrences(c) : i < j /\ j < k
    BY <1>7 DEF OccurInOrder
  <2>2. /\ i \in DOMAIN path /\ path[i] = a /\ j \in DOMAIN path /\ path[j] = b
        /\ k \in DOMAIN path /\ path[k] = c /\ i \in Nat \ {0} /\ j \in Nat /\ k \in Nat
    BY <1>1, <2>1 DEF Occurrences
  <2>3. x # 0 /\ x <= i
    BY <1>2, <2>2
  <2>4. x + 1 <= j
    BY <1>2, <2>1, <2>2, <2>3
  <2>5. y # 0 /\ y <= j
    BY <1>3, <2>2, <2>4
  <2>6. y + 1 <= k
    BY <1>3, <2>1, <2>2, <2>5
  <2>7. z # 0
    BY <1>4, <2>2, <2>6
  <2>8. QED
    BY <2>3, <2>5, <2>7
<1>8. QED
  BY <1>5, <1>6, <1>7, ThreeToFind

(* What a case passes on that expects nothing, three IDs in order, or one  *)
(* ID at once behind another.                                              *)
LEMMA WhatPasses ==
  /\ T!Passed(Result, NothingExpected) <=> status # "error"
  /\ \A ids : T!Passed(Result, InOrder(ids)) <=> status # "error" /\ T!PathContains(path, ids)
  /\ \A from, to : T!Passed(Result, AtOnce(from, to)) => T!Adjacent(path, from, to)
<1>1. Result.status = status /\ Result.path = path
  BY DEF Result
<1>2. DOMAIN <<>> = {}
  OBVIOUS
<1>3. T!PathContains(path, <<>>)
  BY NothingToFind
<1>4. ASSUME NEW expect, expect.status = "", expect.visited = {}, expect.notVisited = {}
      PROVE  T!Passed(Result, expect) <=>
               /\ status # "error" /\ T!PathContains(path, expect.pathContains)
               /\ \A from \in DOMAIN expect.immediatelyAfter :
                     T!Adjacent(path, from, expect.immediatelyAfter[from])
  BY <1>1, <1>4 DEF T!Passed
<1>5. T!Passed(Result, NothingExpected) <=> status # "error"
  <2>1. /\ NothingExpected.status = "" /\ NothingExpected.visited = {} /\ NothingExpected.notVisited = {}
        /\ NothingExpected.pathContains = <<>> /\ NothingExpected.immediatelyAfter = <<>>
    BY DEF NothingExpected
  <2>2. QED
    BY <1>2, <1>3, <1>4, <2>1
<1>6. ASSUME NEW ids
      PROVE  T!Passed(Result, InOrder(ids)) <=> status # "error" /\ T!PathContains(path, ids)
  <2> DEFINE x == InOrder(ids)
  <2>1. /\ x.status = "" /\ x.visited = {} /\ x.notVisited = {}
        /\ x.pathContains = ids /\ x.immediatelyAfter = <<>>
    BY DEF InOrder, NothingExpected
  <2> HIDE DEF x
  <2>2. T!Passed(Result, x) <=> status # "error" /\ T!PathContains(path, ids)
    BY <1>2, <1>4, <2>1
  <2>3. QED
    BY <2>2 DEF x
<1>7. ASSUME NEW from, NEW to, T!Passed(Result, AtOnce(from, to))
      PROVE  T!Adjacent(path, from, to)
  <2> DEFINE x == AtOnce(from, to)
             after == [id \in {from} |-> to]
  <2>1. /\ x.status = "" /\ x.visited = {} /\ x.notVisited = {}
        /\ x.pathContains = <<>> /\ x.immediatelyAfter = after
    BY DEF AtOnce, NothingExpected
  <2>2. from \in DOMAIN after /\ after[from] = to
    OBVIOUS
  <2>3. T!Passed(Result, x)
    BY <1>7
  <2> HIDE DEF x, after
  <2>4. \A f \in DOMAIN after : T!Adjacent(path, f, after[f])
    BY <1>4, <2>1, <2>3
  <2>5. T!Adjacent(path, from, after[from])
    BY <2>2, <2>4
  <2>6. QED
    BY <2>2, <2>5
<1>8. QED
  BY <1>5, <1>6, <1>7

-----------------------------------------------------------------------------
(* Without fan-outs the path is the edges in the log                       *)

Walked ==
    ~Forks =>
        /\ pc # "branch"
        /\ \A i \in 1..(Len(path) - 1) : <<path[i], path[i + 1]>> \in Traversed(events)
        /\ pc \in {"start", "main"} =>
              IF path = <<>> THEN current = wf.start ELSE <<path[Len(path)], current>> \in Traversed(events)
        /\ path # <<>> => path[1] = wf.start
        /\ Ended => current \in Range(path)
        /\ status # "success" => wf.exit \notin Range(path)
        /\ \A p \in Traversed(events) :
              p[2] \in Range(path) \cup {current} \/ (status = "dead_end" /\ p[2] = NoNode)

\* The main loop adds its node to the path.
LEMMA OneNodeMore ==
  ASSUME path \in Seq(NodeIDs(wf)), NEW p, p = Append(path, current), NEW Edges,
         \A i \in 1..(Len(path) - 1) : <<path[i], path[i + 1]>> \in Edges,
         IF path = <<>> THEN current = wf.start ELSE <<path[Len(path)], current>> \in Edges,
         path # <<>> => path[1] = wf.start
  PROVE  /\ \A i \in 1..(Len(p) - 1) : <<p[i], p[i + 1]>> \in Edges
         /\ p # <<>> /\ p[1] = wf.start /\ p[Len(p)] = current
         /\ Range(p) = Range(path) \cup {current}
<1>1. /\ Len(path) \in Nat /\ Len(p) = Len(path) + 1 /\ p[Len(path) + 1] = current
      /\ \A i \in 1..Len(path) : p[i] = path[i]
  OBVIOUS
<1>2. Range(p) = Range(path) \cup {current}
  BY AppendedRange
<1>3. p # <<>>
  BY <1>1
<1>4. path = <<>> <=> Len(path) = 0
  OBVIOUS
<1>5. p[1] = wf.start
  <2>1. CASE Len(path) = 0
    BY <1>1, <1>4, <2>1
  <2>2. CASE Len(path) # 0
    BY <1>1, <1>4, <2>2
  <2>3. QED
    BY <2>1, <2>2
<1>6. ASSUME NEW i \in 1..(Len(p) - 1) PROVE <<p[i], p[i + 1]>> \in Edges
  <2>1. CASE i = Len(path)
    <3>1. p[i] = path[Len(path)] /\ p[i + 1] = current /\ path # <<>>
      BY <1>1, <1>4, <1>6, <2>1
    <3>2. QED
      BY <3>1
  <2>2. CASE i # Len(path)
    <3>1. i \in 1..(Len(path) - 1) /\ p[i] = path[i] /\ p[i + 1] = path[i + 1]
      BY <1>1, <1>6, <2>2
    <3>2. QED
      BY <3>1
  <2>3. QED
    BY <2>1, <2>2
<1>7. QED
  BY <1>1, <1>2, <1>3, <1>5, <1>6

LEMMA WalkedKept ==
  ASSUME IInv, LogKnown, Walked, wf' = wf, UNCHANGED vars \/ Next
  PROVE  Walked'
<1> SUFFICES ASSUME ~Forks
             PROVE  /\ pc' # "branch"
                    /\ \A i \in 1..(Len(path') - 1) : <<path'[i], path'[i + 1]>> \in Traversed(events')
                    /\ pc' \in {"start", "main"} =>
                          IF path' = <<>> THEN current' = wf.start
                          ELSE <<path'[Len(path')], current'>> \in Traversed(events')
                    /\ path' # <<>> => path'[1] = wf.start
                    /\ status' \in {"success", "dead_end"} => current' \in Range(path')
                    /\ status' # "success" => wf.exit \notin Range(path')
                    /\ \A p \in Traversed(events') :
                          p[2] \in Range(path') \cup {current'} \/ (status' = "dead_end" /\ p[2] = NoNode)
  <2>1. Forks' = Forks /\ Ended' = (status' \in {"success", "dead_end"}) /\ Traversed(events)' = Traversed(events')
        /\ Range(path)' = Range(path')
    BY DEF Forks, Ended, Traversed
  <2>2. QED
    BY <2>1 DEF Walked
<1>1. /\ pc # "branch"
      /\ \A i \in 1..(Len(path) - 1) : <<path[i], path[i + 1]>> \in Traversed(events)
      /\ pc \in {"start", "main"} =>
            IF path = <<>> THEN current = wf.start ELSE <<path[Len(path)], current>> \in Traversed(events)
      /\ path # <<>> => path[1] = wf.start
      /\ status \in {"success", "dead_end"} => current \in Range(path)
      /\ status # "success" => wf.exit \notin Range(path)
      /\ \A p \in Traversed(events) :
            p[2] \in Range(path) \cup {current} \/ (status = "dead_end" /\ p[2] = NoNode)
  BY DEF Walked, Ended
<1>2. /\ wf \in Workflows /\ path \in Seq(NodeIDs(wf)) /\ (pc = "done") = (status # "running")
      /\ \A id \in NodeIDs(wf) : NodeOf(wf, id).kind # "parallel"
  BY NoForkNoTargets DEF IInv, TypeOK
<1>3. CASE UNCHANGED vars
  <2>1. UNCHANGED <<pc, path, current, events, status>>
    BY <1>3 DEF vars
  <2>2. QED
    BY <1>1, <2>1
<1>4. CASE Start \/ UnknownNode \/ PromptError \/ StepLimit
  <2>1. /\ UNCHANGED <<path, current>> /\ pc # "done"
        /\ \/ pc' = "done" /\ status' = "error"
           \/ pc = "start" /\ pc' = "main" /\ UNCHANGED status
    <3>1. CASE Start
      BY <1>2, <3>1 DEF Start, Fail
    <3>2. CASE UnknownNode
      BY <1>2, <3>2 DEF UnknownNode, Fail
    <3>3. CASE PromptError
      BY <1>2, <3>3 DEF PromptError, Fail
    <3>4. CASE StepLimit
      BY <1>2, <3>4 DEF StepLimit, Fail
    <3>5. QED
      BY <1>4, <3>1, <3>2, <3>3, <3>4
  <2>2. ~Advance /\ ~BranchStep
    <3>1. Advance => pc = "main" /\ (pc' = "done" => status' = "dead_end")
      BY <1>2, AdvanceMoves DEF EndsHere
    <3>2. BranchStep => pc = "branch"
      BY DEF BranchStep
    <3>3. Advance => path' = Append(path, current)
      BY AdvanceMoves
    <3>4. Append(path, current) # path
      <4>1. Len(Append(path, current)) = Len(path) + 1 /\ Len(path) \in Nat
        BY <1>2
      <4>2. QED
        BY <4>1
    <3>5. QED
      BY <1>1, <2>1, <3>1, <3>2, <3>3, <3>4
  <2>3. Traversed(events') = Traversed(events)
    BY <1>4, <2>2, OthersLogNone DEF Next
  <2>4. status # "success" /\ status # "dead_end" /\ status' # "success" /\ status' # "dead_end"
    BY <1>2, <2>1
  <2>5. QED
    BY <1>1, <2>1, <2>3, <2>4
<1>5. CASE ReachExit
  <2>1. /\ pc = "main" /\ UNCHANGED current /\ current = wf.exit /\ pc' = "done" /\ status' = "success"
        /\ path' = Append(path, NodeOf(wf, current).id)
    BY <1>5 DEF ReachExit, Finish, Visit
  <2>2. current \in NodeIDs(wf)
    BY <2>1 DEF IInv, EndsKnown
  <2>3. path' = Append(path, current)
    BY <1>2, <2>1, <2>2, NodeOfIsNode
  <2>4. Traversed(events') = Traversed(events)
    <3>1. ~Advance /\ ~BranchStep
      <4>1. Advance => current # wf.exit
        BY AdvanceMoves
      <4>2. BranchStep => pc = "branch"
        BY DEF BranchStep
      <4>3. QED
        BY <2>1, <4>1, <4>2
    <3>2. QED
      BY <1>5, <3>1, OthersLogNone DEF Next
  <2>5. /\ \A i \in 1..(Len(path') - 1) : <<path'[i], path'[i + 1]>> \in Traversed(events)
        /\ path'[1] = wf.start /\ Range(path') = Range(path) \cup {current}
    BY <1>1, <1>2, <2>1, <2>3, OneNodeMore
  <2>6. status # "dead_end"
    BY <1>2, <2>1
  <2>7. QED
    BY <1>1, <2>1, <2>4, <2>5, <2>6
<1>6. CASE Advance
  <2>1. /\ pc = "main" /\ current \in NodeIDs(wf) \ {wf.exit}
        /\ path' = Append(path, current)
        /\ \/ FindsNone(current) /\ EndsHere("dead_end")
           \/ \E e : /\ Leaves(current, e)
                     /\ \/ e.to = NoNode /\ EndsHere("dead_end")
                        \/ e.to # NoNode /\ current' = e.to /\ UNCHANGED <<pc, branchAt, pending, join, status>>
    BY <1>6, AdvanceMoves
  <2>2. /\ \A i \in 1..(Len(path') - 1) : <<path'[i], path'[i + 1]>> \in Traversed(events)
        /\ path' # <<>> /\ path'[1] = wf.start /\ path'[Len(path')] = current
        /\ Range(path') = Range(path) \cup {current}
    BY <1>1, <1>2, <2>1, OneNodeMore
  <2>3. status = "running" /\ wf.exit \notin Range(path')
    BY <1>1, <1>2, <2>1, <2>2
  <2>4. \A p \in Traversed(events) : p[2] \in Range(path')
    BY <1>1, <2>2, <2>3
  <2>5. CASE FindsNone(current) /\ EndsHere("dead_end")
    <3>1. pc' = "done" /\ status' = "dead_end" /\ current' = current /\ Traversed(events') = Traversed(events)
      BY <2>5 DEF FindsNone, EndsHere
    <3>2. QED
      BY <2>2, <2>3, <2>4, <3>1
  <2>6. ASSUME NEW e, Leaves(current, e), e.to = NoNode, EndsHere("dead_end")
        PROVE  /\ pc' = "done" /\ status' = "dead_end" /\ current' = current
               /\ Traversed(events) \subseteq Traversed(events')
               /\ \A p \in Traversed(events') : p \in Traversed(events) \/ p[2] = NoNode
    BY <2>6 DEF Leaves, EndsHere
  <2>7. ASSUME NEW e, Leaves(current, e), current' = e.to, UNCHANGED <<pc, status>>
        PROVE  /\ pc' = "main" /\ status' = "running"
               /\ <<current, current'>> \in Traversed(events')
               /\ Traversed(events) \subseteq Traversed(events')
               /\ \A p \in Traversed(events') : p \in Traversed(events) \/ p[2] = current'
    BY <2>1, <2>3, <2>7 DEF Leaves
  <2>8. CASE \E e : Leaves(current, e) /\ e.to = NoNode /\ EndsHere("dead_end")
    <3>1. /\ pc' = "done" /\ status' = "dead_end" /\ current' = current
          /\ Traversed(events) \subseteq Traversed(events')
          /\ \A p \in Traversed(events') : p \in Traversed(events) \/ p[2] = NoNode
      BY <2>6, <2>8
    <3>2. QED
      BY <2>2, <2>3, <2>4, <3>1
  <2>9. CASE \E e : Leaves(current, e) /\ current' = e.to /\ UNCHANGED <<pc, status>>
    <3>1. /\ pc' = "main" /\ status' = "running"
          /\ <<current, current'>> \in Traversed(events')
          /\ Traversed(events) \subseteq Traversed(events')
          /\ \A p \in Traversed(events') : p \in Traversed(events) \/ p[2] = current'
      BY <2>7, <2>9
    <3>2. QED
      BY <2>2, <2>3, <2>4, <3>1
  <2>10. QED
    BY <2>1, <2>5, <2>8, <2>9
<1>7. ~Fork /\ ~NextBranch /\ ~BranchStep /\ ~BranchArrives /\ ~Rejoin
  BY <1>1, <1>2 DEF Fork, NextBranch, BranchStep, BranchArrives, Rejoin
<1>8. QED
  BY <1>3, <1>4, <1>5, <1>6, <1>7 DEF Next

\* Without fan-outs there are no joins, and only declared edges.
LEMMA NoForkNoJoin ==
  ASSUME wf \in Workflows, ForksPaired, ~Forks
  PROVE  \A id : Successors(id) = {e.to : e \in {x \in Range(wf.edges) : x.from = id}}
<1>1. \A n \in Range(wf.nodes) : n.kind # "parallel" /\ n.kind # "fan_in"
  <2>1. \A n \in Range(wf.nodes) : n.kind # "parallel"
    BY DEF Forks
  <2>2. \A n \in Range(wf.nodes) : n.kind = "fan_in" => \E p \in Range(wf.nodes) : p.kind = "parallel"
    BY DEF ForksPaired, V!Paired
  <2>3. QED
    BY <2>1, <2>2
<1>2. QED
  BY <1>1 DEF Successors

LEMMA AllEdgesAllNodes ==
  ASSUME RunKnown, Walked, pc = "done", Ended, ~Forks, T!Uncovered(wf, events) = {}
  PROVE  Range(path) = NodeIDs(wf)
<1>1. /\ wf \in Workflows /\ path \in Seq(NodeIDs(wf)) /\ status \in {"success", "dead_end"}
      /\ Range(path) \subseteq NodeIDs(wf) /\ NodeIDs(wf) \subseteq V!IDs(wf)
  <2>1. wf \in Workflows /\ path \in Seq(NodeIDs(wf))
    BY DEF RunKnown, IInv, TypeOK
  <2>2. QED
    BY <2>1, GraphTyped DEF Ended, Range
<1>2. check = "done" /\ diags = <<>> /\ LocallyOK /\ ForksPaired
  BY DEF RunKnown, Vetted, Prepared, HasErrors
<1>3. Needed /\ NodeIDs(wf) \subseteq visited
  <2>1. Searched /\ About(diags, "DIP004") = {<<id>> : id \in NodeIDs(wf) \ visited}
    BY <1>2 DEF RunKnown, Reached, LocallyOK
  <2>2. About(diags, "DIP004") = {}
    BY <1>2, CodedNone DEF About
  <2>3. QED
    BY <2>1, <2>2 DEF Searched
<1>4. /\ path # <<>> => path[1] = wf.start
      /\ current \in Range(path)
      /\ status # "success" => wf.exit \notin Range(path)
      /\ \A p \in Traversed(events) :
            p[2] \in Range(path) \cup {current} \/ (status = "dead_end" /\ p[2] = NoNode)
  BY DEF Walked
<1>5. wf.start \in Range(path)
  <2>1. path # <<>>
    BY <1>4, CodedNone
  <2>2. 1 \in DOMAIN path
    BY <1>1, <2>1
  <2>3. QED
    BY <1>4, <2>1, <2>2 DEF Range
<1>6. \A e \in Range(wf.edges) : <<e.from, e.to>> \in Traversed(events) /\ e.to \in V!IDs(wf)
  <2>1. T!Uncovered(wf, events) = {e \in Range(wf.edges) : <<e.from, e.to>> \notin Traversed(events)}
    BY CoverageOperators DEF T!Uncovered, Traversed
  <2>2. QED
    BY <1>1, <2>1, GraphTyped
<1>7. ASSUME NEW R, R \subseteq V!IDs(wf), wf.start \in R, \A e \in Range(wf.edges) : e.to \in R
      PROVE  NodeIDs(wf) \subseteq R
  <2>1. Closed(R)
    BY <1>1, <1>2, <1>7, NoForkNoJoin DEF Closed
  <2>2. visited \subseteq R
    BY <1>3, <1>7, <2>1 DEF Needed
  <2>3. QED
    BY <1>3, <2>2
<1>8. status = "success"
  <2> DEFINE R == (Range(path) \cup {NoNode}) \cap V!IDs(wf)
  <2>1. wf.start \in R /\ R \subseteq V!IDs(wf)
    BY <1>1, <1>5
  <2>2. \A e \in Range(wf.edges) : e.to \in R
    <3>1. \A e \in Range(wf.edges) : <<e.from, e.to>>[2] \in Range(path) \cup {current} \cup {NoNode}
      BY <1>4, <1>6
    <3>2. QED
      BY <1>4, <1>6, <3>1
  <2> HIDE DEF R
  <2>3. NodeIDs(wf) \subseteq R
    BY <1>7, <2>1, <2>2
  <2>4. wf.exit \in NodeIDs(wf) /\ wf.exit # NoNode
    BY <1>2, SameOperators DEF LocallyOK, V!Known
  <2>5. wf.exit \in Range(path)
    BY <2>3, <2>4 DEF R
  <2>6. QED
    BY <1>4, <2>5
<1>9. \A e \in Range(wf.edges) : e.to \in Range(path)
  <2>1. \A e \in Range(wf.edges) : <<e.from, e.to>>[2] \in Range(path) \cup {current}
    BY <1>4, <1>6, <1>8
  <2>2. QED
    BY <1>4, <2>1
<1>10. NodeIDs(wf) \subseteq Range(path)
  BY <1>1, <1>5, <1>7, <1>9
<1>11. QED
  BY <1>1, <1>10

LEMMA AtOnceIsCovered ==
  ASSUME RunKnown, Walked, ~Forks, NEW e \in T!Uncovered(wf, events)
  PROVE  ~T!Passed(Result, AtOnce(e.from, e.to))
<1> SUFFICES ASSUME T!Adjacent(path, e.from, e.to) PROVE FALSE
  BY WhatPasses
<1> DEFINE i == T!FindInPath(path, e.from, 1)
<1>1. path \in Seq(NodeIDs(wf))
  BY DEF RunKnown, IInv, TypeOK
<1>2. i # 0 /\ i < Len(path) /\ path[i + 1] = e.to
  BY DEF T!Adjacent
<1>3. i \in DOMAIN path /\ path[i] = e.from
  <2>1. i # 0 => i \in DOMAIN path /\ path[i] = e.from
    BY <1>1, FindsFirst
  <2>2. QED
    BY <1>2, <2>1
<1> HIDE DEF i
<1>4. i \in 1..(Len(path) - 1)
  BY <1>1, <1>2, <1>3
<1>5. <<e.from, e.to>> \in Traversed(events)
  BY <1>2, <1>3, <1>4 DEF Walked
<1>6. <<e.from, e.to>> \notin Traversed(events)
  BY CoverageOperators DEF T!Uncovered, Traversed
<1>7. QED
  BY <1>5, <1>6

Judged == RunKnown /\ LogKnown /\ Walked

LEMMA JudgedInit == CommandInit => Judged
<1> SUFFICES ASSUME CommandInit PROVE Judged
  OBVIOUS
<1>1. Init /\ RunKnown /\ LogKnown
  BY RunKnownInit, InitLogKnown DEF CommandInit
<1>2. path = <<>> /\ events = <<>> /\ status = "running" /\ pc = "start" /\ current = wf.start
  BY <1>1, ZenonT(20) DEF Init
<1>3. Traversed(events) = {} /\ Range(path) = {} /\ Len(path) = 0
  BY <1>2, CodedNone DEF Traversed
<1>4. QED
  BY <1>1, <1>2, <1>3 DEF Judged, Walked, Ended

LEMMA JudgedStep ==
  ASSUME Judged, [CommandNext]_allVars
  PROVE  Judged'
<1>1. wf' = wf /\ (UNCHANGED vars \/ Next) /\ RunKnown'
  BY CommandSteps, RunKnownStep DEF Judged
<1>2. IInv /\ LogKnown /\ Walked
  BY DEF Judged, RunKnown
<1>3. LogKnown' /\ Walked'
  BY <1>1, <1>2, NextKeepsLog, WalkedKept
<1>4. QED
  BY <1>1, <1>3 DEF Judged

(* dippin test judges a run by what it did: no case passes on a run that   *)
(* failed and an empty one passes on every other; IDs are found in order   *)
(* exactly when the path has them in this order; and without fan-outs one  *)
(* node follows another at once only along a covered edge, and a run that  *)
(* covers every edge visits every node (testrunner/runner.go checkPath-    *)
(* Contains, checkAdjacent; testrunner/coverage.go).                       *)
THEOREM TestsJudgeRight == CommandSpec => []TestsJudgeThePath
<1>1. CommandInit => Judged
  BY JudgedInit
<1>2. Judged /\ [CommandNext]_allVars => Judged'
  BY JudgedStep
<1>3. Judged => TestsJudgeThePath
  <2> SUFFICES ASSUME Judged, pc = "done"
               PROVE  /\ T!Passed(Result, NothingExpected) = Ended
                      /\ Ended => \A a, b, c \in NodeIDs(wf) :
                              T!Passed(Result, InOrder(<<a, b, c>>)) = OccurInOrder(a, b, c)
                      /\ Ended /\ ~Forks =>
                              /\ \A e \in T!Uncovered(wf, events) : ~T!Passed(Result, AtOnce(e.from, e.to))
                              /\ T!Uncovered(wf, events) = {} => Range(path) = NodeIDs(wf)
    BY DEF TestsJudgeThePath
  <2>1. RunKnown /\ Walked /\ path \in Seq(NodeIDs(wf)) /\ (Ended <=> status # "error")
    BY DEF Judged, RunKnown, IInv, TypeOK, Statuses, Ended
  <2>2. T!Passed(Result, NothingExpected) = Ended
    <3>1. T!Passed(Result, NothingExpected) <=> Ended
      BY <2>1, WhatPasses
    <3>2. T!Passed(Result, NothingExpected) \in BOOLEAN
      BY DEF T!Passed
    <3>3. Ended \in BOOLEAN
      BY DEF Ended
    <3>4. QED
      <4> DEFINE passes == T!Passed(Result, NothingExpected)
      <4>1. passes \in BOOLEAN /\ Ended \in BOOLEAN /\ (passes <=> Ended)
        BY <3>1, <3>2, <3>3
      <4> HIDE DEF passes
      <4>2. passes = Ended
        BY <4>1
      <4>3. QED
        BY <4>2 DEF passes
  <2>3. ASSUME Ended, NEW a, NEW b, NEW c
        PROVE  T!Passed(Result, InOrder(<<a, b, c>>)) = OccurInOrder(a, b, c)
    <3>1. T!Passed(Result, InOrder(<<a, b, c>>)) <=> OccurInOrder(a, b, c)
      BY <2>1, <2>3, WhatPasses, GreedyFinds
    <3>2. QED
      BY <3>1 DEF T!Passed, OccurInOrder
  <2>4. QED
    BY <2>1, <2>2, <2>3, AtOnceIsCovered, AllEdgesAllNodes
<1>4. QED
  BY <1>1, <1>2, <1>3, PTL DEF CommandSpec

=============================================================================
