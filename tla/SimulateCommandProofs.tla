------------------------ MODULE SimulateCommandProofs -----------------------
(***************************************************************************)
(* What the validator's verdict is worth: DIP004 is exact (the invariant   *)
(* Reached says what the breadth-first search knows half-way), DIP005      *)
(* breaks every cycle and names only cycles (CyclesKnown: the calls under  *)
(* way are a path, and what was left has no cycle but through reported     *)
(* nodes), and a run of a workflow of which it reports nothing fails only  *)
(* for causes it does not look at (RunKnown adds what its silence says of  *)
(* the graph to what SimulatorProofs says of the run).  The validator's    *)
(* module is instantiated, so its operators and those it takes from the    *)
(* libraries are copies: the first lemmas say that they are the same.      *)
(***************************************************************************)
EXTENDS SimulateCommand, SimulatorProofs

-----------------------------------------------------------------------------
(* The validator's copies of the operators of Workflow and of the libraries*)
(* are the operators themselves.                                           *)

LEMMA SameOperators ==
  /\ V!NoNode = NoNode
  /\ \A s : V!Range(s) = Range(s) /\ V!Last(s) = Last(s) /\ V!Front(s) = Front(s) /\ V!Reverse(s) = Reverse(s)
  /\ \A s : V!FlattenSeq(s) = FlattenSeq(s)
  /\ \A w : V!NodeIDs(w) = NodeIDs(w)
  /\ \A w, id : V!TargetsOf(w, id) = TargetsOf(w, id)
<1>1. V!NoNode = NoNode
  BY DEF V!NoNode, NoNode
<1>2. \A s : V!Range(s) = Range(s) /\ V!Last(s) = Last(s) /\ V!Front(s) = Front(s) /\ V!Reverse(s) = Reverse(s)
  BY DEF V!Range, Range, V!Last, Last, V!Front, Front, V!Reverse, Reverse
<1>3. \A s : V!FlattenSeq(s) = FlattenSeq(s)
  BY DEF V!FlattenSeq, FlattenSeq
<1>4. \A w : V!NodeIDs(w) = NodeIDs(w)
  BY DEF V!NodeIDs, NodeIDs
<1>5. \A w, id : V!TargetsOf(w, id) = TargetsOf(w, id)
  BY DEF V!TargetsOf, TargetsOf, V!NodeIDs, NodeIDs, V!NodeOf, NodeOf, V!SelectInSeq, SelectInSeq, V!Min, Min
<1>6. QED
  BY <1>1, <1>2, <1>3, <1>4, <1>5

LEMMA SameCardinality == \A S : V!Cardinality(S) = Cardinality(S)
BY DEF V!Cardinality, Cardinality

LEMMA SameKeep ==
  ASSUME NEW S, NEW s \in Seq(S), NEW I \in SUBSET (DOMAIN s)
  PROVE  V!Keep(s, I) = Keep(s, I)
<1>1. IsFiniteSet(I) /\ I \in SUBSET Nat
  <2>1. IsFiniteSet(I)
    BY KeepElements
  <2>2. DOMAIN s \subseteq Nat
    OBVIOUS
  <2>3. QED
    BY <2>1, <2>2
<1>2. \A J : V!Cardinality(J) = Cardinality(J)
  BY SameCardinality
<1> DEFINE Kth(k) == CHOOSE i \in I : Cardinality({j \in I : j < i}) = k - 1
           VKth(k) == CHOOSE i \in I : V!Cardinality({j \in I : j < i}) = k - 1
<1>3. Keep(s, I) = [k \in 1..Cardinality(I) |-> s[Kth(k)]]
  BY DEF Keep
<1>4. V!Keep(s, I) = [k \in 1..V!Cardinality(I) |-> s[VKth(k)]]
  BY DEF V!Keep
<1>5. ASSUME NEW k \in 1..Cardinality(I)
      PROVE  VKth(k) = Kth(k)
  <2>1. \E i \in I : Cardinality(Before(I, i)) = k - 1
    BY <1>1, KthPosition
  <2>2. Kth(k) \in I /\ Cardinality(Before(I, Kth(k))) = k - 1
    BY <2>1 DEF Before
  <2>3. VKth(k) \in I /\ Cardinality(Before(I, VKth(k))) = k - 1
    <3>1. \E i \in I : V!Cardinality({j \in I : j < i}) = k - 1
      BY <1>2, <2>1 DEF Before
    <3>2. VKth(k) \in I /\ V!Cardinality({j \in I : j < VKth(k)}) = k - 1
      BY <3>1
    <3>3. QED
      BY <1>2, <3>2 DEF Before
  <2> HIDE DEF Kth, VKth
  <2>4. QED
    BY <1>1, <2>2, <2>3, KthPosition
<1> HIDE DEF Kth, VKth
<1>6. V!Cardinality(I) = Cardinality(I)
  BY <1>2
<1>7. QED
  BY ONLY <1>3, <1>4, <1>5, <1>6

-----------------------------------------------------------------------------
(* The graph the validator searches                                        *)

\* Where the edges from id lead, those of fan-outs and joins included.
Successors(id) ==
    {e.to : e \in {x \in Range(wf.edges) : x.from = id}}
    \cup (UNION {Range(n.targets) : n \in {x \in Range(wf.nodes) : x.kind = "parallel" /\ x.id = id}})
    \cup {n.id : n \in {x \in Range(wf.nodes) : x.kind = "fan_in" /\ id \in Range(x.sources)}}

(* The edges of a workflow, as the lemmas about sequences need them.       *)
LEMMA GraphTyped ==
  ASSUME wf \in Workflows
  PROVE  /\ wf.nodes \in Seq(NodeRecords) /\ Len(wf.nodes) \in Nat /\ DOMAIN wf.nodes = 1..Len(wf.nodes)
         /\ wf.edges \in Seq(Range(wf.edges)) /\ Len(wf.edges) \in Nat /\ DOMAIN wf.edges = 1..Len(wf.edges)
         /\ \A n \in Range(wf.nodes) : n \in NodeRecords /\ n.id \in V!IDs(wf)
         /\ \A n \in Range(wf.nodes) : Range(n.targets) \subseteq V!IDs(wf) /\ Range(n.sources) \subseteq V!IDs(wf)
         /\ \A e \in Range(wf.edges) : e.from \in V!IDs(wf) /\ e.to \in V!IDs(wf)
         /\ wf.start \in V!IDs(wf) /\ NodeIDs(wf) \subseteq V!IDs(wf)
         /\ NodeIDs(wf) = {n.id : n \in Range(wf.nodes)}
<1>1. wf.nodes \in Seq(NodeRecords) /\ wf.edges \in Seq(Range(wf.edges))
  BY WorkflowsAssumption
<1>2. /\ Len(wf.nodes) \in Nat /\ DOMAIN wf.nodes = 1..Len(wf.nodes)
      /\ Len(wf.edges) \in Nat /\ DOMAIN wf.edges = 1..Len(wf.edges)
      /\ \A i \in DOMAIN wf.nodes : wf.nodes[i] \in NodeRecords
  BY <1>1
<1>3. \A i \in DOMAIN wf.nodes : /\ wf.nodes[i].id \in V!IDs(wf)
                                 /\ Range(wf.nodes[i].targets) \subseteq V!IDs(wf)
                                 /\ Range(wf.nodes[i].sources) \subseteq V!IDs(wf)
  BY SameOperators DEF V!IDs, NodeIDs
<1>4. \A i \in DOMAIN wf.edges : wf.edges[i].from \in V!IDs(wf) /\ wf.edges[i].to \in V!IDs(wf)
  BY SameOperators DEF V!IDs
<1>5. wf.start \in V!IDs(wf) /\ NodeIDs(wf) \subseteq V!IDs(wf)
  BY SameOperators DEF V!IDs
<1>6. NodeIDs(wf) = {n.id : n \in Range(wf.nodes)}
  BY DEF NodeIDs, Range
<1>7. QED
  BY <1>1, <1>2, <1>3, <1>4, <1>5, <1>6 DEF Range

(* Choosing edges and taking their ends.                                   *)
LEMMA EndsOfChosen ==
  ASSUME wf \in Workflows, NEW I \in SUBSET (DOMAIN wf.edges)
  PROVE  LET chosen == Keep(wf.edges, I)
             ends == [i \in DOMAIN chosen |-> chosen[i].to]
         IN  ends \in Seq(V!IDs(wf)) /\ Range(ends) = {wf.edges[i].to : i \in I}
<1> DEFINE chosen == Keep(wf.edges, I)
           ends == [i \in DOMAIN chosen |-> chosen[i].to]
<1>1. chosen \in Seq(Range(wf.edges)) /\ Range(chosen) = {wf.edges[i] : i \in I}
  <2>1. wf.edges \in Seq(Range(wf.edges))
    BY GraphTyped
  <2>2. QED
    BY <2>1, KeepElements
<1> HIDE DEF chosen
<1>2. \A i \in DOMAIN chosen : chosen[i] \in Range(wf.edges)
  BY <1>1
<1>3. \A i \in DOMAIN chosen : ends[i] \in V!IDs(wf)
  BY <1>2, GraphTyped
<1>4. DOMAIN ends = DOMAIN chosen /\ ends = [i \in DOMAIN chosen |-> ends[i]]
  OBVIOUS
<1>5. Range(ends) = {x.to : x \in Range(chosen)}
  BY DEF Range
<1> HIDE DEF ends
<1>6. ends \in Seq(V!IDs(wf))
  BY <1>1, <1>3, <1>4, MappedSeq
<1>7. Range(ends) = {wf.edges[i].to : i \in I}
  BY <1>1, <1>5
<1>8. QED
  BY <1>6, <1>7 DEF ends, chosen

(* buildAllEdgeAdjacency lists the successors of a node and nothing else.  *)
LEMMA AllSuccessors ==
  ASSUME wf \in Workflows, NEW id
  PROVE  /\ V!AllEdgeAdjacency(id) \in Seq(V!IDs(wf))
         /\ Range(V!AllEdgeAdjacency(id)) = Successors(id)
<1> DEFINE I == {i \in DOMAIN wf.edges : wf.edges[i].from = id}
           chosen == Keep(wf.edges, I)
           explicit == [i \in DOMAIN chosen |-> chosen[i].to]
           Implicit(n) == IF n.kind = "parallel" /\ n.id = id THEN n.targets
                          ELSE IF n.kind = "fan_in" /\ id \in Range(n.sources) THEN <<n.id>> ELSE <<>>
           lists == [i \in DOMAIN wf.nodes |-> Implicit(wf.nodes[i])]
           D == V!IDs(wf)
<1>1. V!AllEdgeAdjacency(id) = explicit \o FlattenSeq(lists)
  <2>1. V!Keep(wf.edges, I) = chosen
    BY GraphTyped, SameKeep
  <2>2. \A s : V!FlattenSeq(s) = FlattenSeq(s) /\ V!Range(s) = Range(s)
    BY SameOperators
  <2>3. QED
    BY <2>1, <2>2 DEF V!AllEdgeAdjacency, V!ExplicitTargets
<1>2. explicit \in Seq(D) /\ Range(explicit) = {wf.edges[i].to : i \in I}
  BY EndsOfChosen
<1>3. Range(explicit) = {e.to : e \in {x \in Range(wf.edges) : x.from = id}}
  <2>1. ASSUME NEW i \in I PROVE wf.edges[i] \in {x \in Range(wf.edges) : x.from = id}
    BY DEF Range
  <2>2. ASSUME NEW e \in Range(wf.edges), e.from = id PROVE \E i \in I : wf.edges[i] = e
    BY <2>2 DEF Range
  <2> HIDE DEF explicit, I
  <2>3. QED
    BY <1>2, <2>1, <2>2
<1>4. ASSUME NEW n \in Range(wf.nodes)
      PROVE  Implicit(n) \in Seq(D)
  <2>1. n \in NodeRecords /\ n.id \in D /\ Range(n.targets) \subseteq D
    BY GraphTyped
  <2>2. n.targets \in Seq(STRING)
    BY <2>1 DEF NodeRecords
  <2> DEFINE t == n.targets
  <2>3. Len(t) \in Nat /\ DOMAIN t = 1..Len(t) /\ t = [i \in 1..Len(t) |-> t[i]]
    <3> HIDE DEF t
    <3>1. QED
      BY <2>2 DEF t
  <2>4. \A i \in 1..Len(t) : t[i] \in D
    BY <2>1, <2>3 DEF Range
  <2>5. t \in Seq(D)
    <3> HIDE DEF t, D
    <3>1. QED
      BY <2>3, <2>4
  <2>6. <<n.id>> \in Seq(D) /\ <<>> \in Seq(D)
    BY <2>1
  <2>7. QED
    BY <2>5, <2>6
<1>5. lists \in Seq(Seq(D))
  <2>1. \A i \in DOMAIN wf.nodes : wf.nodes[i] \in Range(wf.nodes)
    BY DEF Range
  <2>2. \A i \in DOMAIN wf.nodes : lists[i] \in Seq(D)
    BY <1>4, <2>1
  <2>3. lists = [i \in DOMAIN wf.nodes |-> lists[i]] /\ DOMAIN lists = DOMAIN wf.nodes
    OBVIOUS
  <2> HIDE DEF lists, D
  <2>4. QED
    BY <2>2, <2>3, GraphTyped, MappedSeq
<1>6. /\ FlattenSeq(lists) \in Seq(D)
      /\ Range(FlattenSeq(lists)) = UNION {Range(lists[i]) : i \in DOMAIN lists}
  <2> HIDE DEF lists, D
  <2>1. QED
    BY <1>5, FlattenElements
<1>7. UNION {Range(lists[i]) : i \in DOMAIN lists} = UNION {Range(Implicit(n)) : n \in Range(wf.nodes)}
  <2>1. /\ DOMAIN lists = DOMAIN wf.nodes /\ \A i \in DOMAIN wf.nodes : lists[i] = Implicit(wf.nodes[i])
    OBVIOUS
  <2>2. Range(wf.nodes) = {wf.nodes[i] : i \in DOMAIN wf.nodes}
    BY DEF Range
  <2> HIDE DEF lists, Implicit
  <2>3. QED
    BY <2>1, <2>2
<1> DEFINE fork == UNION {Range(n.targets) : n \in {x \in Range(wf.nodes) : x.kind = "parallel" /\ x.id = id}}
           joins == {n.id : n \in {x \in Range(wf.nodes) : x.kind = "fan_in" /\ id \in Range(x.sources)}}
<1>8. UNION {Range(Implicit(n)) : n \in Range(wf.nodes)} = fork \cup joins
  <2>1. \A n : Range(<<n.id>>) = {n.id} /\ Range(<<>>) = {}
    BY DEF Range
  <2>2. ASSUME NEW n \in Range(wf.nodes) PROVE Range(Implicit(n)) \subseteq fork \cup joins
    BY <2>1
  <2>3. ASSUME NEW n \in Range(wf.nodes), n.kind = "parallel", n.id = id PROVE Range(n.targets) = Range(Implicit(n))
    BY <2>3
  <2>4. ASSUME NEW n \in Range(wf.nodes), n.kind = "fan_in", id \in Range(n.sources) PROVE n.id \in Range(Implicit(n))
    BY <2>1, <2>4
  <2> HIDE DEF Implicit
  <2>5. QED
    BY <2>2, <2>3, <2>4
<1>9. Range(FlattenSeq(lists)) = fork \cup joins
  BY <1>6, <1>7, <1>8
<1> DEFINE implicit == FlattenSeq(lists)
<1>10. explicit \o implicit \in Seq(D) /\ Range(explicit \o implicit) = Range(explicit) \cup Range(implicit)
  <2>1. implicit \in Seq(D)
    BY <1>6
  <2> HIDE DEF implicit, explicit, D
  <2>2. QED
    BY <1>2, <2>1, ConcatElements
<1> HIDE DEF explicit, lists
<1>11. QED
  BY <1>1, <1>3, <1>9, <1>10 DEF Successors

(* The sets the property speaks of are those that no edge leaves.          *)
LEMMA ClosedMeans ==
  ASSUME NEW S
  PROVE  V!ClosedSet(S) /\ V!ClosedUnderForks(S) <=> \A id \in S : Successors(id) \subseteq S
<1>1. ASSUME V!ClosedSet(S), V!ClosedUnderForks(S), NEW id \in S
      PROVE  Successors(id) \subseteq S
  BY <1>1 DEF V!Range, Range, V!ClosedSet, V!ClosedUnderForks, Successors
<1>2. ASSUME \A id \in S : Successors(id) \subseteq S
      PROVE  V!ClosedSet(S)
  BY <1>2 DEF V!Range, Range, V!ClosedSet, Successors
<1>3. ASSUME \A id \in S : Successors(id) \subseteq S
      PROVE  V!ClosedUnderForks(S)
  <2>1. ASSUME NEW n \in Range(wf.nodes), n.kind = "parallel", n.id \in S PROVE Range(n.targets) \subseteq S
    BY <1>3, <2>1 DEF Successors
  <2>2. ASSUME NEW n \in Range(wf.nodes), n.kind = "fan_in", NEW id \in Range(n.sources) \cap S PROVE n.id \in S
    BY <1>3, <2>2 DEF Successors
  <2>3. \A s : V!Range(s) = Range(s)
    BY SameOperators
  <2>4. QED
    BY <2>1, <2>2, <2>3 DEF V!ClosedUnderForks
<1>4. QED
  BY <1>1, <1>2, <1>3

(* The validator sees the edges that the runs see.                         *)
LEMMA ChosenIDs ==
  ASSUME wf \in Workflows, NEW I \in SUBSET (DOMAIN wf.nodes)
  PROVE  LET chosen == Keep(wf.nodes, I)
             ids == [i \in DOMAIN chosen |-> chosen[i].id]
         IN  /\ V!Keep(wf.nodes, I) = Keep(wf.nodes, I)
             /\ ids \in Seq(NodeIDs(wf)) /\ ids \in Seq(STRING) /\ Range(ids) = {wf.nodes[i].id : i \in I}
<1> DEFINE chosen == Keep(wf.nodes, I)
           ids == [i \in DOMAIN chosen |-> chosen[i].id]
<1>1. wf.nodes \in Seq(Range(wf.nodes))
  <2> DEFINE s == wf.nodes
             R == Range(s)
  <2>1. Len(s) \in Nat /\ DOMAIN s = 1..Len(s) /\ s = [i \in 1..Len(s) |-> s[i]]
    <3>1. s \in Seq(NodeRecords)
      BY GraphTyped
    <3> HIDE DEF s
    <3>2. QED
      BY <3>1
  <2>2. \A i \in 1..Len(s) : s[i] \in R
    BY <2>1 DEF Range
  <2>3. s \in Seq(R)
    <3> HIDE DEF s, R
    <3>1. QED
      BY <2>1, <2>2
  <2>4. QED
    BY <2>3
<1>2. chosen \in Seq(Range(wf.nodes)) /\ Range(chosen) = {wf.nodes[i] : i \in I}
      /\ V!Keep(wf.nodes, I) = chosen
  BY <1>1, KeepElements, SameKeep
<1> HIDE DEF chosen
<1>3. \A i \in DOMAIN chosen : chosen[i] \in Range(wf.nodes)
  BY <1>2
<1>4. \A i \in DOMAIN chosen : ids[i] \in NodeIDs(wf) /\ ids[i] \in STRING
  BY <1>3, GraphTyped DEF NodeRecords
<1>5. DOMAIN ids = DOMAIN chosen /\ ids = [i \in DOMAIN chosen |-> ids[i]]
  OBVIOUS
<1>6. Range(ids) = {x.id : x \in Range(chosen)}
  BY DEF Range
<1> HIDE DEF ids
<1>7. ids \in Seq(NodeIDs(wf)) /\ ids \in Seq(STRING)
  BY <1>2, <1>4, <1>5, MappedSeq
<1>8. Range(ids) = {wf.nodes[i].id : i \in I}
  BY <1>2, <1>6
<1>9. QED
  BY <1>2, <1>7, <1>8 DEF ids, chosen

LEMMA SameEdges ==
  ASSUME wf \in Workflows, NEW id \in NodeIDs(wf)
  PROVE  V!EdgesFrom(wf, id) = EdgesFrom(wf, id)
<1> DEFINE own == {i \in DOMAIN wf.edges : wf.edges[i].from = id}
           explicit == Keep(wf.edges, own)
           plain == {e.to : e \in {x \in Range(explicit) : x.cond = NoCond}}
           waiting == {i \in DOMAIN wf.nodes : wf.nodes[i].kind = "fan_in" /\ id \in Range(wf.nodes[i].sources)}
           chosen == Keep(wf.nodes, waiting)
           joins == [i \in DOMAIN chosen |-> chosen[i].id]
           ends == TargetsOf(wf, id) \o joins
           first == {i \in DOMAIN ends : ends[i] \notin plain /\ \A j \in 1..(i - 1) : ends[j] # ends[i]}
           implied == Keep(ends, first)
<1>1. EdgesFrom(wf, id) = explicit \o [i \in DOMAIN implied |-> ImplicitEdge(id, implied[i])]
  BY DEF EdgesFrom, IDsWhere
<1>2. V!Keep(wf.edges, own) = explicit
  BY GraphTyped, SameKeep
<1>3. V!Keep(wf.nodes, waiting) = chosen /\ joins \in Seq(STRING)
  BY ChosenIDs
<1>4. TargetsOf(wf, id) \in Seq(STRING)
  BY TargetsTyped
<1>5. ends \in Seq(STRING)
  <2> HIDE DEF joins
  <2>1. QED
    BY <1>3, <1>4
<1>6. V!Keep(ends, first) = implied
  <2> HIDE DEF ends, plain
  <2>1. QED
    BY <1>5, SameKeep
<1>7. /\ \A s : V!Range(s) = Range(s)
      /\ V!TargetsOf(wf, id) = TargetsOf(wf, id)
      /\ \A x : V!ImplicitEdge(id, x) = ImplicitEdge(id, x)
  BY SameOperators DEF V!ImplicitEdge, ImplicitEdge, V!Edge, Edge
<1> DEFINE Vexplicit == V!Keep(wf.edges, own)
           Vplain == {e.to : e \in {x \in V!Range(Vexplicit) : x.cond = NoCond}}
           Vwaiting == {i \in DOMAIN wf.nodes :
                           wf.nodes[i].kind = "fan_in" /\ id \in V!Range(wf.nodes[i].sources)}
           Vchosen == V!Keep(wf.nodes, Vwaiting)
           Vjoins == [i \in DOMAIN Vchosen |-> Vchosen[i].id]
           Vends == V!TargetsOf(wf, id) \o Vjoins
           Vfirst == {i \in DOMAIN Vends : Vends[i] \notin Vplain /\ \A j \in 1..(i - 1) : Vends[j] # Vends[i]}
           Vimplied == V!Keep(Vends, Vfirst)
<1>8. V!EdgesFrom(wf, id) = Vexplicit \o [i \in DOMAIN Vimplied |-> V!ImplicitEdge(id, Vimplied[i])]
  BY DEF V!EdgesFrom, V!IDsWhere
<1>9. Vexplicit = explicit /\ Vplain = plain
  BY <1>2, <1>7
<1>10. Vwaiting = waiting
  BY <1>7
<1>11. Vchosen = chosen
  BY <1>3, <1>10
<1>12. Vends = ends
  BY <1>7, <1>11
<1>13. Vimplied = implied
  <2> HIDE DEF Vends, ends, Vplain, plain
  <2>1. Vfirst = first
    BY <1>9, <1>12
  <2>2. QED
    BY <1>6, <1>12, <2>1
<1> HIDE DEF Vexplicit, Vimplied, explicit, implied
<1>14. QED
  BY <1>1, <1>7, <1>8, <1>9, <1>13

-----------------------------------------------------------------------------
(* Diagnostics                                                             *)

\* A list of diagnostics with these codes.
Coded(ds, codes) == ds \in Seq(Range(ds)) /\ \A d \in Range(ds) : d.code \in codes

LEMMA CodedList ==
  ASSUME NEW ds, NEW n \in Nat, DOMAIN ds = 1..n, ds = [i \in 1..n |-> ds[i]],
         NEW codes, \A i \in 1..n : ds[i].code \in codes
  PROVE  Coded(ds, codes)
<1>1. \A i \in 1..n : ds[i] \in Range(ds)
  BY DEF Range
<1>2. ds \in [1..n -> Range(ds)]
  BY <1>1
<1>3. ds \in Seq(Range(ds))
  BY <1>2
<1>4. QED
  BY <1>3 DEF Coded, Range

LEMMA CodedConcat ==
  ASSUME NEW ds, NEW es, NEW codes, Coded(ds, codes), Coded(es, codes)
  PROVE  Coded(ds \o es, codes) /\ Range(ds \o es) = Range(ds) \cup Range(es)
<1> DEFINE S == Range(ds) \cup Range(es)
<1>1. ds \in Seq(S) /\ es \in Seq(S)
  <2>1. ds \in Seq(Range(ds)) /\ es \in Seq(Range(es))
    BY DEF Coded
  <2>2. QED
    BY <2>1
<1>2. Range(ds \o es) = S /\ ds \o es \in Seq(S)
  <2> HIDE DEF S
  <2>1. QED
    BY <1>1, ConcatElements DEF S
<1>3. QED
  BY <1>2 DEF Coded

LEMMA CodedMore ==
  ASSUME NEW ds, NEW codes, NEW more, codes \subseteq more, Coded(ds, codes)
  PROVE  Coded(ds, more)
BY DEF Coded

LEMMA CodedNone == \A codes : Coded(<<>>, codes) /\ Range(<<>>) = {}
BY DEF Coded, Range

(* The local checks: what they report, and what holds if it is nothing.    *)
Local == V!DuplicateNodes \o V!MissingEnds \o V!DanglingEdges \o V!ExitEdges \o V!DuplicateEdges

NodesUnique == \A m, n \in Range(wf.nodes) : m.id = n.id => m = n

LocallyOK ==
    /\ NodesUnique
    /\ V!Known(wf.start) /\ V!Known(wf.exit)
    /\ \A e \in Range(wf.edges) : {e.from, e.to} \subseteq NodeIDs(wf) \cup {NoNode}

LocalCodes == {"DIP001", "DIP002", "DIP003", "DIP006", "DIP008", "DIP009"}

LEMMA DuplicatesCoded ==
  ASSUME wf \in Workflows
  PROVE  /\ Coded(V!DuplicateNodes, LocalCodes) /\ Coded(V!DuplicateEdges, LocalCodes)
         /\ Range(V!DuplicateNodes) = {} => NodesUnique
<1>1. Coded(V!DuplicateNodes, LocalCodes) /\ (Range(V!DuplicateNodes) = {} => NodesUnique)
  <2> DEFINE I == {i \in DOMAIN wf.nodes : \E j \in 1..(i - 1) : wf.nodes[j].id = wf.nodes[i].id}
             again == Keep(wf.nodes, I)
             ds == [k \in DOMAIN again |-> V!Diagnostic("DIP008", <<again[k].id>>)]
  <2>1. V!Keep(wf.nodes, I) = again
    BY GraphTyped, SameKeep
  <2>2. V!DuplicateNodes = ds
    BY <2>1 DEF V!DuplicateNodes
  <2>3. again \in Seq(NodeRecords) /\ Range(again) = {wf.nodes[i] : i \in I}
    BY GraphTyped, KeepElements
  <2> HIDE DEF again
  <2>4. Len(again) \in Nat /\ DOMAIN again = 1..Len(again)
    BY <2>3
  <2>5. /\ DOMAIN ds = 1..Len(again) /\ ds = [k \in 1..Len(again) |-> ds[k]]
        /\ \A k \in 1..Len(again) : ds[k].code \in LocalCodes
    BY <2>4 DEF V!Diagnostic, LocalCodes
  <2> HIDE DEF ds
  <2>6. ASSUME Range(ds) = {}, NEW i \in DOMAIN wf.nodes, NEW j \in DOMAIN wf.nodes, wf.nodes[i].id = wf.nodes[j].id
        PROVE  wf.nodes[i] = wf.nodes[j]
    <3>1. Range(again) = {}
      BY <2>4, <2>5, <2>6 DEF Range
    <3>2. I = {}
      BY <2>3, <3>1
    <3>3. ~(i < j) /\ ~(j < i) /\ i \in Nat /\ j \in Nat
      BY <2>6, <3>2, GraphTyped
    <3>4. QED
      BY <3>3
  <2>7. Range(ds) = {} => NodesUnique
    BY <2>6 DEF NodesUnique, Range
  <2>8. QED
    BY <2>2, <2>4, <2>5, <2>7, CodedList
<1>2. Coded(V!DuplicateEdges, LocalCodes)
  <2> DEFINE Key(e) == <<e.from, e.to, e.cond>>
             I == {i \in DOMAIN wf.edges : \E j \in 1..(i - 1) : Key(wf.edges[j]) = Key(wf.edges[i])}
             again == Keep(wf.edges, I)
             ds == [k \in DOMAIN again |-> V!Diagnostic("DIP009", <<again[k].from, again[k].to>>)]
  <2>1. V!Keep(wf.edges, I) = again
    BY GraphTyped, SameKeep
  <2>2. V!DuplicateEdges = ds
    BY <2>1 DEF V!DuplicateEdges
  <2>3. again \in Seq(Range(wf.edges))
    <3> HIDE DEF I
    <3>1. I \in SUBSET (DOMAIN wf.edges)
      BY DEF I
    <3>2. QED
      BY <3>1, GraphTyped, KeepElements
  <2> HIDE DEF again
  <2>4. Len(again) \in Nat /\ DOMAIN again = 1..Len(again)
    BY <2>3
  <2>5. /\ DOMAIN ds = 1..Len(again) /\ ds = [k \in 1..Len(again) |-> ds[k]]
        /\ \A k \in 1..Len(again) : ds[k].code \in LocalCodes
    BY <2>4 DEF V!Diagnostic, LocalCodes
  <2> HIDE DEF ds
  <2>6. QED
    BY <2>2, <2>4, <2>5, CodedList
<1>3. QED
  BY <1>1, <1>2

LEMMA ExitEdgesCoded ==
  ASSUME wf \in Workflows
  PROVE  Coded(V!ExitEdges, LocalCodes)
<1> DEFINE out == IF V!Known(wf.exit) THEN V!EdgesFrom(wf, wf.exit) ELSE <<>>
           ds == [i \in DOMAIN out |-> V!Diagnostic("DIP006", <<out[i].to>>)]
<1>1. V!ExitEdges = ds
  BY DEF V!ExitEdges
<1>2. Len(out) \in Nat /\ DOMAIN out = 1..Len(out)
  <2>1. CASE V!Known(wf.exit)
    <3>1. wf.exit \in NodeIDs(wf)
      BY <2>1, SameOperators DEF V!Known
    <3>2. out = EdgesFrom(wf, wf.exit)
      BY <2>1, <3>1, SameEdges
    <3>3. out \in Seq(Range(out))
      BY <3>1, <3>2, NodeEdges
    <3> HIDE DEF out
    <3>4. QED
      BY <3>3
  <2>2. CASE ~V!Known(wf.exit)
    BY <2>2
  <2>3. QED
    BY <2>1, <2>2
<1> HIDE DEF out
<1>3. /\ DOMAIN ds = 1..Len(out) /\ ds = [k \in 1..Len(out) |-> ds[k]]
      /\ \A k \in 1..Len(out) : ds[k].code \in LocalCodes
  BY <1>2 DEF V!Diagnostic, LocalCodes
<1> HIDE DEF ds
<1>4. QED
  BY <1>1, <1>2, <1>3, CodedList

LEMMA MissingEndsCoded ==
  /\ Coded(V!MissingEnds, LocalCodes)
  /\ Range(V!MissingEnds) = {} => V!Known(wf.start) /\ V!Known(wf.exit)
<1> DEFINE a == IF V!Known(wf.start) THEN <<>> ELSE <<V!Diagnostic("DIP001", <<wf.start>>)>>
           b == IF V!Known(wf.exit) THEN <<>> ELSE <<V!Diagnostic("DIP002", <<wf.exit>>)>>
<1>1. \A d : d.code \in LocalCodes => Coded(<<d>>, LocalCodes) /\ Range(<<d>>) = {d}
  BY DEF Coded, Range
<1>2. V!Diagnostic("DIP001", <<wf.start>>).code \in LocalCodes /\ V!Diagnostic("DIP002", <<wf.exit>>).code \in LocalCodes
  BY DEF V!Diagnostic, LocalCodes
<1>3. Coded(a, LocalCodes) /\ (Range(a) = {} => V!Known(wf.start))
  BY <1>1, <1>2, CodedNone
<1>4. Coded(b, LocalCodes) /\ (Range(b) = {} => V!Known(wf.exit))
  BY <1>1, <1>2, CodedNone
<1>5. V!MissingEnds = a \o b
  BY DEF V!MissingEnds
<1> HIDE DEF a, b
<1>6. QED
  BY <1>3, <1>4, <1>5, CodedConcat, ZenonT(40)

LEMMA DanglingCoded ==
  ASSUME wf \in Workflows
  PROVE  /\ Coded(V!DanglingEdges, LocalCodes)
         /\ Range(V!DanglingEdges) = {} =>
               \A e \in Range(wf.edges) : {e.from, e.to} \subseteq NodeIDs(wf) \cup {NoNode}
<1> DEFINE Unknown(id) == IF id \in V!NodeIDs(wf) \cup {V!NoNode} THEN <<>> ELSE <<V!Diagnostic("DIP003", <<id>>)>>
           lists == [i \in DOMAIN wf.edges |-> Unknown(wf.edges[i].from) \o Unknown(wf.edges[i].to)]
           D == {V!Diagnostic("DIP003", <<id>>) : id \in V!IDs(wf)}
<1>1. V!DanglingEdges = FlattenSeq(lists)
  BY SameOperators DEF V!DanglingEdges
<1>2. ASSUME NEW id \in V!IDs(wf)
      PROVE  Unknown(id) \in Seq(D) /\ (Range(Unknown(id)) = {} => id \in NodeIDs(wf) \cup {NoNode})
  <2>1. V!Diagnostic("DIP003", <<id>>) \in D
    OBVIOUS
  <2>2. \A d : Range(<<d>>) = {d}
    BY DEF Range
  <2> HIDE DEF D
  <2>3. Unknown(id) \in Seq(D)
    BY <2>1
  <2>4. QED
    BY <2>2, <2>3, SameOperators
<1>3. \A i \in DOMAIN wf.edges : wf.edges[i] \in Range(wf.edges)
  BY DEF Range
<1>4. ASSUME NEW i \in DOMAIN wf.edges
      PROVE  /\ lists[i] \in Seq(D)
             /\ Range(lists[i]) = Range(Unknown(wf.edges[i].from)) \cup Range(Unknown(wf.edges[i].to))
  <2>1. wf.edges[i].from \in V!IDs(wf) /\ wf.edges[i].to \in V!IDs(wf)
    BY <1>3, GraphTyped
  <2>2. lists[i] = Unknown(wf.edges[i].from) \o Unknown(wf.edges[i].to)
    OBVIOUS
  <2>3. Unknown(wf.edges[i].from) \in Seq(D) /\ Unknown(wf.edges[i].to) \in Seq(D)
    BY <1>2, <2>1
  <2> HIDE DEF Unknown, D, lists
  <2>4. QED
    BY <2>2, <2>3, ConcatElements
<1>5. lists \in Seq(Seq(D)) /\ DOMAIN lists = DOMAIN wf.edges
  <2>1. lists = [i \in DOMAIN wf.edges |-> lists[i]] /\ DOMAIN lists = DOMAIN wf.edges
    OBVIOUS
  <2>2. \A i \in DOMAIN wf.edges : lists[i] \in Seq(D)
    BY <1>4
  <2>3. wf.edges \in Seq(Range(wf.edges))
    BY GraphTyped
  <2> HIDE DEF lists, D
  <2>4. QED
    BY <2>1, <2>2, <2>3, MappedSeq
<1> HIDE DEF lists
<1>6. /\ FlattenSeq(lists) \in Seq(D)
      /\ Range(FlattenSeq(lists)) = UNION {Range(lists[i]) : i \in DOMAIN lists}
  <2> HIDE DEF D
  <2>1. QED
    BY <1>5, FlattenElements
<1>7. Coded(V!DanglingEdges, LocalCodes)
  <2> DEFINE f == FlattenSeq(lists)
  <2>1. Len(f) \in Nat /\ DOMAIN f = 1..Len(f) /\ f = [i \in 1..Len(f) |-> f[i]] /\ \A i \in 1..Len(f) : f[i] \in D
    <3>1. f \in Seq(D)
      BY <1>6
    <3> HIDE DEF f, D
    <3>2. QED
      BY <3>1
  <2>2. \A i \in 1..Len(f) : f[i].code \in LocalCodes
    BY <2>1 DEF V!Diagnostic, LocalCodes
  <2> HIDE DEF f
  <2>3. Coded(f, LocalCodes)
    BY <2>1, <2>2, CodedList
  <2>4. QED
    BY <1>1, <2>3 DEF f
<1>8. ASSUME Range(V!DanglingEdges) = {}, NEW e \in Range(wf.edges)
      PROVE  {e.from, e.to} \subseteq NodeIDs(wf) \cup {NoNode}
  <2>1. PICK i \in DOMAIN wf.edges : wf.edges[i] = e
    BY DEF Range
  <2>2. Range(lists[i]) = {}
    BY <1>1, <1>5, <1>6, <1>8
  <2>3. Range(Unknown(e.from)) = {} /\ Range(Unknown(e.to)) = {}
    BY <1>4, <2>1, <2>2
  <2>4. e.from \in V!IDs(wf) /\ e.to \in V!IDs(wf)
    BY GraphTyped
  <2> HIDE DEF Unknown
  <2>5. QED
    BY <1>2, <2>3, <2>4
<1>9. QED
  BY <1>7, <1>8

LEMMA LocalReports ==
  ASSUME wf \in Workflows
  PROVE  Coded(Local, LocalCodes) /\ (Local = <<>> => LocallyOK)
<1> DEFINE a == V!DuplicateNodes
           b == V!MissingEnds
           c == V!DanglingEdges
           d == V!ExitEdges
           e == V!DuplicateEdges
<1>1. Coded(a, LocalCodes) /\ Coded(b, LocalCodes) /\ Coded(c, LocalCodes) /\ Coded(d, LocalCodes) /\ Coded(e, LocalCodes)
  BY DuplicatesCoded, MissingEndsCoded, DanglingCoded, ExitEdgesCoded
<1> HIDE DEF a, b, c, d, e
<1>2. Coded(a \o b, LocalCodes) /\ Range(a \o b) = Range(a) \cup Range(b)
  BY <1>1, CodedConcat
<1>3. Coded((a \o b) \o c, LocalCodes) /\ Range((a \o b) \o c) = Range(a \o b) \cup Range(c)
  BY <1>1, <1>2, CodedConcat
<1>4. Coded(((a \o b) \o c) \o d, LocalCodes) /\ Range(((a \o b) \o c) \o d) = Range((a \o b) \o c) \cup Range(d)
  BY <1>1, <1>3, CodedConcat
<1>5. /\ Coded((((a \o b) \o c) \o d) \o e, LocalCodes)
      /\ Range((((a \o b) \o c) \o d) \o e) = Range(((a \o b) \o c) \o d) \cup Range(e)
  BY <1>1, <1>4, CodedConcat
<1>6. Local = (((a \o b) \o c) \o d) \o e
  BY DEF Local, a, b, c, d, e
<1>7. ASSUME Local = <<>> PROVE LocallyOK
  <2>1. Range(Local) = {}
    BY <1>7, CodedNone
  <2>2. Range(a) = {} /\ Range(b) = {} /\ Range(c) = {}
    BY <1>2, <1>3, <1>4, <1>5, <1>6, <2>1
  <2>3. QED
    BY <2>2, DuplicatesCoded, MissingEndsCoded, DanglingCoded DEF LocallyOK, a, b, c
<1>8. QED
  BY <1>5, <1>6, <1>7

-----------------------------------------------------------------------------
(* The search of DIP004                                                    *)

\* What the diagnostics with this code are about.
About(ds, code) == {d.about : d \in {x \in Range(ds) : x.code = code}}

LEMMA ReportsAbout == \A code : V!Reports(code) = About(diags, code)
BY DEF V!Reports, About, Range

\* More diagnostics, with other codes: nothing more about this one.
LEMMA AboutOthers ==
  ASSUME NEW ds, NEW es, NEW codes, Coded(ds, codes), Coded(es, codes),
         NEW code, \A d \in Range(es) : d.code # code
  PROVE  About(ds \o es, code) = About(ds, code)
<1>1. Range(ds \o es) = Range(ds) \cup Range(es)
  BY CodedConcat
<1>2. QED
  BY <1>1 DEF About

\* The neighbours the search has not seen, each once.
LEMMA FirstOnes ==
  ASSUME NEW S, NEW s \in Seq(S), NEW seen
  PROVE  {s[i] : i \in {k \in DOMAIN s : s[k] \notin seen /\ \A j \in 1..(k - 1) : s[j] # s[k]}} = Range(s) \ seen
<1> DEFINE I == {k \in DOMAIN s : s[k] \notin seen /\ \A j \in 1..(k - 1) : s[j] # s[k]}
<1>1. Len(s) \in Nat /\ DOMAIN s = 1..Len(s)
  OBVIOUS
<1>2. ASSUME NEW x \in Range(s), x \notin seen
      PROVE  \E i \in I : s[i] = x
  <2> DEFINE P == {k \in DOMAIN s : s[k] = x}
  <2>1. P \in SUBSET Nat /\ P # {}
    BY <1>1, <1>2 DEF Range
  <2>2. Min(P) \in P /\ \A k \in P : Min(P) <= k
    BY <2>1, MinIsLeast
  <2>3. PICK i \in P : \A k \in P : i <= k
    BY <2>2
  <2>4. \A j \in 1..(i - 1) : j \in DOMAIN s /\ ~(i <= j)
    BY <1>1, <2>3
  <2>5. i \in I /\ s[i] = x
    BY <1>2, <2>3, <2>4
  <2>6. QED
    BY <2>5
<1>3. \A i \in I : s[i] \in Range(s) \ seen
  BY DEF Range
<1> HIDE DEF I
<1>4. {s[i] : i \in I} = Range(s) \ seen
  BY <1>2, <1>3
<1>5. QED
  BY <1>4 DEF I

Closed(S) == \A id \in S : Successors(id) \subseteq S

\* Nothing is visited without need: a closed set around the start has it all.
Needed == \A S \in SUBSET V!IDs(wf) : wf.start \in S /\ Closed(S) => visited \subseteq S

\* The search is under way: only nodes in the queue may lead out of visited.
Searching ==
    /\ wf.start \in visited /\ visited \subseteq V!IDs(wf)
    /\ queue \in Seq(visited)
    /\ \A id \in visited \ Range(queue) : Successors(id) \subseteq visited
    /\ Needed

\* The search is over.
Searched == wf.start \in visited /\ visited \subseteq V!IDs(wf) /\ Closed(visited) /\ Needed

Reached ==
    /\ wf \in Workflows
    /\ check \in {"local", "reach", "cycles", "joins", "done"}
    /\ Coded(diags, V!Codes)
    /\ check = "local" => diags = <<>>
    /\ check = "reach" => Searching /\ About(diags, "DIP004") = {}
    /\ check \in {"cycles", "joins", "done"} /\ V!Known(wf.start) =>
          Searched /\ About(diags, "DIP004") = {<<id>> : id \in NodeIDs(wf) \ visited}

LEMMA SearchIsExact == Reached => V!UnreachableIsExact
<1> SUFFICES ASSUME Reached, check \in {"cycles", "joins", "done"}, V!Known(wf.start)
             PROVE  V!Reports("DIP004") =
                      {<<id>> : id \in {n \in V!NodeIDs(wf) :
                          \E S \in SUBSET V!IDs(wf) :
                              wf.start \in S /\ n \notin S /\ V!ClosedSet(S) /\ V!ClosedUnderForks(S)}}
  BY DEF V!UnreachableIsExact
<1>1. Searched /\ About(diags, "DIP004") = {<<id>> : id \in NodeIDs(wf) \ visited}
  BY DEF Reached
<1>2. \A S : V!ClosedSet(S) /\ V!ClosedUnderForks(S) <=> Closed(S)
  BY ClosedMeans DEF Closed
<1>3. ASSUME NEW n
      PROVE  n \notin visited <=> \E S \in SUBSET V!IDs(wf) : wf.start \in S /\ n \notin S /\ Closed(S)
  BY <1>1 DEF Searched, Needed
<1>4. NodeIDs(wf) \ visited = {n \in NodeIDs(wf) : \E S \in SUBSET V!IDs(wf) :
                                  wf.start \in S /\ n \notin S /\ V!ClosedSet(S) /\ V!ClosedUnderForks(S)}
  BY <1>2, <1>3
<1>5. V!NodeIDs(wf) = NodeIDs(wf) /\ V!Reports("DIP004") = About(diags, "DIP004")
  BY SameOperators, ReportsAbout
<1>6. QED
  BY <1>1, <1>4, <1>5

LEMMA ReachedInit == CommandInit => Reached
<1> SUFFICES ASSUME CommandInit PROVE Reached
  OBVIOUS
<1>1. wf \in Workflows /\ check = "local" /\ diags = <<>>
  <2>1. Init /\ V!Fresh
    BY DEF CommandInit
  <2>2. wf \in Workflows
    BY <2>1, ZenonT(20) DEF Init
  <2>3. check = "local" /\ diags = <<>>
    BY <2>1 DEF V!Fresh
  <2>4. QED
    BY <2>2, <2>3
<1>2. Coded(diags, V!Codes)
  BY <1>1, CodedNone
<1>3. QED
  BY <1>1, <1>2 DEF Reached

LEMMA CheckLocallyReaches ==
  ASSUME Reached, V!CheckLocally
  PROVE  Reached'
<1>1. wf \in Workflows /\ check = "local" /\ wf' = wf /\ diags' = Local
  BY DEF Reached, V!CheckLocally, Local
<1>2. Coded(Local, LocalCodes) /\ Coded(Local, V!Codes)
  <2>1. LocalCodes \subseteq V!Codes
    BY DEF LocalCodes, V!Codes
  <2>2. QED
    BY <1>1, <2>1, LocalReports, CodedMore
<1>3. About(Local, "DIP004") = {}
  BY <1>2 DEF Coded, About, LocalCodes
<1>4. CASE V!Known(wf.start)
  <2>1. check' = "reach" /\ queue' = <<wf.start>> /\ visited' = {wf.start}
    BY <1>4 DEF V!CheckLocally
  <2>2. wf.start \in V!IDs(wf) /\ Range(<<wf.start>>) = {wf.start}
    BY <1>1, GraphTyped DEF Range
  <2>3. Searching'
    <3>1. /\ wf.start \in {wf.start} /\ {wf.start} \subseteq V!IDs(wf)
          /\ <<wf.start>> \in Seq({wf.start})
          /\ \A id \in {wf.start} \ Range(<<wf.start>>) : Successors(id) \subseteq {wf.start}
          /\ \A S \in SUBSET V!IDs(wf) : wf.start \in S /\ Closed(S) => {wf.start} \subseteq S
      BY <2>2
    <3>2. (V!IDs(wf))' = V!IDs(wf) /\ \A id : Successors(id)' = Successors(id)
      BY <1>1 DEF V!IDs, V!NodeIDs, Successors
    <3>3. \A S : Closed(S)' <=> Closed(S)
      BY <3>2 DEF Closed
    <3>4. QED
      BY <1>1, <2>1, <3>1, <3>2, <3>3 DEF Searching, Needed
  <2>4. QED
    BY <1>1, <1>2, <1>3, <2>1, <2>3 DEF Reached
<1>5. CASE ~V!Known(wf.start)
  <2>1. check' = "joins"
    BY <1>5 DEF V!CheckLocally
  <2>2. ~V!Known(wf.start)'
    BY <1>1, <1>5 DEF V!Known, V!NodeIDs
  <2>3. QED
    BY <1>1, <1>2, <2>1, <2>2 DEF Reached
<1>6. QED
  BY <1>4, <1>5


\* The graph and what is needed depend on nothing but the workflow and visited.
LEMMA SameGraph ==
  ASSUME wf' = wf
  PROVE  /\ (V!IDs(wf))' = V!IDs(wf) /\ V!Known(wf.start)' = V!Known(wf.start)
         /\ \A id : Successors(id)' = Successors(id)
         /\ \A S : Closed(S)' = Closed(S)
<1>1. (V!IDs(wf))' = V!IDs(wf) /\ V!Known(wf.start)' = V!Known(wf.start)
  BY DEF V!IDs, V!NodeIDs, V!Known
<1>2. \A id : Successors(id)' = Successors(id)
  BY DEF Successors
<1>3. QED
  BY <1>1, <1>2 DEF Closed

LEMMA VisitReaches ==
  ASSUME Reached, V!VisitBreadthFirst
  PROVE  Reached'
<1> DEFINE id == Head(queue)
           next == V!AllEdgeAdjacency(id)
           I == {i \in DOMAIN next : next[i] \notin visited /\ \A j \in 1..(i - 1) : next[j] # next[i]}
           fresh == Keep(next, I)
           wider == visited \cup Range(next)
           D == V!IDs(wf)
<1>1. /\ wf \in Workflows /\ wf' = wf /\ check = "reach" /\ check' = "reach" /\ diags' = diags /\ queue # <<>>
      /\ Searching /\ Coded(diags, V!Codes) /\ About(diags, "DIP004") = {}
  BY DEF Reached, V!VisitBreadthFirst
<1>2. next \in Seq(D) /\ Range(next) = Successors(id)
  BY <1>1, AllSuccessors
<1>3. queue' = Tail(queue) \o fresh /\ visited' = wider
  <2>1. queue' = Tail(queue) \o V!Keep(next, I) /\ visited' = visited \cup V!Range(next)
    BY DEF V!VisitBreadthFirst
  <2>2. V!Keep(next, I) = Keep(next, I)
    <3> HIDE DEF next, D
    <3>1. QED
      BY <1>2, SameKeep
  <2>3. V!Range(next) = Range(next)
    BY SameOperators
  <2>4. QED
    BY <2>1, <2>2, <2>3
<1>4. /\ wf.start \in visited /\ visited \subseteq D /\ queue \in Seq(visited)
      /\ \A x \in visited \ Range(queue) : Successors(x) \subseteq visited
      /\ Needed
  BY <1>1 DEF Searching
<1>5. fresh \in Seq(Range(next)) /\ Range(fresh) = Range(next) \ visited
  <2>1. next \in Seq(Range(next))
    <3>1. Len(next) \in Nat /\ DOMAIN next = 1..Len(next) /\ next = [i \in 1..Len(next) |-> next[i]]
      <4> HIDE DEF next, D
      <4>1. QED
        BY <1>2
    <3>2. \A i \in 1..Len(next) : next[i] \in Range(next)
      BY <3>1 DEF Range
    <3> HIDE DEF next
    <3>3. QED
      BY <3>1, <3>2
  <2> HIDE DEF next
  <2>2. fresh \in Seq(Range(next)) /\ Range(fresh) = {next[i] : i \in I}
    BY <2>1, KeepElements
  <2>3. {next[i] : i \in I} = Range(next) \ visited
    BY <2>1, FirstOnes
  <2>4. QED
    BY <2>2, <2>3
<1> HIDE DEF next, fresh
<1>6. /\ Tail(queue) \in Seq(visited) /\ id \in visited
      /\ Range(queue) = {id} \cup Range(Tail(queue))
  <2>1. /\ Len(queue) \in Nat /\ Len(queue) # 0 /\ id = queue[1] /\ DOMAIN queue = 1..Len(queue)
        /\ Tail(queue) \in Seq(visited) /\ Len(Tail(queue)) = Len(queue) - 1
        /\ \A i \in 1..(Len(queue) - 1) : Tail(queue)[i] = queue[i + 1]
        /\ DOMAIN Tail(queue) = 1..(Len(queue) - 1)
    BY <1>1, <1>4
  <2>2. ASSUME NEW x \in Range(queue) PROVE x \in {id} \cup Range(Tail(queue))
    <3>1. PICK i \in 1..Len(queue) : queue[i] = x
      BY <2>1 DEF Range
    <3>2. CASE i = 1
      BY <2>1, <3>1, <3>2
    <3>3. CASE i # 1
      <4>1. i - 1 \in 1..(Len(queue) - 1) /\ (i - 1) + 1 = i
        BY <2>1, <3>3
      <4>2. Tail(queue)[i - 1] = x
        BY <2>1, <3>1, <4>1
      <4>3. QED
        BY <2>1, <4>1, <4>2 DEF Range
    <3>4. QED
      BY <3>2, <3>3
  <2>3. ASSUME NEW x \in Range(Tail(queue)) PROVE x \in Range(queue)
    <3>1. PICK i \in 1..(Len(queue) - 1) : Tail(queue)[i] = x
      BY <2>1 DEF Range
    <3>2. i + 1 \in 1..Len(queue) /\ queue[i + 1] = x
      BY <2>1, <3>1
    <3>3. QED
      BY <2>1, <3>2 DEF Range
  <2>4. id \in Range(queue) /\ id \in visited
    <3>1. 1 \in 1..Len(queue)
      BY <2>1
    <3>2. \A i \in 1..Len(queue) : queue[i] \in visited
      BY <1>4
    <3>3. QED
      BY <2>1, <3>1, <3>2 DEF Range
  <2>5. QED
    BY <2>1, <2>2, <2>3, <2>4
<1> HIDE DEF id
<1>7. queue' \in Seq(wider) /\ Range(queue') = Range(Tail(queue)) \cup (Range(next) \ visited)
  <2>1. Tail(queue) \in Seq(wider) /\ fresh \in Seq(wider)
    <3> DEFINE R == Range(next)
    <3>1. fresh \in Seq(R) /\ Tail(queue) \in Seq(visited) /\ R \subseteq wider /\ visited \subseteq wider
      BY <1>5, <1>6
    <3> HIDE DEF R, wider
    <3>2. QED
      BY <3>1
  <2>2. /\ Tail(queue) \o fresh \in Seq(wider)
        /\ Range(Tail(queue) \o fresh) = Range(Tail(queue)) \cup Range(fresh)
    <3> HIDE DEF wider
    <3>1. QED
      BY <2>1, ConcatElements
  <2>3. QED
    BY <1>3, <1>5, <2>2
<1>8. \A x \in wider \ Range(queue') : Successors(x) \subseteq wider
  BY <1>2, <1>4, <1>6, <1>7
<1>9. wider \subseteq D /\ wf.start \in wider
  <2>1. Range(next) \subseteq D
    BY <1>2 DEF Range
  <2>2. QED
    BY <1>4, <2>1
<1>10. \A S \in SUBSET D : wf.start \in S /\ Closed(S) => wider \subseteq S
  BY <1>2, <1>4, <1>6 DEF Needed, Closed
<1>11. Searching'
  <2> HIDE DEF wider
  <2>1. QED
    BY <1>1, <1>3, <1>7, <1>8, <1>9, <1>10, SameGraph DEF Searching, Needed
<1>12. QED
  BY <1>1, <1>11 DEF Reached

LEMMA FindReaches ==
  ASSUME Reached, V!FindUnreachableNodes
  PROVE  /\ Reached' /\ Range(diags) \subseteq Range(diags')
         /\ About(diags', "DIP005") = About(diags, "DIP005")
<1> DEFINE I == {i \in DOMAIN wf.nodes : wf.nodes[i].id \notin visited}
           chosen == Keep(wf.nodes, I)
           ids == [i \in DOMAIN chosen |-> chosen[i].id]
           es == [i \in DOMAIN ids |-> V!Diagnostic("DIP004", <<ids[i]>>)]
<1>1. /\ wf \in Workflows /\ wf' = wf /\ check = "reach" /\ check' = "cycles" /\ queue = <<>>
      /\ visited' = visited /\ queue' = queue
      /\ Searching /\ Coded(diags, V!Codes) /\ About(diags, "DIP004") = {}
  BY DEF Reached, V!FindUnreachableNodes, V!breadth
<1>2. diags' = diags \o es
  <2>1. V!Keep(wf.nodes, I) = chosen
    BY <1>1, ChosenIDs
  <2>2. V!IDsWhere(wf, LAMBDA n : n.id \notin visited) = ids
    BY <2>1 DEF V!IDsWhere
  <2>3. QED
    BY <2>2 DEF V!FindUnreachableNodes
<1>3. ids \in Seq(STRING) /\ Range(ids) = NodeIDs(wf) \ visited
  <2>1. ids \in Seq(STRING) /\ Range(ids) = {wf.nodes[i].id : i \in I}
    BY <1>1, ChosenIDs
  <2>2. {wf.nodes[i].id : i \in I} = NodeIDs(wf) \ visited
    BY DEF NodeIDs
  <2>3. QED
    BY <2>1, <2>2
<1> HIDE DEF ids
<1>4. Len(ids) \in Nat /\ DOMAIN ids = 1..Len(ids)
  BY <1>3
<1>5. /\ DOMAIN es = 1..Len(ids) /\ es = [i \in 1..Len(ids) |-> es[i]]
      /\ \A i \in 1..Len(ids) : es[i].code = "DIP004" /\ es[i].about = <<ids[i]>>
  BY <1>4 DEF V!Diagnostic
<1> HIDE DEF es
<1>6. Coded(es, V!Codes)
  <2>1. "DIP004" \in V!Codes
    BY DEF V!Codes
  <2>2. \A i \in 1..Len(ids) : es[i].code \in V!Codes
    BY <1>5, <2>1
  <2>3. QED
    BY ONLY <1>4, <1>5, <2>2, CodedList
<1>7. Range(es) = {es[i] : i \in 1..Len(ids)} /\ Range(ids) = {ids[i] : i \in 1..Len(ids)}
  BY <1>4, <1>5 DEF Range
<1>8. About(es, "DIP004") = {<<id>> : id \in NodeIDs(wf) \ visited}
  <2>1. About(es, "DIP004") = {es[i].about : i \in 1..Len(ids)}
    <3>1. {x \in Range(es) : x.code = "DIP004"} = {es[i] : i \in 1..Len(ids)}
      BY <1>5, <1>7
    <3>2. QED
      BY <3>1 DEF About
  <2>2. {es[i].about : i \in 1..Len(ids)} = {<<ids[i]>> : i \in 1..Len(ids)}
    BY <1>5
  <2>3. {<<ids[i]>> : i \in 1..Len(ids)} = {<<id>> : id \in Range(ids)}
    BY <1>7
  <2>4. QED
    BY <1>3, <2>1, <2>2, <2>3
<1>9. Coded(diags', V!Codes) /\ Range(diags') = Range(diags) \cup Range(es)
  BY <1>1, <1>2, <1>6, CodedConcat
<1>10. About(diags', "DIP004") = {<<id>> : id \in NodeIDs(wf) \ visited}
  BY <1>1, <1>8, <1>9 DEF About
<1>11. Range(queue) = {} /\ Searched
  <2>1. Range(queue) = {}
    BY <1>1 DEF Range
  <2>2. QED
    BY <1>1, <2>1 DEF Searching, Searched, Closed
<1>12. Searched' /\ NodeIDs(wf)' = NodeIDs(wf)
  BY <1>1, <1>11, SameGraph DEF Searched, Needed, NodeIDs
<1>13. About(diags', "DIP005") = About(diags, "DIP005")
  <2>1. \A d \in Range(es) : d.code # "DIP005"
    BY <1>5, <1>7
  <2>2. QED
    BY <1>1, <1>2, <1>6, <2>1, AboutOthers
<1>14. QED
  BY <1>1, <1>9, <1>10, <1>12, <1>13 DEF Reached

LEMMA CodedAppend ==
  ASSUME NEW ds, NEW codes, Coded(ds, codes), NEW d, d.code \in codes
  PROVE  Coded(Append(ds, d), codes) /\ Range(Append(ds, d)) = Range(ds) \cup {d}
<1> DEFINE S == Range(ds) \cup {d}
           n == Len(ds)
           t == Append(ds, d)
<1>1. /\ n \in Nat /\ DOMAIN ds = 1..n /\ t \in Seq(S) /\ DOMAIN t = 1..(n + 1)
      /\ \A i \in 1..n : t[i] = ds[i]
      /\ t[n + 1] = d
  <2>1. ds \in Seq(Range(ds)) /\ Range(ds) \subseteq S
    BY DEF Coded
  <2>2. ds \in Seq(S)
    <3> DEFINE R == Range(ds)
    <3>1. ds \in Seq(R) /\ R \subseteq S
      BY <2>1
    <3> HIDE DEF R, S
    <3>2. QED
      BY <3>1
  <2>3. d \in S
    OBVIOUS
  <2> HIDE DEF S
  <2>4. QED
    BY <2>2, <2>3
<1> HIDE DEF t, n, S
<1>2. Range(t) = S
  <2>1. \A i \in 1..(n + 1) : i \in 1..n \/ i = n + 1
    BY <1>1
  <2>2. \A i \in 1..n : i \in 1..(n + 1)
    BY <1>1
  <2>3. n + 1 \in 1..(n + 1)
    BY <1>1
  <2>4. \A x \in Range(t) : x \in Range(ds) \/ x = d
    BY <1>1, <2>1 DEF Range
  <2>5. \A x \in Range(ds) : x \in Range(t)
    BY <1>1, <2>2 DEF Range
  <2>6. d \in Range(t)
    BY <1>1, <2>3 DEF Range
  <2>7. QED
    BY <2>4, <2>5, <2>6 DEF S
<1>3. QED
  BY <1>1, <1>2 DEF Coded, S, t

\* Behind the search its verdict stands, whatever the other checks report.
LEMMA VerdictStands ==
  ASSUME Reached, wf' = wf, visited' = visited, check \in {"cycles", "joins"}, check' \in {"cycles", "joins", "done"},
         Coded(diags', V!Codes), About(diags', "DIP004") = About(diags, "DIP004")
  PROVE  Reached'
<1>1. Searched' = Searched
  BY SameGraph DEF Searched, Needed
<1>2. NodeIDs(wf)' = NodeIDs(wf)
  BY DEF NodeIDs
<1>3. V!Known(wf.start)' = V!Known(wf.start)
  BY SameGraph
<1>4. wf' \in Workflows /\ check' # "local" /\ check' # "reach" /\ check \in {"cycles", "joins", "done"}
  BY DEF Reached
<1>5. V!Known(wf.start) => Searched /\ About(diags, "DIP004") = {<<id>> : id \in NodeIDs(wf) \ visited}
  BY <1>4 DEF Reached
<1>6. V!Known(wf.start)' =>
          Searched' /\ About(diags', "DIP004") = {<<id>> : id \in NodeIDs(wf)' \ visited'}
  BY <1>1, <1>2, <1>3, <1>5
<1>7. QED
  BY <1>4, <1>6 DEF Reached

LEMMA NeighborReaches ==
  ASSUME Reached, V!ProcessNeighbor
  PROVE  Reached' /\ Range(diags) \subseteq Range(diags')
<1>1. wf' = wf /\ visited' = visited /\ check = "cycles" /\ check' = "cycles"
  BY DEF V!ProcessNeighbor, V!breadth
<1>2. Coded(diags, V!Codes)
  BY DEF Reached
<1>3. diags' = diags \/ \E c : diags' = Append(diags, V!Diagnostic("DIP005", c))
  BY DEF V!ProcessNeighbor
<1>4. /\ Coded(diags', V!Codes) /\ About(diags', "DIP004") = About(diags, "DIP004")
      /\ Range(diags) \subseteq Range(diags')
  <2>1. CASE diags' = diags
    BY <1>2, <2>1
  <2>2. ASSUME NEW c, diags' = Append(diags, V!Diagnostic("DIP005", c))
        PROVE  /\ Coded(diags', V!Codes) /\ About(diags', "DIP004") = About(diags, "DIP004")
               /\ Range(diags) \subseteq Range(diags')
    <3> DEFINE d == V!Diagnostic("DIP005", c)
    <3>1. d.code = "DIP005" /\ d.code \in V!Codes
      BY DEF V!Diagnostic, V!Codes
    <3> HIDE DEF d
    <3>2. Coded(Append(diags, d), V!Codes) /\ Range(Append(diags, d)) = Range(diags) \cup {d}
      BY <1>2, <3>1, CodedAppend
    <3>3. {x \in Range(Append(diags, d)) : x.code = "DIP004"} = {x \in Range(diags) : x.code = "DIP004"}
      BY <3>1, <3>2
    <3>4. QED
      BY <2>2, <3>2, <3>3 DEF About, d
  <2>3. QED
    BY <1>3, <2>1, <2>2
<1>5. QED
  BY <1>1, <1>4, VerdictStands

LEMMA FanInReaches ==
  ASSUME Reached, V!CheckParallelFanIn
  PROVE  /\ Reached' /\ Range(diags) \subseteq Range(diags')
         /\ About(diags', "DIP005") = About(diags, "DIP005")
         /\ diags' = <<>> =>
               \A n \in Range(wf.nodes) :
                  /\ n.kind = "parallel" => \E f \in Range(wf.nodes) : V!Paired(n, f)
                  /\ n.kind = "fan_in" => \E p \in Range(wf.nodes) : V!Paired(p, n)
<1> DEFINE all == V!Range(wf.nodes)
           F == {i \in DOMAIN wf.nodes : wf.nodes[i].kind = "parallel" /\ \A f \in all : ~V!Paired(wf.nodes[i], f)}
           J == {i \in DOMAIN wf.nodes : wf.nodes[i].kind = "fan_in" /\ \A p \in all : ~V!Paired(p, wf.nodes[i])}
           ForksKept == Keep(wf.nodes, F)
           JoinsKept == Keep(wf.nodes, J)
           forks == [i \in DOMAIN ForksKept |-> ForksKept[i].id]
           joins == [i \in DOMAIN JoinsKept |-> JoinsKept[i].id]
           unmatched == forks \o joins
           es == [i \in DOMAIN unmatched |-> V!Diagnostic("DIP007", <<unmatched[i]>>)]
<1>1. wf \in Workflows /\ wf' = wf /\ visited' = visited /\ check = "joins" /\ check' = "done" /\ Coded(diags, V!Codes)
  BY DEF Reached, V!CheckParallelFanIn, V!breadth
<1>2. /\ V!Keep(wf.nodes, F) = ForksKept /\ forks \in Seq(STRING) /\ Range(forks) = {wf.nodes[i].id : i \in F}
      /\ V!Keep(wf.nodes, J) = JoinsKept /\ joins \in Seq(STRING) /\ Range(joins) = {wf.nodes[i].id : i \in J}
  <2>1. F \in SUBSET DOMAIN wf.nodes /\ J \in SUBSET DOMAIN wf.nodes
    OBVIOUS
  <2> HIDE DEF F, J
  <2>2. QED
    BY <1>1, <2>1, ChosenIDs
<1>3. diags' = diags \o es
  <2>1. V!IDsWhere(wf, LAMBDA p : p.kind = "parallel" /\ \A f \in all : ~V!Paired(p, f)) = forks
    BY <1>2 DEF V!IDsWhere
  <2>2. V!IDsWhere(wf, LAMBDA f : f.kind = "fan_in" /\ \A p \in all : ~V!Paired(p, f)) = joins
    BY <1>2 DEF V!IDsWhere
  <2>3. QED
    BY <2>1, <2>2 DEF V!CheckParallelFanIn
<1> HIDE DEF forks, joins
<1>4. unmatched \in Seq(STRING) /\ Range(unmatched) = Range(forks) \cup Range(joins)
  BY <1>2, ConcatElements
<1> HIDE DEF unmatched
<1>5. Len(unmatched) \in Nat /\ DOMAIN unmatched = 1..Len(unmatched)
  BY <1>4
<1>6. /\ DOMAIN es = 1..Len(unmatched) /\ es = [i \in 1..Len(unmatched) |-> es[i]]
      /\ \A i \in 1..Len(unmatched) : es[i].code = "DIP007"
  BY <1>5 DEF V!Diagnostic
<1> HIDE DEF es
<1>7. Coded(es, V!Codes)
  <2>1. \A i \in 1..Len(unmatched) : es[i].code \in V!Codes
    BY <1>6 DEF V!Codes
  <2>2. QED
    BY <1>5, <1>6, <2>1, CodedList
<1>8. Range(es) = {es[i] : i \in 1..Len(unmatched)} /\ Range(unmatched) = {unmatched[i] : i \in 1..Len(unmatched)}
  BY <1>5, <1>6 DEF Range
<1>9. /\ Coded(diags', V!Codes) /\ Range(diags) \subseteq Range(diags')
      /\ About(diags', "DIP004") = About(diags, "DIP004") /\ About(diags', "DIP005") = About(diags, "DIP005")
  <2>1. \A d \in Range(es) : d.code # "DIP004" /\ d.code # "DIP005"
    BY <1>6, <1>8
  <2>2. QED
    BY <1>1, <1>3, <1>7, <2>1, CodedConcat, AboutOthers
<1>10. Reached'
  BY <1>1, <1>9, VerdictStands
<1>11. ASSUME diags' = <<>>, NEW n \in Range(wf.nodes)
       PROVE  /\ n.kind = "parallel" => \E f \in Range(wf.nodes) : V!Paired(n, f)
              /\ n.kind = "fan_in" => \E p \in Range(wf.nodes) : V!Paired(p, n)
  <2>1. Range(es) = {}
    <3>1. Range(diags \o es) = Range(diags) \cup Range(es)
      BY <1>1, <1>7, CodedConcat
    <3>2. QED
      BY <1>3, <1>11, <3>1, CodedNone
  <2>2. Range(forks) = {} /\ Range(joins) = {}
    <3>1. \A i \in 1..Len(unmatched) : FALSE
      BY <1>8, <2>1, ZenonT(40)
    <3>2. Range(unmatched) = {}
      BY <1>8, <3>1
    <3>3. QED
      BY <1>4, <3>2
  <2>3. PICK i \in DOMAIN wf.nodes : wf.nodes[i] = n
    BY DEF Range
  <2>4. i \notin F /\ i \notin J
    BY <1>2, <2>2
  <2>5. all = Range(wf.nodes)
    BY SameOperators
  <2>6. QED
    BY <1>11, <2>3, <2>4, <2>5
<1>12. QED
  BY <1>9, <1>10, <1>11

LEMMA ValidatorReaches ==
  ASSUME Reached, V!Next
  PROVE  Reached' /\ (check # "local" => Range(diags) \subseteq Range(diags'))
<1>1. CASE V!CheckLocally
  BY <1>1, CheckLocallyReaches DEF V!CheckLocally
<1>2. CASE V!VisitBreadthFirst
  BY <1>2, VisitReaches DEF V!VisitBreadthFirst
<1>3. CASE V!FindUnreachableNodes
  BY <1>3, FindReaches
<1>4. CASE V!VisitNextNode \/ V!Leave
  <2>1. wf' = wf /\ visited' = visited /\ check = "cycles" /\ check' = check /\ diags' = diags
    BY <1>4 DEF V!VisitNextNode, V!Leave, V!breadth
  <2>2. QED
    BY <2>1, VerdictStands DEF Reached
<1>5. CASE V!ProcessNeighbor
  BY <1>5, NeighborReaches
<1>6. CASE V!CyclesDone
  <2>1. wf' = wf /\ visited' = visited /\ check = "cycles" /\ check' = "joins" /\ diags' = diags
    BY <1>6 DEF V!CyclesDone, V!breadth
  <2>2. QED
    BY <2>1, VerdictStands DEF Reached
<1>7. CASE V!CheckParallelFanIn
  BY <1>7, FanInReaches
<1>8. QED
  BY <1>1, <1>2, <1>3, <1>4, <1>5, <1>6, <1>7 DEF V!Next

LEMMA ReachedKept ==
  ASSUME Reached, wf' = wf, UNCHANGED validation
  PROVE  Reached'
<1>1. check' = check /\ diags' = diags /\ queue' = queue /\ visited' = visited
  BY DEF validation
<1>2. Searching' = Searching /\ Searched' = Searched /\ NodeIDs(wf)' = NodeIDs(wf)
  BY <1>1, SameGraph DEF Searching, Searched, Needed, NodeIDs
<1>3. QED
  BY <1>1, <1>2, SameGraph DEF Reached

(* The runs and the enumerator look at a workflow and change nothing of it.*)
LEMMA WorkflowKept == Next => wf' = wf
<1> SUFFICES ASSUME Next PROVE wf' = wf
  OBVIOUS
<1>1. CASE Start
  BY <1>1 DEF Start, inputs, Fail
<1>2. CASE UnknownNode
  BY <1>2 DEF UnknownNode, inputs, Fail
<1>3. CASE PromptError
  BY <1>3 DEF PromptError, inputs, Fail
<1>4. CASE ReachExit
  BY <1>4 DEF ReachExit, inputs
<1>5. CASE Fork
  BY <1>5 DEF Fork, inputs
<1>6. CASE Advance
  BY <1>6 DEF Advance, inputs
<1>7. CASE NextBranch
  BY <1>7 DEF NextBranch, inputs
<1>8. CASE BranchStep
  BY <1>8 DEF BranchStep, inputs
<1>9. CASE BranchArrives
  BY <1>9 DEF BranchArrives, inputs
<1>10. CASE Rejoin
  BY <1>10 DEF Rejoin, inputs
<1>11. CASE StepLimit
  BY <1>11 DEF StepLimit, inputs, Fail
<1>12. QED
  BY <1>1, <1>2, <1>3, <1>4, <1>5, <1>6, <1>7, <1>8, <1>9, <1>10, <1>11 DEF Next

LEMMA ReachedStep ==
  ASSUME Reached, [CommandNext]_allVars
  PROVE  Reached'
<1>1. CASE Validate
  BY <1>1, ValidatorReaches DEF Validate
<1>2. CASE SimulateAllPaths
  <2>1. wf' = wf /\ UNCHANGED validation
    BY <1>2 DEF SimulateAllPaths, E!Next, E!Begin, E!ExploreEdge, E!Return, E!Stop
  <2>2. QED
    BY <2>1, ReachedKept
<1>3. CASE SimulateSingle
  <2>1. wf' = wf /\ UNCHANGED validation
    BY <1>3, WorkflowKept DEF SimulateSingle
  <2>2. QED
    BY <2>1, ReachedKept
<1>4. CASE UNCHANGED allVars
  BY <1>4, ReachedKept DEF allVars, vars
<1>5. QED
  BY <1>1, <1>2, <1>3, <1>4 DEF CommandNext

(* DIP004 names exactly the nodes that some set with the start in it leaves*)
(* outside although no edge leads out of it, whatever the graph (validator/*)
(* validate.go).                                                           *)
THEOREM UnreachableReported == CommandSpec => []UnreachableIsExact
<1>1. CommandInit => Reached
  BY ReachedInit
<1>2. Reached /\ [CommandNext]_allVars => Reached'
  BY ReachedStep
<1>3. Reached => UnreachableIsExact
  BY SearchIsExact DEF UnreachableIsExact
<1>4. QED
  BY <1>1, <1>2, <1>3, PTL DEF CommandSpec

-----------------------------------------------------------------------------
(* What the verdict means to a run                                         *)

\* A target nobody declared: the validator looks at the ends of edges only.
TargetsUndeclared == \E n \in Range(wf.nodes) : ~(Range(n.targets) \subseteq NodeIDs(wf))

ForksPaired ==
    \A n \in Range(wf.nodes) :
        /\ n.kind = "parallel" => \E f \in Range(wf.nodes) : V!Paired(n, f)
        /\ n.kind = "fan_in" => \E p \in Range(wf.nodes) : V!Paired(p, n)

\* The validator is silent, and what that says of the workflow.
Vetted ==
    /\ check # "local" /\ diags = <<>> => LocallyOK
    /\ check = "done" /\ diags = <<>> => ForksPaired
    /\ pc # "start" => Prepared

\* Why a run may fail.
Explained == opts.interactive \/ steps >= MaxSteps \/ ~ConditionsParse(wf) \/ TargetsUndeclared

\* How the loops come to the node they look up next, and how a run fails.
Arrived ==
    /\ path = <<>> /\ pc = "main" => current = wf.start
    /\ pc = "start" => current = wf.start
    /\ pc = "main" => current # NoNode
    /\ pc = "branch" /\ branchAt = NoNode => TargetsUndeclared \/ NoNode \in NodeIDs(wf)
    /\ status = "error" => Explained

RunKnown == IInv /\ WalkKnown /\ Reached /\ Vetted /\ Arrived

(* An edge is declared or leads to a target or to a node.                  *)
LEMMA EdgesLead ==
  ASSUME wf \in Workflows, NEW id \in NodeIDs(wf), NEW e \in Range(EdgesFrom(wf, id))
  PROVE  e \in Range(wf.edges) \/ e.to \in Range(TargetsOf(wf, id)) \cup NodeIDs(wf)
<1> DEFINE own == {i \in DOMAIN wf.edges : wf.edges[i].from = id}
           explicit == Keep(wf.edges, own)
           plain == {x.to : x \in {y \in Range(explicit) : y.cond = NoCond}}
           waiting == {i \in DOMAIN wf.nodes : wf.nodes[i].kind = "fan_in" /\ id \in Range(wf.nodes[i].sources)}
           chosen == Keep(wf.nodes, waiting)
           joins == [i \in DOMAIN chosen |-> chosen[i].id]
           targets == TargetsOf(wf, id)
           ends == targets \o joins
           first == {i \in DOMAIN ends : ends[i] \notin plain /\ \A j \in 1..(i - 1) : ends[j] # ends[i]}
           implied == Keep(ends, first)
           implicit == [i \in DOMAIN implied |-> ImplicitEdge(id, implied[i])]
           Ends == Range(targets) \cup NodeIDs(wf)
           D == Range(wf.edges)
           P == {ImplicitEdge(id, t) : t \in Ends}
<1>1. EdgesFrom(wf, id) = explicit \o implicit
  BY DEF EdgesFrom, IDsWhere
<1>2. explicit \in Seq(D)
  <2>1. wf.edges \in Seq(D)
    BY GraphTyped
  <2> HIDE DEF D
  <2>2. QED
    BY <2>1, KeepElements
<1>3. joins \in Seq(Ends)
  <2>1. joins \in Seq(NodeIDs(wf))
    BY ChosenIDs
  <2> HIDE DEF joins
  <2>2. QED
    BY <2>1
<1>4. targets \in Seq(Ends)
  <2>1. targets \in Seq(STRING)
    BY TargetsTyped
  <2> HIDE DEF targets
  <2>2. Len(targets) \in Nat /\ DOMAIN targets = 1..Len(targets) /\ targets = [i \in 1..Len(targets) |-> targets[i]]
    BY <2>1
  <2>3. \A i \in 1..Len(targets) : targets[i] \in Ends
    BY <2>2 DEF Range
  <2> HIDE DEF Ends
  <2>4. QED
    BY <2>2, <2>3
<1>5. implied \in Seq(Ends)
  <2> HIDE DEF joins, targets, Ends, plain
  <2>1. ends \in Seq(Ends)
    BY <1>3, <1>4
  <2> HIDE DEF ends
  <2>2. QED
    BY <2>1, KeepElements
<1> HIDE DEF implied, explicit
<1>6. implicit \in Seq(P) /\ \A x \in P : x.to \in Ends
  <2>1. \A i \in DOMAIN implied : implied[i] \in Ends
    <3> HIDE DEF Ends
    <3>1. QED
      BY <1>5
  <2>2. \A i \in DOMAIN implied : implicit[i] \in P
    BY <2>1
  <2>3. DOMAIN implicit = DOMAIN implied /\ implicit = [i \in DOMAIN implied |-> implicit[i]]
    OBVIOUS
  <2>4. implicit \in Seq(P)
    <3> HIDE DEF implicit, P, Ends
    <3>1. QED
      BY <1>5, <2>2, <2>3, MappedSeq
  <2>5. QED
    BY <2>4 DEF ImplicitEdge, Edge
<1> HIDE DEF implicit, P, Ends
<1>7. e \in D \cup P
  <2> DEFINE S == D \cup P
  <2>1. explicit \in Seq(S) /\ implicit \in Seq(S)
    <3>1. D \subseteq S /\ P \subseteq S
      OBVIOUS
    <3> HIDE DEF S, D
    <3>2. QED
      BY <1>2, <1>6, <3>1
  <2> HIDE DEF S
  <2>2. explicit \o implicit \in Seq(S)
    BY <2>1, ConcatElements
  <2>3. EdgesFrom(wf, id) \in Seq(S)
    BY <1>1, <2>2
  <2>4. e \in S
    BY <2>3 DEF Range
  <2>5. QED
    BY <2>4 DEF S
<1>8. QED
  BY <1>6, <1>7 DEF Ends

(* What findJoinNode returns is a node, if there is a join to find.        *)
LEMMA JoinNamed ==
  ASSUME wf \in Workflows, NEW targets
  PROVE  /\ JoinOf(wf, targets) \in NodeIDs(wf) \cup {NoNode}
         /\ \A f \in Range(wf.nodes) :
               f.kind = "fan_in" /\ f.sources # <<>> /\ Range(f.sources) \subseteq Range(targets)
               => JoinOf(wf, targets) \in NodeIDs(wf)
<1> DEFINE I == {i \in DOMAIN wf.nodes : /\ wf.nodes[i].kind = "fan_in"
                                        /\ wf.nodes[i].sources # <<>>
                                        /\ Range(wf.nodes[i].sources) \subseteq Range(targets)}
           chosen == Keep(wf.nodes, I)
           joins == [i \in DOMAIN chosen |-> chosen[i].id]
<1>1. JoinOf(wf, targets) = IF joins = <<>> THEN NoNode ELSE Head(joins)
  BY DEF JoinOf, IDsWhere
<1>2. joins \in Seq(NodeIDs(wf)) /\ Range(joins) = {wf.nodes[i].id : i \in I}
  <2>1. I \in SUBSET (DOMAIN wf.nodes)
    OBVIOUS
  <2> HIDE DEF I
  <2>2. QED
    BY <2>1, ChosenIDs
<1> HIDE DEF joins
<1>3. joins # <<>> => Head(joins) \in NodeIDs(wf)
  BY <1>2
<1>4. ASSUME NEW f \in Range(wf.nodes), f.kind = "fan_in", f.sources # <<>>, Range(f.sources) \subseteq Range(targets)
      PROVE  joins # <<>>
  <2>1. PICK i \in DOMAIN wf.nodes : wf.nodes[i] = f
    BY DEF Range
  <2>2. i \in I
    BY <1>4, <2>1
  <2>3. Range(joins) # {} /\ Range(<<>>) = {}
    BY <1>2, <2>2, CodedNone
  <2>4. QED
    BY <2>3
<1>5. QED
  BY <1>1, <1>3, <1>4

(* Where a walk may go there is a node, or "", or a target nobody declared.*)
LEMMA ContinuesKnown ==
  ASSUME wf \in Workflows, LocallyOK, path \in Seq(NodeIDs(wf)), path # <<>>,
         NEW id, Continues(Len(path), id)
  PROVE  id \in NodeIDs(wf) \cup {NoNode} \/ TargetsUndeclared
<1>1. Len(path) \in DOMAIN path /\ DOMAIN path = 1..Len(path) /\ \A i \in DOMAIN path : path[i] \in NodeIDs(wf)
  OBVIOUS
<1>2. ASSUME NEW f \in NodeIDs(wf), NEW t \in Range(TargetsOf(wf, f))
      PROVE  t \in NodeIDs(wf) \/ TargetsUndeclared
  <2>1. NodeOf(wf, f) \in Range(wf.nodes)
    BY NodeOfIsListed
  <2>2. t \in Range(NodeOf(wf, f).targets)
    BY <1>2, CodedNone DEF TargetsOf
  <2>3. QED
    BY <2>1, <2>2 DEF TargetsUndeclared
<1>3. CASE \E e \in Range(EdgesFrom(wf, path[Len(path)])) : e.to = id
  <2>1. PICK e \in Range(EdgesFrom(wf, path[Len(path)])) : e.to = id
    BY <1>3
  <2>2. e \in Range(wf.edges) \/ id \in Range(TargetsOf(wf, path[Len(path)])) \cup NodeIDs(wf)
    BY <1>1, <2>1, EdgesLead
  <2>3. e \in Range(wf.edges) => id \in NodeIDs(wf) \cup {NoNode}
    BY <2>1 DEF LocallyOK
  <2>4. QED
    BY <1>1, <1>2, <2>2, <2>3
<1>4. CASE \E f \in ForkedBefore(Len(path)) : id \in Range(TargetsOf(wf, f)) \cup {JoinOf(wf, TargetsOf(wf, f))}
  <2>1. PICK f \in ForkedBefore(Len(path)) : id \in Range(TargetsOf(wf, f)) \cup {JoinOf(wf, TargetsOf(wf, f))}
    BY <1>4
  <2>2. f \in NodeIDs(wf)
    BY <1>1, <2>1 DEF ForkedBefore
  <2>3. JoinOf(wf, TargetsOf(wf, f)) \in NodeIDs(wf) \cup {NoNode}
    BY JoinNamed
  <2>4. QED
    BY <1>2, <2>1, <2>2, <2>3
<1>5. QED
  BY <1>3, <1>4 DEF Continues

(* Where forks are paired, a fork without a join has no targets.           *)
LEMMA PairedForks ==
  ASSUME wf \in Workflows, ForksPaired, AtJoinlessFork
  PROVE  TargetsOf(wf, current) = <<>> \/ NoNode \in NodeIDs(wf)
<1> DEFINE n == NodeOf(wf, current)
<1>1. /\ current \in NodeIDs(wf) /\ n.kind = "parallel" /\ JoinOf(wf, n.targets) = NoNode
      /\ n \in Range(wf.nodes) /\ n \in NodeRecords
  BY NodeOfIsListed, NodeOfIsNode DEF AtJoinlessFork
<1>2. TargetsOf(wf, current) = n.targets
  BY <1>1 DEF TargetsOf
<1>3. PICK f \in Range(wf.nodes) : V!Paired(n, f)
  BY <1>1 DEF ForksPaired
<1>4. f.kind = "fan_in" /\ Range(n.targets) = Range(f.sources)
  <2>1. f.kind = "fan_in" /\ V!ToBag(n.targets) = V!ToBag(f.sources)
    BY <1>3 DEF V!Paired
  <2>2. \A s : DOMAIN V!ToBag(s) = V!Range(s)
    BY DEF V!ToBag
  <2>3. \A s : V!Range(s) = Range(s)
    BY SameOperators
  <2>4. QED
    BY <2>1, <2>2, <2>3
<1>5. CASE n.targets # <<>>
  <2>1. n.targets \in Seq(STRING)
    BY <1>1 DEF NodeRecords
  <2> DEFINE t == n.targets
  <2>2. 1 \in DOMAIN t
    <3> HIDE DEF t
    <3>1. QED
      BY <1>5, <2>1 DEF t
  <2>3. Range(t) # {}
    BY <2>2 DEF Range
  <2>4. f.sources # <<>>
    BY <1>4, <2>3, CodedNone
  <2>5. JoinOf(wf, n.targets) \in NodeIDs(wf)
    BY <1>4, <2>4, JoinNamed
  <2>6. QED
    BY <1>1, <2>5
<1>6. QED
  BY <1>2, <1>5

LEMMA RunExplained == RunKnown => FailuresAreExplained
<1> SUFFICES ASSUME RunKnown PROVE FailuresAreExplained
  OBVIOUS
<1>1. status = "error" => Explained
  BY DEF RunKnown, Arrived
<1>2. ASSUME status = "dead_end", AtJoinlessFork
      PROVE  TargetsOf(wf, current) = <<>> \/ NoNode \in NodeIDs(wf)
  <2>1. pc = "done"
    BY <1>2 DEF RunKnown, IInv, TypeOK
  <2>2. ForksPaired
    BY <2>1 DEF RunKnown, Vetted, Prepared, HasErrors
  <2>3. wf \in Workflows
    BY DEF RunKnown, Reached
  <2>4. QED
    BY <1>2, <2>2, <2>3, PairedForks
<1>3. QED
  BY <1>1, <1>2 DEF FailuresAreExplained, Explained, TargetsUndeclared

LEMMA NothingCoded ==
  ASSUME NEW ds, NEW codes, Coded(ds, codes), Range(ds) = {}
  PROVE  ds = <<>>
<1>1. ds \in Seq({})
  BY DEF Coded
<1>2. QED
  BY <1>1

\* What was found does not depend on anything but the workflow.
LEMMA SameEnds ==
  ASSUME wf' = wf
  PROVE  LocallyOK' = LocallyOK /\ ForksPaired' = ForksPaired /\ TargetsUndeclared' = TargetsUndeclared
<1>1. NodeIDs(wf)' = NodeIDs(wf) /\ \A id : V!Known(id)' = V!Known(id)
  BY DEF NodeIDs, V!Known, V!NodeIDs
<1>2. V!Known(wf.start)' = V!Known(wf.start) /\ V!Known(wf.exit)' = V!Known(wf.exit)
  BY DEF V!Known, V!NodeIDs
<1>3. LocallyOK' = LocallyOK
  BY <1>1, <1>2 DEF LocallyOK, NodesUnique
<1>4. ForksPaired' = ForksPaired
  BY DEF ForksPaired, V!Paired
<1>5. TargetsUndeclared' = TargetsUndeclared
  BY <1>1 DEF TargetsUndeclared
<1>6. QED
  BY <1>3, <1>4, <1>5

LEMMA ValidateVets ==
  ASSUME Reached, Vetted, V!Next, pc' = pc
  PROVE  Vetted'
<1>1. wf' = wf /\ check # "done" /\ (check' = "done" => V!CheckParallelFanIn)
  BY DEF V!Next, V!CheckLocally, V!VisitBreadthFirst, V!FindUnreachableNodes, V!VisitNextNode,
         V!ProcessNeighbor, V!Leave, V!CyclesDone, V!CheckParallelFanIn
<1>2. pc' = "start"
  BY <1>1 DEF Vetted, Prepared
<1>3. ASSUME diags' = <<>>
      PROVE  LocallyOK
  <2>1. CASE check = "local"
    <3>1. V!CheckLocally
      BY <2>1 DEF V!Next, V!VisitBreadthFirst, V!FindUnreachableNodes, V!VisitNextNode,
                  V!ProcessNeighbor, V!Leave, V!CyclesDone, V!CheckParallelFanIn
    <3>2. diags' = Local
      BY <3>1 DEF V!CheckLocally, Local
    <3>3. QED
      BY <1>3, <3>2, LocalReports DEF Reached
  <2>2. CASE check # "local"
    <3>1. Range(diags) \subseteq Range(diags')
      BY <2>2, ValidatorReaches
    <3>2. Range(diags) = {}
      BY <1>3, <3>1, CodedNone
    <3>3. diags = <<>>
      BY <3>2, NothingCoded DEF Reached
    <3>4. QED
      BY <2>2, <3>3 DEF Vetted
  <2>3. QED
    BY <2>1, <2>2
<1>4. ASSUME check' = "done", diags' = <<>>
      PROVE  ForksPaired
  BY <1>1, <1>4, FanInReaches DEF ForksPaired
<1>5. QED
  BY <1>1, <1>2, <1>3, <1>4, SameEnds DEF Vetted

LEMMA VettedKept ==
  ASSUME Vetted, wf' = wf, UNCHANGED validation, pc' = pc \/ Prepared
  PROVE  Vetted'
<1>1. check' = check /\ diags' = diags
  BY DEF validation
<1>2. Prepared' = Prepared
  BY <1>1 DEF Prepared, HasErrors
<1>3. QED
  BY <1>1, <1>2, SameEnds DEF Vetted

LEMMA FailArrives ==
  ASSUME Fail, Explained
  PROVE  Arrived'
<1>1. wf' = wf /\ opts' = opts /\ steps' = steps /\ pc' = "done"
  BY DEF Fail, inputs
<1>2. Explained'
  BY <1>1, SameEnds DEF Explained, ConditionsParse
<1>3. QED
  BY <1>1, <1>2 DEF Arrived

\* A run that goes on, or ends without an error.
LEMMA GoesOn ==
  ASSUME wf' = wf, status' # "error", pc' # "start",
         path' = <<>> /\ pc' = "main" => current' = wf.start,
         pc' = "main" => current' # NoNode,
         pc' = "branch" /\ branchAt' = NoNode => TargetsUndeclared \/ NoNode \in NodeIDs(wf)
  PROVE  Arrived'
<1>1. TargetsUndeclared' = TargetsUndeclared /\ NodeIDs(wf)' = NodeIDs(wf)
  BY SameEnds DEF NodeIDs
<1>2. QED
  BY <1>1 DEF Arrived

LEMMA StartArrives ==
  ASSUME RunKnown, LocallyOK, Start
  PROVE  Arrived'
<1>1. pc = "start" /\ current = wf.start /\ status = "running" /\ {wf.start, wf.exit} \subseteq NodeIDs(wf) \ {NoNode}
  BY SameOperators DEF RunKnown, Arrived, IInv, TypeOK, LocallyOK, V!Known, Start
<1>2. CASE ConditionsParse(wf)
  <2>1. /\ pc' = "main" /\ wf' = wf /\ current' = current /\ status' = status
    BY <1>1, <1>2 DEF Start, inputs
  <2>2. QED
    BY <1>1, <2>1, GoesOn
<1>3. CASE ~ConditionsParse(wf)
  <2>1. Fail /\ Explained
    BY <1>3 DEF Start, Explained
  <2>2. QED
    BY <2>1, FailArrives
<1>4. QED
  BY <1>2, <1>3

LEMMA UnknownNodeArrives ==
  ASSUME RunKnown, LocallyOK, UnknownNode
  PROVE  Arrived'
<1>1. wf \in Workflows /\ path \in Seq(NodeIDs(wf)) /\ WalkKnown /\ Arrived /\ V!Known(wf.start)
  BY DEF RunKnown, IInv, TypeOK, LocallyOK
<1>2. Explained
  <2>1. CASE pc = "main" /\ current \notin NodeIDs(wf)
    <3>1. path # <<>>
      BY <1>1, <2>1, SameOperators DEF Arrived, V!Known
    <3>2. Continues(Len(path), current) /\ current # NoNode
      BY <1>1, <2>1, <3>1 DEF WalkKnown, OnTheWay, Arrived
    <3>3. QED
      BY <1>1, <2>1, <3>1, <3>2, ContinuesKnown DEF Explained
  <2>2. CASE pc = "branch" /\ branchAt \notin NodeIDs(wf) \cup {NoBranch, join}
    <3>1. Continues(Len(path), branchAt) /\ path # <<>>
      <4>1. Continues(Len(path), branchAt) /\ \E h \in DOMAIN path : Forking(h)
        BY <1>1, <2>2 DEF WalkKnown, InBranches
      <4>2. QED
        BY <4>1
    <3>2. branchAt = NoNode => TargetsUndeclared
      BY <1>1, <2>2 DEF Arrived
    <3>3. QED
      BY <1>1, <2>2, <3>1, <3>2, ContinuesKnown DEF Explained
  <2>3. QED
    BY <2>1, <2>2 DEF UnknownNode
<1>3. QED
  BY <1>2, FailArrives DEF UnknownNode

LEMMA VisitArrives ==
  ASSUME RunKnown, ReachExit \/ Fork \/ Advance \/ BranchStep
  PROVE  Arrived'
<1>1. path \in Seq(NodeIDs(wf)) /\ pc # "done" => status # "error"
  BY DEF RunKnown, IInv, TypeOK
<1>2. NoBranch # NoNode
  BY NoBranchAssumption
<1>3. \A id : Append(path, id) # <<>>
  BY <1>1
<1>4. CASE ReachExit
  <2>1. wf' = wf /\ pc' = "done" /\ status' = "success"
    BY <1>4 DEF ReachExit, Finish, inputs
  <2>2. QED
    BY <2>1, GoesOn
<1>5. CASE Fork
  <2>1. /\ wf' = wf /\ pc = "main" /\ pc' = "branch" /\ status' = status /\ branchAt' = branchAt
    BY <1>5 DEF Fork, inputs
  <2>2. branchAt = NoBranch /\ status # "error"
    BY <2>1 DEF RunKnown, WalkKnown, IInv, TypeOK
  <2>3. QED
    BY <1>2, <2>1, <2>2, GoesOn
<1>6. CASE Advance
  <2>1. /\ wf' = wf /\ pc = "main" /\ \E n : path' = Append(path, n.id)
        /\ \/ pc' = "done" /\ status' = "dead_end"
           \/ current' # NoNode /\ pc' = pc /\ status' = status
    BY <1>6 DEF Advance, Visit, Finish, inputs
  <2>2. status # "error"
    BY <2>1 DEF RunKnown, IInv, TypeOK
  <2>3. path' # <<>>
    BY <1>3, <2>1
  <2>4. QED
    BY <2>1, <2>2, <2>3, GoesOn
<1>7. CASE BranchStep
  <2>1. wf' = wf /\ pc = "branch" /\ pc' = pc /\ status' = status /\ \E id : branchAt' = EndOr(id)
    BY <1>7 DEF BranchStep, inputs
  <2>2. branchAt' # NoNode
    BY <1>2, <2>1 DEF EndOr
  <2>3. status # "error"
    BY <2>1 DEF RunKnown, IInv, TypeOK
  <2>4. QED
    BY <2>1, <2>2, <2>3, GoesOn
<1>8. QED
  BY <1>4, <1>5, <1>6, <1>7

LEMMA BetweenArrives ==
  ASSUME RunKnown, NextBranch \/ BranchArrives \/ Rejoin
  PROVE  Arrived'
<1>1. /\ wf \in Workflows /\ pc = "branch" /\ status # "error" /\ path # <<>> /\ current \in NodeIDs(wf)
      /\ pending \in Seq(Range(TargetsOf(wf, current)))
  <2>1. pc = "branch"
    BY DEF NextBranch, BranchArrives, Rejoin
  <2>2. status # "error" /\ wf \in Workflows /\ current \in NodeIDs(wf)
    BY <2>1 DEF RunKnown, IInv, TypeOK, BranchesKnown
  <2>3. pending \in Seq(Range(TargetsOf(wf, current))) /\ \E h \in DOMAIN path : Forking(h)
    BY <2>1 DEF RunKnown, WalkKnown, InBranches
  <2>4. QED
    BY <2>1, <2>2, <2>3
<1>2. NoBranch # NoNode
  BY NoBranchAssumption
<1>3. CASE NextBranch
  <2>1. wf' = wf /\ pc' = pc /\ status' = status /\ branchAt' = Head(pending) /\ pending # <<>>
    BY <1>3 DEF NextBranch, inputs
  <2>2. Head(pending) \in Range(TargetsOf(wf, current))
    BY <1>1, <2>1
  <2>3. Head(pending) \in NodeIDs(wf) \/ TargetsUndeclared
    <3>1. NodeOf(wf, current) \in Range(wf.nodes)
      BY <1>1, NodeOfIsListed
    <3>2. Head(pending) \in Range(NodeOf(wf, current).targets)
      BY <2>2, CodedNone DEF TargetsOf
    <3>3. QED
      BY <3>1, <3>2 DEF TargetsUndeclared
  <2>4. QED
    BY <1>1, <2>1, <2>3, GoesOn
<1>4. CASE BranchArrives
  <2>1. wf' = wf /\ pc' = pc /\ status' = status /\ branchAt' = NoBranch
    BY <1>4 DEF BranchArrives, inputs
  <2>2. QED
    BY <1>1, <1>2, <2>1, GoesOn
<1>5. CASE Rejoin
  <2>1. /\ wf' = wf /\ path' = path
        /\ \/ pc' = "done" /\ status' = "dead_end"
           \/ pc' = "main" /\ current' = join /\ join # NoNode /\ status' = status
    BY <1>5 DEF Rejoin, Finish, inputs
  <2>2. QED
    BY <1>1, <2>1, GoesOn
<1>6. QED
  BY <1>3, <1>4, <1>5

LEMMA NextArrives ==
  ASSUME RunKnown, Prepared, Next
  PROVE  Arrived'
<1>1. LocallyOK
  BY DEF RunKnown, Vetted, Prepared, HasErrors
<1>2. CASE Start
  BY <1>1, <1>2, StartArrives
<1>3. CASE UnknownNode
  BY <1>1, <1>3, UnknownNodeArrives
<1>4. CASE PromptError
  <2>1. Fail /\ Explained
    BY <1>4 DEF PromptError, Prompts, Explained
  <2>2. QED
    BY <2>1, FailArrives
<1>5. CASE ReachExit \/ Fork \/ Advance \/ BranchStep
  BY <1>5, VisitArrives
<1>6. CASE NextBranch \/ BranchArrives \/ Rejoin
  BY <1>6, BetweenArrives
<1>7. CASE StepLimit
  <2>1. Fail /\ Explained
    BY <1>7 DEF StepLimit, Explained
  <2>2. QED
    BY <2>1, FailArrives
<1>8. QED
  BY <1>2, <1>3, <1>4, <1>5, <1>6, <1>7 DEF Next

LEMMA ArrivedKept ==
  ASSUME Arrived, UNCHANGED vars
  PROVE  Arrived'
<1>1. /\ wf' = wf /\ opts' = opts /\ steps' = steps /\ pc' = pc /\ path' = path /\ current' = current
      /\ branchAt' = branchAt /\ status' = status
  BY DEF vars
<1>2. Explained' = Explained /\ TargetsUndeclared' = TargetsUndeclared /\ NodeIDs(wf)' = NodeIDs(wf)
  BY <1>1, SameEnds DEF Explained, ConditionsParse, NodeIDs
<1>3. QED
  BY <1>1, <1>2 DEF Arrived

LEMMA RunKnownInit == CommandInit => RunKnown
<1> SUFFICES ASSUME CommandInit PROVE RunKnown
  OBVIOUS
<1>1. Init /\ V!Fresh
  BY DEF CommandInit
<1>2. IInv /\ WalkKnown /\ Reached
  BY <1>1, InitIInv, InitWalkKnown, ReachedInit
<1>3. pc = "start" /\ status = "running" /\ current = wf.start
  BY <1>1, ZenonT(20) DEF Init
<1>4. check = "local"
  BY <1>1 DEF V!Fresh
<1>5. QED
  BY <1>2, <1>3, <1>4 DEF RunKnown, Vetted, Arrived

LEMMA RunKnownStep ==
  ASSUME RunKnown, [CommandNext]_allVars
  PROVE  RunKnown'
<1>1. IInv /\ WalkKnown /\ Reached /\ Vetted /\ Arrived
  BY DEF RunKnown
<1>2. Reached'
  BY <1>1, ReachedStep
<1>3. CASE Validate
  <2>1. V!Next /\ UNCHANGED run
    BY <1>3 DEF Validate
  <2>2. wf' = wf
    BY <2>1 DEF V!Next, V!CheckLocally, V!VisitBreadthFirst, V!FindUnreachableNodes, V!VisitNextNode,
                V!ProcessNeighbor, V!Leave, V!CyclesDone, V!CheckParallelFanIn
  <2>3. UNCHANGED vars /\ pc' = pc
    BY <2>1, <2>2 DEF run, vars
  <2>4. IInv' /\ WalkKnown' /\ Arrived'
    BY <1>1, <2>3, NextKeeps, NextKeepsWalk, ArrivedKept
  <2>5. Vetted'
    BY <1>1, <2>1, <2>3, ValidateVets
  <2>6. QED
    BY <1>2, <2>4, <2>5 DEF RunKnown
<1>4. CASE SimulateAllPaths \/ UNCHANGED allVars
  <2>1. UNCHANGED validation /\ UNCHANGED vars /\ wf' = wf /\ pc' = pc
    <3>1. CASE SimulateAllPaths
      <4>1. E!Next /\ UNCHANGED run /\ UNCHANGED validation
        BY <3>1 DEF SimulateAllPaths
      <4>2. wf' = wf
        BY <4>1 DEF E!Next, E!Begin, E!ExploreEdge, E!Return, E!Stop
      <4>3. QED
        BY <4>1, <4>2 DEF run, vars
    <3>2. CASE UNCHANGED allVars
      BY <3>2 DEF allVars, vars
    <3>3. QED
      BY <1>4, <3>1, <3>2
  <2>2. IInv' /\ WalkKnown' /\ Arrived'
    BY <1>1, <2>1, NextKeeps, NextKeepsWalk, ArrivedKept
  <2>3. Vetted'
    BY <1>1, <2>1, VettedKept
  <2>4. QED
    BY <1>2, <2>2, <2>3 DEF RunKnown
<1>5. CASE SimulateSingle
  <2>1. Prepared /\ Next /\ UNCHANGED validation /\ wf' = wf
    BY <1>5, WorkflowKept DEF SimulateSingle
  <2>2. IInv' /\ WalkKnown'
    BY <1>1, <2>1, NextKeeps, NextKeepsWalk
  <2>3. Arrived'
    BY <2>1, NextArrives
  <2>4. Vetted'
    BY <1>1, <2>1, VettedKept
  <2>5. QED
    BY <1>2, <2>2, <2>3, <2>4 DEF RunKnown
<1>6. QED
  BY <1>3, <1>4, <1>5 DEF CommandNext

(* What the command's states have in common.                               *)
THEOREM RunHolds == CommandSpec => []RunKnown
<1>1. CommandInit => RunKnown
  BY RunKnownInit
<1>2. RunKnown /\ [CommandNext]_allVars => RunKnown'
  BY RunKnownStep
<1>3. QED
  BY <1>1, <1>2, PTL DEF CommandSpec

(* A run of a validated workflow fails only for a reason the validator     *)
(* cannot see: an answer, the step limit, a condition, a target nobody     *)
(* declared; and it does not look for a join in vain (simulator/simulate.go*)
(* run, parallel.go findJoinNode).                                         *)
THEOREM FailuresHaveCauses == CommandSpec => []FailuresAreExplained
<1>1. RunKnown => FailuresAreExplained
  BY RunExplained
<1>2. QED
  BY <1>1, RunHolds, PTL

-----------------------------------------------------------------------------
(* The search of DIP005                                                    *)

Following(id) == Range(V!NonRestartAdjacency(id))

\* No edge begins or ends at "", which the search takes for "no parent".
NoEmptyEnds == \A e \in Range(wf.edges) : NoNode \notin {e.from, e.to}

Black == {id \in V!IDs(wf) : color[id] = "black"}
Parents == {id \in V!IDs(wf) : parent[id] # NoNode}

DepthTyped ==
    /\ stack \in Seq(V!IDs(wf)) /\ reported \subseteq V!IDs(wf)
    /\ nextEdge \in [V!IDs(wf) -> Nat \ {0}]
    /\ color \in [V!IDs(wf) -> {"white", "gray", "black"}]
    /\ parent \in [V!IDs(wf) -> V!IDs(wf) \cup {NoNode}]
    /\ IsFiniteSet(Parents)

\* The calls under way are a path of the graph, the gray nodes, and the parents
\* lead back along it.
OnStack ==
    /\ \A i, j \in DOMAIN stack : stack[i] = stack[j] => i = j
    /\ \A id \in V!IDs(wf) : color[id] = "gray" <=> id \in Range(stack)
    /\ \A i \in 1..(Len(stack) - 1) :
          stack[i + 1] \in Following(stack[i]) /\ parent[stack[i + 1]] = stack[i]
    /\ stack # <<>> => parent[stack[1]] = NoNode
    /\ \A id \in V!IDs(wf) : color[id] = "white" => nextEdge[id] = 1 /\ parent[id] = NoNode
    /\ NoEmptyEnds => Cardinality(Parents) >= Len(stack) - 1
    /\ NoEmptyEnds /\ NoNode \in V!IDs(wf) => parent[NoNode] = NoNode

\* What became of the neighbours that were looked at: they were left, reported
\* or, if the visit of the last one goes on, entered.
Seen ==
    /\ \A id \in Black : Following(id) \subseteq Black \cup reported
    /\ \A i \in DOMAIN stack : \A k \in DOMAIN V!NonRestartAdjacency(stack[i]) :
          k < nextEdge[stack[i]] =>
              \/ V!NonRestartAdjacency(stack[i])[k] \in Black \cup reported
              \/ i < Len(stack) /\ V!NonRestartAdjacency(stack[i])[k] = stack[i + 1]

\* The nodes that were left have no cycle but through reported ones.
Acyclic == \A S \in SUBSET (Black \ reported) : S # {} => \E id \in S : Following(id) \cap S = {}

Genuine(c) ==
    /\ Len(c) >= 2 /\ Head(c) = Last(c)
    /\ \A i \in 1..(Len(c) - 1) : c[i + 1] \in Following(c[i])
    /\ IsInjective(Tail(c))

Told ==
    /\ {Head(c) : c \in About(diags, "DIP005")} = reported
    /\ NoEmptyEnds => \A c \in About(diags, "DIP005") : Genuine(c)

AllLeft == check \in {"joins", "done"} /\ V!Known(wf.start) => NodeIDs(wf) \subseteq Black

CyclesKnown == DepthTyped /\ OnStack /\ Seen /\ Acyclic /\ Told /\ AllLeft

(* buildNonRestartAdjacency lists the ends of the edges that do not restart.*)
LEMMA Neighbors ==
  ASSUME wf \in Workflows, NEW id
  PROVE  /\ V!NonRestartAdjacency(id) \in Seq(V!IDs(wf))
         /\ Following(id) = {e.to : e \in {x \in Range(wf.edges) : x.from = id /\ ~x.restart}}
         /\ Following(id) \subseteq V!IDs(wf)
         /\ NoEmptyEnds /\ Following(id) # {} => id # NoNode /\ NoNode \notin Following(id)
<1> DEFINE I == {i \in DOMAIN wf.edges : wf.edges[i].from = id /\ ~wf.edges[i].restart}
           chosen == Keep(wf.edges, I)
           ends == [i \in DOMAIN chosen |-> chosen[i].to]
           D == V!IDs(wf)
<1>1. V!NonRestartAdjacency(id) = ends
  <2>1. V!Keep(wf.edges, I) = chosen
    BY GraphTyped, SameKeep
  <2>2. QED
    BY <2>1 DEF V!NonRestartAdjacency, V!ExplicitTargets
<1>2. ends \in Seq(D) /\ Range(ends) = {wf.edges[i].to : i \in I}
  BY EndsOfChosen
<1> HIDE DEF ends
<1>3. {wf.edges[i].to : i \in I} = {e.to : e \in {x \in Range(wf.edges) : x.from = id /\ ~x.restart}}
  <2>1. ASSUME NEW i \in I PROVE wf.edges[i] \in {x \in Range(wf.edges) : x.from = id /\ ~x.restart}
    BY DEF Range
  <2>2. ASSUME NEW e \in Range(wf.edges), e.from = id, ~e.restart PROVE \E i \in I : wf.edges[i] = e
    BY <2>2 DEF Range
  <2> HIDE DEF I
  <2>3. QED
    BY <2>1, <2>2
<1>4. Following(id) = {e.to : e \in {x \in Range(wf.edges) : x.from = id /\ ~x.restart}}
  BY <1>1, <1>2, <1>3 DEF Following
<1>5. Following(id) \subseteq D
  BY <1>4, GraphTyped
<1>6. NoEmptyEnds /\ Following(id) # {} => id # NoNode /\ NoNode \notin Following(id)
  BY <1>4 DEF NoEmptyEnds
<1>7. QED
  BY <1>1, <1>2, <1>4, <1>5, <1>6

LEMMA CyclesAreBroken ==
  ASSUME Reached, CyclesKnown
  PROVE  V!CyclesAreExact
<1>1. wf \in Workflows /\ Seen /\ Acyclic /\ Told /\ AllLeft
  BY DEF Reached, CyclesKnown
<1>2. V!Reports("DIP005") = About(diags, "DIP005") /\ V!NoNode = NoNode /\ V!NodeIDs(wf) = NodeIDs(wf)
      /\ \A s : V!Range(s) = Range(s) /\ V!Last(s) = Last(s)
  BY ReportsAbout, SameOperators
<1>3. ASSUME check \in {"joins", "done"}, V!Known(wf.start),
             NEW S \in SUBSET (V!IDs(wf) \ reported), S \cap NodeIDs(wf) # {},
             \A id \in S : Following(id) \cap S # {}
      PROVE  FALSE
  <2> DEFINE B == S \cap Black
  <2>1. B # {} /\ B \subseteq Black \ reported
    BY <1>1, <1>3 DEF AllLeft
  <2>2. \A id \in B : Following(id) \cap B # {}
    BY <1>1, <1>3 DEF Seen
  <2>3. QED
    BY <1>1, <2>1, <2>2 DEF Acyclic
<1>4. {Head(about) : about \in V!Reports("DIP005")} = reported
  BY <1>1, <1>2 DEF Told
<1>5. check \in {"joins", "done"} /\ V!Known(wf.start) =>
        ~V!Loops(V!IDs(wf) \ {Head(about) : about \in V!Reports("DIP005")})
  BY <1>2, <1>3, <1>4 DEF V!Loops, Following
<1>6. ASSUME \A e \in Range(wf.edges) : NoNode \notin {e.from, e.to}, NEW c \in About(diags, "DIP005")
      PROVE  /\ Len(c) >= 2 /\ Head(c) = Last(c)
             /\ \A i \in 1..(Len(c) - 1) : c[i + 1] \in Range(V!NonRestartAdjacency(c[i]))
             /\ V!IsInjective(Tail(c))
  BY <1>1, <1>6 DEF Told, Genuine, NoEmptyEnds, Following, V!IsInjective, IsInjective
<1>7. QED
  BY <1>2, <1>5, <1>6 DEF V!CyclesAreExact

(* reconstructCycle, when the edge led back to a call under way: the path  *)
(* of calls from there, and the node once more.                            *)
CycleFrom(p) ==
    [j \in 1..(Len(stack) - p + 2) |-> IF j = Len(stack) - p + 2 THEN stack[p] ELSE stack[p + j - 1]]

LEMMA CycleOfPath ==
  ASSUME wf \in Workflows, DepthTyped, OnStack, NoEmptyEnds, stack # <<>>,
         NEW p \in DOMAIN stack, stack[p] \in Following(Last(stack))
  PROVE  V!ReconstructCycle(Last(stack), stack[p]) = CycleFrom(p)
<1> DEFINE n == Len(stack)
           to == stack[p]
           d == n - p
           maxSteps == V!Cardinality({id \in DOMAIN parent : parent[id] # V!NoNode}) + 2
           Climbs(f) == f = [k \in 0..maxSteps |->
                               IF k = 0 THEN Last(stack)
                               ELSE IF f[k - 1] \in DOMAIN parent THEN parent[f[k - 1]] ELSE V!NoNode]
           up == CHOOSE f : Climbs(f)
           g == [k \in 0..maxSteps |-> IF k < n THEN stack[n - k] ELSE NoNode]
           ends == {k \in 0..maxSteps :
                       \/ up[k] \in {to, V!NoNode} \/ k = maxSteps
                       \/ \E j \in 0..(k - 1) : up[j] = up[k]}
           length == CHOOSE k \in ends : \A j \in ends : k <= j
           climbed == [k \in 1..length |-> up[k - 1]]
<1>1. /\ n \in Nat /\ n >= 1 /\ DOMAIN stack = 1..n /\ p \in 1..n /\ d \in Nat /\ d < n
      /\ Last(stack) = stack[n] /\ V!NoNode = NoNode
      /\ \A i \in 1..n : stack[i] \in V!IDs(wf)
      /\ DOMAIN parent = V!IDs(wf)
  BY SameOperators DEF DepthTyped, Last
<1>0. n \in Nat /\ n >= 1 /\ p \in 1..n /\ d \in Nat /\ d < n
  BY <1>1
<1>2. maxSteps \in Nat /\ maxSteps >= n + 1
  <2>1. {id \in DOMAIN parent : parent[id] # V!NoNode} = Parents
    BY <1>1 DEF Parents
  <2>2. maxSteps = Cardinality(Parents) + 2
    BY <2>1, SameCardinality
  <2>3. Cardinality(Parents) \in Nat /\ Cardinality(Parents) >= n - 1
    BY FS_CardinalityType DEF DepthTyped, OnStack
  <2>4. QED
    BY <1>1, <2>2, <2>3
<1> HIDE DEF maxSteps
<1>3. \A i \in 1..n : stack[i] # NoNode
  <2>1. stack[n] # NoNode
    BY <1>1, Neighbors
  <2>2. ASSUME NEW i \in 1..n, i # n PROVE stack[i] # NoNode
    <3>1. i \in 1..(n - 1)
      BY <1>0, <2>2
    <3>2. stack[i + 1] \in Following(stack[i])
      BY <3>1 DEF OnStack
    <3>3. QED
      BY <3>2, Neighbors
  <2>3. QED
    BY <2>1, <2>2
<1>4. /\ \A i, j \in 1..n : stack[i] = stack[j] => i = j
      /\ \A i \in 2..n : parent[stack[i]] = stack[i - 1]
      /\ parent[stack[1]] = NoNode
      /\ NoNode \in DOMAIN parent => parent[NoNode] = NoNode
  <2>1. ASSUME NEW i \in 2..n PROVE parent[stack[i]] = stack[i - 1]
    <3>1. i - 1 \in 1..(n - 1) /\ (i - 1) + 1 = i
      BY <1>1
    <3>2. \A k \in 1..(n - 1) : parent[stack[k + 1]] = stack[k]
      BY DEF OnStack
    <3>3. parent[stack[(i - 1) + 1]] = stack[i - 1]
      BY <3>1, <3>2
    <3>4. QED
      BY <3>1, <3>3
  <2>2. QED
    BY <1>1, <2>1 DEF OnStack
<1>5. Climbs(g)
  <2>1. ASSUME NEW k \in 0..maxSteps, k # 0
        PROVE  g[k] = IF g[k - 1] \in DOMAIN parent THEN parent[g[k - 1]] ELSE NoNode
    <3>1. k - 1 \in 0..maxSteps /\ k \in Nat
      BY <1>2, <2>1
    <3>2. CASE k < n
      <4>1. n - (k - 1) \in 2..n /\ n - (k - 1) - 1 = n - k /\ k - 1 < n /\ n - (k - 1) \in 1..n
        BY <1>1, <2>1, <3>1, <3>2
      <4>2. g[k - 1] = stack[n - (k - 1)] /\ g[k] = stack[n - k]
        BY <3>1, <3>2, <4>1
      <4>3. QED
        BY <1>1, <1>4, <4>1, <4>2
    <3>3. CASE k = n
      <4>1. n - (k - 1) = 1 /\ k - 1 < n /\ ~(k < n) /\ 1 \in 1..n
        BY <1>1, <3>1, <3>3
      <4>2. g[k - 1] = stack[1] /\ g[k] = NoNode
        BY <3>1, <4>1
      <4>3. QED
        BY <1>1, <1>4, <4>1, <4>2
    <3>4. CASE k > n
      <4>1. ~(k - 1 < n) /\ ~(k < n)
        BY <1>1, <3>1, <3>4
      <4>2. g[k - 1] = NoNode /\ g[k] = NoNode
        BY <3>1, <4>1
      <4>3. QED
        BY <1>4, <4>2
    <3>5. QED
      BY <1>0, <3>1, <3>2, <3>3, <3>4
  <2>2. g[0] = Last(stack) /\ g = [k \in 0..maxSteps |-> g[k]]
    BY <1>1, <1>2
  <2> HIDE DEF g
  <2>3. QED
    BY <1>1, <2>1, <2>2
<1>6. Climbs(up)
  <2>1. \E f : Climbs(f)
    BY <1>5
  <2> HIDE DEF Climbs
  <2>2. QED
    BY <2>1
<1>7. /\ up[0] = stack[n]
      /\ \A k \in 1..maxSteps : up[k] = IF up[k - 1] \in DOMAIN parent THEN parent[up[k - 1]] ELSE NoNode
  <2>1. \A k \in 0..maxSteps : up[k] =
          IF k = 0 THEN Last(stack)
          ELSE IF up[k - 1] \in DOMAIN parent THEN parent[up[k - 1]] ELSE V!NoNode
    <3> HIDE DEF up
    <3>1. QED
      BY <1>6
  <2> HIDE DEF up
  <2>2. QED
    BY <1>1, <1>2, <2>1
<1> HIDE DEF up, g
<1>8. \A k \in 0..d : up[k] = stack[n - k]
  <2> DEFINE Bad == {k \in 0..d : up[k] # stack[n - k]}
  <2> SUFFICES ASSUME Bad # {} PROVE FALSE
    OBVIOUS
  <2>1. Min(Bad) \in Bad /\ \A k \in Bad : Min(Bad) <= k
    <3>1. Bad \in SUBSET Nat
      BY <1>1
    <3> HIDE DEF Bad
    <3>2. QED
      BY <3>1, MinIsLeast
  <2>2. PICK k \in Bad : \A j \in Bad : k <= j
    BY <2>1
  <2>3. k \in 0..d /\ k # 0 /\ k \in Nat
    BY <1>1, <1>7, <2>2
  <2>4. k - 1 \in 0..d /\ ~(k <= k - 1) /\ k \in 1..maxSteps
    BY <1>1, <1>2, <2>3
  <2>5. up[k - 1] = stack[n - (k - 1)]
    BY <2>2, <2>4
  <2>6. n - (k - 1) \in 2..n /\ n - (k - 1) - 1 = n - k /\ n - (k - 1) \in 1..n
    BY <1>1, <2>3
  <2>7. up[k] = stack[n - k]
    <3>1. stack[n - (k - 1)] \in DOMAIN parent
      BY <1>1, <2>6
    <3>2. parent[stack[n - (k - 1)]] = stack[n - (k - 1) - 1]
      BY <1>4, <2>6
    <3>3. up[k] = parent[up[k - 1]]
      BY <1>7, <2>4, <2>5, <3>1
    <3>4. QED
      BY <2>5, <2>6, <3>2, <3>3
  <2>8. QED
    BY <2>2, <2>7
<1>9. d \in ends /\ \A k \in ends : d <= k
  <2>1. up[d] = to /\ d \in 0..maxSteps
    <3>1. n - d = p /\ d \in 0..d /\ d <= maxSteps
      BY <1>1, <1>2
    <3>2. QED
      BY <1>1, <1>2, <1>8, <3>1
  <2>2. ASSUME NEW k \in ends, k < d PROVE FALSE
    <3>1. k \in Nat /\ k \in 0..d /\ k # maxSteps
      BY <1>1, <1>2, <2>2
    <3>2. n - k \in 1..n /\ n - k # p
      BY <1>1, <2>2, <3>1
    <3>3. up[k] = stack[n - k] /\ up[k] # to /\ up[k] # V!NoNode
      <4>1. up[k] = stack[n - k]
        BY <1>8, <3>1
      <4>2. stack[n - k] # stack[p]
        BY <1>0, <1>4, <3>2
      <4>3. stack[n - k] # V!NoNode
        BY <1>1, <1>3, <3>2
      <4>4. QED
        BY <4>1, <4>2, <4>3
    <3>4. PICK j \in 0..(k - 1) : up[j] = up[k]
      BY <2>2, <3>1, <3>3
    <3>5. j \in 0..d /\ n - j \in 1..n /\ n - j # n - k
      BY <1>1, <2>2, <3>1
    <3>6. up[j] = stack[n - j]
      BY <1>8, <3>5
    <3>7. QED
      BY <1>4, <3>2, <3>3, <3>4, <3>5, <3>6
  <2>3. \A k \in ends : k \in Nat
    BY <1>2
  <2>4. \A k \in ends : d <= k
    BY <1>1, <2>2, <2>3
  <2> HIDE DEF d
  <2>5. QED
    BY <2>1, <2>4
<1>10. length = d
  <2>1. \A k \in ends : k \in Int
    BY <1>2
  <2>2. d \in Int
    BY <1>1
  <2> HIDE DEF ends, d
  <2>3. length \in ends /\ \A j \in ends : length <= j
    BY <1>9
  <2> HIDE DEF length
  <2>4. QED
    BY <1>9, <2>1, <2>2, <2>3
<1>11. V!ReconstructCycle(Last(stack), to) = <<to>> \o V!Reverse(climbed) \o <<to>>
  BY DEF V!ReconstructCycle, maxSteps, up
<1> DEFINE back == V!Reverse(climbed)
<1>12. /\ back \in Seq(V!IDs(wf)) /\ Len(back) = d /\ DOMAIN back = 1..d
       /\ \A i \in 1..d : back[i] = stack[p + i]
  <2> HIDE DEF length
  <2>1. \A k \in 1..d : climbed[k] = stack[n - k + 1] /\ n - k + 1 \in 1..n
    <3> SUFFICES ASSUME NEW k \in 1..d PROVE climbed[k] = stack[n - k + 1] /\ n - k + 1 \in 1..n
      OBVIOUS
    <3>1. k - 1 \in 0..d /\ n - (k - 1) = n - k + 1 /\ n - k + 1 \in 1..n
      BY <1>1
    <3>2. QED
      BY <1>8, <1>10, <3>1
  <2>2. DOMAIN climbed = 1..d /\ climbed = [k \in 1..d |-> climbed[k]]
    BY <1>10
  <2> HIDE DEF climbed
  <2>3. climbed \in Seq(V!IDs(wf)) /\ Len(climbed) = d
    <3>1. \A k \in 1..d : climbed[k] \in V!IDs(wf)
      BY <1>1, <2>1
    <3> HIDE DEF d
    <3>2. QED
      BY <1>0, <2>2, <3>1
  <2>4. back = [i \in 1..d |-> climbed[(d - i) + 1]]
    BY <2>3 DEF V!Reverse
  <2>5. ASSUME NEW i \in 1..d PROVE back[i] = stack[p + i] /\ back[i] \in V!IDs(wf)
    <3>1. (d - i) + 1 \in 1..d /\ n - ((d - i) + 1) + 1 = p + i /\ p + i \in 1..n
      BY <1>1
    <3>2. QED
      BY <1>1, <2>1, <2>4, <3>1
  <2> HIDE DEF back
  <2>6. back \in Seq(V!IDs(wf)) /\ Len(back) = d
    <3> HIDE DEF d
    <3>1. QED
      BY <1>0, <2>4, <2>5
  <2>7. QED
    BY <1>1, <2>4, <2>5, <2>6
<1>13. <<to>> \o back \o <<to>> = [j \in 1..(d + 2) |-> IF j = d + 2 THEN stack[p] ELSE stack[p + j - 1]]
  <2> HIDE DEF back, d
  <2> DEFINE c == <<to>> \o back \o <<to>>
             m == d + 2
  <2>1. /\ <<to>> \in Seq(V!IDs(wf)) /\ Len(<<to>>) = 1 /\ <<to>>[1] = to /\ d \in Nat
    BY <1>1
  <2>2. c \in Seq(V!IDs(wf)) /\ Len(c) = m
    BY <1>12, <2>1
  <2>3. c[1] = to
    BY <1>12, <2>1
  <2>4. \A i \in 1..d : c[i + 1] = back[i]
    BY <1>12, <2>1
  <2>5. c[m] = to
    BY <1>12, <2>1
  <2>6. ASSUME NEW j \in 1..m PROVE c[j] = IF j = m THEN stack[p] ELSE stack[p + j - 1]
    <3>1. CASE j = m
      BY <2>5, <3>1
    <3>2. CASE j # m /\ j = 1
      BY <1>1, <2>3, <3>2
    <3>3. CASE j # m /\ j # 1
      <4>1. j - 1 \in 1..d /\ (j - 1) + 1 = j /\ p + (j - 1) = p + j - 1
        BY <1>1, <2>1, <3>3
      <4>2. c[(j - 1) + 1] = back[j - 1] /\ back[j - 1] = stack[p + (j - 1)]
        BY <1>12, <2>4, <4>1
      <4>3. QED
        BY <3>3, <4>1, <4>2
    <3>4. QED
      BY <3>1, <3>2, <3>3
  <2>7. c = [j \in 1..m |-> c[j]]
    <3> HIDE DEF c, m
    <3>1. QED
      BY <2>2
  <2> HIDE DEF c
  <2>8. c = [j \in 1..m |-> IF j = m THEN stack[p] ELSE stack[p + j - 1]]
    BY <2>6, <2>7
  <2>9. QED
    BY <2>8 DEF c
<1>14. QED
  BY <1>11, <1>13 DEF CycleFrom

LEMMA SameFollowing ==
  ASSUME wf' = wf
  PROVE  /\ \A id : V!NonRestartAdjacency(id)' = V!NonRestartAdjacency(id) /\ Following(id)' = Following(id)
         /\ NoEmptyEnds' = NoEmptyEnds /\ (V!IDs(wf))' = V!IDs(wf) /\ (NodeIDs(wf))' = NodeIDs(wf)
<1>1. \A id : V!NonRestartAdjacency(id)' = V!NonRestartAdjacency(id)
  BY DEF V!NonRestartAdjacency, V!ExplicitTargets
<1>2. NoEmptyEnds' = NoEmptyEnds /\ (V!IDs(wf))' = V!IDs(wf) /\ (NodeIDs(wf))' = NodeIDs(wf)
  BY DEF NoEmptyEnds, V!IDs, V!NodeIDs, NodeIDs
<1>3. QED
  BY <1>1, <1>2 DEF Following

LEMMA CycleIsGenuine ==
  ASSUME wf \in Workflows, DepthTyped, OnStack, stack # <<>>,
         NEW p \in DOMAIN stack, stack[p] \in Following(Last(stack))
  PROVE  Genuine(CycleFrom(p)) /\ Head(CycleFrom(p)) = stack[p]
<1> DEFINE n == Len(stack)
           c == CycleFrom(p)
           m == n - p + 2
<1>1. /\ n \in Nat /\ n >= 1 /\ p \in 1..n /\ m \in Nat /\ m >= 2 /\ DOMAIN stack = 1..n
      /\ Last(stack) = stack[n]
  BY DEF DepthTyped, Last
<1>2. c = [j \in 1..m |-> IF j = m THEN stack[p] ELSE stack[p + j - 1]]
  BY DEF CycleFrom
<1>3. /\ \A j \in 1..(m - 1) : c[j] = stack[p + j - 1] /\ p + j - 1 \in 1..n
      /\ c[m] = stack[p] /\ c[1] = stack[p]
  BY <1>1, <1>2
<1>4. /\ c \in Seq(V!IDs(wf)) /\ Len(c) = m
      /\ Head(c) = c[1] /\ Last(c) = c[m]
      /\ DOMAIN Tail(c) = 1..(m - 1) /\ \A j \in 1..(m - 1) : Tail(c)[j] = c[j + 1]
  <2>1. \A i \in 1..n : stack[i] \in V!IDs(wf)
    BY <1>1 DEF DepthTyped
  <2>2. \A j \in 1..m : c[j] \in V!IDs(wf)
    <3>1. \A j \in 1..m : j = m \/ j \in 1..(m - 1)
      BY <1>1
    <3>2. QED
      BY <1>1, <1>3, <2>1, <3>1
  <2>3. c = [j \in 1..m |-> c[j]]
    BY <1>2
  <2> HIDE DEF c, m
  <2>4. c \in Seq(V!IDs(wf)) /\ Len(c) = m
    BY <1>1, <2>2, <2>3
  <2>5. QED
    BY <1>1, <2>4 DEF Last
<1> HIDE DEF c
<1>5. ASSUME NEW i \in 1..(m - 1) PROVE c[i + 1] \in Following(c[i])
  <2>1. CASE i = m - 1
    <3>1. i + 1 = m /\ p + i - 1 = n
      BY <1>1, <2>1
    <3>2. QED
      BY <1>1, <1>3, <3>1
  <2>2. CASE i # m - 1
    <3>1. /\ i + 1 \in 1..(m - 1) /\ p + (i + 1) - 1 = (p + i - 1) + 1
          /\ p + i - 1 \in 1..(n - 1)
      <4>1. n \in Nat /\ n >= 1 /\ p \in 1..n
        BY <1>1
      <4> HIDE DEF n
      <4>2. i \in Nat /\ i >= 1 /\ i <= n - p
        BY <2>2, <4>1
      <4>3. QED
        BY <4>1, <4>2
    <3>2. \A k \in 1..(n - 1) : stack[k + 1] \in Following(stack[k])
      BY DEF OnStack
    <3>3. stack[(p + i - 1) + 1] \in Following(stack[p + i - 1])
      BY <3>1, <3>2
    <3>4. c[i + 1] = stack[p + (i + 1) - 1] /\ c[i] = stack[p + i - 1]
      BY <1>3, <3>1
    <3>5. QED
      BY <3>1, <3>3, <3>4
  <2>3. QED
    BY <2>1, <2>2
<1>6. ASSUME NEW i \in 1..(m - 1), NEW j \in 1..(m - 1), c[i + 1] = c[j + 1], i < j
      PROVE  FALSE
  <2>1. i + 1 \in 1..(m - 1) /\ p + (i + 1) - 1 \in 1..n /\ p + (i + 1) - 1 # p
    BY <1>1, <1>6
  <2>2. c[i + 1] = stack[p + (i + 1) - 1]
    BY <1>3, <2>1
  <2>3. \A a, b \in 1..n : stack[a] = stack[b] => a = b
    BY <1>1 DEF OnStack
  <2>4. CASE j = m - 1
    <3>1. c[j + 1] = stack[p]
      <4>1. j + 1 = m
        BY <1>1, <2>4
      <4>2. QED
        BY <1>3, <4>1
    <3>2. QED
      BY <1>1, <1>6, <2>1, <2>2, <2>3, <3>1
  <2>5. CASE j # m - 1
    <3>1. j + 1 \in 1..(m - 1) /\ p + (j + 1) - 1 \in 1..n /\ p + (j + 1) - 1 # p + (i + 1) - 1
      BY <1>1, <1>6, <2>5
    <3>2. c[j + 1] = stack[p + (j + 1) - 1]
      BY <1>3, <3>1
    <3>3. QED
      BY <1>6, <2>1, <2>2, <2>3, <3>1, <3>2
  <2>6. QED
    BY <2>4, <2>5
<1>7. IsInjective(Tail(c))
  <2>1. ASSUME NEW i \in 1..(m - 1), NEW j \in 1..(m - 1), c[i + 1] = c[j + 1] PROVE i = j
    <3>1. i \in Int /\ j \in Int
      BY <1>1
    <3>2. i < j \/ j < i \/ i = j
      BY <3>1
    <3>3. QED
      BY <1>6, <2>1, <3>2
  <2>2. QED
    BY <1>4, <2>1, SMTT(20) DEF IsInjective
<1>8. Genuine(c)
  BY <1>1, <1>3, <1>4, <1>5, <1>7 DEF Genuine
<1>9. QED
  BY <1>3, <1>4, <1>8 DEF c

\* Whatever the walk up finds, a report begins with the node the edge led to.
LEMMA HeadOfReport ==
  ASSUME DepthTyped, NEW from, NEW to, V!IDs(wf) = DOMAIN parent
  PROVE  Head(V!ReconstructCycle(from, to)) = to
<1> DEFINE maxSteps == V!Cardinality({id \in DOMAIN parent : parent[id] # V!NoNode}) + 2
           up == CHOOSE f : f = [k \in 0..maxSteps |->
                               IF k = 0 THEN from
                               ELSE IF f[k - 1] \in DOMAIN parent THEN parent[f[k - 1]] ELSE V!NoNode]
           ends == {k \in 0..maxSteps :
                       \/ up[k] \in {to, V!NoNode} \/ k = maxSteps
                       \/ \E j \in 0..(k - 1) : up[j] = up[k]}
           length == CHOOSE k \in ends : \A j \in ends : k <= j
           climbed == [k \in 1..length |-> up[k - 1]]
           back == V!Reverse(climbed)
<1>1. V!ReconstructCycle(from, to) = <<to>> \o back \o <<to>>
  BY DEF V!ReconstructCycle
<1>2. maxSteps \in Nat
  <2>1. {id \in DOMAIN parent : parent[id] # V!NoNode} = Parents
    BY SameOperators DEF Parents
  <2>2. maxSteps = Cardinality(Parents) + 2
    BY <2>1, SameCardinality
  <2>3. QED
    BY <2>2, FS_CardinalityType DEF DepthTyped
<1> HIDE DEF maxSteps
<1>3. length \in Nat
  <2>1. ends \in SUBSET Nat /\ maxSteps \in ends
    <3> HIDE DEF up
    <3>1. QED
      BY <1>2
  <2> HIDE DEF ends
  <2>2. Min(ends) \in ends /\ \A j \in ends : Min(ends) <= j
    BY <2>1, MinIsLeast
  <2>3. length \in ends
    BY <2>2
  <2>4. QED
    BY <2>1, <2>3
<1> HIDE DEF length, up
<1>4. climbed \in Seq(Range(climbed))
  <2>1. \A k \in 1..length : climbed[k] \in Range(climbed)
    BY DEF Range
  <2>2. DOMAIN climbed = 1..length /\ climbed = [k \in 1..length |-> climbed[k]]
    OBVIOUS
  <2> HIDE DEF climbed
  <2>3. QED
    BY <1>3, <2>1, <2>2
<1> DEFINE R == Range(climbed) \cup {to}
<1>5. back \in Seq(R)
  <2>1. Len(climbed) \in Nat /\ \A i \in 1..Len(climbed) : climbed[i] \in R
    <3> DEFINE r == Range(climbed)
    <3>1. climbed \in Seq(r) /\ r \subseteq R
      BY <1>4
    <3> HIDE DEF climbed, r, R
    <3>2. QED
      BY <3>1
  <2> HIDE DEF climbed, R
  <2>2. back = [i \in 1..Len(climbed) |-> climbed[(Len(climbed) - i) + 1]]
    BY DEF V!Reverse
  <2>3. \A i \in 1..Len(climbed) : (Len(climbed) - i) + 1 \in 1..Len(climbed)
    BY <2>1
  <2>4. \A i \in 1..Len(climbed) : back[i] \in R
    BY <2>1, <2>2, <2>3
  <2> HIDE DEF back
  <2>5. QED
    BY <2>1, <2>2, <2>4
<1>6. <<to>> \in Seq(R) /\ Len(<<to>>) = 1 /\ <<to>>[1] = to
  OBVIOUS
<1> HIDE DEF back, R
<1>7. Head(<<to>> \o back \o <<to>>) = to
  BY <1>5, <1>6
<1>8. QED
  BY <1>1, <1>7

-----------------------------------------------------------------------------
(* The steps of the search                                                 *)

LEMMA CyclesInit == CommandInit => CyclesKnown
<1> SUFFICES ASSUME CommandInit PROVE CyclesKnown
  OBVIOUS
<1>1. /\ check = "local" /\ diags = <<>> /\ stack = <<>> /\ reported = {}
      /\ nextEdge = [id \in V!IDs(wf) |-> 1]
      /\ color = [id \in V!IDs(wf) |-> "white"]
      /\ parent = [id \in V!IDs(wf) |-> NoNode]
  BY SameOperators DEF CommandInit, V!Fresh
<1>2. Parents = {} /\ Black = {} /\ DOMAIN stack = {} /\ Range(stack) = {} /\ Len(stack) = 0
  BY <1>1 DEF Parents, Black, Range
<1>3. DepthTyped
  <2>1. IsFiniteSet({})
    BY FS_EmptySet
  <2>2. QED
    BY <1>1, <1>2, <2>1 DEF DepthTyped
<1>4. OnStack
  <2>1. Cardinality(Parents) >= Len(stack) - 1
    BY <1>2, FS_EmptySet
  <2>2. QED
    BY <1>1, <1>2, <2>1 DEF OnStack
<1>5. Seen /\ Acyclic /\ AllLeft
  BY <1>1, <1>2 DEF Seen, Acyclic, AllLeft
<1>6. About(diags, "DIP005") = {}
  BY <1>1, CodedNone DEF About
<1>7. Told
  BY <1>1, <1>6 DEF Told
<1>8. QED
  BY <1>3, <1>4, <1>5, <1>7 DEF CyclesKnown

\* The other checks leave the search and its reports as they are.
LEMMA SearchKept ==
  ASSUME CyclesKnown, wf' = wf, UNCHANGED V!depth, About(diags', "DIP005") = About(diags, "DIP005"), AllLeft'
  PROVE  CyclesKnown'
<1>1. stack' = stack /\ nextEdge' = nextEdge /\ color' = color /\ parent' = parent /\ reported' = reported
  BY DEF V!depth
<1>2. Black' = Black /\ Parents' = Parents
  BY <1>1, SameFollowing DEF Black, Parents
<1>3. DepthTyped' = DepthTyped /\ Acyclic' = Acyclic
  BY <1>1, <1>2, SameFollowing DEF DepthTyped, Acyclic
<1>4. Seen' = Seen
  BY <1>1, <1>2, SameFollowing DEF Seen
<1>5. OnStack' = OnStack
  BY <1>1, <1>2, SameFollowing DEF OnStack
<1>6. \A c : Genuine(c)' = Genuine(c)
  BY SameFollowing DEF Genuine
<1>7. Told' = Told
  BY <1>1, <1>6, SameFollowing DEF Told
<1>8. QED
  BY <1>3, <1>4, <1>5, <1>7 DEF CyclesKnown

LEMMA CheckLocallyKeepsSearch ==
  ASSUME Reached, CyclesKnown, V!CheckLocally
  PROVE  CyclesKnown'
<1>1. wf \in Workflows /\ wf' = wf /\ UNCHANGED V!depth /\ diags = <<>> /\ diags' = Local
  BY DEF Reached, V!CheckLocally, Local
<1>2. About(diags, "DIP005") = {}
  BY <1>1, CodedNone DEF About
<1>3. About(Local, "DIP005") = {}
  BY <1>1, LocalReports DEF Coded, About, LocalCodes
<1>4. AllLeft'
  <2>1. V!Known(wf.start) => check' = "reach"
    BY DEF V!CheckLocally
  <2>2. QED
    BY <1>1, <2>1, SameGraph DEF AllLeft
<1>5. QED
  BY <1>1, <1>2, <1>3, <1>4, SearchKept

LEMMA VisitNextKeepsSearch ==
  ASSUME Reached, CyclesKnown, V!VisitNextNode
  PROVE  CyclesKnown'
<1> DEFINE D == V!IDs(wf)
           I == {i \in DOMAIN wf.nodes : color[wf.nodes[i].id] = "white"}
           chosen == Keep(wf.nodes, I)
           white == [i \in DOMAIN chosen |-> chosen[i].id]
           id == Head(white)
<1>1. /\ wf \in Workflows /\ wf' = wf /\ check' = "cycles" /\ stack = <<>> /\ diags' = diags
      /\ nextEdge' = nextEdge /\ parent' = parent /\ reported' = reported
  BY DEF Reached, V!VisitNextNode
<1>2. white # <<>> /\ stack' = Append(stack, id) /\ color' = [color EXCEPT ![id] = "gray"]
  <2>1. V!Keep(wf.nodes, I) = chosen
    BY <1>1, ChosenIDs
  <2>2. V!IDsWhere(wf, LAMBDA n : color[n.id] = "white") = white
    BY <2>1 DEF V!IDsWhere
  <2>3. QED
    BY <2>2 DEF V!VisitNextNode, V!Enter
<1>3. id \in D /\ color[id] = "white"
  <2>1. white \in Seq(NodeIDs(wf)) /\ Range(white) = {wf.nodes[i].id : i \in I}
    BY <1>1, ChosenIDs
  <2> HIDE DEF white
  <2>2. id \in Range(white)
    <3>1. 1 \in DOMAIN white /\ id = white[1]
      BY <1>2, <2>1
    <3>2. QED
      BY <3>1 DEF Range
  <2>3. \E i \in I : wf.nodes[i].id = id
    BY <2>1, <2>2
  <2>4. id \in NodeIDs(wf)
    BY <2>3 DEF NodeIDs
  <2>5. QED
    BY <1>1, <2>3, <2>4, GraphTyped
<1> HIDE DEF id
<1>4. stack' = <<id>> /\ DOMAIN stack' = {1} /\ Len(stack') = 1 /\ Range(stack') = {id} /\ stack'[1] = id
  BY <1>1, <1>2 DEF Range
<1>5. /\ DepthTyped /\ OnStack /\ Seen /\ Acyclic /\ Told
      /\ Range(stack) = {}
  BY <1>1 DEF CyclesKnown, Range
<1>6. /\ color \in [D -> {"white", "gray", "black"}] /\ color' \in [D -> {"white", "gray", "black"}]
      /\ \A x \in D : color'[x] = IF x = id THEN "gray" ELSE color[x]
  BY <1>2, <1>3, <1>5 DEF DepthTyped
<1>7. Black' = Black /\ Parents' = Parents
  BY <1>1, <1>3, <1>6, SameFollowing DEF Black, Parents
<1>8. DepthTyped'
  <2>1. <<id>> \in Seq(D)
    BY <1>3
  <2>2. QED
    BY <1>1, <1>4, <1>5, <1>6, <1>7, <2>1, SameFollowing DEF DepthTyped
<1>9. OnStack'
  <2>1. \A x \in D : color'[x] = "gray" <=> x \in {id}
    BY <1>5, <1>6 DEF OnStack
  <2>2. \A i \in 1..(Len(stack') - 1) : FALSE
    BY <1>4
  <2>3. parent[id] = NoNode /\ \A x \in D : color'[x] = "white" => nextEdge[x] = 1 /\ parent[x] = NoNode
    BY <1>3, <1>5, <1>6 DEF OnStack
  <2>4. Cardinality(Parents) \in Nat /\ Cardinality(Parents) >= Len(stack') - 1
    BY <1>4, <1>5, FS_CardinalityType DEF DepthTyped
  <2>5. \A i, j \in DOMAIN stack' : stack'[i] = stack'[j] => i = j
    BY <1>4
  <2>6. NoEmptyEnds /\ NoNode \in D => parent[NoNode] = NoNode
    BY <1>5 DEF OnStack
  <2>7. QED
    BY <1>1, <1>4, <1>7, <2>1, <2>2, <2>3, <2>4, <2>5, <2>6, SameFollowing DEF OnStack
<1>10. Seen'
  <2>1. nextEdge[id] = 1
    BY <1>3, <1>5 DEF OnStack
  <2>2. \A k \in DOMAIN V!NonRestartAdjacency(id) : ~(k < 1)
    <3>1. V!NonRestartAdjacency(id) \in Seq(D)
      BY <1>1, Neighbors
    <3>2. DOMAIN V!NonRestartAdjacency(id) \subseteq Nat \ {0}
      BY <3>1
    <3>3. QED
      BY <3>2
  <2>3. \A x \in Black : Following(x) \subseteq Black \cup reported
    BY <1>5 DEF Seen
  <2>4. QED
    BY <1>1, <1>4, <1>7, <2>1, <2>2, <2>3, SameFollowing DEF Seen
<1>11. Acyclic'
  BY <1>1, <1>5, <1>7, SameFollowing DEF Acyclic
<1>12. Told'
  <2>1. \A c : Genuine(c)' = Genuine(c)
    BY <1>1, SameFollowing DEF Genuine
  <2>2. QED
    BY <1>1, <1>5, <2>1, SameFollowing DEF Told
<1>13. QED
  BY <1>1, <1>8, <1>9, <1>10, <1>11, <1>12 DEF CyclesKnown, AllLeft

\* What holds of the call on top, and of its next neighbour.
LEMMA AtTop ==
  ASSUME wf \in Workflows, DepthTyped, OnStack, stack # <<>>
  PROVE  LET n == Len(stack)
             top == stack[n]
         IN  /\ n \in Nat /\ n >= 1 /\ DOMAIN stack = 1..n /\ V!Top = top
             /\ \A i \in 1..n : stack[i] \in V!IDs(wf) /\ color[stack[i]] = "gray"
             /\ top \in V!IDs(wf) /\ color[top] = "gray"
             /\ nextEdge[top] \in Nat /\ nextEdge[top] >= 1
             /\ Len(V!NonRestartAdjacency(top)) \in Nat
             /\ DOMAIN V!NonRestartAdjacency(top) = 1..Len(V!NonRestartAdjacency(top))
             /\ Following(top) \subseteq V!IDs(wf)
<1>1. Len(stack) \in Nat /\ Len(stack) >= 1 /\ DOMAIN stack = 1..Len(stack) /\ \A i \in 1..Len(stack) : stack[i] \in V!IDs(wf)
  BY DEF DepthTyped
<1>2. V!Top = stack[Len(stack)]
  BY DEF V!Top, V!Last
<1>3. \A i \in 1..Len(stack) : color[stack[i]] = "gray"
  BY <1>1 DEF OnStack, Range
<1>4. \A x \in V!IDs(wf) : nextEdge[x] \in Nat /\ nextEdge[x] >= 1
  <2>1. \A x \in V!IDs(wf) : nextEdge[x] \in Nat \ {0}
    BY DEF DepthTyped
  <2>2. QED
    BY <2>1
<1>5. Len(stack) \in 1..Len(stack)
  BY <1>1
<1>6. \A x : /\ Len(V!NonRestartAdjacency(x)) \in Nat
             /\ DOMAIN V!NonRestartAdjacency(x) = 1..Len(V!NonRestartAdjacency(x))
             /\ Following(x) \subseteq V!IDs(wf)
  <2> SUFFICES ASSUME NEW x
               PROVE  /\ Len(V!NonRestartAdjacency(x)) \in Nat
                      /\ DOMAIN V!NonRestartAdjacency(x) = 1..Len(V!NonRestartAdjacency(x))
                      /\ Following(x) \subseteq V!IDs(wf)
    OBVIOUS
  <2>1. V!NonRestartAdjacency(x) \in Seq(V!IDs(wf)) /\ Following(x) \subseteq V!IDs(wf)
    BY Neighbors
  <2>2. QED
    BY <2>1
<1>7. QED
  BY <1>1, <1>2, <1>3, <1>4, <1>5, <1>6

LEMMA EnterKeepsSearch ==
  ASSUME Reached, CyclesKnown, V!ProcessNeighbor,
         NEW next, next = V!NonRestartAdjacency(V!Top)[nextEdge[V!Top]], color[next] = "white"
  PROVE  CyclesKnown'
<1> DEFINE D == V!IDs(wf)
           n == Len(stack)
           top == stack[n]
           adj == V!NonRestartAdjacency(top)
<1>1. /\ wf \in Workflows /\ wf' = wf /\ check' = "cycles" /\ stack # <<>>
      /\ DepthTyped /\ OnStack /\ Seen /\ Acyclic /\ Told
  BY DEF Reached, CyclesKnown, V!ProcessNeighbor
<1>2. /\ n \in Nat /\ n >= 1 /\ DOMAIN stack = 1..n /\ V!Top = top
      /\ \A i \in 1..n : stack[i] \in D /\ color[stack[i]] = "gray"
      /\ top \in D /\ color[top] = "gray"
      /\ nextEdge[top] \in Nat /\ nextEdge[top] >= 1
      /\ Len(adj) \in Nat /\ DOMAIN adj = 1..Len(adj) /\ Following(top) \subseteq D
  BY <1>1, AtTop
<1>3. /\ reported' = reported /\ diags' = diags
      /\ nextEdge' = [nextEdge EXCEPT ![top] = @ + 1]
      /\ stack' = Append(stack, next) /\ color' = [color EXCEPT ![next] = "gray"]
      /\ parent' = [parent EXCEPT ![next] = top]
      /\ nextEdge[top] <= Len(adj)
  BY <1>2 DEF V!ProcessNeighbor, V!ClosesCycle, V!Enter
<1>4. next = adj[nextEdge[top]] /\ nextEdge[top] \in DOMAIN adj /\ next \in Following(top) /\ next \in D
  <2>1. next = adj[nextEdge[top]] /\ nextEdge[top] \in DOMAIN adj
    BY <1>2, <1>3
  <2>2. next \in Following(top)
    BY <2>1 DEF Following, Range
  <2>3. QED
    BY <1>2, <2>1, <2>2
<1>5. /\ \A x \in D : color'[x] = IF x = next THEN "gray" ELSE color[x]
      /\ \A x \in D : parent'[x] = IF x = next THEN top ELSE parent[x]
      /\ \A x \in D : nextEdge'[x] = IF x = top THEN nextEdge[top] + 1 ELSE nextEdge[x]
      /\ color' \in [D -> {"white", "gray", "black"}]
      /\ parent' \in [D -> D \cup {NoNode}]
      /\ nextEdge' \in [D -> Nat \ {0}]
  <2>1. /\ color \in [D -> {"white", "gray", "black"}] /\ parent \in [D -> D \cup {NoNode}]
        /\ nextEdge \in [D -> Nat \ {0}]
    BY <1>1 DEF DepthTyped
  <2>2. nextEdge[top] + 1 \in Nat \ {0}
    BY <1>2
  <2>3. QED
    BY <1>2, <1>3, <1>4, <2>1, <2>2
<1>6. /\ Len(stack') = n + 1 /\ DOMAIN stack' = 1..(n + 1) /\ stack'[n + 1] = next
      /\ \A i \in 1..n : stack'[i] = stack[i]
      /\ stack' \in Seq(D)
  <2>1. stack \in Seq(D)
    BY <1>1 DEF DepthTyped
  <2>2. QED
    BY <1>3, <1>4, <2>1
<1> HIDE DEF n, top, adj
<1>7. next # top /\ parent[next] = NoNode /\ nextEdge[next] = 1
  BY <1>1, <1>2, <1>4 DEF OnStack
<1>8. Black' = Black
  BY <1>1, <1>4, <1>5, SameFollowing DEF Black
<1>9. Parents' = (IF top = NoNode THEN Parents ELSE Parents \cup {next}) /\ next \notin Parents
  BY <1>1, <1>4, <1>5, <1>7, SameFollowing DEF Parents
<1>10. DepthTyped'
  <2>1. IsFiniteSet(Parents')
    <3>1. IsFiniteSet(Parents)
      BY <1>1 DEF DepthTyped
    <3>2. IsFiniteSet(Parents \cup {next})
      BY <3>1, FS_AddElement
    <3>3. QED
      BY <1>9, <3>1, <3>2
  <2>2. reported' \subseteq D
    BY <1>1, <1>3 DEF DepthTyped
  <2>3. QED
    BY <1>1, <1>5, <1>6, <2>1, <2>2, SameFollowing DEF DepthTyped
<1>11. \A i \in 1..(n + 1) : i \in 1..n \/ i = n + 1
  BY <1>2
<1>12. \A i \in 1..n : stack[i] # next
  BY <1>2
<1>13. OnStack'
  <2>1. \A i, j \in 1..(n + 1) : stack'[i] = stack'[j] => i = j
    <3>1. \A i, j \in 1..n : stack[i] = stack[j] => i = j
      BY <1>1, <1>2 DEF OnStack
    <3>2. QED
      BY <1>6, <1>11, <1>12, <3>1
  <2>2. \A x \in D : color'[x] = "gray" <=> x \in Range(stack')
    <3>1. Range(stack') = Range(stack) \cup {next}
      <4>1. Range(stack') = {stack'[i] : i \in 1..(n + 1)} /\ Range(stack) = {stack[i] : i \in 1..n}
        BY <1>2, <1>6 DEF Range
      <4>2. n + 1 \in 1..(n + 1) /\ \A i \in 1..n : i \in 1..(n + 1)
        BY <1>2
      <4>3. QED
        BY <1>6, <1>11, <4>1, <4>2
    <3>2. \A x \in D : color[x] = "gray" <=> x \in Range(stack)
      BY <1>1 DEF OnStack
    <3>3. QED
      BY <1>4, <1>5, <3>1, <3>2
  <2>3. \A i \in 1..n : stack'[i + 1] \in Following(stack'[i]) /\ parent'[stack'[i + 1]] = stack'[i]
    <3> SUFFICES ASSUME NEW i \in 1..n
                 PROVE  stack'[i + 1] \in Following(stack'[i]) /\ parent'[stack'[i + 1]] = stack'[i]
      OBVIOUS
    <3>1. CASE i = n
      <4>1. stack'[i + 1] = next /\ stack'[i] = top
        BY <1>6, <3>1 DEF top
      <4>2. QED
        BY <1>4, <1>5, <4>1
    <3>2. CASE i # n
      <4>1. i \in 1..(n - 1) /\ i + 1 \in 1..n
        BY <1>2, <3>2
      <4>2. stack[i + 1] \in Following(stack[i]) /\ parent[stack[i + 1]] = stack[i]
        BY <1>1, <4>1 DEF OnStack, n
      <4>3. parent'[stack[i + 1]] = parent[stack[i + 1]]
        BY <1>2, <1>5, <1>12, <4>1
      <4>4. QED
        BY <1>6, <4>1, <4>2, <4>3
    <3>3. QED
      BY <3>1, <3>2
  <2>4. parent'[stack'[1]] = NoNode
    <3>1. 1 \in 1..n
      BY <1>2
    <3>2. parent[stack[1]] = NoNode
      BY <1>1 DEF OnStack
    <3>3. QED
      BY <1>2, <1>5, <1>6, <1>12, <3>1, <3>2
  <2>5. \A x \in D : color'[x] = "white" => nextEdge'[x] = 1 /\ parent'[x] = NoNode
    <3>1. \A x \in D : color[x] = "white" => nextEdge[x] = 1 /\ parent[x] = NoNode
      BY <1>1 DEF OnStack
    <3>2. QED
      BY <1>2, <1>5, <3>1, ZenonT(40)
  <2>6. ASSUME NoEmptyEnds PROVE Cardinality(Parents') >= (n + 1) - 1
    <3>1. top # NoNode
      BY <1>1, <1>4, <2>6, Neighbors
    <3>2. IsFiniteSet(Parents) /\ Cardinality(Parents) >= n - 1
      BY <1>1, <2>6 DEF DepthTyped, OnStack, n
    <3>3. Cardinality(Parents \cup {next}) = Cardinality(Parents) + 1 /\ Cardinality(Parents) \in Nat
      BY <1>9, <3>2, FS_AddElement, FS_CardinalityType
    <3>4. QED
      BY <1>2, <1>9, <3>1, <3>2, <3>3
  <2>7. ASSUME NoEmptyEnds, NoNode \in D PROVE parent'[NoNode] = NoNode
    <3>1. next # NoNode
      BY <1>1, <1>4, <2>7, Neighbors
    <3>2. parent[NoNode] = NoNode
      BY <1>1, <2>7 DEF OnStack
    <3>3. QED
      BY <1>5, <2>7, <3>1, <3>2
  <2>8. Len(stack') - 1 = n
    BY <1>2, <1>6
  <2>9. QED
    BY <1>1, <1>6, <2>1, <2>2, <2>3, <2>4, <2>5, <2>6, <2>7, <2>8, SameFollowing DEF OnStack
<1>14. Seen'
  <2>1. ASSUME NEW i \in 1..(n + 1), NEW k \in DOMAIN V!NonRestartAdjacency(stack'[i]), k < nextEdge'[stack'[i]]
        PROVE  \/ V!NonRestartAdjacency(stack'[i])[k] \in Black \cup reported
               \/ i < n + 1 /\ V!NonRestartAdjacency(stack'[i])[k] = stack'[i + 1]
    <3>1. CASE i = n + 1
      <4>1. nextEdge'[next] = 1
        BY <1>4, <1>5, <1>7
      <4>2. V!NonRestartAdjacency(next) \in Seq(D)
        BY <1>1, Neighbors
      <4>3. \A j \in DOMAIN V!NonRestartAdjacency(next) : ~(j < 1)
        <5>1. DOMAIN V!NonRestartAdjacency(next) \subseteq Nat \ {0}
          BY <4>2
        <5>2. QED
          BY <5>1
      <4>4. QED
        BY <1>6, <2>1, <3>1, <4>1, <4>3
    <3>2. CASE i = n
      <4>1. stack'[i] = top /\ stack'[i + 1] = next /\ i < n + 1
        BY <1>2, <1>6, <3>2 DEF top
      <4>2. k \in 1..Len(adj) /\ (k < nextEdge[top] \/ k = nextEdge[top])
        <5>1. k \in 1..Len(adj) /\ k < nextEdge[top] + 1
          BY <1>2, <1>5, <2>1, <4>1 DEF adj
        <5>2. QED
          BY <1>2, <5>1
      <4>3. CASE k = nextEdge[top]
        BY <1>4, <4>1, <4>3 DEF adj
      <4>4. CASE k < nextEdge[top]
        <5>1. \/ adj[k] \in Black \cup reported
              \/ n < n /\ adj[k] = stack[n + 1]
          BY <1>1, <1>2, <4>2, <4>4 DEF Seen, n, top, adj
        <5>2. ~(n < n)
          BY <1>2
        <5>3. QED
          BY <4>1, <5>1, <5>2 DEF adj
      <4>5. QED
        BY <4>2, <4>3, <4>4
    <3>3. CASE i \in 1..n /\ i # n
      <4>1. i + 1 \in 1..n /\ i < n /\ i < n + 1 /\ n \in 1..n
        BY <1>2, <3>3
      <4>2. stack'[i] = stack[i] /\ stack'[i + 1] = stack[i + 1]
        BY <1>6, <3>3, <4>1
      <4>3. stack[i] # top
        BY <1>1, <1>2, <3>3, <4>1 DEF OnStack, top
      <4>4. nextEdge'[stack[i]] = nextEdge[stack[i]]
        BY <1>2, <1>5, <3>3, <4>3
      <4>5. \/ V!NonRestartAdjacency(stack[i])[k] \in Black \cup reported
            \/ i < n /\ V!NonRestartAdjacency(stack[i])[k] = stack[i + 1]
        BY <1>1, <1>2, <2>1, <3>3, <4>2, <4>4 DEF Seen, n
      <4>6. QED
        BY <4>1, <4>2, <4>5
    <3>4. QED
      BY <1>11, <3>1, <3>2, <3>3
  <2>2. \A x \in Black : Following(x) \subseteq Black \cup reported
    BY <1>1 DEF Seen
  <2>3. /\ DOMAIN stack' = 1..(n + 1) /\ Len(stack') = n + 1 /\ reported' = reported /\ Black' = Black
        /\ \A id : V!NonRestartAdjacency(id)' = V!NonRestartAdjacency(id) /\ Following(id)' = Following(id)
    BY <1>1, <1>3, <1>6, <1>8, SameFollowing
  <2>4. QED
    BY <2>1, <2>2, <2>3 DEF Seen
<1>15. Acyclic'
  BY <1>1, <1>3, <1>8, SameFollowing DEF Acyclic
<1>16. Told'
  <2>1. \A c : Genuine(c)' = Genuine(c)
    BY <1>1, SameFollowing DEF Genuine
  <2>2. QED
    BY <1>1, <1>3, <2>1, SameFollowing DEF Told
<1>17. QED
  BY <1>1, <1>10, <1>13, <1>14, <1>15, <1>16 DEF CyclesKnown, AllLeft

LEMMA PassKeepsSearch ==
  ASSUME Reached, CyclesKnown, V!ProcessNeighbor,
         NEW next, next = V!NonRestartAdjacency(V!Top)[nextEdge[V!Top]], color[next] # "white"
  PROVE  CyclesKnown'
<1> DEFINE D == V!IDs(wf)
           n == Len(stack)
           top == stack[n]
           adj == V!NonRestartAdjacency(top)
           cycle == V!ReconstructCycle(top, next)
<1>1. /\ wf \in Workflows /\ wf' = wf /\ check' = "cycles" /\ stack # <<>>
      /\ DepthTyped /\ OnStack /\ Seen /\ Acyclic /\ Told
  BY DEF Reached, CyclesKnown, V!ProcessNeighbor
<1>2. /\ n \in Nat /\ n >= 1 /\ DOMAIN stack = 1..n /\ V!Top = top
      /\ \A i \in 1..n : stack[i] \in D /\ color[stack[i]] = "gray"
      /\ top \in D /\ color[top] = "gray"
      /\ nextEdge[top] \in Nat /\ nextEdge[top] >= 1
      /\ Len(adj) \in Nat /\ DOMAIN adj = 1..Len(adj) /\ Following(top) \subseteq D
  BY <1>1, AtTop
<1>3. /\ nextEdge' = [nextEdge EXCEPT ![top] = @ + 1]
      /\ stack' = stack /\ color' = color /\ parent' = parent
      /\ nextEdge[top] <= Len(adj)
      /\ IF color[next] = "gray" /\ next \notin reported
         THEN /\ reported' = reported \cup {next}
              /\ diags' = Append(diags, V!Diagnostic("DIP005", cycle))
         ELSE reported' = reported /\ diags' = diags
  BY <1>2 DEF V!ProcessNeighbor, V!ClosesCycle
<1>4. next = adj[nextEdge[top]] /\ nextEdge[top] \in DOMAIN adj /\ next \in Following(top) /\ next \in D
  <2>1. next = adj[nextEdge[top]] /\ nextEdge[top] \in DOMAIN adj
    BY <1>2, <1>3
  <2>2. next \in Following(top)
    BY <2>1 DEF Following, Range
  <2>3. QED
    BY <1>2, <2>1, <2>2
<1>5. /\ \A x \in D : nextEdge'[x] = IF x = top THEN nextEdge[top] + 1 ELSE nextEdge[x]
      /\ nextEdge' \in [D -> Nat \ {0}]
  <2>1. nextEdge \in [D -> Nat \ {0}]
    BY <1>1 DEF DepthTyped
  <2>2. nextEdge[top] + 1 \in Nat \ {0}
    BY <1>2
  <2>3. QED
    BY <1>2, <1>3, <2>1, <2>2
<1>6. Black' = Black /\ Parents' = Parents
  BY <1>1, <1>3, SameFollowing DEF Black, Parents
<1>7. /\ reported \subseteq reported' /\ reported' \subseteq D
      /\ next \in Black \cup reported'
  <2>1. reported \subseteq D /\ color[next] \in {"white", "gray", "black"}
    BY <1>1, <1>4 DEF DepthTyped
  <2>2. QED
    BY <1>3, <1>4, <2>1 DEF Black
<1>8. DepthTyped'
  BY <1>1, <1>3, <1>5, <1>6, <1>7, SameFollowing DEF DepthTyped
<1>9. OnStack'
  <2>1. \A x \in D : color[x] = "white" => nextEdge'[x] = 1 /\ parent[x] = NoNode
    <3>1. \A x \in D : color[x] = "white" => nextEdge[x] = 1 /\ parent[x] = NoNode
      BY <1>1 DEF OnStack
    <3> HIDE DEF top
    <3>2. QED
      BY <1>2, <1>5, <3>1
  <2> HIDE DEF n, top, adj, cycle
  <2>2. QED
    BY <1>1, <1>3, <1>6, <2>1, SameFollowing DEF OnStack
<1>10. Seen'
  <2> HIDE DEF n, top, adj, cycle
  <2>1. ASSUME NEW i \in 1..n, NEW k \in DOMAIN V!NonRestartAdjacency(stack[i]), k < nextEdge'[stack[i]]
        PROVE  \/ V!NonRestartAdjacency(stack[i])[k] \in Black \cup reported'
               \/ i < n /\ V!NonRestartAdjacency(stack[i])[k] = stack[i + 1]
    <3>1. CASE k < nextEdge[stack[i]]
      <4>1. \/ V!NonRestartAdjacency(stack[i])[k] \in Black \cup reported
            \/ i < n /\ V!NonRestartAdjacency(stack[i])[k] = stack[i + 1]
        BY <1>1, <1>2, <3>1 DEF Seen, n
      <4>2. QED
        BY <1>7, <4>1
    <3>2. CASE ~(k < nextEdge[stack[i]])
      <4>1. stack[i] = top
        BY <1>2, <1>5, <2>1, <3>2
      <4>2. k \in 1..Len(adj)
        BY <1>2, <4>1 DEF adj
      <4>3. k < nextEdge[top] + 1 /\ ~(k < nextEdge[top])
        BY <1>2, <1>5, <2>1, <3>2, <4>1
      <4>4. k = nextEdge[top]
        BY <1>2, <4>2, <4>3
      <4>5. QED
        BY <1>4, <1>7, <4>1, <4>4 DEF adj
    <3>3. QED
      BY <3>1, <3>2
  <2>2. \A x \in Black : Following(x) \subseteq Black \cup reported'
    BY <1>1, <1>7 DEF Seen
  <2>3. QED
    BY <1>1, <1>2, <1>3, <1>6, <2>1, <2>2, SameFollowing DEF Seen, n
<1>11. Acyclic'
  <2>1. Black \ reported' \subseteq Black \ reported
    BY <1>7
  <2>2. QED
    BY <1>1, <1>6, <2>1, SameFollowing DEF Acyclic
<1>12. Told'
  <2> HIDE DEF n, top, adj
  <2>1. \A c : Genuine(c)' = Genuine(c)
    BY <1>1, SameFollowing DEF Genuine
  <2>2. CASE ~(color[next] = "gray" /\ next \notin reported)
    BY <1>1, <1>3, <2>1, <2>2, SameFollowing DEF Told
  <2>3. CASE color[next] = "gray" /\ next \notin reported
    <3>1. Head(cycle) = next
      <4>1. V!IDs(wf) = DOMAIN parent
        BY <1>1 DEF DepthTyped
      <4>2. QED
        BY <1>1, <4>1, HeadOfReport
    <3>2. ASSUME NoEmptyEnds PROVE Genuine(cycle)
      <4>1. PICK p \in DOMAIN stack : stack[p] = next
        BY <1>1, <1>4, <2>3 DEF OnStack, Range
      <4>2. Last(stack) = top
        BY DEF Last, top, n
      <4>3. stack[p] \in Following(Last(stack))
        BY <1>4, <4>1, <4>2
      <4>4. V!ReconstructCycle(Last(stack), stack[p]) = CycleFrom(p)
        BY <1>1, <3>2, <4>3, CycleOfPath
      <4>5. Genuine(CycleFrom(p))
        BY <1>1, <4>3, CycleIsGenuine
      <4>6. QED
        BY <4>1, <4>2, <4>4, <4>5
    <3> HIDE DEF cycle
    <3> DEFINE d == V!Diagnostic("DIP005", cycle)
    <3>3. d.code = "DIP005" /\ d.about = cycle /\ d.code \in V!Codes
      BY DEF V!Diagnostic, V!Codes
    <3>4. diags' = Append(diags, d) /\ reported' = reported \cup {next}
      BY <1>3, <2>3
    <3> HIDE DEF d
    <3>5. Range(diags') = Range(diags) \cup {d}
      BY <3>3, <3>4, CodedAppend DEF Reached
    <3>6. About(diags', "DIP005") = About(diags, "DIP005") \cup {cycle}
      BY <3>3, <3>5 DEF About
    <3>7. {Head(c) : c \in About(diags', "DIP005")} = reported'
      <4>1. {Head(c) : c \in About(diags, "DIP005")} = reported
        BY <1>1 DEF Told
      <4>2. QED
        BY <3>1, <3>4, <3>6, <4>1
    <3>8. NoEmptyEnds => \A c \in About(diags', "DIP005") : Genuine(c)
      BY <1>1, <3>2, <3>6 DEF Told
    <3>9. QED
      BY <1>1, <2>1, <3>7, <3>8, SameFollowing DEF Told
  <2>4. QED
    BY <2>2, <2>3
<1>13. QED
  BY <1>1, <1>8, <1>9, <1>10, <1>11, <1>12 DEF CyclesKnown, AllLeft

LEMMA LeaveKeepsSearch ==
  ASSUME Reached, CyclesKnown, V!Leave
  PROVE  CyclesKnown'
<1> DEFINE D == V!IDs(wf)
           n == Len(stack)
           top == stack[n]
           adj == V!NonRestartAdjacency(top)
<1>1. /\ wf \in Workflows /\ wf' = wf /\ check' = "cycles" /\ stack # <<>> /\ diags' = diags
      /\ nextEdge' = nextEdge /\ parent' = parent /\ reported' = reported
      /\ DepthTyped /\ OnStack /\ Seen /\ Acyclic /\ Told
  BY DEF Reached, CyclesKnown, V!Leave
<1>2. /\ n \in Nat /\ n >= 1 /\ DOMAIN stack = 1..n /\ V!Top = top
      /\ \A i \in 1..n : stack[i] \in D /\ color[stack[i]] = "gray"
      /\ top \in D /\ color[top] = "gray"
      /\ nextEdge[top] \in Nat /\ nextEdge[top] >= 1
      /\ Len(adj) \in Nat /\ DOMAIN adj = 1..Len(adj) /\ Following(top) \subseteq D
  BY <1>1, AtTop
<1>3. stack' = Front(stack) /\ color' = [color EXCEPT ![top] = "black"] /\ nextEdge[top] > Len(adj)
  BY <1>2, SameOperators DEF V!Leave
<1>4. /\ \A x \in D : color'[x] = IF x = top THEN "black" ELSE color[x]
      /\ color' \in [D -> {"white", "gray", "black"}]
  <2>1. color \in [D -> {"white", "gray", "black"}]
    BY <1>1 DEF DepthTyped
  <2>2. QED
    BY <1>2, <1>3, <2>1
<1>5. /\ Len(stack') = n - 1 /\ DOMAIN stack' = 1..(n - 1)
      /\ \A i \in 1..(n - 1) : stack'[i] = stack[i] /\ i \in 1..n
      /\ stack' \in Seq(D)
  <2>1. stack' = [i \in 1..(n - 1) |-> stack[i]]
    BY <1>3 DEF Front
  <2>2. n - 1 \in Nat /\ \A i \in 1..(n - 1) : i \in 1..n
    BY <1>2
  <2>3. \A i \in 1..(n - 1) : stack[i] \in D
    BY <1>2, <2>2
  <2>4. QED
    BY <2>1, <2>2, <2>3
<1> HIDE DEF n, top, adj
<1>6. \A i \in 1..n : i = n \/ i \in 1..(n - 1)
  BY <1>2
<1>7. \A i, j \in 1..n : stack[i] = stack[j] => i = j
  BY <1>1, <1>2 DEF OnStack
<1>8. \A i \in 1..(n - 1) : stack[i] # top
  <2>1. n \in 1..n /\ \A i \in 1..(n - 1) : i # n /\ i \in 1..n
    BY <1>2
  <2>2. QED
    BY <1>7, <2>1 DEF top
<1>9. Black' = Black \cup {top} /\ top \notin Black /\ Parents' = Parents
  BY <1>1, <1>2, <1>4, SameFollowing DEF Black, Parents
<1>10. DepthTyped'
  BY <1>1, <1>4, <1>5, <1>9, SameFollowing DEF DepthTyped
<1>11. OnStack'
  <2>1. \A x \in D : color'[x] = "gray" <=> x \in Range(stack')
    <3>1. Range(stack') = Range(stack) \ {top}
      <4>1. Range(stack') = {stack[i] : i \in 1..(n - 1)} /\ Range(stack) = {stack[i] : i \in 1..n}
        BY <1>2, <1>5 DEF Range
      <4>2. QED
        BY <1>5, <1>6, <1>8, <4>1 DEF top
    <3>2. \A x \in D : color[x] = "gray" <=> x \in Range(stack)
      BY <1>1 DEF OnStack
    <3>3. QED
      BY <1>4, <3>1, <3>2
  <2>2. ASSUME NEW i \in 1..((n - 1) - 1)
        PROVE  stack'[i + 1] \in Following(stack'[i]) /\ parent[stack'[i + 1]] = stack'[i]
    <3>1. i \in 1..(n - 1) /\ i + 1 \in 1..(n - 1)
      BY <1>2
    <3>2. stack[i + 1] \in Following(stack[i]) /\ parent[stack[i + 1]] = stack[i]
      BY <1>1, <3>1 DEF OnStack, n
    <3>3. QED
      BY <1>5, <3>1, <3>2
  <2>3. stack' # <<>> => parent[stack'[1]] = NoNode
    <3>1. ASSUME stack' # <<>> PROVE 1 \in 1..(n - 1)
      BY <1>2, <1>5, <3>1
    <3>2. parent[stack[1]] = NoNode
      BY <1>1 DEF OnStack
    <3>3. QED
      BY <1>5, <3>1, <3>2
  <2>4. \A x \in D : color'[x] = "white" => nextEdge[x] = 1 /\ parent[x] = NoNode
    BY <1>1, <1>4 DEF OnStack
  <2>5. NoEmptyEnds => Cardinality(Parents) >= (n - 1) - 1
    <3>1. Cardinality(Parents) \in Nat
      BY <1>1, FS_CardinalityType DEF DepthTyped
    <3>2. NoEmptyEnds => Cardinality(Parents) >= n - 1
      BY <1>1 DEF OnStack, n
    <3>3. QED
      BY <1>2, <3>1, <3>2
  <2>6. \A i, j \in 1..(n - 1) : stack'[i] = stack'[j] => i = j
    BY <1>5, <1>7
  <2>7. NoEmptyEnds /\ NoNode \in D => parent[NoNode] = NoNode
    BY <1>1 DEF OnStack
  <2>8. QED
    BY <1>1, <1>5, <1>9, <2>1, <2>2, <2>3, <2>4, <2>5, <2>6, <2>7, SameFollowing DEF OnStack
<1>12. Following(top) \subseteq Black \cup reported
  <2>1. ASSUME NEW k \in DOMAIN adj PROVE adj[k] \in Black \cup reported
    <3>1. k < nextEdge[top] /\ n \in 1..n /\ ~(n < n)
      BY <1>2, <1>3
    <3>2. \/ adj[k] \in Black \cup reported
          \/ n < n /\ adj[k] = stack[n + 1]
      BY <1>1, <1>2, <3>1 DEF Seen, n, top, adj
    <3>3. QED
      BY <3>1, <3>2
  <2>2. QED
    BY <2>1 DEF Following, Range, adj
<1>13. Seen'
  <2>1. \A x \in Black \cup {top} : Following(x) \subseteq Black \cup {top} \cup reported
    BY <1>1, <1>12 DEF Seen
  <2>2. ASSUME NEW i \in 1..(n - 1), NEW k \in DOMAIN V!NonRestartAdjacency(stack[i]), k < nextEdge[stack[i]]
        PROVE  \/ V!NonRestartAdjacency(stack[i])[k] \in Black \cup {top} \cup reported
               \/ i < n - 1 /\ V!NonRestartAdjacency(stack[i])[k] = stack'[i + 1]
    <3>1. i \in 1..n
      BY <1>5
    <3>2. \/ V!NonRestartAdjacency(stack[i])[k] \in Black \cup reported
          \/ i < n /\ V!NonRestartAdjacency(stack[i])[k] = stack[i + 1]
      BY <1>1, <1>2, <2>2, <3>1 DEF Seen, n
    <3>3. CASE i = n - 1
      <4>1. i + 1 = n
        BY <1>2, <3>3
      <4>2. QED
        BY <3>2, <4>1 DEF top
    <3>4. CASE i # n - 1
      <4>1. i + 1 \in 1..(n - 1) /\ i < n - 1
        BY <1>2, <3>4
      <4>2. QED
        BY <1>5, <3>2, <4>1
    <3>5. QED
      BY <3>3, <3>4
  <2>3. \A i \in 1..(n - 1) : stack'[i] = stack[i]
    BY <1>5
  <2>4. ASSUME NEW i \in 1..(n - 1), NEW k \in DOMAIN V!NonRestartAdjacency(stack'[i]), k < nextEdge[stack'[i]]
        PROVE  \/ V!NonRestartAdjacency(stack'[i])[k] \in Black \cup {top} \cup reported
               \/ i < n - 1 /\ V!NonRestartAdjacency(stack'[i])[k] = stack'[i + 1]
    BY <2>2, <2>3, <2>4
  <2>5. /\ DOMAIN stack' = 1..(n - 1) /\ Len(stack') = n - 1 /\ reported' = reported /\ Black' = Black \cup {top}
        /\ nextEdge' = nextEdge
        /\ \A id : V!NonRestartAdjacency(id)' = V!NonRestartAdjacency(id) /\ Following(id)' = Following(id)
    BY <1>1, <1>5, <1>9, SameFollowing
  <2>6. QED
    BY <2>1, <2>4, <2>5 DEF Seen
<1>14. Acyclic'
  <2>1. ASSUME NEW S \in SUBSET ((Black \cup {top}) \ reported), S # {}
        PROVE  \E id \in S : Following(id) \cap S = {}
    <3> DEFINE B == S \ {top}
    <3>1. B \in SUBSET (Black \ reported)
      BY <2>1
    <3>2. CASE B = {}
      <4>1. S = {top}
        BY <2>1, <3>2
      <4>2. top \notin Following(top)
        BY <1>9, <1>12, <2>1, <4>1
      <4>3. QED
        BY <4>1, <4>2
    <3>3. CASE B # {}
      <4>1. PICK id \in B : Following(id) \cap B = {}
        BY <1>1, <3>1, <3>3 DEF Acyclic
      <4>2. Following(id) \subseteq Black \cup reported
        BY <1>1, <3>1 DEF Seen
      <4>3. Following(id) \cap S = {}
        BY <1>9, <2>1, <4>1, <4>2
      <4>4. QED
        BY <4>1, <4>3
    <3>4. QED
      BY <3>2, <3>3
  <2>2. QED
    BY <1>1, <1>9, <2>1, SameFollowing DEF Acyclic
<1>15. Told'
  <2>1. \A c : Genuine(c)' = Genuine(c)
    BY <1>1, SameFollowing DEF Genuine
  <2>2. QED
    BY <1>1, <2>1, SameFollowing DEF Told
<1>16. QED
  BY <1>1, <1>10, <1>11, <1>13, <1>14, <1>15 DEF CyclesKnown, AllLeft

LEMMA ValidatorKeepsSearch ==
  ASSUME Reached, CyclesKnown, V!Next
  PROVE  CyclesKnown'
<1>1. CASE V!CheckLocally
  BY <1>1, CheckLocallyKeepsSearch
<1>2. CASE V!VisitBreadthFirst
  <2>1. wf' = wf /\ UNCHANGED V!depth /\ diags' = diags /\ check' = "reach"
    BY <1>2 DEF V!VisitBreadthFirst
  <2>2. QED
    BY <2>1, SearchKept DEF AllLeft
<1>3. CASE V!FindUnreachableNodes
  <2>1. wf' = wf /\ UNCHANGED V!depth /\ check' = "cycles"
    BY <1>3 DEF V!FindUnreachableNodes
  <2>2. About(diags', "DIP005") = About(diags, "DIP005")
    BY <1>3, FindReaches
  <2>3. QED
    BY <2>1, <2>2, SearchKept DEF AllLeft
<1>4. CASE V!VisitNextNode
  BY <1>4, VisitNextKeepsSearch
<1>5. CASE V!ProcessNeighbor
  <2> DEFINE next == V!NonRestartAdjacency(V!Top)[nextEdge[V!Top]]
  <2>1. CASE color[next] = "white"
    BY <1>5, <2>1, EnterKeepsSearch
  <2>2. CASE color[next] # "white"
    BY <1>5, <2>2, PassKeepsSearch
  <2>3. QED
    BY <2>1, <2>2
<1>6. CASE V!Leave
  BY <1>6, LeaveKeepsSearch
<1>7. CASE V!CyclesDone
  <2>1. wf' = wf /\ UNCHANGED V!depth /\ diags' = diags /\ stack = <<>>
        /\ \A id \in NodeIDs(wf) : color[id] # "white"
    BY <1>7, SameOperators DEF V!CyclesDone
  <2>2. NodeIDs(wf) \subseteq Black
    <3>1. /\ color \in [V!IDs(wf) -> {"white", "gray", "black"}]
          /\ \A id \in V!IDs(wf) : color[id] = "gray" <=> id \in Range(stack)
      BY DEF CyclesKnown, DepthTyped, OnStack
    <3>2. Range(stack) = {} /\ NodeIDs(wf) \subseteq V!IDs(wf)
      BY <2>1, GraphTyped DEF Range, Reached
    <3>3. QED
      BY <2>1, <3>1, <3>2 DEF Black
  <2>3. Black' = Black
    BY <2>1, SameFollowing DEF Black, V!depth
  <2>4. AllLeft'
    BY <2>1, <2>2, <2>3, SameFollowing DEF AllLeft
  <2>5. QED
    BY <2>1, <2>4, SearchKept
<1>8. CASE V!CheckParallelFanIn
  <2>1. wf' = wf /\ UNCHANGED V!depth /\ check = "joins"
    BY <1>8 DEF V!CheckParallelFanIn
  <2>2. About(diags', "DIP005") = About(diags, "DIP005")
    BY <1>8, FanInReaches
  <2>3. Black' = Black
    BY <2>1, SameFollowing DEF Black, V!depth
  <2>4. AllLeft'
    <3>1. AllLeft
      BY DEF CyclesKnown
    <3>2. QED
      BY <2>1, <2>3, <3>1, SameFollowing, SameGraph DEF AllLeft
  <2>5. QED
    BY <2>1, <2>2, <2>4, SearchKept
<1>9. QED
  BY <1>1, <1>2, <1>3, <1>4, <1>5, <1>6, <1>7, <1>8 DEF V!Next

LEMMA SearchUntouched ==
  ASSUME CyclesKnown, wf' = wf, UNCHANGED validation
  PROVE  CyclesKnown'
<1>1. UNCHANGED V!depth /\ diags' = diags /\ check' = check
  BY DEF validation, V!depth
<1>2. Black' = Black
  BY <1>1, SameFollowing DEF Black, V!depth
<1>3. AllLeft'
  <2>1. AllLeft
    BY DEF CyclesKnown
  <2>2. QED
    BY <1>1, <1>2, <2>1, SameFollowing, SameGraph DEF AllLeft
<1>4. QED
  BY <1>1, <1>3, SearchKept

LEMMA CyclesStep ==
  ASSUME Reached, CyclesKnown, [CommandNext]_allVars
  PROVE  CyclesKnown'
<1>1. CASE Validate
  BY <1>1, ValidatorKeepsSearch DEF Validate
<1>2. CASE SimulateAllPaths
  <2>1. wf' = wf /\ UNCHANGED validation
    BY <1>2 DEF SimulateAllPaths, E!Next, E!Begin, E!ExploreEdge, E!Return, E!Stop
  <2>2. QED
    BY <2>1, SearchUntouched
<1>3. CASE SimulateSingle
  <2>1. wf' = wf /\ UNCHANGED validation
    BY <1>3, WorkflowKept DEF SimulateSingle
  <2>2. QED
    BY <2>1, SearchUntouched
<1>4. CASE UNCHANGED allVars
  BY <1>4, SearchUntouched DEF allVars, vars
<1>5. QED
  BY <1>1, <1>2, <1>3, <1>4 DEF CommandNext

(* Without the nodes DIP005 was reported for, no node of the workflow leads*)
(* into a cycle of edges that do not restart; and each report names such a *)
(* cycle, node by node, unless an edge begins or ends at a quoted "", which*)
(* the walk along the parents takes for its end (validator/validate.go).   *)
THEOREM CyclesReported == CommandSpec => []CyclesAreExact
<1>1. CommandInit => Reached /\ CyclesKnown
  BY ReachedInit, CyclesInit
<1>2. Reached /\ CyclesKnown /\ [CommandNext]_allVars => (Reached /\ CyclesKnown)'
  BY ReachedStep, CyclesStep
<1>3. Reached /\ CyclesKnown => CyclesAreExact
  BY CyclesAreBroken DEF CyclesAreExact
<1>4. QED
  BY <1>1, <1>2, <1>3, PTL DEF CommandSpec

=============================================================================
