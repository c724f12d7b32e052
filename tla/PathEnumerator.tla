--------------------------- MODULE PathEnumerator ---------------------------
(***************************************************************************)
(* simulate.RunAllPaths (simulate/path_enumerator.go): a depth-first       *)
(* search over the edges that records a path whenever it comes to Exit or  *)
(* to a dead end, and turns back at a third visit of a node, at the depth  *)
(* limit and at the result limit.  A fan-out is a choice like any other.   *)
(* The context the code seeds along the way decides nothing and is left    *)
(* out, as are the events of a path.                                       *)
(***************************************************************************)
EXTENDS Workflow, Integers

CONSTANTS
    Enumerated,     \* the workflows that may be enumerated
    MaxDepth,       \* maxDepth, 200 in the code
    MaxResults      \* maxResults, 100 in the code

VARIABLES
    wf,         \* the input
    phase,      \* "start", "search", "done" or "error"
    trail,      \* pathState.path: the nodes of the explore calls under way
    taken,      \* the edges between them
    tried,      \* how many of its edges each of these calls has explored
    results     \* pathEnumerator.results

search == <<trail, taken, tried>>
evars == <<wf, phase, search, results>>

Fresh ==
    /\ phase = "start"
    /\ trail = <<>> /\ taken = <<>> /\ tried = <<>>
    /\ results = <<>>

Init == wf \in Enumerated /\ Fresh

Path(nodes, edges, status) == [nodes |-> nodes, edges |-> edges, status |-> status]

VisitsOf(id) == Cardinality({i \in DOMAIN trail : trail[i] = id})

\* Mutant: a node is not entered again.
MayEnterOnce(id) ==
    /\ Len(results) < MaxResults /\ Len(trail) <= MaxDepth
    /\ VisitsOf(id) < 1
    /\ id \in NodeIDs(wf)

\* shouldExplore, and a node of that name.
MayEnter(id) ==
    /\ Len(results) < MaxResults /\ Len(trail) <= MaxDepth
    /\ VisitsOf(id) < 2
    /\ id \in NodeIDs(wf)

IsEnd(id) == id = wf.exit \/ EdgesFrom(wf, id) = <<>>

StatusAt(id) == IF id = wf.exit THEN "success" ELSE "dead_end"

\* Mutant: the path is recorded before the node is appended to it.
EnterRecordingEarly(id, edges, counts) ==
    IF IsEnd(id)
    THEN /\ results' = Append(results, Path(trail, edges, StatusAt(id)))
         /\ tried' = counts
         /\ UNCHANGED <<trail, taken>>
    ELSE /\ trail' = Append(trail, id) /\ taken' = edges
         /\ tried' = Append(counts, 0)
         /\ UNCHANGED results

(* explore, called for a node that may be entered: a path that ends here   *)
(* is recorded and the call returns; any other call goes on to the edges.  *)
Enter(id, edges, counts) ==
    IF IsEnd(id)
    THEN /\ results' = Append(results, Path(Append(trail, id), edges, StatusAt(id)))
         /\ tried' = counts
         /\ UNCHANGED <<trail, taken>>
    ELSE /\ trail' = Append(trail, id) /\ taken' = edges
         /\ tried' = Append(counts, 0)
         /\ UNCHANGED results

\* validateSimInput and EnsureConditionsParsed, then explore the start.
Begin ==
    /\ phase = "start"
    /\ IF {wf.start, wf.exit} \subseteq NodeIDs(wf) \ {NoNode} /\ ConditionsParse(wf)
       THEN phase' = "search" /\ Enter(wf.start, <<>>, <<>>)
       ELSE phase' = "error" /\ UNCHANGED <<search, results>>
    /\ UNCHANGED wf

Here == Last(trail)

\* exploreEdges: one turn of its loop, with the call of explore it makes.
ExploreEdge ==
    /\ phase = "search" /\ trail # <<>>
    /\ Last(tried) < Len(EdgesFrom(wf, Here))
    /\ \E i \in {Last(tried) + 1} : \E e \in {EdgesFrom(wf, Here)[i]} :
       LET counts == [tried EXCEPT ![Len(tried)] = i]
       IN  IF MayEnter(e.to) THEN Enter(e.to, Append(taken, e), counts)
           ELSE tried' = counts /\ UNCHANGED <<trail, taken, results>>
    /\ UNCHANGED <<wf, phase>>

\* The call returns; its copies of the state go with it.
Return ==
    /\ phase = "search" /\ trail # <<>>
    /\ Last(tried) = Len(EdgesFrom(wf, Here))
    /\ trail' = Front(trail) /\ tried' = Front(tried)
    /\ taken' = IF taken = <<>> THEN <<>> ELSE Front(taken)
    /\ UNCHANGED <<wf, phase, results>>

\* "no execution paths found" is an error.
Stop ==
    /\ phase = "search" /\ trail = <<>>
    /\ phase' = IF results = <<>> THEN "error" ELSE "done"
    /\ UNCHANGED <<wf, search, results>>

Next == Begin \/ ExploreEdge \/ Return \/ Stop

\* One goroutine that never waits.
Spec == Init /\ [][Next]_evars /\ WF_evars(Next)

-----------------------------------------------------------------------------
(* Properties                                                              *)

TypeOK ==
    /\ phase \in {"start", "search", "done", "error"}
    /\ trail \in Seq(NodeIDs(wf))
    /\ Len(tried) = Len(trail) /\ tried \in Seq(Nat)
    /\ Len(taken) = (IF trail = <<>> THEN 0 ELSE Len(trail) - 1)
    /\ \A i \in DOMAIN results : results[i].status \in {"success", "dead_end"}

VisitsIn(nodes, id) == Cardinality({i \in DOMAIN nodes : nodes[i] = id})

(* The walks of at most MaxDepth edges along which no node but the last is *)
(* an end and none is visited more than twice.                             *)
Extended(p, e) == Path(Append(p.nodes, e.to), Append(p.edges, e), StatusAt(e.to))

MayGoOn(p, e) == e.to \in NodeIDs(wf) /\ VisitsIn(p.nodes, e.to) < 2

Walks ==
    LET OfLength[n \in 0..MaxDepth] ==
            IF n = 0 THEN {Path(<<wf.start>>, <<>>, StatusAt(wf.start))}
            ELSE UNION {{Extended(p, e) : e \in {x \in Range(EdgesFrom(wf, Last(p.nodes))) : MayGoOn(p, x)}} :
                           p \in {q \in OfLength[n - 1] : ~IsEnd(Last(q.nodes))}}
    IN  UNION {OfLength[n] : n \in 0..MaxDepth}

(* "RunAllPaths enumerates all distinct execution paths" and "each Result  *)
(* represents one complete path from start to exit (or a dead end)"        *)
(* (path_enumerator.go:10): the results are the walks that come to an end, *)
(* passing no node more than twice, each of them once (as long as no edge  *)
(* is declared twice), and all of them unless the result limit cut the     *)
(* search short.                                                           *)
ResultsAreThePaths ==
    LET Complete == {p \in Walks : IsEnd(Last(p.nodes))}
    IN  /\ Range(results) \subseteq Complete
        /\ Len(results) < MaxResults => Complete \subseteq Range(results)
        /\ IsInjective(wf.edges) => IsInjective(results)

=============================================================================
