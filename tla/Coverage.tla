------------------------------ MODULE Coverage ------------------------------
(***************************************************************************)
(* The graph part of coverage.Analyze (coverage/coverage.go), which dippin *)
(* coverage and dippin doctor report: the nodes no way leads to, and the   *)
(* sinks, which can be reached and from which Exit cannot.  The code builds*)
(* one adjacency map forward and another one, by code of its own,          *)
(* backward; here a map is the set of its pairs.                           *)
(***************************************************************************)
EXTENDS Workflow

NodesOfKind(w, kind) == {n \in Range(w.nodes) : n.kind = kind}

FanOutWays(w) == UNION {{<<n.id, t>> : t \in Range(n.targets)} : n \in NodesOfKind(w, "parallel")}
FanInWays(w)  == UNION {{<<s, n.id>> : s \in Range(n.sources)} : n \in NodesOfKind(w, "fan_in")}

\* buildForwardAdjacency: restart edges count like the others.
ForwardAdjacency(w) == {<<e.from, e.to>> : e \in Range(w.edges)} \cup FanOutWays(w) \cup FanInWays(w)

\* buildReverseAdjacency
ReverseAdjacency(w) ==
    {<<e.to, e.from>> : e \in Range(w.edges)}
    \cup (UNION {{<<t, n.id>> : t \in Range(n.targets)} : n \in NodesOfKind(w, "parallel")})
    \cup (UNION {{<<n.id, s>> : s \in Range(n.sources)} : n \in NodesOfKind(w, "fan_in")})

\* bfsFrom: the search goes on until no pair leads out of what it has seen, and
\* sees nothing else.
BfsFrom(start, adj) ==
    LET ids == {start} \cup {p[2] : p \in adj}
        closed == {S \in SUBSET ids : start \in S /\ \A p \in adj : p[1] \in S => p[2] \in S}
    IN  {id \in ids : \A S \in closed : id \in S}

\* analyzeReachability
UnreachableNodes(w) == NodeIDs(w) \ BfsFrom(w.start, ForwardAdjacency(w))

\* analyzeTermination: IDs that an edge names and no node has are sinks too.
SinkNodes(w) == BfsFrom(w.start, ForwardAdjacency(w)) \ BfsFrom(w.exit, ReverseAdjacency(w))

=============================================================================
