------------------------------ MODULE Validator -----------------------------
(***************************************************************************)
(* validator.Validate (validator/validate.go): the structural checks       *)
(* DIP001 to DIP009 that simulate, pack and every other command run before *)
(* they use a workflow.  The checks that look at each node or edge on its  *)
(* own are one step; the breadth-first search of DIP004 and the depth-first*)
(* search of DIP005, with the colours, parents and reported nodes of       *)
(* cycleDetector, are stepwise.                                            *)
(***************************************************************************)
EXTENDS Workflow, Integers

CONSTANT Candidates     \* the workflows that may be validated

VARIABLES
    wf,         \* the input
    check,      \* what runs: "local", "reach", "cycles", "joins" or "done"
    diags,      \* the diagnostics so far
    queue,      \* bfsReachable: the queue
    visited,    \* bfsReachable: the nodes seen
    stack,      \* visit: the calls under way, outermost first
    nextEdge,   \* visit: the neighbour each of these calls looks at next
    color,      \* cycleDetector.color: "white", "gray" or "black"
    parent,     \* cycleDetector.parent; NoNode where it has no entry
    reported    \* cycleDetector.reported

breadth == <<queue, visited>>
depth == <<stack, nextEdge, color, parent, reported>>
vvars == <<wf, check, diags, breadth, depth>>

IDs(w) ==
    NodeIDs(w) \cup {w.start, w.exit}
    \cup (UNION {{w.edges[i].from, w.edges[i].to} : i \in DOMAIN w.edges})
    \cup (UNION {Range(w.nodes[i].targets) \cup Range(w.nodes[i].sources) : i \in DOMAIN w.nodes})

\* about: the nodes a message names.
Diagnostic(code, about) == [code |-> code, about |-> about]

Fresh ==
    /\ check = "local" /\ diags = <<>>
    /\ queue = <<>> /\ visited = {}
    /\ stack = <<>> /\ reported = {}
    /\ nextEdge = [id \in IDs(wf) |-> 1]
    /\ color = [id \in IDs(wf) |-> "white"]
    /\ parent = [id \in IDs(wf) |-> NoNode]

Init == wf \in Candidates /\ Fresh

Known(id) == id # NoNode /\ id \in NodeIDs(wf)

-----------------------------------------------------------------------------
(* Local checks: DIP008, 001, 002, 003, 006, 009, in this order *)

DuplicateNodes ==
    LET again == Keep(wf.nodes, {i \in DOMAIN wf.nodes : \E j \in 1..(i - 1) : wf.nodes[j].id = wf.nodes[i].id})
    IN  [k \in DOMAIN again |-> Diagnostic("DIP008", <<again[k].id>>)]

MissingEnds ==
    (IF Known(wf.start) THEN <<>> ELSE <<Diagnostic("DIP001", <<wf.start>>)>>)
    \o (IF Known(wf.exit) THEN <<>> ELSE <<Diagnostic("DIP002", <<wf.exit>>)>>)

\* checkEdgeEndpoints: explicit edges only; an empty endpoint passes.
DanglingEdges ==
    LET Unknown(id) ==
            IF id \in NodeIDs(wf) \cup {NoNode} THEN <<>> ELSE <<Diagnostic("DIP003", <<id>>)>>
    IN  FlattenSeq([i \in DOMAIN wf.edges |-> Unknown(wf.edges[i].from) \o Unknown(wf.edges[i].to)])

ExitEdges ==
    LET out == IF Known(wf.exit) THEN EdgesFrom(wf, wf.exit) ELSE <<>>
    IN  [i \in DOMAIN out |-> Diagnostic("DIP006", <<out[i].to>>)]

DuplicateEdges ==
    LET Key(e) == <<e.from, e.to, e.cond>>
        again == Keep(wf.edges, {i \in DOMAIN wf.edges : \E j \in 1..(i - 1) : Key(wf.edges[j]) = Key(wf.edges[i])})
    IN  [k \in DOMAIN again |-> Diagnostic("DIP009", <<again[k].from, again[k].to>>)]

\* Without a start node both searches are skipped.
CheckLocally ==
    /\ check = "local"
    /\ diags' = DuplicateNodes \o MissingEnds \o DanglingEdges \o ExitEdges \o DuplicateEdges
    /\ IF Known(wf.start)
       THEN check' = "reach" /\ queue' = <<wf.start>> /\ visited' = {wf.start}
       ELSE check' = "joins" /\ UNCHANGED breadth
    /\ UNCHANGED <<wf, depth>>

-----------------------------------------------------------------------------
(* DIP004: every node can be reached from the start *)

ExplicitTargets(id, Counts(_)) ==
    LET out == Keep(wf.edges, {i \in DOMAIN wf.edges : wf.edges[i].from = id /\ Counts(wf.edges[i])})
    IN  [i \in DOMAIN out |-> out[i].to]

\* Mutant: the edges of fan-outs and joins are forgotten.
AllEdgeAdjacencyExplicit(id) == ExplicitTargets(id, LAMBDA e : TRUE)

\* buildAllEdgeAdjacency; a join that lists a source twice is there once, which
\* makes no difference to a search.
AllEdgeAdjacency(id) ==
    LET Implicit(n) ==
            IF n.kind = "parallel" /\ n.id = id THEN n.targets
            ELSE IF n.kind = "fan_in" /\ id \in Range(n.sources) THEN <<n.id>> ELSE <<>>
    IN  ExplicitTargets(id, LAMBDA e : TRUE)
        \o FlattenSeq([i \in DOMAIN wf.nodes |-> Implicit(wf.nodes[i])])

VisitBreadthFirst ==
    /\ check = "reach" /\ queue # <<>>
    /\ \E next \in {AllEdgeAdjacency(Head(queue))} :
          /\ queue' = Tail(queue) \o Keep(next, {i \in DOMAIN next :
                                    next[i] \notin visited /\ \A j \in 1..(i - 1) : next[j] # next[i]})
          /\ visited' = visited \cup Range(next)
    /\ UNCHANGED <<wf, check, diags, depth>>

FindUnreachableNodes ==
    /\ check = "reach" /\ queue = <<>>
    /\ LET unreached == IDsWhere(wf, LAMBDA n : n.id \notin visited)
       IN  diags' = diags \o [i \in DOMAIN unreached |-> Diagnostic("DIP004", <<unreached[i]>>)]
    /\ check' = "cycles"
    /\ UNCHANGED <<wf, breadth, depth>>

-----------------------------------------------------------------------------
(* DIP005: no cycle without a restart edge *)

\* buildNonRestartAdjacency: explicit edges only.
NonRestartAdjacency(id) == ExplicitTargets(id, LAMBDA e : ~e.restart)

Top == Last(stack)

\* visit: the call for id starts.
Enter(id, calls) ==
    /\ stack' = Append(calls, id)
    /\ color' = [color EXCEPT ![id] = "gray"]

\* detectCyclesDFS: the next node that is still white.
VisitNextNode ==
    /\ check = "cycles" /\ stack = <<>>
    /\ LET white == IDsWhere(wf, LAMBDA n : color[n.id] = "white")
       IN  white # <<>> /\ Enter(Head(white), stack)
    /\ UNCHANGED <<wf, check, diags, breadth, nextEdge, parent, reported>>

(* reconstructCycle: from and its ancestors up to the node the edge led to,*)
(* turned around.  The walk also stops at a node without a parent, at one  *)
(* it has seen and after len(parent) + 2 steps.                            *)
ReconstructCycle(from, to) ==
    LET maxSteps == Cardinality({id \in DOMAIN parent : parent[id] # NoNode}) + 2
        up[k \in 0..maxSteps] ==
            IF k = 0 THEN from
            ELSE IF up[k - 1] \in DOMAIN parent THEN parent[up[k - 1]] ELSE NoNode
        ends == {k \in 0..maxSteps :
                    \/ up[k] \in {to, NoNode} \/ k = maxSteps
                    \/ \E j \in 0..(k - 1) : up[j] = up[k]}
        length == CHOOSE k \in ends : \A j \in ends : k <= j
    IN  <<to>> \o Reverse([k \in 1..length |-> up[k - 1]]) \o <<to>>

\* Mutant: one report for the whole workflow.
ClosesCycleOnce(next) == color[next] = "gray" /\ reported = {}

ClosesCycle(next) == color[next] = "gray" /\ next \notin reported

ProcessNeighbor ==
    /\ check = "cycles" /\ stack # <<>>
    /\ nextEdge[Top] <= Len(NonRestartAdjacency(Top))
    /\ LET next == NonRestartAdjacency(Top)[nextEdge[Top]]
       IN  /\ IF ClosesCycle(next)
              THEN /\ reported' = reported \cup {next}
                   /\ diags' = Append(diags, Diagnostic("DIP005", ReconstructCycle(Top, next)))
              ELSE UNCHANGED <<reported, diags>>
           /\ nextEdge' = [nextEdge EXCEPT ![Top] = @ + 1]
           /\ IF color[next] = "white"
              THEN Enter(next, stack) /\ parent' = [parent EXCEPT ![next] = Top]
              ELSE UNCHANGED <<stack, color, parent>>
    /\ UNCHANGED <<wf, check, breadth>>

\* Mutant: a node that was left looks as if it had never been visited.
LeaveWhite ==
    /\ check = "cycles" /\ stack # <<>>
    /\ nextEdge[Top] > Len(NonRestartAdjacency(Top))
    /\ color' = [color EXCEPT ![Top] = "white"]
    /\ stack' = Front(stack)
    /\ UNCHANGED <<wf, check, diags, breadth, nextEdge, parent, reported>>

Leave ==
    /\ check = "cycles" /\ stack # <<>>
    /\ nextEdge[Top] > Len(NonRestartAdjacency(Top))
    /\ color' = [color EXCEPT ![Top] = "black"]
    /\ stack' = Front(stack)
    /\ UNCHANGED <<wf, check, diags, breadth, nextEdge, parent, reported>>

CyclesDone ==
    /\ check = "cycles" /\ stack = <<>>
    /\ \A id \in NodeIDs(wf) : color[id] # "white"
    /\ check' = "joins"
    /\ UNCHANGED <<wf, diags, breadth, depth>>

-----------------------------------------------------------------------------
(* DIP007: every fan-out has a join of the same branches, and back *)

\* Mutant: a join may wait for more than the branches.
PairedLoosely(p, f) ==
    p.kind = "parallel" /\ f.kind = "fan_in" /\ Range(p.targets) \subseteq Range(f.sources)

\* The sorted lists are equal.
Paired(p, f) ==
    p.kind = "parallel" /\ f.kind = "fan_in" /\ ToBag(p.targets) = ToBag(f.sources)

CheckParallelFanIn ==
    /\ check = "joins"
    /\ LET all == Range(wf.nodes)
           forks == IDsWhere(wf, LAMBDA p : p.kind = "parallel" /\ \A f \in all : ~Paired(p, f))
           joins == IDsWhere(wf, LAMBDA f : f.kind = "fan_in" /\ \A p \in all : ~Paired(p, f))
           unmatched == forks \o joins
       IN  diags' = diags \o [i \in DOMAIN unmatched |-> Diagnostic("DIP007", <<unmatched[i]>>)]
    /\ check' = "done"
    /\ UNCHANGED <<wf, breadth, depth>>

Next ==
    \/ CheckLocally \/ VisitBreadthFirst \/ FindUnreachableNodes
    \/ VisitNextNode \/ ProcessNeighbor \/ Leave \/ CyclesDone
    \/ CheckParallelFanIn

\* One goroutine that never waits.
Spec == Init /\ [][Next]_vvars /\ WF_vvars(Next)

-----------------------------------------------------------------------------
(* Properties                                                              *)

Accepted == check = "done" /\ diags = <<>>

Codes == {"DIP001", "DIP002", "DIP003", "DIP004", "DIP005", "DIP006", "DIP007", "DIP008", "DIP009"}

(* Types; and the gray nodes are those whose visit is under way.           *)
TypeOK ==
    /\ check \in {"local", "reach", "cycles", "joins", "done"}
    /\ \A i \in DOMAIN diags : diags[i].code \in Codes /\ Range(diags[i].about) \subseteq IDs(wf)
    /\ queue \in Seq(IDs(wf)) /\ visited \subseteq IDs(wf)
    /\ stack \in Seq(IDs(wf)) /\ reported \subseteq IDs(wf)
    /\ nextEdge \in [IDs(wf) -> Nat \ {0}]
    /\ color \in [IDs(wf) -> {"white", "gray", "black"}]
    /\ Range(stack) = {id \in IDs(wf) : color[id] = "gray"}
    /\ parent \in [IDs(wf) -> IDs(wf) \cup {NoNode}]

Reports(code) == {diags[i].about : i \in {j \in DOMAIN diags : diags[j].code = code}}

(* A set that no edge leaves, restart and implicit edges included.         *)
ClosedSet(S) == \A e \in Range(wf.edges) : e.from \in S => e.to \in S
ClosedUnderForks(S) ==
    \A n \in Range(wf.nodes) :
        /\ n.kind = "parallel" /\ n.id \in S => Range(n.targets) \subseteq S
        /\ n.kind = "fan_in" /\ Range(n.sources) \cap S # {} => n.id \in S

(* DIP004 names exactly the nodes outside some closed set around the start:*)
(* "all nodes are reachable from the start node" (validate.go:165).        *)
UnreachableIsExact ==
    check \in {"cycles", "joins", "done"} /\ Known(wf.start) =>
        Reports("DIP004") =
            {<<id>> : id \in {n \in NodeIDs(wf) :
                \E S \in SUBSET IDs(wf) :
                    wf.start \in S /\ n \notin S /\ ClosedSet(S) /\ ClosedUnderForks(S)}}

(* Every cycle of edges that do not restart runs through a node a DIP005   *)
(* was reported for, although no more than one is reported per node and    *)
(* the search visits every node once: without the reported nodes the       *)
(* explicit graph has no cycle that a declared node leads to.  And each    *)
(* report names a cycle of the graph: it follows edges that do not restart,*)
(* comes back to where it began and repeats no other node, although only   *)
(* parents are remembered (and "" means none: an edge from or to a quoted  *)
(* "" may cut a report short).                                             *)
Loops(S) ==
    \E T \in SUBSET S :
        T \cap NodeIDs(wf) # {} /\ \A id \in T : Range(NonRestartAdjacency(id)) \cap T # {}

CyclesAreExact ==
    /\ check \in {"joins", "done"} /\ Known(wf.start) =>
          ~Loops(IDs(wf) \ {Head(about) : about \in Reports("DIP005")})
    /\ (\A e \in Range(wf.edges) : NoNode \notin {e.from, e.to}) => \A c \in Reports("DIP005") :
          /\ Len(c) >= 2 /\ Head(c) = Last(c)
          /\ \A i \in 1..(Len(c) - 1) : c[i + 1] \in Range(NonRestartAdjacency(c[i]))
          /\ IsInjective(Tail(c))

=============================================================================
