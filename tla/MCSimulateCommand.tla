-------------------------- MODULE MCSimulateCommand -------------------------
(***************************************************************************)
(* Instances of SimulateCommand: graphs in which each of three nodes has   *)
(* any list of at most two outgoing edges, one of them perhaps restarting; *)
(* workflows with fan-outs and joins that match, almost match or go round; *)
(* broken workflows; the loops of MCSimulator, closed by restart edges; and*)
(* straight workflows and fan-outs with conditions.                        *)
(***************************************************************************)
EXTENDS SimulateCommand, MCSimulator

\* The tool C declares marker_grep; the other tools do not.
MCMarkerRouted(n) == n.kind = "tool" /\ n.id = "C"

Restart(e) == [e EXCEPT !.restart = TRUE]
To(from, to) == Edge(from, to, NoCond, {})

-----------------------------------------------------------------------------
(* For the validator above all *)

FromA == {To("A", x) : x \in {"A", "B", "C"}}
FromB == {To("B", x) : x \in {"A", "C", "E"}}
FromC == {To("C", x) : x \in {"A", "B", "E"}} \cup {Restart(To("C", "A"))}

Graphs ==
    {[nodes |-> <<Agent("A"), Agent("B"), Agent("C"), Agent("E")>>, edges |-> a \o b \o c,
      start |-> "A", exit |-> "E"] :
        a \in OutLists(FromA), b \in OutLists(FromB), c \in OutLists(FromC)}

ForkShapes ==
    {[nodes |-> <<Agent("S"), ParallelNode("P", t), Agent("A"), Agent("B"), FanInNode("J", s), Agent("E")>>,
      edges |-> <<To("S", "P"), To("J", "E")>> \o more, start |-> "S", exit |-> "E"] :
        t \in {<<"A", "B">>, <<"A", "ghost">>, <<"A">>, <<>>},
        s \in {<<"B", "A">>, <<"ghost", "A">>, <<"A">>, <<"A", "A">>, <<>>},
        more \in {<<>>, <<To("J", "S")>>, <<Restart(To("J", "S"))>>, <<To("A", "J")>>,
                  <<To("A", "B")>>, <<To("B", "P")>>}}

BrokenWorkflows ==
    {[nodes |-> ns, edges |-> es, start |-> s, exit |-> e] :
        ns \in {<<Agent("A"), Agent("E")>>, <<Agent("A"), Agent("E"), Agent("A")>>},
        es \in {<<To("A", "E")>>, <<To("A", "E"), To("A", "ghost"), To("A", "E")>>,
                <<To("A", "E"), To("E", "A")>>},
        s \in {"", "A", "ghost"}, e \in {"", "E", "ghost"}}

PlainWorkflows == Graphs \cup ForkShapes \cup BrokenWorkflows

-----------------------------------------------------------------------------
(* For the runs after it *)

\* A loop of MCSimulator whose way back is a restart edge: the validator
\* lets it pass.
RestartWayBack(w) ==
    [w EXCEPT !.edges = [i \in DOMAIN @ |-> [@[i] EXCEPT !.restart = @ \/ w.edges[i].to = "A"]]]

RestartLoops == {RestartWayBack(w) : w \in {x \in LoopWorkflows : x.nodes[1].kind = "tool"}}

StraightWorkflows ==
    {[nodes |-> <<Agent("A"), Inner("B", "human"), Node("C", "tool"), Agent("E")>>,
      edges |-> <<Edge("A", "B", Ok, {}), Edge("A", "C", NoCond, {})>> \o b \o c \o d,
      start |-> "A", exit |-> "E"] :
        b \in OutLists({Edge("B", "C", NoCond, {"no"}), Edge("B", "E", BadCond, {}),
                        Edge("B", "B", Said, {}), Edge("B", "ghost", NoCond, {"yes"})}),
        c \in OutLists({Edge("C", "E", Bad, {}), Edge("C", "A", Ok, {}),
                        Restart(Edge("C", "B", NoCond, {}))}),
        d \in {<<>>, <<Edge("E", "C", NoCond, {})>>}}

\* Conditions that leave nothing open, seem to, or do not: two of them at A,
\* where an agent leaves the outcome as it was and a tool sets it.
ConditionsAtA ==
    {Edge("A", "B", Ok, {}), Edge("A", "E", Ok, {}), Edge("A", "E", Failed, {}), Edge("A", "B", NotFailed, {}),
     Edge("A", "B", Said, {}), Edge("A", "E", NotSaid, {})}

RoutedWorkflows ==
    {[nodes |-> <<Node("A", k), Node("B", "human"), Agent("E")>>,
      edges |-> <<To("A", "B")>> \o a \o b, start |-> "A", exit |-> "E"] :
        k \in {"agent", "tool"}, a \in OutLists(ConditionsAtA), b \in {<<>>, <<To("B", "E")>>}}
    \cup
    {[nodes |-> <<Node("A", k), Node("B", "human"), Agent("E")>>,
      edges |-> a \o b, start |-> "A", exit |-> "E"] :
        k \in {"agent", "tool"}, a \in OutLists(ConditionsAtA),
        b \in {<<Restart(To("B", "A"))>>, <<Restart(To("B", "E"))>>}}

ForksWithConditions ==
    {[nodes |-> ForkNodes(t, s), edges |-> Around \o b \o c, start |-> "S", exit |-> "E"] :
        t \in {<<"A", "B">>, <<"B", "ghost">>}, s \in {<<"B", "A">>, <<"ghost", "B">>, <<"A", "B", "C">>},
        b \in BranchEdges, c \in {<<>>, <<Edge("S", "C", Bad, {})>>}}

\* Two fan-outs over common nodes; the join of the smaller one is declared first.
CommonBranches ==
    [nodes |-> <<Agent("S"), ParallelNode("P1", <<"A", "B", "C">>), ParallelNode("P2", <<"A", "B">>),
                 FanInNode("J2", <<"A", "B">>), FanInNode("J1", <<"A", "B", "C">>),
                 Agent("A"), Agent("B"), Agent("C"), Agent("E")>>,
     edges |-> <<Edge("S", "P1", Ok, {}), Edge("S", "P2", Bad, {}), Edge("J1", "E", NoCond, {}),
                 Edge("J2", "E", NoCond, {})>>,
     start |-> "S", exit |-> "E"]

RunWorkflows ==
    StraightWorkflows \cup RoutedWorkflows \cup ForksWithConditions \cup {CommonBranches} \cup Nameless
    \cup Variables

\* (TLC evaluates a definition once, but what stands for a constant anew each time.)
AllWorkflows == PlainWorkflows \cup RestartLoops \cup RunWorkflows
CommandWorkflows == AllWorkflows

\* The options of the commands: dippin simulate, perhaps interactive, and
\* dippin test, whose visit limit (3 in the code) is 1 here.
Simulated == Options([outcome |-> "fail"], NoOverride, 0, {}, TRUE)
Tested == Options([outcome |-> "fail"], NoOverride, 1, {}, FALSE)

CommandOptionsFor(w) ==
    IF w \in RestartLoops THEN {o \in LoopOptions : o.perNode = NoOverride}
    ELSE IF w \in RunWorkflows THEN {Plain, Simulated, Tested}
    ELSE {Plain}

=============================================================================
