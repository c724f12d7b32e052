----------------------------- MODULE MCSimulator ----------------------------
(***************************************************************************)
(* Instances of Simulator for TLC: families of small workflows.            *)
(*                                                                         *)
(* Loops      two inner nodes and Exit.  Each inner node gets every list   *)
(*            of at most two outgoing edges from its choices: conditional, *)
(*            labelled, unconditional, back, onward, to itself, to a node  *)
(*            that does not exist, or no edge at all.                      *)
(* Forks      one parallel node, two or three targets, with and without a  *)
(*            join, branches of different lengths, a branch that loops, a  *)
(*            branch that runs into Exit, a loop around the fan-out, a     *)
(*            fan-out inside a branch.                                     *)
(* Nameless   a node, an edge's end or a target with the name "".          *)
(* Variables  conditions on the goal and on a key in both spellings.       *)
(***************************************************************************)
EXTENDS Simulator, ConditionEval

CONSTANT BadCond        \* a condition that does not parse
MCMalformed == {BadCond}

MCTextOp(op, text, part) == text = part

MCKeys == {"outcome", "tool_stdout", "preferred_label", "human_response", "interview_answers"}
MCResponses == {"yes", "no"}
MCValues == {"", "success", "fail", NotSet} \cup MCResponses

\* Keys that only a scenario can set.
MCAllKeys == MCKeys \cup {"ctx.outcome", "graph.goal"}
MCBare(variable) == IF variable = "ctx.outcome" THEN "outcome" ELSE variable

\* The conditions by name, and what they stand for.
Ok == "ok"
Bad == "bad"
Failed == "failed"
NotFailed == "not failed"
Said == "said"
NotSaid == "not said"
BadOrSaid == "bad or said"
BareFailed == "failed, bare name"
OnGoal == "on goal"
OffGoal == "not on goal"

Expression(cond) ==
    LET ok   == Compare("=", "ctx.outcome", "success")
        failed == Compare("=", "ctx.outcome", "fail")
        said == Compare("in", "human_response", {"yes", "ok"})
        onGoal == Compare("=", "graph.goal", "yes")
    IN  CASE cond = Ok        -> ok
          [] cond = Bad       -> Not(ok)
          [] cond = Failed    -> failed
          [] cond = NotFailed -> Not(failed)
          [] cond = Said      -> said
          [] cond = NotSaid   -> Not(said)
          [] cond = BadOrSaid -> Or(Not(ok), said)
          [] cond = BareFailed -> Compare("==", "outcome", "fail")
          [] cond = OnGoal    -> onGoal
          [] cond = OffGoal   -> Not(onGoal)

\* The context as the map it is in the code.
EntriesOf(c) == [k \in {x \in DOMAIN c : c[x] # NotSet} |-> c[k]]
MCHolds(cond, c) == Eval(Expression(cond), EntriesOf(c))
MCResolved(variable, c) == ResolveVariable(variable, EntriesOf(c))

NoOverride == [x \in {} |-> <<>>]
Plain == Options(<<>>, NoOverride, 0, {}, FALSE)

-----------------------------------------------------------------------------
(* Loops *)

OutLists(choices) ==
    {<<>>} \cup {<<e>> : e \in choices} \cup {<<p[1], p[2]>> : p \in {q \in choices \X choices : q[1] # q[2]}}

FirstChoices ==
    {Edge("A", "B", NoCond, {}), Edge("A", "A", Bad, {}), Edge("A", "E", Ok, {}),
     Edge("A", "ghost", Bad, {})}
SecondChoices ==
    {Edge("B", "A", NoCond, {}), Edge("B", "A", Ok, {}), Edge("B", "E", NoCond, {"yes"}),
     Edge("B", "A", BadOrSaid, {"no"})}

Inner(id, kind) ==
    CASE kind = "interview" -> [Node(id, "human") EXCEPT !.mode = "interview"]
      [] kind = "survey"    -> [Node(id, "human") EXCEPT !.mode = "interview", !.answersKey = "outcome"]
      [] kind = "human"     -> [Node(id, "human") EXCEPT !.default = "no"]
      [] kind = "agent"     -> Agent(id)
      [] OTHER              -> Node(id, kind)

LoopWorkflows ==
    {[nodes |-> <<Inner("A", k[1]), Inner("B", k[2]), Agent("E")>>,
      edges |-> a \o b, start |-> "A", exit |-> "E"] :
        k \in {<<"tool", "human">>, <<"agent", "interview">>, <<"tool", "agent">>, <<"survey", "agent">>},
        a \in OutLists(FirstChoices), b \in OutLists(SecondChoices)}
    \cup {[nodes |-> <<Agent("A")>>, edges |-> <<>>, start |-> "A", exit |-> "nowhere"],
          [nodes |-> <<Agent("A"), Agent("E")>>, edges |-> <<Edge("A", "E", BadCond, {})>>,
           start |-> "A", exit |-> "E"]}

LoopOptions ==
    {Plain,
     Options([outcome |-> "fail"], NoOverride, 1, {}, FALSE),
     Options([preferred_label |-> "yes"], NoOverride, 0, {}, FALSE),
     Options(<<>>, [A |-> [outcome |-> ""]], 1, {}, TRUE),
     Options([outcome |-> "fail"], [B |-> [outcome |-> "success"]], 0, {}, FALSE)}

-----------------------------------------------------------------------------
(* Forks *)

ForkNodes(targets, sources) ==
    <<Agent("S"), ParallelNode("P", targets), Agent("A"), Node("B", "tool"), Node("C", "agent"),
      FanInNode("J", sources), Agent("E")>>

Around == <<Edge("S", "P", NoCond, {}), Edge("J", "E", Ok, {}), Edge("J", "S", NoCond, {})>>

BranchEdges ==
    {<<>>,
     <<Edge("A", "C", NoCond, {})>>,
     <<Edge("A", "A", Bad, {}), Edge("A", "C", Ok, {}), Edge("C", "J", NoCond, {})>>,
     <<Edge("A", "E", Ok, {}), Edge("C", "B", Bad, {})>>,
     <<Edge("A", "C", NoCond, {}), Edge("C", "A", NoCond, {})>>}

ForkWorkflows ==
    {[nodes |-> ForkNodes(t, s), edges |-> Around \o b, start |-> "S", exit |-> "E"] :
        t \in {<<"A", "B">>, <<"B", "A", "C">>, <<"A", "J">>, <<"A", "ghost">>},
        s \in {<<"A", "B">>, <<"A">>, <<"A", "D">>},
        b \in BranchEdges}

\* A fan-out with a join of its own inside a branch, and a branch that comes
\* back to the fan-out.
NestedForks ==
    {[nodes |-> ForkNodes(<<"A", "B">>, <<"A", "B">>)
                    \o <<ParallelNode("Q", <<"C", "D">>), Agent("D"), FanInNode("K", <<"C", "D">>)>>,
      edges |-> Around \o b, start |-> "S", exit |-> "E"] :
        b \in {<<Edge("A", "Q", NoCond, {}), Edge("K", "J", NoCond, {})>>,
               <<Edge("A", "P", Bad, {}), Edge("B", "A", Bad, {})>>}}

ForkOptions ==
    {Options(g, p, v, br, FALSE) :
        g \in {<<>>, [outcome |-> "fail"]},
        p \in {NoOverride, [J |-> [outcome |-> "fail"]], [B |-> [outcome |-> "success"]]},
        v \in {0, 1},
        br \in {{}, {"B"}, {"other"}}}

-----------------------------------------------------------------------------
(* A node, an edge's end or a target with the name "" *)

NamelessNodes ==
    {[nodes |-> <<Agent("A")>> \o more \o <<Agent("E")>>,
      edges |-> <<Edge("A", "E", Bad, {}), Edge("A", "", NoCond, {})>> \o out, start |-> "A", exit |-> "E"] :
        more \in {<<>>, <<Agent("")>>},
        out \in {<<>>, <<Edge("", "E", NoCond, {})>>, <<Edge("", "A", Ok, {})>>}}

NamelessBranches ==
    {[nodes |-> <<ParallelNode("P", <<"A", "">>), Agent("A"), Agent("E")>> \o more,
      edges |-> <<Edge("A", "", NoCond, {}), Edge(j, "E", NoCond, {})>>, start |-> "P", exit |-> "E"] :
        j \in {"J", ""},
        more \in {<<Agent(""), FanInNode("J", <<"A", "">>)>>, <<FanInNode("J", <<"A", "">>)>>,
                  <<FanInNode("", <<"", "A">>)>>}}

Nameless == NamelessNodes \cup NamelessBranches

-----------------------------------------------------------------------------
(* Conditions on the goal, and on the outcome in both spellings *)

ChoicesByVariable ==
    {Edge("A", "B", Ok, {}), Edge("A", "E", OnGoal, {}), Edge("A", "B", OffGoal, {}),
     Edge("A", "E", BareFailed, {})}

Variables ==
    {[nodes |-> <<Inner("A", k), Agent("B"), Agent("E")>>,
      edges |-> a \o <<Edge("B", "E", NoCond, {})>>, start |-> "A", exit |-> "E"] :
        k \in {"agent", "tool"}, a \in OutLists(ChoicesByVariable)}

Scenario(key, value) == Options([k \in {key} |-> value], NoOverride, 0, {}, FALSE)
VariableOptions ==
    {Plain, Scenario("ctx.outcome", "fail"), Scenario("ctx.outcome", "success"),
     Scenario("outcome", ""), Scenario("graph.goal", "no"), Scenario("graph.goal", "")}

-----------------------------------------------------------------------------
IsFork(w) == \E n \in Range(w.nodes) : n.kind = "parallel"

\* (TLC evaluates a definition once, but what stands for a constant anew each time.)
AllOfThem == LoopWorkflows \cup ForkWorkflows \cup NestedForks \cup Nameless \cup Variables
MCWorkflows == AllOfThem
MCOptionsFor(w) ==
    IF IsFork(w) THEN ForkOptions ELSE IF w \in Variables THEN VariableOptions ELSE LoopOptions

=============================================================================
