------------------------------ MODULE Migrate -------------------------------
(***************************************************************************)
(* From a DOT digraph to a workflow (migrate/migrate.go).  The digraph is  *)
(* what DotParser reads, the workflow what the parser of .dip files would  *)
(* build: an attribute that is zero is not set.                            *)
(***************************************************************************)
EXTENDS SourceText

NoWorkflow ==
    [name |-> <<>>, header |-> <<>>, defaults |-> <<>>, vars |-> <<>>,
     nodes |-> <<>>, edges |-> <<>>, stylesheet |-> <<>>]

Has(attrs, key)    == <<key>> \in DOMAIN attrs
DotText(attrs, key) == attrs[<<key>>]

\* strings.ToLower, of the words it is asked about
IsTruthy(t) == TrimSpace(t) \in {<<"true">>, <<"True">>, <<"TRUE">>, <<"1">>, <<"yes">>}

\* parseFlattenedSteerContext: what has no equals sign is left out.
DecodedSteer(t) ==
    LET code == [c \in {"%25", "%2C", "%3D"} |->
                    CASE c = "%25" -> "%" [] c = "%2C" -> "," [] c = "%3D" -> "="]
    IN  [i \in DOMAIN t |-> IF t[i] \in DOMAIN code THEN code[t[i]] ELSE t[i]]

SteerEntries(t) ==
    LET part(p) == LET i == IndexOf(p, "=")
                   IN  IF i = 0 THEN <<>>
                       ELSE DecodedSteer(TrimSpace(SubSeq(p, 1, i - 1)))
                            :> DecodedSteer(TrimSpace(SubSeq(p, i + 1, Len(p))))
    IN  FoldLeft(LAMBDA m, p : part(TrimSpace(p)) @@ m, <<>>, Split(t, ","))

(* What is made of the text of an attribute: its value, whether that is    *)
(* zero, and whether there is one.                                         *)
Made(val, zero, ok) == [val |-> val, zero |-> zero, ok |-> ok]

NoValue         == Made(0, TRUE, FALSE)
MadeNumber(n)   == Made(n, n = 0, TRUE)
MadeNatural(n)  == Made(n, n = 0, n >= 0)
MadeList(l)     == Made(l, l = <<>>, TRUE)
MadeMap(m)      == Made(m, DOMAIN m = {}, TRUE)

Make(how, t) ==
    CASE how = "text"     -> Made(t, t = <<>>, TRUE)
      [] how = "int"      -> IF IsInt(t) THEN MadeNumber(IntOf(t)) ELSE NoValue
      [] how = "natural"  -> IF IsInt(t) THEN MadeNatural(IntOf(t)) ELSE NoValue
      [] how = "duration" -> IF IsDuration(t) THEN MadeNumber(Millis[t[1]]) ELSE NoValue
      [] how = "truthy"   -> Made(TRUE, ~IsTruthy(t), TRUE)
      [] how = "true"     -> Made(TRUE, t # <<"true">>, TRUE)
      [] how = "list"     -> MadeList(SplitCommaNoEmpty(t))
      [] how = "action"   -> Made(t, t = <<>>, t \in {<<>>, <<"fail">>, <<"default">>})
      [] how = "steer"    -> MadeMap(SteerEntries(t))

Put(attrs, key, made) ==
    IF made.zero THEN [k \in DOMAIN attrs \ {key} |-> attrs[k]]
    ELSE (key :> made.val) @@ attrs

-----------------------------------------------------------------------------
(* extractGraphDefaults, of one attribute.  Keys that are no default go to *)
(* the variables, if they can be one.                                      *)
GraphTexts ==
    [default_fidelity |-> "fidelity", fidelity |-> "fidelity", model |-> "model",
     provider |-> "provider", tool_commands_allow |-> "tool_commands_allow",
     tool_denylist_add |-> "tool_denylist_add"]

GraphNumbers ==
    [default_max_retry |-> "max_retries", max_retries |-> "max_retries",
     max_restarts |-> "max_restarts", max_total_tokens |-> "max_total_tokens",
     max_cost_cents |-> "max_cost_cents", max_wall_time |-> "max_wall_time"]

\* dippinIdentPattern
IsDippinIdentifier(t) ==
    /\ t # <<>> /\ IsWord(t[1]) /\ t[1] # "_"
    /\ \A i \in DOMAIN t : IsWord(t[i]) \/ t[i] \in {"-", ".", "/"}

ApplyGraphAttr(w, k, v) ==
    LET key == IF Len(k) = 1 THEN k[1] ELSE ""
        number == Make(IF key = "max_wall_time" THEN "duration" ELSE "int", v)
    IN  CASE key = "goal"    -> [w EXCEPT !.header = Put(@, "goal", Make("text", v))]
          [] key = "rankdir" -> w
          [] key \in DOMAIN GraphTexts ->
                [w EXCEPT !.defaults = Put(@, GraphTexts[key], Make("text", v))]
          [] key \in DOMAIN GraphNumbers /\ number.ok ->
                [w EXCEPT !.defaults = Put(@, GraphNumbers[key], number)]
          [] OTHER -> IF IsDippinIdentifier(k) THEN [w EXCEPT !.vars = (k :> v) @@ @] ELSE w

-----------------------------------------------------------------------------
(* Nodes.                                                                  *)
ManagerLoopAttrs ==
    [subgraph_ref |-> "text", poll_interval |-> "duration", max_cycles |-> "int",
     steer_context |-> "steer", stop_condition |-> "text", steer_condition |-> "text"]

ResolveKind(attrs) ==
    LET shape == IF Has(attrs, "shape") THEN DotText(attrs, "shape") ELSE <<>>
    IN  CASE shape \in {<<"Mdiamond">>, <<"Msquare">>} ->
                IF \E key \in DOMAIN ManagerLoopAttrs : Has(attrs, key)
                THEN "manager_loop" ELSE "agent"
          [] shape = <<"diamond">> ->
                IF Has(attrs, "tool_command") THEN "tool"
                ELSE IF Has(attrs, "prompt") THEN "agent" ELSE "conditional"
          [] shape = <<"hexagon">> -> "human"       [] shape = <<"parallelogram">> -> "tool"
          [] shape = <<"component">> -> "parallel"  [] shape = <<"tripleoctagon">> -> "fan_in"
          [] shape = <<"tab">> -> "subgraph"        [] shape = <<"house">> -> "manager_loop"
          [] OTHER -> "agent"

AgentAttrs ==
    [prompt |-> "text", system_prompt |-> "text", model |-> "text", provider |-> "text",
     reasoning_effort |-> "text", fidelity |-> "text", backend |-> "text",
     working_dir |-> "text", goal_gate |-> "truthy", auto_status |-> "truthy",
     max_turns |-> "int", cmd_timeout |-> "duration", cache_tools |-> "truthy",
     compaction |-> "text",
     retry_policy |-> "text", max_retries |-> "int", retry_target |-> "text",
     fallback_target |-> "text"]

HumanAttrs ==
    [mode |-> "text", default |-> "text", timeout |-> "duration", timeout_action |-> "action"]

ToolAttrs ==
    [command |-> "text", marker_grep |-> "text", route_required |-> "true", outputs |-> "list",
     timeout |-> "duration", output_limit |-> "natural"]

ConfigAttrs(kind) ==
    CASE kind = "agent"        -> AgentAttrs
      [] kind = "human"        -> HumanAttrs
      [] kind = "tool"         -> ToolAttrs
      [] kind = "parallel"     -> [targets |-> "list"]
      [] kind = "fan_in"       -> [sources |-> "list"]
      [] kind = "subgraph"     -> [ref |-> "text"]
      [] kind = "conditional"  -> <<>>
      [] kind = "manager_loop" -> ManagerLoopAttrs

\* The name an attribute is read under: of two names the second prevails.
ReadUnder(key, attrs) ==
    CASE key = "command" -> "tool_command"
      [] key = "model" /\ Has(attrs, "llm_model") -> "llm_model"
      [] key = "provider" /\ Has(attrs, "llm_provider") -> "llm_provider"
      [] OTHER -> key

Config(attrs, table) ==
    [k \in {j \in DOMAIN table : Has(attrs, ReadUnder(j, attrs))} |->
        Make(table[k], DotText(attrs, ReadUnder(k, attrs)))]

AllMade(config)  == \A k \in DOMAIN config : config[k].ok
NonZero(config) ==
    [k \in {j \in DOMAIN config : config[j].ok /\ ~config[j].zero} |-> config[k].val]

(* convertNode.  A value that does not parse fails a human or a tool node; *)
(* elsewhere it is left out.                                               *)
NodeWith(kind, dn, config) ==
    [ok |-> kind \in {"human", "tool"} => AllMade(config),
     node |-> [kind |-> kind, id |-> dn.id,
               attrs |-> NonZero(config @@ Config(dn.attrs, [label |-> "text"]))]]

ConvertNode(dn) ==
    LET kind == ResolveKind(dn.attrs)
    IN  NodeWith(kind, dn, Config(dn.attrs, ConfigAttrs(kind)))

\* identifyStartExit: the last node of the shape.
Marked(dotNodes, shape) ==
    LET marked == {i \in DOMAIN dotNodes : /\ Has(dotNodes[i].attrs, "shape")
                                           /\ DotText(dotNodes[i].attrs, "shape") = <<shape>>}
    IN  IF marked = {} THEN <<>> ELSE dotNodes[Max(marked)].id

-----------------------------------------------------------------------------
(***************************************************************************)
(* parseCondition: the expression of a condition.  An operator splits at   *)
(* its first place outside parentheses; parentheses themselves are not     *)
(* taken off.                                                              *)
(***************************************************************************)
BothSides(left, right) == IF left # <<>> /\ right # <<>> THEN <<left, right>> ELSE <<>>

SplitAt(t, op) ==
    LET depth(i) == Len(SelectSeq(SubSeq(t, 1, i), LAMBDA c : c = "("))
                    - Len(SelectSeq(SubSeq(t, 1, i), LAMBDA c : c = ")"))
        places == {i \in DOMAIN t : t[i] = op /\ depth(i) = 0}
    IN  IF places = {} THEN <<>>
        ELSE BothSides(TrimSpace(SubSeq(t, 1, Min(places) - 1)),
                       TrimSpace(SubSeq(t, Min(places) + 1, Len(t))))

\* addNamespacePrefix
Namespaced(var) ==
    IF Len(var) > 1 /\ var[1] = "context" /\ var[2] = "." THEN <<"ctx">> \o Tail(var)
    ELSE IF "." \in ToSet(var) THEN var
    ELSE <<"ctx", ".">> \o var

Unread     == [ok |-> FALSE]
ReadAs(e)  == [ok |-> TRUE, expr |-> e]

(* parseComparison.  "==" is read as "=", and the second sign goes to the  *)
(* value.                                                                  *)
Comparison(t) ==
    LET wordOps == <<"contains", "startswith", "endswith", "in">>
        spaced(op) == {i \in 2..(Len(t) - 1) : t[i] = op /\ t[i - 1] = " " /\ t[i + 1] = " "}
        found == SelectSeq(wordOps, LAMBDA op : spaced(op) # {})
        unequal == {i \in 2..Len(t) : t[i] = "!="}
        equal == {i \in 2..Len(t) : t[i] \in {"=", "=="}}
        compare(i, op) ==
            ReadAs([op |-> op, key |-> Namespaced(TrimSpace(SubSeq(t, 1, i - 1))),
                    value |-> TrimSpace((IF t[i] = "==" THEN <<"=">> ELSE <<>>)
                                        \o SubSeq(t, i + 1, Len(t)))])
    IN  CASE unequal # {} -> compare(Min(unequal), "!=")
          [] unequal = {} /\ equal # {} -> compare(Min(equal), "=")
          [] unequal = {} /\ equal = {} ->
                IF found = <<>> THEN Unread ELSE compare(Min(spaced(found[1])), found[1])

NegatedPart(t) ==
    IF Len(t) > 2 /\ t[1] = "not" /\ t[2] = " " THEN SubSeq(t, 3, Len(t))
    ELSE IF Len(t) > 1 /\ t[1] = "!" THEN Tail(t) ELSE <<>>

BinaryOf(l, r, op) ==
    IF l.ok /\ r.ok THEN ReadAs([op |-> op, left |-> l.expr, right |-> r.expr]) ELSE Unread

NotOf(r) == IF r.ok THEN ReadAs([op |-> "not", inner |-> r.expr]) ELSE Unread

RECURSIVE ParseCondExpr(_)
PairOf(sides, op) == BinaryOf(ParseCondExpr(sides[1]), ParseCondExpr(sides[2]), op)

TryCondParsers(t, or, and, negated) ==
    CASE t = <<>> -> Unread
      [] or # <<>> -> PairOf(or, "or")
      [] t # <<>> /\ or = <<>> ->
            IF and # <<>> THEN PairOf(and, "and")
            ELSE IF negated = <<>> THEN Comparison(t)
            ELSE NotOf(ParseCondExpr(negated))

ParseCondExpr(raw) ==
    LET t == TrimSpace(raw)
    IN  TryCondParsers(t, SplitAt(t, "||"), SplitAt(t, "&&"), NegatedPart(t))

(* formatCondExpr: the canonical text.  inside is "or", "and", "not", or   *)
(* "" where the condition stands alone.                                    *)
Grouped(text, bare) == IF bare THEN text ELSE <<"(">> \o text \o <<")">>

RECURSIVE FormatCondExpr(_, _)
FormatCondExpr(e, inside) ==
    CASE e.op = "not" -> <<"not", " ">> \o FormatCondExpr(e.inner, "not")
      [] e.op \in {"and", "or"} ->
            Grouped(FormatCondExpr(e.left, e.op) \o <<" ", e.op, " ">>
                    \o FormatCondExpr(e.right, e.op), inside \in {"", e.op})
      [] OTHER -> e.key \o <<" ", e.op, " ">> \o e.value

(* convertEdge *)
EdgeWith(de, when, read) ==
    LET restarts == \E key \in {"restart", "loop_restart"} :
                        Has(de.attrs, key) /\ IsTruthy(DotText(de.attrs, key))
    IN  [ok |-> when # <<>> => read.ok,
         edge |-> [from |-> de.from, to |-> de.to,
                   attrs |-> NonZero(Config(de.attrs, [label |-> "text", weight |-> "int"]))
                             @@ (IF when # <<>> /\ read.ok
                                 THEN [when |-> FormatCondExpr(read.expr, "")] ELSE <<>>)
                             @@ (IF restarts THEN [restart |-> TRUE] ELSE <<>>)]]

ConvertEdge(de) ==
    LET when == IF Has(de.attrs, "condition") THEN TrimSpace(DotText(de.attrs, "condition"))
                ELSE <<>>
    IN  EdgeWith(de, when, ParseCondExpr(when))

-----------------------------------------------------------------------------
(* The ways out of a node and into it, as the consumers of a workflow see  *)
(* them (ir/lookup.go): the edges, the targets of a fan-out, the sources   *)
(* of a join.                                                              *)
ListOf(n, key) == IF key \in DOMAIN n.attrs THEN n.attrs[key] ELSE <<>>

Once(s) == FoldLeft(LAMBDA acc, x : IF Contains(acc, x) THEN acc ELSE Append(acc, x), <<>>, s)

NodesWhere(w, Test(_)) ==
    LET chosen == SelectSeq(w.nodes, Test) IN [i \in DOMAIN chosen |-> chosen[i].id]

FirstWith(w, id) == SelectInSeq(w.nodes, LAMBDA n : n.id = id)

Listed(w, id, key) == IF FirstWith(w, id) = 0 THEN <<>> ELSE ListOf(w.nodes[FirstWith(w, id)], key)

WaysOut(w, id) ==
    LET explicit == SelectSeq(w.edges, LAMBDA e : e.from = id)
        plain == {e.to : e \in {f \in ToSet(explicit) : "when" \notin DOMAIN f.attrs}}
        implied == Listed(w, id, "targets")
                   \o NodesWhere(w, LAMBDA n : Contains(ListOf(n, "sources"), id))
    IN  [i \in DOMAIN explicit |-> explicit[i].to]
        \o SelectSeq(Once(implied), LAMBDA t : t \notin plain)

WaysIn(w, id) ==
    LET explicit == SelectSeq(w.edges, LAMBDA e : e.to = id)
        plain == {e.from : e \in {f \in ToSet(explicit) : "when" \notin DOMAIN f.attrs}}
        implied == NodesWhere(w, LAMBDA n : Contains(ListOf(n, "targets"), id))
                   \o Listed(w, id, "sources")
    IN  [i \in DOMAIN explicit |-> explicit[i].from]
        \o SelectSeq(Once(implied), LAMBDA s : s \notin plain)

(* inferParallelFanIn: node after node, so that a list that was inferred   *)
(* implies edges for the next.                                             *)
Infer(w, i) ==
    LET n == w.nodes[i]
        found == IF n.kind = "parallel" THEN WaysOut(w, n.id) ELSE WaysIn(w, n.id)
        key == IF n.kind = "parallel" THEN "targets" ELSE "sources"
    IN  IF n.kind \in {"parallel", "fan_in"} /\ ListOf(n, key) = <<>>
        THEN [w EXCEPT !.nodes[i].attrs = Put(@, key, Made(found, FALSE, TRUE))]
        ELSE w

InferParallelFanIn(w) == FoldLeft(Infer, w, [i \in DOMAIN w.nodes |-> i])

(* convertDOTGraph, when w holds what the graph's attributes made of it.   *)
WithGraph(w, g, nodes, edges) ==
    [ok |-> (\A i \in DOMAIN nodes : nodes[i].ok) /\ (\A i \in DOMAIN edges : edges[i].ok),
     flow |-> InferParallelFanIn(
         [w EXCEPT !.name = g.name,
                   !.header = Put(Put(@, "start", Make("text", Marked(g.nodes, "Mdiamond"))),
                                  "exit", Make("text", Marked(g.nodes, "Msquare"))),
                   !.nodes = [i \in DOMAIN nodes |-> nodes[i].node],
                   !.edges = [i \in DOMAIN edges |-> edges[i].edge]])]

ConvertDOTGraph(g, w) ==
    WithGraph(w, g, [i \in DOMAIN g.nodes |-> ConvertNode(g.nodes[i])],
                    [i \in DOMAIN g.edges |-> ConvertEdge(g.edges[i])])

=============================================================================
