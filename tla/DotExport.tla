----------------------------- MODULE DotExport ------------------------------
(***************************************************************************)
(* DOT export of a workflow (export/dot.go): ExportDOT(w, opts) is a text  *)
(* in the pieces of SourceText.  opts has the fields                       *)
(*    rankdir : a word      prompts : BOOLEAN      path : IDs visited      *)
(* The word after a backslash is one of n, l, r, or begins with no letter  *)
(* of these.  Conditions are never parsed before an export, so their raw   *)
(* text is what is written.                                                *)
(***************************************************************************)
EXTENDS SourceText

Given(attrs, key) == IF key \in DOMAIN attrs THEN attrs[key] ELSE <<>>

-----------------------------------------------------------------------------
(* dotID, dotQuote, escapeNewlines *)
StartsWithDigit(id) == IsNumber(id[1]) \/ id[1] \in DOMAIN Millis

DotEscape(t, i) == t[i] = "\\" /\ i < Len(t) /\ t[i + 1] \in {"n", "l", "r"}

DotQuote(t) ==
    LET escaped(i) == t[i] = "\"" \/ (t[i] = "\\" /\ ~DotEscape(t, i))
    IN  <<"\"">>
        \o FlattenSeq([i \in DOMAIN t |-> IF escaped(i) THEN <<"\\", t[i]>> ELSE <<t[i]>>])
        \o <<"\"">>

DotID(id) ==
    IF id # <<>> /\ ~StartsWithDigit(id) /\ \A i \in DOMAIN id : IsWord(id[i])
    THEN id ELSE DotQuote(id)

EscapeNewlines(t) ==
    FlattenSeq([i \in DOMAIN t |-> IF t[i] = "NL" THEN <<"\\", "n">> ELSE <<t[i]>>])

\* lowerConditionNamespaces
LowerCondition(t) ==
    LET prefix(i) == t[i] = "ctx" /\ i < Len(t) /\ t[i + 1] = "."
    IN  FlattenSeq([i \in DOMAIN t |->
            IF prefix(i) \/ (i > 1 /\ prefix(i - 1)) THEN <<>> ELSE <<t[i]>>])

\* flattenSteerContext: the delimiters are written as %25, %2C and %3D.
SteerToken(t) ==
    LET code == [c \in {"%", ",", "="} |->
                    CASE c = "%" -> "%25" [] c = "," -> "%2C" [] c = "=" -> "%3D"]
    IN  [i \in DOMAIN t |-> IF t[i] \in DOMAIN code THEN code[t[i]] ELSE t[i]]

SteerText(m) ==
    LET keys == SortTexts(DOMAIN m)
    IN  Join([i \in DOMAIN keys |-> SteerToken(keys[i]) \o <<"=">> \o SteerToken(m[keys[i]])],
             <<",">>)

-----------------------------------------------------------------------------
(* Attributes: a function from names to texts.                             *)
DotValue(key, v) ==
    CASE key \in {"targets", "sources", "outputs", "satisfies"} -> Join(v, <<",">>)
      [] key \in {"timeout", "poll_interval"}  -> FormatDuration(v)
      [] key \in {"output_limit", "max_cycles", "weight"} -> IntText(v)
      [] key \in {"route_required", "restart"} -> <<"true">>
      [] key = "steer_context"                 -> SteerText(v)
      [] key \in {"prompt", "command"}         -> EscapeNewlines(v)
      [] OTHER                                 -> v

DotName(key) == IF key = "command" THEN "tool_command" ELSE key

\* Of the attributes those named, under the names and as the texts of DOT.
Exported(attrs, keys) ==
    LET some == keys \cap DOMAIN attrs
    IN  [name \in {DotName(k) : k \in some} |->
            LET k == CHOOSE j \in some : DotName(j) = name IN DotValue(k, attrs[k])]

SemanticKeys(kind) ==
    CASE kind = "human"        -> {"mode", "default", "timeout", "timeout_action"}
      [] kind = "tool"         -> {"timeout", "marker_grep", "route_required", "output_limit",
                                   "outputs"}
      [] kind = "subgraph"     -> {"ref"}
      [] kind = "parallel"     -> {"targets"}
      [] kind = "fan_in"       -> {"sources"}
      [] kind = "manager_loop" -> {"subgraph_ref", "poll_interval", "max_cycles", "steer_context",
                                   "stop_condition", "steer_condition"}
      [] OTHER                 -> {}

PromptKeys(kind) ==
    CASE kind = "agent" -> {"prompt", "model", "provider", "backend", "working_dir"}
      [] kind = "tool"  -> {"command"}
      [] kind = "human" -> {"prompt"}
      [] OTHER          -> {}

NodeShape(n, w) ==
    CASE n.id = Given(w.header, "start") -> "Mdiamond"
      [] n.id # Given(w.header, "start") /\ n.id = Given(w.header, "exit") -> "Msquare"
      [] OTHER ->
            CASE n.kind = "agent"    -> "box"       [] n.kind = "human"  -> "hexagon"
              [] n.kind = "tool"     -> "parallelogram"
              [] n.kind = "parallel" -> "component" [] n.kind = "fan_in" -> "tripleoctagon"
              [] n.kind = "subgraph" -> "tab"       [] n.kind = "conditional" -> "diamond"
              [] n.kind = "manager_loop" -> "house"

\* resolveNodeLabel: on the path, with the places the node has there.
NodeLabel(n, path) ==
    LET label == IF "label" \in DOMAIN n.attrs THEN n.attrs["label"] ELSE n.id
        visits == SelectSeq([i \in DOMAIN path |-> i], LAMBDA i : path[i] = n.id)
    IN  IF visits = <<>> THEN label
        ELSE <<"[">> \o Join([i \in DOMAIN visits |-> <<ToString(visits[i])>>], <<",">>)
             \o <<"]", " ">> \o label

NodeAttrs(n, w, opts) ==
    ("shape" :> <<NodeShape(n, w)>>) @@ ("label" :> NodeLabel(n, opts.path))
    @@ Exported(n.attrs, SemanticKeys(n.kind) \cup {"satisfies"}
                         \cup (IF opts.prompts THEN PromptKeys(n.kind) ELSE {}))
    @@ (IF n.id \in Range(opts.path)
        THEN [style |-> <<"bold", ",", "filled">>, fillcolor |-> <<"#", "e0f0ff">>] ELSE <<>>)

EdgeAttrs(e) ==
    LET condition == LowerCondition(Given(e.attrs, "when"))
    IN  Exported(e.attrs, {"label", "weight", "restart"})
        @@ (IF "when" \in DOMAIN e.attrs
            THEN [condition |-> condition, label |-> condition] ELSE <<>>)
        @@ (IF "restart" \in DOMAIN e.attrs THEN [style |-> <<"dashed">>] ELSE <<>>)

-----------------------------------------------------------------------------
(* The text.                                                               *)
AttrOrder ==
    <<"backend", "condition", "default", "fillcolor", "label", "marker_grep", "max_cycles", "mode",
      "model", "output_limit", "outputs", "poll_interval", "prompt", "provider", "ref", "restart",
      "route_required", "satisfies", "shape", "sources", "steer_condition", "steer_context",
      "stop_condition", "style", "subgraph_ref", "targets", "timeout", "timeout_action",
      "tool_command", "weight", "working_dir">>

DotList(pairs) == <<"[">> \o Join(pairs, <<",", " ">>) \o <<"]">>

\* formatDOTAttrs
DotAttrs(attrs) ==
    LET keys == SelectSeq(AttrOrder, LAMBDA k : k \in DOMAIN attrs)
    IN  DotList([i \in DOMAIN keys |-> <<keys[i], "=">> \o DotQuote(attrs[keys[i]])])

WriteNodeDOT(n, w, opts) ==
    <<" ">> \o DotID(n.id) \o <<" ">> \o DotAttrs(NodeAttrs(n, w, opts)) \o <<";", "NL">>

WriteEdgeDOT(e) ==
    <<" ">> \o DotID(e.from) \o <<" ", "->", " ">> \o DotID(e.to)
    \o (IF DOMAIN EdgeAttrs(e) = {} THEN <<>> ELSE <<" ">> \o DotAttrs(EdgeAttrs(e)))
    \o <<";", "NL">>

\* Plausible mistake: the variables are written whatever they are called.
ReservedGraphAttrsForgotten == {"rankdir"}

ReservedGraphAttrs ==
    {"goal", "rankdir", "model", "provider", "fidelity", "default_fidelity", "max_retries",
     "default_max_retry", "max_restarts", "max_total_tokens", "max_cost_cents", "max_wall_time",
     "tool_commands_allow", "tool_denylist_add"}

GraphAttrs(w, rankdir) ==
    LET tool == SelectSeq(<<"tool_commands_allow", "tool_denylist_add">>,
                          LAMBDA k : k \in DOMAIN w.defaults)
        keys == SortTexts({k \in DOMAIN w.vars : k \notin {<<r>> : r \in ReservedGraphAttrs}})
    IN  << <<"rankdir", "=", rankdir>> >>
        \o [i \in DOMAIN tool |-> <<tool[i], "=">> \o DotQuote(w.defaults[tool[i]])]
        \o [i \in DOMAIN keys |-> DotID(keys[i]) \o <<"=">> \o DotQuote(w.vars[keys[i]])]

WriteDOTHeader(w, rankdir) ==
    LET font == DotList(<< <<"fontname", "=", "\"", "Helvetica", "\"">> >>) \o <<";", "NL">>
    IN  <<"digraph", " ">> \o DotID(IF w.name = <<>> THEN <<"workflow">> ELSE w.name)
        \o <<" ", "{", "NL", " ", "node", " ">> \o font \o <<" ", "edge", " ">> \o font
        \o <<" ", "graph", " ">> \o DotList(GraphAttrs(w, rankdir)) \o <<";", "NL">>

ExportDOT(w, opts) ==
    WriteDOTHeader(w, opts.rankdir)
    \o FlattenSeq([i \in DOMAIN w.nodes |-> WriteNodeDOT(w.nodes[i], w, opts)]) \o <<"NL">>
    \o FlattenSeq([i \in DOMAIN w.edges |-> WriteEdgeDOT(w.edges[i])]) \o <<"}", "NL">>

=============================================================================
