-------------------------- MODULE DippinFormatter ---------------------------
(***************************************************************************)
(* The canonical printer of workflows (formatter/format.go): Format(w) is  *)
(* the text, line by line, of the workflow w.  What is written of a node,  *)
(* and in which order, depends on its kind; how a field is written depends *)
(* on the field.                                                           *)
(***************************************************************************)
EXTENDS SourceText

(***************************************************************************)
(* The writer: lines at a level of two columns each.  A line break in the  *)
(* text of one line starts a line at whatever column the text says.        *)
(***************************************************************************)
LeadingBlanks(t) ==
    IF \A i \in DOMAIN t : t[i] = " " THEN Len(t)
    ELSE Min({i \in DOMAIN t : t[i] # " "}) - 1

Laid(column, t) ==
    IF TrimSpace(t) = <<>> THEN BlankLine
    ELSE Line(column + LeadingBlanks(t), TrimSpace(t))

WriteLine(level, text) ==
    LET parts == Split(TrimRight(text), "NL")
    IN  [i \in DOMAIN parts |-> Laid(IF i = 1 THEN 2 * level ELSE 0, parts[i])]

\* multilineBlock
WriteBlock(level, key, content) ==
    LET text == TrimRight(content)
        parts == Split(text, "NL")
    IN  WriteLine(level, <<key, ":">>) \o
        (IF text = <<>> THEN <<>>
         ELSE [i \in DOMAIN parts |-> Laid(2 * (level + 1), parts[i])])

\* writeSortedMapBlock, writeVars
WriteEntries(level, m) ==
    LET keys == SortTexts(DOMAIN m)
    IN  FlattenSeq([i \in DOMAIN keys |->
            WriteLine(level, keys[i] \o <<":", " ">> \o QuoteValue(m[keys[i]]))])

-----------------------------------------------------------------------------
(* How a field is written.  What is not listed is quoted where needed.     *)
WrittenAs(key) ==
    CASE key \in {"class", "satisfies", "reads", "writes", "outputs", "verify_acid",
                  "requires", "targets", "sources"} -> "joined"
      [] key \in {"retry_target", "fallback_target", "restart_target", "start", "exit",
                  "stop_condition", "steer_condition"} -> "plain"
      [] key \in {"prompt", "command", "response_schema"} -> "block"
      [] key \in {"params", "steer_context"} -> "map"
      [] key \in {"max_retries", "max_turns", "output_limit", "max_cycles", "max_restarts",
                  "max_total_tokens", "max_cost_cents"} -> "number"
      [] key \in {"base_delay", "cmd_timeout", "timeout", "poll_interval", "max_wall_time"}
            -> "duration"
      [] key = "compaction_threshold" -> "float"
      [] key \in {"goal_gate", "auto_status", "cache_tools", "route_required"} -> "flag"
      [] key = "spec" -> "pair"
      [] OTHER -> "quoted"

JoinList(list) == Join(list, <<",", " ">>)

ValueText(key, v) ==
    CASE WrittenAs(key) = "joined"   -> JoinList(v)
      [] WrittenAs(key) = "plain"    -> v
      [] WrittenAs(key) = "number"   -> IntText(v)
      [] WrittenAs(key) = "duration" -> FormatDuration(v)
      [] WrittenAs(key) = "float"    -> v
      [] WrittenAs(key) = "flag"     -> <<"true">>
      [] WrittenAs(key) = "pair"     -> Join(v, <<" ">>)
      [] WrittenAs(key) = "quoted"   -> QuoteValue(v)

WriteField(level, key, v) ==
    CASE WrittenAs(key) = "block" -> WriteBlock(level, key, v)
      [] WrittenAs(key) = "map"   -> WriteLine(level, <<key, ":">>) \o WriteEntries(level + 1, v)
      [] OTHER -> WriteLine(level, <<key, ":", " ">> \o ValueText(key, v))

\* Of the fields in this order, those that are set.
WriteFields(level, order, attrs) ==
    FlattenSeq([i \in DOMAIN order |->
        IF order[i] \in DOMAIN attrs THEN WriteField(level, order[i], attrs[order[i]]) ELSE <<>>])

-----------------------------------------------------------------------------
(* The fields of each kind of node, in the order they are written.         *)
NamingFields == <<"label", "class", "satisfies">>
IOFields     == <<"reads", "writes">>
RetryFields  == <<"retry_policy", "max_retries", "base_delay", "retry_target", "fallback_target">>

WriteAgentFields ==
    NamingFields
    \o <<"model", "provider", "reasoning_effort", "fidelity", "backend", "working_dir",
         "response_format", "response_schema", "goal_gate", "auto_status", "max_turns",
         "cmd_timeout", "cache_tools", "compaction", "compaction_threshold">>
    \o RetryFields \o IOFields \o <<"params", "prompt">>

WriteHumanFields ==
    NamingFields
    \o <<"mode", "default", "questions_key", "answers_key", "timeout", "timeout_action">>
    \o IOFields \o <<"prompt">>

\* Plausible mistake: the list of outputs is forgotten.
WriteToolFieldsNoOutputs ==
    NamingFields \o <<"marker_grep", "route_required", "output_limit", "verify_acid", "timeout">>
    \o IOFields \o <<"command">>

WriteToolFields ==
    NamingFields
    \o <<"outputs", "marker_grep", "route_required", "output_limit", "verify_acid", "timeout">>
    \o IOFields \o <<"command">>

WriteManagerLoopFields ==
    NamingFields \o RetryFields \o IOFields
    \o <<"subgraph_ref", "poll_interval", "max_cycles", "stop_condition", "steer_condition",
         "steer_context">>

FieldOrder(kind) ==
    CASE kind = "agent"        -> WriteAgentFields
      [] kind = "human"        -> WriteHumanFields
      [] kind = "tool"         -> WriteToolFields
      [] kind = "conditional"  -> NamingFields \o IOFields
      [] kind = "subgraph"     -> NamingFields \o <<"ref", "params">>
      [] kind = "manager_loop" -> WriteManagerLoopFields

HeaderOrder == <<"goal", "spec", "requires">>

DefaultsOrder ==
    <<"model", "provider", "retry_policy", "max_retries", "fidelity", "max_restarts",
      "restart_target", "cache_tools", "compaction", "on_resume", "max_total_tokens",
      "max_cost_cents", "max_wall_time", "tool_commands_allow", "tool_denylist_add">>

BranchOrder == <<"model", "provider", "fidelity">>

-----------------------------------------------------------------------------
WriteBranch(b) ==
    WriteLine(2, <<"branch", ":", " ">> \o b.target) \o WriteFields(3, BranchOrder, b.attrs)

WriteParallelBlock(n) ==
    WriteLine(1, <<"parallel", " ">> \o n.id)
    \o FlattenSeq([i \in DOMAIN n.attrs.branches |-> WriteBranch(n.attrs.branches[i])])

WriteNode(n) ==
    LET list(key) == IF key \in DOMAIN n.attrs THEN JoinList(n.attrs[key]) ELSE <<>>
        header == <<n.kind, " ">> \o n.id
    IN  CASE n.kind = "parallel" /\ "branches" \in DOMAIN n.attrs -> WriteParallelBlock(n)
          [] n.kind = "parallel" /\ "branches" \notin DOMAIN n.attrs ->
                WriteLine(1, header \o <<" ", "->", " ">> \o list("targets"))
          [] n.kind = "fan_in" -> WriteLine(1, header \o <<" ", "<-", " ">> \o list("sources"))
          [] OTHER -> WriteLine(1, header) \o WriteFields(2, FieldOrder(n.kind), n.attrs)

(* Rules are sorted by specificity, then by name.                          *)
Specificity(selector) ==
    CASE selector[1] = "*" -> 0 [] selector[1] = "." -> 2 [] selector[1] = "#" -> 3
      [] OTHER -> 1

WriteStylesheet(rules) ==
    LET before(i, j) ==
            LET a == rules[i].selector
                b == rules[j].selector
            IN  \/ Specificity(a) < Specificity(b)
                \/ Specificity(a) = Specificity(b) /\ Before(a, b)
                \/ a = b /\ i < j
        order == SetToSortSeq(DOMAIN rules, before)
        property(r, k) == <<" ", " ">> \o k \o <<":", " ">> \o r.props[k] \o <<"NL">>
        text(r) == r.selector \o <<"NL">> \o
                   FlattenSeq([i \in DOMAIN SortTexts(DOMAIN r.props) |->
                                  property(r, SortTexts(DOMAIN r.props)[i])])
    IN  WriteBlock(1, "stylesheet",
                   Join([i \in DOMAIN order |-> text(rules[order[i]])], <<"NL">>))

WriteEdge(e) ==
    LET has(key) == key \in DOMAIN e.attrs
    IN  WriteLine(2, e.from \o <<" ", "->", " ">> \o e.to
            \o (IF has("when") THEN <<" ", "when", " ">> \o e.attrs["when"] ELSE <<>>)
            \o (IF has("label") THEN <<" ", "label", ":", " ">> \o QuoteValue(e.attrs["label"])
                                ELSE <<>>)
            \o (IF has("weight") THEN <<" ", "weight", ":", " ">> \o IntText(e.attrs["weight"])
                                 ELSE <<>>)
            \o (IF has("restart") THEN <<" ", "restart", ":", " ", "true">> ELSE <<>>))

-----------------------------------------------------------------------------
WriteWorkflowHeader(w) ==
    LET text(key) == IF key \in DOMAIN w.header THEN w.header[key] ELSE <<>>
    IN  WriteLine(0, <<"workflow", " ">> \o w.name)
        \o WriteFields(1, HeaderOrder, w.header)
        \o WriteLine(1, <<"start", ":", " ">> \o text("start"))
        \o WriteLine(1, <<"exit", ":", " ">> \o text("exit"))

\* A section, behind an empty line, unless there is nothing in it.
Section(empty, text) == IF empty THEN <<>> ELSE <<BlankLine>> \o text

\* The text ends behind its last line that is not empty.
DropBlankEnd(text) ==
    LET ink == {i \in DOMAIN text : text[i] # BlankLine}
    IN  SubSeq(text, 1, IF ink = {} THEN 0 ELSE Max(ink))

Format(w) ==
    DropBlankEnd(
        WriteWorkflowHeader(w)
        \o Section(DOMAIN w.defaults = {},
                   WriteLine(1, <<"defaults">>) \o WriteFields(2, DefaultsOrder, w.defaults))
        \o Section(DOMAIN w.vars = {}, WriteLine(1, <<"vars">>) \o WriteEntries(2, w.vars))
        \o FlattenSeq([i \in DOMAIN w.nodes |-> <<BlankLine>> \o WriteNode(w.nodes[i])])
        \o Section(w.stylesheet = <<>>, WriteStylesheet(w.stylesheet))
        \o Section(w.edges = <<>>,
                   WriteLine(1, <<"edges">>)
                   \o FlattenSeq([i \in DOMAIN w.edges |-> WriteEdge(w.edges[i])])))

=============================================================================
