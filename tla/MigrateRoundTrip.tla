-------------------------- MODULE MigrateRoundTrip --------------------------
(***************************************************************************)
(* The way to DOT and back: dippin export-dot (flatten, then export),      *)
(* dippin migrate (read the DOT, convert it, write it formatted) and       *)
(* dippin validate-migration (migrate the DOT once more, parse the written *)
(* file, compare).  The attributes of the digraph are taken in any order,  *)
(* as a Go map is walked, and in another order the second time.            *)
(***************************************************************************)
EXTENDS DippinParser, FormatLimits, Flatten, DotExport, DotParser, Migrate, Parity,
        ConditionParser

CONSTANTS
    Exports,        \* what is exported: a workflow and the options
    Digraphs        \* the DOT files that people wrote

VARIABLES
    phase,          \* "exporting", "reading", "migrating", "parsing", "validating";
                    \* then "done", "failed" (no migration), or "refused" (by the parser)
    origin,         \* what is exported, or <<>> for a DOT file
    flat,           \* the flattened workflow
    taken,          \* what the digraph's attributes have set so far
    left,           \* the attributes not taken yet
    migrated,       \* the workflow of the first migration
    second,         \* the workflow of the second one
    diffs           \* what the parity check finds

tripVars == <<phase, origin, flat, taken, left, migrated, second, diffs>>
vars == <<lexVars, parseVars, dotVars, tripVars>>

Init ==
    /\ \/ \E e \in Exports : origin = e /\ phase = "exporting" /\ DotInit(<<>>)
       \/ \E d \in Digraphs : origin = <<>> /\ phase = "reading" /\ DotInit(d)
    /\ flat = NoWorkflow /\ taken = NoWorkflow /\ left = {}
    /\ migrated = NoWorkflow /\ second = NoWorkflow /\ diffs = {}
    /\ LexInit(<<>>) /\ ParseInit

Stop(how) ==
    /\ phase' = how
    /\ UNCHANGED <<lexVars, parseVars, dotVars, origin, flat, taken, left, migrated, second, diffs>>

(* dippin export-dot *)
Export ==
    /\ phase = "exporting" /\ FlattenWorkflow(origin.flow).ok
    /\ flat' = FlattenWorkflow(origin.flow).flow
    /\ dot' = ExportDOT(flat', origin.opts)
    /\ phase' = "reading"
    /\ UNCHANGED <<lexVars, parseVars, dotAt, graph, stmt, origin, taken, left, migrated, second, diffs>>

ExportFails == phase = "exporting" /\ ~FlattenWorkflow(origin.flow).ok /\ Stop("failed")

(* dippin migrate *)
ReadDOT ==
    /\ phase = "reading" /\ DotNext
    /\ UNCHANGED <<lexVars, parseVars, tripVars>>

DOTIsMalformed == phase = "reading" /\ stmt.kind = "error" /\ Stop("failed")

StartMigration(next) ==
    /\ phase' = next
    /\ taken' = NoWorkflow
    /\ left' = DOMAIN graph.graphAttrs
    /\ UNCHANGED <<lexVars, parseVars, dotVars, origin, flat, migrated, second, diffs>>

Migrate == phase = "reading" /\ stmt.kind = "done" /\ StartMigration("migrating")

TakeGraphAttr ==
    /\ phase \in {"migrating", "validating"}
    /\ \E k \in left :
          /\ taken' = ApplyGraphAttr(taken, k, graph.graphAttrs[k])
          /\ left' = left \ {k}
    /\ UNCHANGED <<lexVars, parseVars, dotVars, phase, origin, flat, migrated, second, diffs>>

Converted == ConvertDOTGraph(graph, taken)

WriteSource ==
    /\ phase = "migrating" /\ left = {} /\ Converted.ok
    /\ migrated' = Converted.flow
    /\ lines' = Format(migrated')
    /\ phase' = "parsing"
    /\ UNCHANGED <<at, stack, toks, parseVars, dotVars, origin, flat, taken, left, second, diffs>>

ConversionFails == phase = "migrating" /\ left = {} /\ ~Converted.ok /\ Stop("failed")

(* dippin validate-migration.  The DOT converted once and does so again.   *)
ReadSource == phase = "parsing" /\ ReadStep /\ UNCHANGED <<dotVars, tripVars>>

SourceIsRefused == phase = "parsing" /\ Parsed /\ diags # {} /\ Stop("refused")

MigrateAgain == phase = "parsing" /\ Parsed /\ diags = {} /\ StartMigration("validating")

Compare ==
    /\ phase = "validating" /\ left = {}
    /\ second' = Converted.flow
    /\ diffs' = CheckParity(second', wf)
    /\ phase' = "done"
    /\ UNCHANGED <<lexVars, parseVars, dotVars, origin, flat, taken, left, migrated>>

Ended == phase \in {"done", "failed", "refused"} /\ UNCHANGED vars

Next ==
    \/ Export \/ ExportFails \/ ReadDOT \/ DOTIsMalformed \/ Migrate \/ TakeGraphAttr
    \/ WriteSource \/ ConversionFails \/ ReadSource \/ SourceIsRefused \/ MigrateAgain
    \/ Compare \/ Ended

Spec == Init /\ [][Next]_vars

HasMigrated == phase \in {"parsing", "validating", "done", "refused"}

-----------------------------------------------------------------------------
(***************************************************************************)
(* What DOT can carry.                                                     *)
(***************************************************************************)
\* A backslash before n, l or r would be taken for a line break.
Unbroken(t) == \A i \in DOMAIN t : ~DotEscape(t, i)

Trimmed(t) == t # <<>> /\ t = TrimSpace(t)

Operators == {"=", "!=", "contains", "startswith", "endswith", "in"}

\* ctx.name op value, where no other operator is in the value.
OneComparison(t) ==
    /\ Len(t) > 6 /\ t[1] = "ctx" /\ t[2] = "." /\ t[4] = " " /\ t[5] \in Operators /\ t[6] = " "
    /\ Trimmed(SubSeq(t, 7, Len(t)))
    /\ ToSet(SubSeq(t, 7, Len(t))) \cap (Operators \cup {"==", "ctx", "||", "&&"}) = {}

NamesIn(n) == LET of(key) == IF key \in DOMAIN n.attrs THEN ToSet(n.attrs[key]) ELSE {}
              IN  of("targets") \cup of("sources") \cup of("outputs")

NodeExportable(n, w) ==
    /\ Unbroken(n.id) /\ n.id \notin {<<"node">>, <<"edge">>, <<"graph">>}
    /\ n.id \in {w.header["start"], w.header["exit"]} => n.kind \in {"agent", "manager_loop"}
    /\ n.kind = "manager_loop" => n.attrs # <<>>
    /\ n.kind = "parallel" => "targets" \in DOMAIN n.attrs
    /\ \A t \in NamesIn(n) : Trimmed(t) /\ "," \notin ToSet(t)
    /\ \A key \in DOMAIN n.attrs \ {"branches"} :
          CASE key = "steer_context" ->
                  \A k \in DOMAIN n.attrs[key] :
                      /\ Trimmed(k) /\ Unbroken(k)
                      /\ n.attrs[key][k] = TrimSpace(n.attrs[key][k]) /\ Unbroken(n.attrs[key][k])
            [] WrittenAs(key) \in {"quoted", "plain", "block"} -> Unbroken(n.attrs[key])
            [] OTHER -> TRUE

Exportable(w) ==
    /\ DistinctIDs(w)
    /\ {"start", "exit"} \subseteq DOMAIN w.header /\ w.header["start"] # w.header["exit"]
    /\ \A i \in DOMAIN w.nodes : NodeExportable(w.nodes[i], w)
    /\ \A i \in DOMAIN w.edges : LET e == w.edges[i] IN
          /\ {e.from, e.to} \subseteq {w.nodes[j].id : j \in DOMAIN w.nodes}
          /\ "when" \in DOMAIN e.attrs => OneComparison(e.attrs["when"]) /\ Unbroken(e.attrs["when"])
          /\ "label" \in DOMAIN e.attrs => Unbroken(e.attrs["label"])
    /\ \A k \in DOMAIN w.vars : IsDippinIdentifier(k) /\ Unbroken(w.vars[k])
    /\ \A k \in DOMAIN w.defaults \cap {"tool_commands_allow", "tool_denylist_add"} :
          Unbroken(w.defaults[k])

(* What comes back: the fields DOT has an attribute for, a label for every *)
(* node, the condition as the label of an edge that has none.              *)
Promised(kind, prompts) ==
    CASE kind = "human"        -> {"mode", "default", "timeout", "timeout_action"}
      [] kind = "tool"         -> {"timeout", "marker_grep", "route_required", "output_limit",
                                   "outputs"} \cup (IF prompts THEN {"command"} ELSE {})
      [] kind = "agent"        -> IF prompts THEN {"prompt", "model", "provider", "backend",
                                                   "working_dir"} ELSE {}
      [] kind = "subgraph"     -> {"ref"}
      [] kind = "parallel"     -> {"targets"}
      [] kind = "fan_in"       -> {"sources"}
      [] kind = "conditional"  -> {}
      [] kind = "manager_loop" -> {"subgraph_ref", "poll_interval", "max_cycles", "steer_context",
                                   "stop_condition", "steer_condition"}

Only(f, keys) == [k \in DOMAIN f \cap keys |-> f[k]]

LoweredNode(n, opts) ==
    [n EXCEPT !.attrs = KeptAttrs(Only(n.attrs, Promised(n.kind, opts.prompts)), {})
                        @@ [label |-> NodeLabel(n, opts.path)]]

LoweredEdge(e) ==
    [e EXCEPT !.attrs = @ @@ (IF "when" \in DOMAIN e.attrs
                              THEN [label |-> SubSeq(e.attrs["when"], 3, Len(e.attrs["when"]))]
                              ELSE <<>>)]

Reserved == {<<"model">>, <<"provider">>, <<"fidelity">>, <<"goal">>, <<"max_retries">>}

Lowered(w, opts) ==
    [w EXCEPT !.header = Only(@, {"start", "exit"}),
              !.defaults = Only(@, {"tool_commands_allow", "tool_denylist_add"}),
              !.vars = Only(@, DOMAIN @ \ Reserved),
              !.stylesheet = <<>>,
              !.nodes = [i \in DOMAIN @ |-> LoweredNode(@[i], opts)],
              !.edges = [i \in DOMAIN @ |-> LoweredEdge(@[i])]]

-----------------------------------------------------------------------------
(* The exported DOT is read back as the workflow it was made of, whatever  *)
(* the order its attributes are taken in: names, kinds, edges, conditions, *)
(* quoted and escaped texts, delimiters inside maps, for every workflow    *)
(* that DOT can carry (export/dot.go:40, migrate/migrate.go:22).           *)
ExportComesBack ==
    flat # NoWorkflow /\ Exportable(flat) =>
        /\ HasMigrated => migrated = Lowered(flat, origin.opts)
        /\ phase # "failed"

(* What migrate writes, validate-migration passes: the written file parses *)
(* and no difference is found, although the DOT is migrated anew, unless   *)
(* the formatter cannot carry what DOT said, a condition is not spaced the *)
(* way the parser does it, or two attributes of the graph name one default *)
(* (cmd/dippin/cmd_migrate.go:39, 120; migrate/parity.go:25).              *)
TwoNamesOfOne(g) ==
    \E pair \in {<<"fidelity", "default_fidelity">>, <<"max_retries", "default_max_retry">>} :
        Has(g.graphAttrs, pair[1]) /\ Has(g.graphAttrs, pair[2])

\* The .dip parser puts one blank between the tokens of a condition.
Respaced(t) ==
    LET ts == LexText(t, 1)
    IN  Join([i \in DOMAIN ts |-> IF ts[i].type = "literal" THEN <<"\"">> \o ts[i].val \o <<"\"">>
                                  ELSE ts[i].val], <<" ">>)

SpacedAsWritten(w) ==
    \A e \in ToSet(w.edges) : "when" \in DOMAIN e.attrs => e.attrs["when"] = Respaced(e.attrs["when"])

InWholeSeconds(w) == \A i \in DOMAIN w.nodes : KeptAttrs(w.nodes[i].attrs, {}) = w.nodes[i].attrs

MigrationValidates ==
    phase \in {"refused", "done"} /\ ~TwoNamesOfOne(graph)
    /\ Carried(migrated) /\ InWholeSeconds(migrated) /\ SpacedAsWritten(migrated) =>
        phase = "done" /\ diffs = {}

(* What validate-migration passes is the same graph: start and exit, the   *)
(* nodes and their kinds, every edge with its condition, and the ways that *)
(* fan-outs and joins imply (migrate/parity.go:25, ir/lookup.go:17).       *)
PassedMeansSameGraph ==
    phase = "done" /\ diffs = {} =>
        LET kinds(w) == {<<w.nodes[i].id, w.nodes[i].kind>> : i \in DOMAIN w.nodes}
            ways(w) == {<<e.from, e.to, ValueOr(e.attrs, "when", <<>>)>> : e \in ToSet(w.edges)}
        IN  /\ kinds(second) = kinds(wf) /\ ways(second) = ways(wf)
            /\ \A end \in {"start", "exit"} : Attr(second.header, end) = Attr(wf.header, end)
            /\ \A i \in DOMAIN wf.nodes :
                  ToSet(WaysOut(second, wf.nodes[i].id)) = ToSet(WaysOut(wf, wf.nodes[i].id))

(***************************************************************************)
(* Conditions, as the simulator reads them out of the migrated file.       *)
(***************************************************************************)
RECURSIVE ComparisonsIn(_), Holds(_, _), NeedsGroups(_)

\* Quotes around a value are none of it.
Unquoted(c) == IF c.value = <<>> THEN c ELSE [c EXCEPT !.value = TokenText(@)]

ComparisonsIn(e) ==
    CASE e.op = "not" -> ComparisonsIn(e.inner)
      [] e.op \in {"and", "or"} -> ComparisonsIn(e.left) \cup ComparisonsIn(e.right)
      [] OTHER -> {Unquoted(e)}

\* The value of e when exactly the comparisons in S hold.
Holds(e, S) ==
    CASE e.op = "not" -> ~Holds(e.inner, S)
      [] e.op = "and" -> Holds(e.left, S) /\ Holds(e.right, S)
      [] e.op = "or"  -> Holds(e.left, S) \/ Holds(e.right, S)
      [] OTHER        -> Unquoted(e) \in S

NeedsGroups(e) ==
    CASE e.op = "not" -> NeedsGroups(e.inner)
      [] e.op \in {"and", "or"} ->
            \E side \in {e.left, e.right} : NeedsGroups(side) \/ side.op \in {"and", "or"} \ {e.op}
      [] OTHER -> FALSE

SameMeaning(e, f) ==
    /\ ComparisonsIn(e) = ComparisonsIn(f)
    /\ \A S \in SUBSET ComparisonsIn(e) : Holds(e, S) <=> Holds(f, S)

LogicWords == {"and", "or", "not"}

OneToken(t) == Len(TokenizeCondition(t)) = 1 /\ TokenizeCondition(t) # <<<<>>>>

\* No word of logic inside a comparison; and nothing that is several tokens.
WithoutLogic(e) == \A c \in ComparisonsIn(e) : (ToSet(c.key) \cup ToSet(c.value)) \cap LogicWords = {}
InOneToken(e) == \A c \in ComparisonsIn(e) : OneToken(c.key) /\ OneToken(c.value)

(* A condition that validate-migration passes means to the simulator what  *)
(* it meant in DOT, under every truth of its comparisons, or it is refused,*)
(* which it is not while each variable and value is one token.  One that   *)
(* needs parentheses, which only one of the two grammars knows, is always  *)
(* refused, and never read with another precedence                         *)
(* (migrate/migrate.go:774, simulate/condition.go:22).                     *)
ConditionsKeepMeaning ==
    phase = "done" =>
        \A i \in {j \in DOMAIN wf.edges : "when" \in DOMAIN wf.edges[j].attrs} :
            LET said == ParseCondExpr(DotText(graph.edges[i].attrs, "condition")).expr
                read == ParseCondition(wf.edges[i].attrs["when"])
            IN  WithoutLogic(said) =>
                    /\ diffs = {} /\ read.ok => SameMeaning(said, read.expr)
                    /\ diffs = {} /\ InOneToken(said) => read.ok
                    /\ InOneToken(said) /\ NeedsGroups(said) => ~read.ok

(* Inlining opens and closes no way: where the IDs stay distinct, the exit *)
(* of the flat graph can be reached from its start exactly when every      *)
(* workflow on the way lets a walk through (flatten/flatten.go:69, 175).   *)
FlatWays ==
    flat # NoWorkflow /\ DistinctIDs(flat) =>
        (flat.header["exit"] \in
            Reach(flat, {flat.header["start"]}, {flat.nodes[i].id : i \in DOMAIN flat.nodes})
         <=> Passable(origin.flow))

=============================================================================
