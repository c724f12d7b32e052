------------------------------- MODULE Parity -------------------------------
(***************************************************************************)
(* The parity check between two workflows (migrate/parity.go).  A          *)
(* difference is a pair of its kind and of what differs.  Labels, weights, *)
(* restarts, variables and the goal are not compared.                      *)
(***************************************************************************)
EXTENDS SourceText

ValueOr(attrs, key, else) == IF key \in DOMAIN attrs THEN attrs[key] ELSE else

\* An attribute that is not set is zero, and zero is never set.
Same(a, b, key) ==
    /\ key \in DOMAIN a <=> key \in DOMAIN b
    /\ key \in DOMAIN a => a[key] = b[key]

\* normalizeWhitespace
NormalizeWhitespace(t) ==
    TrimSpace(FoldLeft(LAMBDA acc, c :
                  IF c \notin {" ", "NL"} THEN Append(acc, c)
                  ELSE IF acc # <<>> /\ Last(acc) = " " THEN acc ELSE Append(acc, " "),
              <<>>, t))

SameAs(a, b, key) ==
    CASE key \in {"prompt", "command"} ->
            NormalizeWhitespace(ValueOr(a, key, <<>>)) = NormalizeWhitespace(ValueOr(b, key, <<>>))
      [] key \in {"targets", "sources", "outputs"} ->
            Join(ValueOr(a, key, <<>>), <<",">>) = Join(ValueOr(b, key, <<>>), <<",">>)
      [] OTHER -> Same(a, b, key)

Compared(kind) ==
    CASE kind = "agent" -> {"prompt", "model", "provider", "goal_gate", "auto_status"}
      [] kind = "tool"  -> {"command", "timeout", "marker_grep", "route_required", "output_limit",
                            "outputs"}
      [] kind = "human"    -> {"mode"}
      [] kind = "parallel" -> {"targets"}
      [] kind = "fan_in"   -> {"sources"}
      [] kind = "subgraph" -> {"ref"}
      [] OTHER -> {}

CompareConfigs(na, nb) ==
    IF na.kind = nb.kind
    THEN {<<"config_mismatch", key>> : key \in {k \in Compared(na.kind) : ~SameAs(na.attrs, nb.attrs, k)}}
    ELSE {<<"kind_mismatch", na.id>>}

\* buildNodeMap: of two nodes with one ID, the last.
NodeMap(nodes) ==
    [id \in {nodes[i].id : i \in DOMAIN nodes} |-> nodes[Max({i \in DOMAIN nodes : nodes[i].id = id})]]

CompareNodes(a, b) ==
    LET na == NodeMap(a.nodes)
        nb == NodeMap(b.nodes)
    IN  {<<"node_missing", id>> : id \in DOMAIN na \ DOMAIN nb}
        \cup {<<"node_extra", id>> : id \in DOMAIN nb \ DOMAIN na}
        \cup UNION {CompareConfigs(na[id], nb[id]) : id \in DOMAIN na \cap DOMAIN nb}

\* Plausible mistake: two edges are the same if they join the same nodes.
EdgeKeyEnds(e) == <<e.from, e.to>>

EdgeKey(e) == <<e.from, e.to, ValueOr(e.attrs, "when", <<>>)>>

CompareEdges(a, b) ==
    LET ea == {EdgeKey(a.edges[i]) : i \in DOMAIN a.edges}
        eb == {EdgeKey(b.edges[i]) : i \in DOMAIN b.edges}
    IN  {<<"edge_missing", k>> : k \in ea \ eb} \cup {<<"edge_extra", k>> : k \in eb \ ea}

CompareStartExit(a, b) ==
    {<<"end_mismatch", key>> : key \in {k \in {"start", "exit"} : ~Same(a.header, b.header, k)}}

CompareDefaults(a, b) ==
    LET keys == {"model", "provider", "max_retries", "max_restarts", "fidelity"}
    IN  {<<"defaults_mismatch", key>> : key \in {k \in keys : ~Same(a.defaults, b.defaults, k)}}

CheckParity(a, b) ==
    CompareStartExit(a, b) \cup CompareNodes(a, b) \cup CompareEdges(a, b)
    \cup CompareDefaults(a, b)

=============================================================================
