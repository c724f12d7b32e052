-------------------------- MODULE LintReachability --------------------------
(***************************************************************************)
(* Two warnings of dippin lint about where a run may go                    *)
(* (validator/lint_reachability.go): DIP102, a node that has conditional   *)
(* edges and no edge to fall back on, and DIP105, no way from Start to Exit*)
(* without a restart edge.  DIP102 is silent where the conditions look     *)
(* exhaustive; what looks so is decided here, by comparing them as they    *)
(* are written.                                                            *)
(***************************************************************************)
EXTENDS Coverage

CONSTANTS
    Parsed(_),          \* the expression of a condition, as ConditionEval has it
    MarkerRouted(_)     \* whether a node is a tool that declares marker_grep

-----------------------------------------------------------------------------
(* Exhaustive conditions *)

\* Lint parses the conditions in order and gives up at the first it cannot
\* parse (EnsureConditionsParsed).
ParsedEdge(w, i) ==
    w.edges[i].cond # NoCond /\ \A j \in 1..i : w.edges[j].cond \notin Malformed

EdgesOut(w, id) == {i \in DOMAIN w.edges : w.edges[i].from = id}
Conditional(w, id) == {i \in EdgesOut(w, id) : w.edges[i].cond # NoCond}
Parses(w, id) == {i \in EdgesOut(w, id) : ParsedEdge(w, i)}
ExprOf(w, i) == Parsed(w.edges[i].cond)

IsComparison(e) == e.op \notin {"and", "or", "not"}
IsEquality(e) == e.op \in {"=", "=="}
Equalities(w, id) == {i \in Parses(w, id) : IsEquality(ExprOf(w, i))}
VariablesTested(w, id) == {ExprOf(w, i).variable : i \in Equalities(w, id)}
ValuesOf(w, id, variable) ==
    {ExprOf(w, i).value : i \in {j \in Equalities(w, id) : ExprOf(w, j).variable = variable}}

\* knownExhaustiveSets: the two spellings of the outcome are two variables.
CoversKnownSet(w, id) ==
    \E variable \in {"ctx.outcome", "outcome"} :
        /\ "success" \in ValuesOf(w, id, variable)
        /\ {"fail", "failure"} \cap ValuesOf(w, id, variable) # {}

\* The edges are counted, not the values they ask for.
IsCompletePartition(w, id) ==
    /\ Cardinality(VariablesTested(w, id)) = 1
    /\ Cardinality(Conditional(w, id)) >= 2
    /\ Equalities(w, id) = Conditional(w, id)

\* Mutant: one variable, whatever it is compared with.
SameComparisonOfVariable(e, f) == e.op = f.op /\ e.variable = f.variable

\* Equal conditionKeys.
SameComparison(e, f) == e.op = f.op /\ e.variable = f.variable /\ e.value = f.value

HasComplementaryPair(w, id) ==
    \E i, j \in Parses(w, id) :
        /\ IsComparison(ExprOf(w, i))
        /\ ExprOf(w, j).op = "not" /\ IsComparison(ExprOf(w, j).inner)
        /\ SameComparison(ExprOf(w, i), ExprOf(w, j).inner)

\* edgesAreExhaustive
Exhaustive(w, id) ==
    CoversKnownSet(w, id) \/ IsCompletePartition(w, id) \/ HasComplementaryPair(w, id)

-----------------------------------------------------------------------------
(* The warnings *)

\* hasMissingDefault: an implied edge is a way out as well.
HasMissingDefault(w, id) ==
    LET conds == {e.cond : e \in Range(EdgesFrom(w, id))}
    IN  conds \ {NoCond} # {} /\ NoCond \notin conds

\* DIP102
DefaultEdgeMissing(w) ==
    {n.id : n \in {x \in Range(w.nodes) :
                      HasMissingDefault(w, x.id) /\ ~Exhaustive(w, x.id) /\ ~MarkerRouted(NodeOf(w, x.id))}}

\* buildForwardAdjacency of lint.go
NonRestartAdjacency(w) ==
    {<<e.from, e.to>> : e \in {x \in Range(w.edges) : ~x.restart}} \cup FanOutWays(w) \cup FanInWays(w)

\* DIP105, said only of a workflow whose ends exist.
SuccessPathMissing(w) ==
    /\ {w.start, w.exit} \subseteq NodeIDs(w) \ {NoNode}
    /\ w.exit \notin BfsFrom(w.start, NonRestartAdjacency(w))

=============================================================================
