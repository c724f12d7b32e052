------------------------------ MODULE Workflow ------------------------------
(***************************************************************************)
(* The workflow graph (ir/ir.go, ir/lookup.go).                            *)
(*                                                                         *)
(* A workflow is a record                                                  *)
(*    [nodes : Seq(Node), edges : Seq(Edge), start : ID, exit : ID]        *)
(* in declaration order.  Order matters: every consumer takes the FIRST    *)
(* node, edge or join that fits.  An ID is a string, "" is no node, as in  *)
(* the Go code.  Branches of a block-form parallel node are not kept: the  *)
(* parser fills Targets from them.                                         *)
(***************************************************************************)
EXTENDS Sequences, SequencesExt, FiniteSets, Integers

CONSTANTS
    NoCond,         \* Edge.Condition = nil
    Malformed       \* the conditions that ParseCondition refuses

NoNode == ""

(* What the consumers read of a node's Config.  A node of another kind has *)
(* empty targets and sources; autoStatus is AgentConfig.AutoStatus, mode,  *)
(* answersKey and default are HumanConfig's.                               *)
Node(id, kind) ==
    [id |-> id, kind |-> kind, targets |-> <<>>, sources |-> <<>>,
     autoStatus |-> FALSE, mode |-> "choice", answersKey |-> "", default |-> ""]

Agent(id)           == [Node(id, "agent") EXCEPT !.autoStatus = TRUE]
ParallelNode(id, t) == [Node(id, "parallel") EXCEPT !.targets = t]
FanInNode(id, s)    == [Node(id, "fan_in") EXCEPT !.sources = s]

(* An explicit edge.  cond is NoCond or a condition; label is the set of   *)
(* the answers its label text contains (the code asks strings.Contains).   *)
Edge(from, to, cond, label) ==
    [from |-> from, to |-> to, cond |-> cond, label |-> label, restart |-> FALSE]

(* The edge the code makes for a parallel target or a fan_in source. *)
ImplicitEdge(from, to) == Edge(from, to, NoCond, {})

\* EnsureConditionsParsed; the conditions of manager_loop nodes are not kept.
ConditionsParse(w) == \A e \in Range(w.edges) : e.cond \notin Malformed

NodeIDs(w) == {w.nodes[i].id : i \in DOMAIN w.nodes}

\* The first node with that ID: meaningful only for id \in NodeIDs(w).
NodeOf(w, id) == w.nodes[SelectInSeq(w.nodes, LAMBDA n : n.id = id)]

(* TargetsOf and SourcesOf are empty for what is not a parallel or a       *)
(* fan_in node, as the failed type assertions of the code.                 *)
TargetsOf(w, id) ==
    IF id \in NodeIDs(w) /\ NodeOf(w, id).kind = "parallel" THEN NodeOf(w, id).targets ELSE <<>>

SourcesOf(w, id) ==
    IF id \in NodeIDs(w) /\ NodeOf(w, id).kind = "fan_in" THEN NodeOf(w, id).sources ELSE <<>>

\* The elements of s at the positions I, in their order.  (A SelectSeq that can
\* be reasoned about.)
Keep(s, I) ==
    [k \in 1..Cardinality(I) |-> s[CHOOSE i \in I : Cardinality({j \in I : j < i}) = k - 1]]

\* A sequence without the elements that occur earlier in it.
FirstOccurrences(s) == Keep(s, {i \in DOMAIN s : \A j \in 1..(i - 1) : s[j] # s[i]})

IDsWhere(w, Test(_)) ==
    LET chosen == Keep(w.nodes, {i \in DOMAIN w.nodes : Test(w.nodes[i])})
    IN  [i \in DOMAIN chosen |-> chosen[i].id]

(***************************************************************************)
(* EdgesFrom: the explicit edges in declaration order, then the edges of   *)
(* the fan-out, then those to every fan_in that names id as a source.  An  *)
(* implicit edge is dropped when an UNCONDITIONAL edge to the same node is *)
(* already in the list.                                                    *)
(***************************************************************************)
EdgesFrom(w, id) ==
    LET explicit == Keep(w.edges, {i \in DOMAIN w.edges : w.edges[i].from = id})
        plain == {e.to : e \in {x \in Range(explicit) : x.cond = NoCond}}
        joins == IDsWhere(w, LAMBDA n : n.kind = "fan_in" /\ id \in Range(n.sources))
        ends == TargetsOf(w, id) \o joins
        implied == Keep(ends, {i \in DOMAIN ends :
                                  /\ ends[i] \notin plain
                                  /\ \A j \in 1..(i - 1) : ends[j] # ends[i]})
    IN  explicit \o [i \in DOMAIN implied |-> ImplicitEdge(id, implied[i])]

=============================================================================
