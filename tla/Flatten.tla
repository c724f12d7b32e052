------------------------------ MODULE Flatten ------------------------------
(***************************************************************************)
(* Inlining of subgraph nodes (flatten/flatten.go, flatten/resolver.go).   *)
(*                                                                         *)
(* Workflows have the shape the parser gives them (DippinParser).  An ID   *)
(* is a text, its prefix is put before it: "s" inlines "a" as "s_a".       *)
(* Only IDs, edges, start and exit are rewritten: the targets, sources and *)
(* retry targets a node names are copied as they are.                      *)
(***************************************************************************)
EXTENDS Integers, Sequences, SequencesExt

CONSTANTS
    FileAt,         \* the file a ref denotes; several refs may denote one
    FlowOf,         \* the workflow in each file that parses
    MaxDepth        \* Options.MaxDepth

ASSUME DepthAssumption == MaxDepth \in Nat \ {0}

Attr(attrs, key) == IF key \in DOMAIN attrs THEN attrs[key] ELSE <<>>

RefOf(n)  == IF n.kind = "subgraph" THEN Attr(n.attrs, "ref") ELSE <<>>
Inlined(n) == RefOf(n) # <<>>

Prefixed(id, by) == by \o <<"_">> \o id

\* resolveAndValidate: the file is there, parses, and has a start and an exit.
Resolves(ref) ==
    /\ ref \in DOMAIN FileAt
    /\ FileAt[ref] \in DOMAIN FlowOf
    /\ \A end \in {"start", "exit"} : Attr(FlowOf[FileAt[ref]].header, end) # <<>>

Failed == [ok |-> FALSE]

\* appendPrefixed
PrefixNodes(w, by) == [i \in DOMAIN w.nodes |-> [w.nodes[i] EXCEPT !.id = Prefixed(@, by)]]
PrefixEdges(w, by) ==
    [i \in DOMAIN w.edges |-> [w.edges[i] EXCEPT !.from = Prefixed(@, by), !.to = Prefixed(@, by)]]

(* children maps the places of w's subgraphs to their workflows, flat.     *)
\* Plausible mistake: what leads into a subgraph leads to its exit.
RewiredSwapped(id, end, w, children) ==
    LET at == {i \in DOMAIN children : w.nodes[i].id = id}
    IN  IF at = {} THEN id
        ELSE Prefixed(children[Max(at)].header[IF end = "start" THEN "exit" ELSE "start"], id)

(* What the end of an edge, the start or the exit stands for: where it is  *)
(* a subgraph, the child's start (for what leads in) or exit (out).        *)
Rewired(id, end, w, children) ==
    LET at == {i \in DOMAIN children : w.nodes[i].id = id}
    IN  IF at = {} THEN id ELSE Prefixed(children[Max(at)].header[end], id)

\* newOutputWorkflow, which does not copy two fields, and rewriteStartExit
RewriteEnds(w, children) ==
    [key \in DOMAIN w.header \ {"requires", "spec"} |->
        IF key \in {"start", "exit"} THEN Rewired(w.header[key], key, w, children)
        ELSE w.header[key]]

(* One level: the children take the places of their nodes.  Their edges    *)
(* come first; the parent's follow, with new ends.                         *)
Splice(w, children) ==
    LET nodesAt(i) == IF i \in DOMAIN children THEN PrefixNodes(children[i], w.nodes[i].id)
                      ELSE <<w.nodes[i]>>
        edgesAt(i) == IF i \in DOMAIN children THEN PrefixEdges(children[i], w.nodes[i].id)
                      ELSE <<>>
        rewire(e) == [e EXCEPT !.to = Rewired(@, "start", w, children),
                               !.from = Rewired(@, "exit", w, children)]
    IN  [w EXCEPT
            !.header = RewriteEnds(w, children),
            !.nodes = FlattenSeq([i \in DOMAIN @ |-> nodesAt(i)]),
            !.edges = FlattenSeq([i \in DOMAIN w.nodes |-> edgesAt(i)])
                      \o [i \in DOMAIN @ |-> rewire(@[i])]]

(* flattenRecursive.  seen holds the refs under way, as they are written.  *)
RECURSIVE FlattenAt(_, _, _)
FlattenAt(w, depth, seen) ==
    LET child(ref) == IF ref \in seen \/ ~Resolves(ref) THEN Failed
                      ELSE FlattenAt(FlowOf[FileAt[ref]], depth + 1, seen \cup {ref})
        children == [i \in {j \in DOMAIN w.nodes : Inlined(w.nodes[j])} |->
                        child(RefOf(w.nodes[i]))]
    IN  IF DOMAIN children = {} /\ depth < MaxDepth THEN [ok |-> TRUE, flow |-> w]
        ELSE IF depth >= MaxDepth THEN Failed
        ELSE IF \E i \in DOMAIN children : ~children[i].ok THEN Failed
        ELSE [ok |-> TRUE, flow |-> Splice(w, [i \in DOMAIN children |-> children[i].flow])]

\* Flatten
FlattenWorkflow(w) == FlattenAt(w, 0, {})

-----------------------------------------------------------------------------
(***************************************************************************)
(* What inlining promises: whoever walks the flat graph from start to exit *)
(* walks each workflow of the family from its start to its exit.  Ways are *)
(* along explicit edges.                                                   *)
(***************************************************************************)
RECURSIVE Reach(_, _, _)
Reach(w, from, open) ==
    LET next == {e.to : e \in {f \in ToSet(w.edges) : f.from \in from}} \cap open
    IN  IF next \subseteq from THEN from ELSE Reach(w, from \cup next, open)

(* The exit can be reached from the start through nodes that let a walk    *)
(* through: all but the subgraphs whose own exit cannot be reached.        *)
RECURSIVE Passable(_)
Passable(w) ==
    LET open == {n.id : n \in {m \in ToSet(w.nodes) :
                                  Inlined(m) => Passable(FlowOf[FileAt[RefOf(m)]])}}
    IN  /\ w.header["start"] \in open
        /\ w.header["exit"] \in Reach(w, {w.header["start"]}, open)

DistinctIDs(w) == \A i, j \in DOMAIN w.nodes : w.nodes[i].id = w.nodes[j].id => i = j

=============================================================================
