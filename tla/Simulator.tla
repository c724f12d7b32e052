----------------------------- MODULE Simulator ------------------------------
(***************************************************************************)
(* One run of simulate.Run (simulate/simulate.go, parallel.go, defaults.go *)
(* and interactive.go): a walk of the workflow from Start that picks one   *)
(* outgoing edge per node by label, condition and visit count, walks the   *)
(* branches of a parallel node one after the other on the same context,    *)
(* and stops at Exit, at a dead end, at an error or at the step limit.     *)
(*                                                                         *)
(* The run is sequential.  One action is one turn of the main loop or of   *)
(* the branch loop, so that the places where the two loops test the step   *)
(* budget and the join stay apart.                                         *)
(***************************************************************************)
EXTENDS Workflow, Integers

CONSTANTS
    Workflows,      \* the workflows the run may be given
    OptionsFor(_),  \* OptionsFor(w): the simulate.Options it may be given with w
    CtxKeys,        \* the context keys conditions and defaults speak of
    CtxValues,      \* their values, NotSet among them
    NotSet,         \* what stands for a key the context does not have
    Responses,      \* what a person may type at a prompt
    MaxSteps,       \* maxSteps, 500 in the code
    NoBranch,       \* between two branches
    Holds(_, _)     \* Holds(cond, ctx): evalCondition

ASSUME MaxStepsAssumption == MaxSteps \in Nat \ {0}

ASSUME KeysAssumption ==
    {"outcome", "tool_stdout", "preferred_label", "human_response"} \subseteq CtxKeys

ASSUME ValuesAssumption == {"", "success", NotSet} \cup Responses \subseteq CtxValues

NodeRecords ==
    [id : STRING, kind : STRING, targets : Seq(STRING), sources : Seq(STRING),
     autoStatus : BOOLEAN, mode : STRING, answersKey : STRING, default : CtxValues]

ASSUME WorkflowsAssumption ==
    \A w \in Workflows :
        /\ w.nodes \in Seq(NodeRecords)
        /\ w.edges \in Seq(Range(w.edges)) /\ \A e \in Range(w.edges) : e.to \in STRING

\* (That NoNode is a string, too, the provers do not see.)
ASSUME NoBranchAssumption == NoBranch \notin STRING \cup {NoNode}

ASSUME OptionsAssumption ==
    \A w \in Workflows : \A o \in OptionsFor(w) :
        /\ o.maxNodeVisits \in Int
        /\ \A k \in DOMAIN o.global : o.global[k] \in CtxValues
        /\ \A id \in DOMAIN o.perNode :
              \A k \in DOMAIN o.perNode[id] : o.perNode[id][k] \in CtxValues

(* Options: global and perNode are Scenario's "key" and "NodeID.key"       *)
(* entries; a per-node value "" deletes the key.  branch is the set of IDs *)
(* that Branch maps to true.                                               *)
Options(global, perNode, maxNodeVisits, branch, interactive) ==
    [global |-> global, perNode |-> perNode, maxNodeVisits |-> maxNodeVisits,
     branch |-> branch, interactive |-> interactive]

VARIABLES
    wf, opts,       \* the inputs
    ctx,            \* simulator.ctx
    nodeVisits,     \* simulator.nodeVisits
    path,           \* simulator.path; its range is simulator.visited
    steps,          \* simulator.steps
    events,         \* simulator.events, without context updates
    pc,             \* which loop runs: "start", "main", "branch" or "done"
    current,        \* the main loop's node
    branchAt,       \* the branch loop's node, NoBranch between two branches
    pending,        \* the targets whose branches are still to be walked
    join,           \* joinID of the parallel node being walked
    status          \* Result.Status; "error" when Run returns an error

vars == <<wf, opts, ctx, nodeVisits, path, steps, events,
          pc, current, branchAt, pending, join, status>>

inputs == <<wf, opts>>
loops  == <<pc, current, branchAt, pending, join, status>>

-----------------------------------------------------------------------------
(* Context: scenario values, node defaults, human answers                  *)

PerNode(n) == IF n.id \in DOMAIN opts.perNode THEN opts.perNode[n.id] ELSE <<>>

\* Mutant: only the node's own entries count.
ScriptedAtNode(n, key) == key \in DOMAIN PerNode(n)

\* scenarioHasKey
Scripted(n, key) == key \in DOMAIN opts.global \/ key \in DOMAIN PerNode(n)

\* applyNodeScenario
Injected(value) == IF value = "" THEN NotSet ELSE value

\* The defaults a node of this kind writes.
DefaultKeys(n) ==
    IF n.kind = "tool" THEN {"tool_stdout", "outcome"}
    ELSE IF n.kind = "agent" /\ n.autoStatus THEN {"outcome"} ELSE {}

NodeDefaults(c, n) ==
    [k \in DOMAIN c |->
        IF k \in DefaultKeys(n) /\ ~Scripted(n, k) THEN "success"
        ELSE IF k \in DOMAIN PerNode(n) THEN Injected(PerNode(n)[k]) ELSE c[k]]

Prompts(n) == n.kind = "human" /\ opts.interactive

\* A choice prompt reads one line, or takes the node's default at the end of
\* the input; an interview also fills the node's answers key.
AnswersKey(n) == IF n.answersKey = "" THEN "interview_answers" ELSE n.answersKey

Answered(c, n, r) ==
    [k \in DOMAIN c |->
        IF k = "human_response" \/ (n.mode = "interview" /\ k = AnswersKey(n)) THEN r ELSE c[k]]

\* Every context visitNode can leave behind.
ContextsAfterVisit(c, n) ==
    IF n.kind \in {"parallel", "fan_in"} THEN {c}
    ELSE IF ~Prompts(n) THEN {NodeDefaults(c, n)}
    ELSE {Answered(NodeDefaults(c, n), n, r) :
             r \in Responses \cup (IF n.mode = "interview" THEN {""} ELSE {n.default})}

-----------------------------------------------------------------------------
(* Choosing the next edge                                                  *)

NoEdge == Edge(NoNode, NoNode, NoCond, {})

Immediate(edges) == Len(edges) = 1 /\ edges[1].cond = NoCond

\* resolveByLabel consults the label, and clears it, only at a human node
\* that has a choice to make.
AsksLabel(n, edges, c) ==
    /\ n.kind = "human"
    /\ edges # <<>> /\ ~Immediate(edges)
    /\ c["preferred_label"] \notin {"", NotSet}

Labelled(edges, c) == {i \in DOMAIN edges : c["preferred_label"] \in edges[i].label}

\* Mutant: the limit is reached, not exceeded.
BreaksAtLimit(n, edges, c, visits) ==
    /\ edges # <<>> /\ ~Immediate(edges)
    /\ ~(AsksLabel(n, edges, c) /\ Labelled(edges, c) # {})
    /\ opts.maxNodeVisits > 0
    /\ visits >= opts.maxNodeVisits

\* shouldBreakLoop, reached only when no label decides.
Breaks(n, edges, c, visits) ==
    /\ edges # <<>> /\ ~Immediate(edges)
    /\ ~(AsksLabel(n, edges, c) /\ Labelled(edges, c) # {})
    /\ opts.maxNodeVisits > 0
    /\ visits > opts.maxNodeVisits

\* Mutant: the label is cleared only when an edge matched it.
AfterLabelIfMatched(n, edges, c) ==
    IF AsksLabel(n, edges, c) /\ Labelled(edges, c) # {} THEN [c EXCEPT !["preferred_label"] = NotSet] ELSE c

AfterLabel(n, edges, c) ==
    IF AsksLabel(n, edges, c) THEN [c EXCEPT !["preferred_label"] = NotSet] ELSE c

\* The passes over the edges, in order: the label, then the conditional edges
\* (those that hold; those that do not when a loop is broken), then the
\* unconditional ones, then any edge.
Rank(n, edges, i, c, visits) ==
    IF AsksLabel(n, edges, c) /\ i \in Labelled(edges, c) THEN 0
    ELSE IF edges[i].cond = NoCond THEN 2
    ELSE IF Holds(edges[i].cond, AfterLabel(n, edges, c)) # Breaks(n, edges, c, visits) THEN 1
    ELSE 3

\* resolveNext: the first edge of the first pass that finds one.
ChosenEdge(n, edges, c, visits) ==
    IF edges = <<>> THEN NoEdge
    ELSE edges[CHOOSE i \in DOMAIN edges : \A j \in DOMAIN edges :
                   \/ Rank(n, edges, i, c, visits) < Rank(n, edges, j, c, visits)
                   \/ Rank(n, edges, i, c, visits) = Rank(n, edges, j, c, visits) /\ i <= j]

-----------------------------------------------------------------------------
(* Events                                                                  *)

NodeEvent(kind, id) == [event |-> kind, node |-> id]
TraverseEvent(e)    == [event |-> "edge_traverse", from |-> e.from, to |-> e.to]
EndEvent(s, n)      == [event |-> "pipeline_end", status |-> s, visited |-> n]

\* Mutant: a parallel node is never left in the log.
VisitEventsNoForkExit(n) ==
    IF n.kind = "parallel"
    THEN <<NodeEvent("node_enter", n.id), NodeEvent("parallel_start", n.id)>>
    ELSE <<NodeEvent("node_enter", n.id), NodeEvent("node_exit", n.id)>>

VisitEvents(n) ==
    LET special == IF n.kind = "parallel" THEN <<NodeEvent("parallel_start", n.id)>>
                   ELSE IF n.kind = "fan_in" THEN <<NodeEvent("parallel_end", n.id)>> ELSE <<>>
    IN  <<NodeEvent("node_enter", n.id)>> \o special \o <<NodeEvent("node_exit", n.id)>>

RouteEvents(n, edges, c, visits) ==
    (IF Breaks(n, edges, c, visits) THEN <<NodeEvent("loop_break", n.id)>> ELSE <<>>)
    \o (IF edges = <<>> THEN <<>> ELSE <<TraverseEvent(ChosenEdge(n, edges, c, visits))>>)

-----------------------------------------------------------------------------
(* Parallel nodes                                                          *)

\* selectBranches
SelectedBranches(targets) ==
    LET named == Keep(targets, {i \in DOMAIN targets : targets[i] \in opts.branch})
    IN  IF named = <<>> THEN targets ELSE named

\* findJoinNode: the first fan_in whose sources are all targets.
JoinOf(w, targets) ==
    LET joins == IDsWhere(w, LAMBDA n : /\ n.kind = "fan_in"
                                        /\ n.sources # <<>>
                                        /\ Range(n.sources) \subseteq Range(targets))
    IN  IF joins = <<>> THEN NoNode ELSE Head(joins)

-----------------------------------------------------------------------------
(* The run                                                                 *)

Init ==
    /\ wf \in Workflows
    /\ opts \in OptionsFor(wf)
    /\ ctx = [k \in CtxKeys |-> IF k \in DOMAIN opts.global THEN opts.global[k] ELSE NotSet]
    /\ nodeVisits = [id \in NodeIDs(wf) |-> 0]
    /\ path = <<>> /\ steps = 0 /\ events = <<>>
    /\ pc = "start" /\ status = "running"
    /\ current = wf.start
    /\ branchAt = NoBranch /\ pending = <<>> /\ join = NoNode

Finish(s, log, trail) ==
    /\ pc' = "done" /\ status' = s
    /\ events' = Append(log, EndEvent(s, Cardinality(Range(trail))))
    /\ UNCHANGED <<current, branchAt, pending, join>>

\* Run returns an error and no Result: what it had collected is lost.
Fail ==
    /\ pc' = "done" /\ status' = "error"
    /\ UNCHANGED <<inputs, ctx, nodeVisits, path, steps, events,
                   current, branchAt, pending, join>>

\* validateSimInput and EnsureConditionsParsed, then pipeline_start.
Start ==
    /\ pc = "start"
    /\ IF {wf.start, wf.exit} \subseteq NodeIDs(wf) \ {NoNode} /\ ConditionsParse(wf)
       THEN /\ pc' = "main"
            /\ events' = <<[event |-> "pipeline_start"]>>
            /\ UNCHANGED <<inputs, ctx, nodeVisits, path, steps,
                           current, branchAt, pending, join, status>>
       ELSE Fail

\* The part of visitNode both loops share.
Visit(n) ==
    /\ nodeVisits' = [nodeVisits EXCEPT ![n.id] = @ + 1]
    /\ path' = Append(path, n.id)

\* Both loops look the node up; an edge may name a node that does not exist.
UnknownNode ==
    /\ \/ pc = "main"   /\ steps < MaxSteps /\ current \notin NodeIDs(wf)
       \/ pc = "branch" /\ steps < MaxSteps /\ branchAt \notin NodeIDs(wf) \cup {NoBranch, join}
    /\ Fail

\* Reading the answer fails.
PromptError ==
    /\ steps < MaxSteps
    /\ \/ pc = "main"   /\ current \in NodeIDs(wf) /\ Prompts(NodeOf(wf, current))
       \/ /\ pc = "branch" /\ branchAt \in NodeIDs(wf) /\ branchAt # join
          /\ Prompts(NodeOf(wf, branchAt))
    /\ Fail

\* The main loop visits Exit and the run succeeds.
ReachExit ==
    /\ pc = "main" /\ steps < MaxSteps
    /\ current = wf.exit
    /\ LET n == NodeOf(wf, current)
       IN  /\ Visit(n)
           /\ ctx' \in ContextsAfterVisit(ctx, n)
           /\ Finish("success", events \o VisitEvents(n), path')
    /\ UNCHANGED <<inputs, steps>>

\* The main loop visits a parallel node and starts on its branches.
Fork ==
    /\ pc = "main" /\ steps < MaxSteps
    /\ current \in NodeIDs(wf) \ {wf.exit}
    /\ LET n == NodeOf(wf, current)
       IN  /\ n.kind = "parallel"
           /\ Visit(n)
           /\ events' = events \o VisitEvents(n)
           /\ pc' = "branch"
           /\ pending' = SelectedBranches(n.targets)
           /\ join' = JoinOf(wf, n.targets)
    /\ UNCHANGED <<inputs, ctx, steps, current, branchAt, status>>

\* The main loop visits any other node and moves along the edge it chooses.
\* Without an edge the run stops; so it does at an edge to "", which only a
\* quoted name can be, since "" is "no node" to the loop.
\* (n, edges and visits are bound by \E, as values: TLC expands a LET anew
\* wherever it is used when it asks whether an action is enabled.)
Advance ==
    /\ pc = "main" /\ steps < MaxSteps
    /\ current \in NodeIDs(wf) \ {wf.exit}
    /\ \E n \in {NodeOf(wf, current)}, edges \in {EdgesFrom(wf, current)}, visits \in {nodeVisits[current] + 1} :
         /\ n.kind # "parallel"
         /\ Visit(n)
         /\ \E c \in ContextsAfterVisit(ctx, n) :
              LET log == events \o VisitEvents(n) \o RouteEvents(n, edges, c, visits)
              IN  /\ ctx' = AfterLabel(n, edges, c)
                  /\ IF ChosenEdge(n, edges, c, visits).to = NoNode
                     THEN Finish("dead_end", log, path') /\ UNCHANGED steps
                     ELSE /\ current' = ChosenEdge(n, edges, c, visits).to
                          /\ events' = log
                          /\ steps' = steps + 1
                          /\ UNCHANGED <<pc, branchAt, pending, join, status>>
    /\ UNCHANGED inputs

NextBranch ==
    /\ pc = "branch" /\ branchAt = NoBranch /\ pending # <<>>
    /\ branchAt' = Head(pending)
    /\ pending' = Tail(pending)
    /\ UNCHANGED <<inputs, ctx, nodeVisits, path, steps, events, pc, current, join, status>>

\* A branch ends where no edge leads on.
EndOr(id) == IF id = NoNode THEN NoBranch ELSE id

\* Mutant: the steps of a branch are not counted.
BranchStepUncounted ==
    /\ pc = "branch" /\ steps < MaxSteps
    /\ branchAt \in NodeIDs(wf) \ {join}
    /\ \E n \in {NodeOf(wf, branchAt)}, edges \in {EdgesFrom(wf, branchAt)}, visits \in {nodeVisits[branchAt] + 1} :
         /\ Visit(n)
         /\ \E c \in ContextsAfterVisit(ctx, n) :
              /\ ctx' = AfterLabel(n, edges, c)
              /\ events' = events \o VisitEvents(n) \o RouteEvents(n, edges, c, visits)
              /\ branchAt' = EndOr(ChosenEdge(n, edges, c, visits).to)
    /\ UNCHANGED <<inputs, steps, pc, current, pending, join, status>>

\* One turn of walkBranchToJoin.  A parallel node met here is visited and left
\* by an edge like any other node.
BranchStep ==
    /\ pc = "branch" /\ steps < MaxSteps
    /\ branchAt \in NodeIDs(wf) \ {join}
    /\ \E n \in {NodeOf(wf, branchAt)}, edges \in {EdgesFrom(wf, branchAt)}, visits \in {nodeVisits[branchAt] + 1} :
         /\ Visit(n)
         /\ \E c \in ContextsAfterVisit(ctx, n) :
              /\ ctx' = AfterLabel(n, edges, c)
              /\ events' = events \o VisitEvents(n) \o RouteEvents(n, edges, c, visits)
              /\ branchAt' = EndOr(ChosenEdge(n, edges, c, visits).to)
    /\ steps' = steps + 1
    /\ UNCHANGED <<inputs, pc, current, pending, join, status>>

\* Mutant: the first branch to reach the join ends the fan-out.
BranchArrivesFirst ==
    /\ pc = "branch" /\ steps < MaxSteps
    /\ branchAt = join
    /\ branchAt' = NoBranch /\ pending' = <<>>
    /\ UNCHANGED <<inputs, ctx, nodeVisits, path, steps, events, pc, current, join, status>>

BranchArrives ==
    /\ pc = "branch" /\ steps < MaxSteps
    /\ branchAt = join
    /\ branchAt' = NoBranch
    /\ UNCHANGED <<inputs, ctx, nodeVisits, path, steps, events, pc, current, pending, join, status>>

\* Mutant: a branch that ran into Exit ends the run.
RejoinUnlessExited ==
    /\ pc = "branch" /\ branchAt = NoBranch /\ pending = <<>>
    /\ IF join = NoNode \/ wf.exit \in Range(path)
       THEN Finish(IF join = NoNode THEN "dead_end" ELSE "success", events, path) /\ UNCHANGED steps
       ELSE /\ current' = join
            /\ pc' = "main" /\ join' = NoNode
            /\ steps' = steps + 1
            /\ UNCHANGED <<events, branchAt, pending, status>>
    /\ UNCHANGED <<inputs, ctx, nodeVisits, path>>

\* Mutant: any fan_in will do.
RejoinAnywhere ==
    /\ pc = "branch" /\ branchAt = NoBranch /\ pending = <<>>
    /\ current' = Head(IDsWhere(wf, LAMBDA n : n.kind = "fan_in"))
    /\ pc' = "main" /\ join' = NoNode
    /\ steps' = steps + 1
    /\ UNCHANGED <<inputs, ctx, nodeVisits, path, events, branchAt, pending, status>>

\* All branches are walked: go on at the join, or stop where there is none.
Rejoin ==
    /\ pc = "branch" /\ branchAt = NoBranch /\ pending = <<>>
    /\ IF join = NoNode
       THEN Finish("dead_end", events, path) /\ UNCHANGED steps
       ELSE /\ current' = join
            /\ pc' = "main" /\ join' = NoNode
            /\ steps' = steps + 1
            /\ UNCHANGED <<events, branchAt, pending, status>>
    /\ UNCHANGED <<inputs, ctx, nodeVisits, path>>

\* Mutant: the branch loop has no exit for a spent budget.
StepLimitMainOnly ==
    /\ steps >= MaxSteps
    /\ pc = "main"
    /\ Fail

\* Either loop finds the budget spent; the branch loop even at its join.
StepLimit ==
    /\ steps >= MaxSteps
    /\ pc = "main" \/ (pc = "branch" /\ branchAt # NoBranch)
    /\ Fail

Next ==
    \/ Start \/ UnknownNode \/ PromptError
    \/ ReachExit \/ Fork \/ Advance
    \/ NextBranch \/ BranchStep \/ BranchArrives \/ Rejoin
    \/ StepLimit

\* The loops run on their own goroutine and never wait.
Spec == Init /\ [][Next]_vars /\ WF_vars(Next)

-----------------------------------------------------------------------------
(* Properties                                                              *)

Statuses == {"running", "success", "dead_end", "error"}

(* Types of the run's state.  current and branchAt may name a node the     *)
(* workflow does not have; path may not.                                   *)
TypeOK ==
    /\ wf \in Workflows /\ opts \in OptionsFor(wf)
    /\ ctx \in [CtxKeys -> CtxValues]
    /\ nodeVisits \in [NodeIDs(wf) -> Nat]
    /\ path \in Seq(NodeIDs(wf))
    /\ steps \in Nat
    /\ pc \in {"start", "main", "branch", "done"}
    /\ status \in Statuses
    /\ (pc = "done") = (status # "running")

(* The step budget (simulate.go:146 "safety valve against infinite loops") *)
(* bounds the work of both loops together: main steps are counted after    *)
(* the branches they start and a branch may spend the last step, yet no    *)
(* run visits more than MaxSteps + 1 nodes.                                *)
StepBudget ==
    /\ steps <= MaxSteps + 1
    /\ Len(path) <= MaxSteps + 1
    /\ pc = "main" => Len(path) = steps
    /\ pc = "branch" => Len(path) = steps + 1

Occurrences(id) == {i \in DOMAIN path : path[i] = id}

(* The visit counter that breaks loops counts what the path shows, across  *)
(* the main loop and the branches.                                         *)
VisitsMatchPath == \A id \in NodeIDs(wf) : nodeVisits[id] = Cardinality(Occurrences(id))

(* A loop is broken only at a node that the walk, the main loop's and the  *)
(* branches' together, has entered more often than MaxNodeVisits allows.   *)
BreaksAreEarned ==
    \A i \in DOMAIN events : events[i].event = "loop_break" =>
        /\ opts.maxNodeVisits > 0
        /\ Cardinality({j \in 1..i : events[j] = NodeEvent("node_enter", events[i].node)})
              > opts.maxNodeVisits

(* A run that reports success ended at Exit, one that reports a dead end   *)
(* stopped where no edge leads on, or one to no name, or where a fan-out   *)
(* has no join.                                                            *)
AtJoinlessFork ==
    /\ current \in NodeIDs(wf)
    /\ NodeOf(wf, current).kind = "parallel"
    /\ JoinOf(wf, NodeOf(wf, current).targets) = NoNode

LeadsNowhere(id) == \E e \in Range(EdgesFrom(wf, id)) : e.to = NoNode

StatusIsEarned ==
    /\ status = "success" => path # <<>> /\ Last(path) = wf.exit
    /\ status = "dead_end" =>
          \/ path # <<>> /\ (EdgesFrom(wf, Last(path)) = <<>> \/ LeadsNowhere(Last(path)))
          \/ AtJoinlessFork

(* Where a walk may go after its i-th node: along an edge of that node     *)
(* (explicit or implied), from a fork to one of its targets, and from the  *)
(* end of a branch to another target or to the join of an earlier fork.    *)
ForkedBefore(i) == {path[k] : k \in {j \in 1..i : TargetsOf(wf, path[j]) # <<>>}}

Continues(i, id) ==
    \/ \E e \in Range(EdgesFrom(wf, path[i])) : e.to = id
    \/ \E f \in ForkedBefore(i) :
          id \in Range(TargetsOf(wf, f)) \cup {JoinOf(wf, TargetsOf(wf, f))}

PathFollowsGraph == \A i \in 1..(Len(path) - 1) : Continues(i, path[i + 1])

(* "For parallel nodes, all branches are walked before continuing to the   *)
(* join" (simulate.go:194): between a parallel node and the next visit of  *)
(* its join, every selected target is visited.  Not so for a parallel node *)
(* met inside a branch: walkBranchToJoin leaves it by an edge.             *)
WalkedBetween(i, k) == {path[j] : j \in (i + 1)..(k - 1)}
JoinAfter(i) == JoinOf(wf, TargetsOf(wf, path[i]))

InsideBranch(i) ==
    \E h \in 1..(i - 1) : TargetsOf(wf, path[h]) # <<>> /\ JoinAfter(h) \notin WalkedBetween(h, i + 1)

BranchesWalkedBeforeJoin ==
    \A i, k \in DOMAIN path :
        (/\ TargetsOf(wf, path[i]) # <<>> /\ ~InsideBranch(i)
         /\ i < k /\ path[k] = JoinAfter(i) /\ JoinAfter(i) \notin WalkedBetween(i, k))
        => Range(SelectedBranches(TargetsOf(wf, path[i]))) \ {JoinAfter(i)} \subseteq WalkedBetween(i, k)

\* An interview at n stores its answers under the key k.
AnswersUnder(n, k) == Prompts(n) /\ n.mode = "interview" /\ AnswersKey(n) = k

(* "Scenario values always take precedence over node defaults"             *)
(* (defaults.go:45): a default never replaces a value the scenario gave    *)
(* globally, however many nodes ran since.                                 *)
ScenarioPrevails ==
    \A k \in {"outcome", "tool_stdout"} \cap DOMAIN opts.global :
        \/ ctx[k] = opts.global[k]
        \/ \E id \in Range(path) :
              \/ AnswersUnder(NodeOf(wf, id), k)
              \/ /\ id \in DOMAIN opts.perNode /\ k \in DOMAIN opts.perNode[id]
                 /\ ctx[k] = Injected(opts.perNode[id][k])

(* "Clear preferred_label so it doesn't leak to downstream human nodes"    *)
(* (simulate.go:298): once a human node had a choice to make, no later     *)
(* node sees the label, unless the scenario sets it again at a node or an  *)
(* interview stores its answers there.                                     *)
LabelSpentOnce ==
    (/\ \A id \in DOMAIN opts.perNode : "preferred_label" \notin DOMAIN opts.perNode[id]
     /\ \A n \in Range(wf.nodes) : ~AnswersUnder(n, "preferred_label")
     /\ \E i \in DOMAIN path :
           /\ NodeOf(wf, path[i]).kind = "human" /\ path[i] # wf.exit
           /\ EdgesFrom(wf, path[i]) # <<>> /\ ~Immediate(EdgesFrom(wf, path[i])))
    => ctx["preferred_label"] \in {"", NotSet}

(* The event log tells what the run did: enter and exit events pair up,    *)
(* one pair per visit in the order of the path, an edge event leaves the   *)
(* node that was exited last, and the last event of a run that did not     *)
(* fail reports its status and the number of distinct nodes.               *)
OfKind(log, kind) == Keep(log, {i \in DOMAIN log : log[i].event = kind})
NodesOf(evs) == [i \in DOMAIN evs |-> evs[i].node]

EventsMatchPath ==
    /\ NodesOf(OfKind(events, "node_enter")) = path
    /\ NodesOf(OfKind(events, "node_exit")) = path
    /\ \A i \in DOMAIN events : events[i].event = "edge_traverse" =>
          LET exits == {j \in 1..i : events[j].event = "node_exit"}
          IN  exits # {} /\ events[Max(exits)].node = events[i].from
    /\ status \in {"success", "dead_end"} =>
          Last(events) = EndEvent(status, Cardinality({id \in NodeIDs(wf) : nodeVisits[id] > 0}))

(* Every run ends, whatever cycles the graph has.                          *)
Termination == <>(pc = "done")

=============================================================================
