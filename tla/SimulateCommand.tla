--------------------------- MODULE SimulateCommand --------------------------
(***************************************************************************)
(* dippin simulate (cmd/dippin/cmd_simulate.go): the workflow is validated *)
(* and, unless the validator found something, enumerated with --all-paths  *)
(* and simulated without.  A behaviour is one file given to both commands, *)
(* one after the other; the validator, which remembers nothing and would   *)
(* say the same twice, runs once.  dippin test validates and simulates the *)
(* same way, with a visit limit and selected branches, and checks what a   *)
(* test case expects; dippin coverage and dippin lint look at the same     *)
(* file.  The properties say what the parts mean to each other: which ends *)
(* of a run the validator, coverage and lint rule out, whether a run is one*)
(* of those the enumerator listed, and what a test says of its run.        *)
(***************************************************************************)
EXTENDS Simulator

CONSTANTS
    MaxDepth, MaxResults,           \* those of PathEnumerator
    Parsed(_), MarkerRouted(_),     \* those of LintReachability
    Resolved(_, _)                  \* Resolved(variable, ctx): resolveVariable

ASSUME LimitsAssumption == MaxDepth \in Nat /\ MaxResults \in Nat \ {0}

VARIABLES
    check, diags, queue, visited, stack, nextEdge, color, parent, reported,
    phase, trail, taken, tried, results

V == INSTANCE Validator WITH Candidates <- {}
E == INSTANCE PathEnumerator WITH Enumerated <- {}
C == INSTANCE Coverage
L == INSTANCE LintReachability
T == INSTANCE TestRunner

(* Lint reads the conditions the run evaluates: where it sees an equality, *)
(* what a variable resolves to is compared with a value (defaults.go       *)
(* evalCompare), and a comparison and its negation never agree             *)
(* (evalCondition).                                                        *)
ParsedConditions ==
    {c \in UNION {{e.cond : e \in Range(w.edges)} : w \in Workflows} : c # NoCond /\ c \notin Malformed}

ASSUME EqualitiesAssumption ==
    \A cond \in ParsedConditions : L!IsEquality(Parsed(cond)) =>
        \A c \in [CtxKeys -> CtxValues] :
            Holds(cond, c) = (Resolved(Parsed(cond).variable, c) = Parsed(cond).value)

ASSUME NegationsAssumption ==
    \A cond, neg \in ParsedConditions :
        (/\ L!IsComparison(Parsed(cond))
         /\ Parsed(neg).op = "not" /\ L!IsComparison(Parsed(neg).inner)
         /\ Parsed(neg).inner.op = Parsed(cond).op
         /\ Parsed(neg).inner.variable = Parsed(cond).variable
         /\ Parsed(neg).inner.value = Parsed(cond).value)
        => \A c \in [CtxKeys -> CtxValues] : Holds(neg, c) = ~Holds(cond, c)

validation == <<check, diags, queue, visited, stack, nextEdge, color, parent, reported>>
enumeration == <<phase, trail, taken, tried, results>>
run == <<opts, ctx, nodeVisits, path, steps, events, pc, current, branchAt, pending, join, status>>

CommandInit == Init /\ V!Fresh /\ E!Fresh

\* valRes.HasErrors(): DIP001 to DIP009 are errors, all of them.
HasErrors == diags # <<>>

Prepared == check = "done" /\ ~HasErrors

Validate == V!Next /\ UNCHANGED <<run, enumeration>>

SimulateAllPaths == Prepared /\ E!Next /\ UNCHANGED <<run, validation>>

SimulateSingle ==
    Prepared /\ phase \in {"done", "error"} /\ Next /\ UNCHANGED <<validation, enumeration>>

CommandNext == Validate \/ SimulateAllPaths \/ SimulateSingle

allVars == <<vars, validation, enumeration>>

\* One goroutine that never waits.
CommandSpec == CommandInit /\ [][CommandNext]_allVars /\ WF_allVars(CommandNext)

-----------------------------------------------------------------------------
(* Properties                                                              *)

(* The verdict of the validator, as soon as it is there (it stays): DIP004 *)
(* is exact, DIP005 breaks every cycle and names only cycles, and ...      *)
UnreachableIsExact == phase = "start" => V!UnreachableIsExact
CyclesAreExact == phase = "start" => V!CyclesAreExact

(* ... the enumerator's results, once it is done.                          *)
ResultsAreThePaths == phase = "done" /\ pc = "start" => E!ResultsAreThePaths

Forks == \E n \in Range(wf.nodes) : n.kind = "parallel"

\* A quoted "" is a name like any other to the validator; a run that comes to
\* it stops.
EmptyNames == NoNode \in NodeIDs(wf) \/ \E e \in Range(wf.edges) : e.to = NoNode

(* What may still go wrong after validation: an answer, the step limit, a  *)
(* condition, which the validator does not parse, a fan-out whose branches *)
(* it does not look up, and, for a dead end, a fan-out without targets.    *)
(* The walk never meets any other node that does not exist, and never      *)
(* looks for a join in vain, unless the join has the name "".              *)
FailuresAreExplained ==
    /\ status = "error" =>
          \/ opts.interactive \/ steps >= MaxSteps
          \/ ~ConditionsParse(wf)
          \/ \E n \in Range(wf.nodes) : ~(Range(n.targets) \subseteq NodeIDs(wf))
    /\ status = "dead_end" /\ AtJoinlessFork =>
          TargetsOf(wf, current) = <<>> \/ NoNode \in NodeIDs(wf)

(* Whatever the conditions, labels and visit limits make of a run without  *)
(* fan-outs, its path is one the enumerator listed, if it passes no node   *)
(* more than twice and the enumerator did not stop at its limits.          *)
Ended == status \in {"success", "dead_end"}
Announced == \E i \in DOMAIN results : results[i].nodes = path /\ results[i].status = status

RunsAreAnnounced ==
    (/\ Ended /\ Len(results) < MaxResults /\ Len(path) <= MaxDepth + 1
     /\ ~Forks /\ ~EmptyNames
     /\ \A id \in NodeIDs(wf) : nodeVisits[id] <= 2)
    => Announced

-----------------------------------------------------------------------------
(* What coverage and lint say of a validated workflow, and its runs        *)

(* A run that stops short of Exit stops at one of coverage's sinks, so a   *)
(* workflow of which it says that all paths terminate has no such run; and *)
(* no run without fan-outs gets away from a sink.                          *)
DeadEndsAreSinks ==
    /\ status = "dead_end" /\ ~AtJoinlessFork /\ ~EmptyNames => current \in C!SinkNodes(wf)
    /\ status = "success" /\ ~Forks => Range(path) \cap C!SinkNodes(wf) = {}

\* A run that took no restart edge came along the path that lint missed.
WithoutRestart ==
    \A ev \in Range(OfKind(events, "edge_traverse")) :
        \E e \in Range(EdgesFrom(wf, ev.from)) : e.to = ev.to /\ ~e.restart

SuccessHasPath == status = "success" /\ WithoutRestart => ~L!SuccessPathMissing(wf)

\* The node either loop is about to visit and to leave along an edge.
Leaving ==
    {id \in NodeIDs(wf) :
        \/ pc = "main" /\ id = current /\ id # wf.exit /\ NodeOf(wf, id).kind # "parallel"
        \/ pc = "branch" /\ id = branchAt /\ id # join}

\* Neither a label nor a condition decides, and there is no edge without one.
Forced(n, edges, c, visits) ==
    edges # <<>> /\ \A i \in DOMAIN edges : Rank(n, edges, i, c, visits) = 3

\* Lint is silent because the conditions list the values of a variable, and
\* the variable has another one when they are evaluated.
ValueNotListed(id, c) ==
    /\ L!CoversKnownSet(wf, id) \/ L!IsCompletePartition(wf, id)
    /\ \E v \in L!VariablesTested(wf, id) : Resolved(v, c) \notin L!ValuesOf(wf, id, v)

(* "Execution may get stuck at this node if no condition matches" (DIP102, *)
(* lint_reachability.go:119): where lint is silent a run that is not       *)
(* breaking a loop finds an edge that fits, unless lint took a list of     *)
(* values for complete that is not.                                        *)
ForcedOnlyWhereWarned ==
    \A id \in Leaving : \A c \in ContextsAfterVisit(ctx, NodeOf(wf, id)) :
        LET n == NodeOf(wf, id)
            edges == EdgesFrom(wf, id)
        IN  Forced(n, edges, c, nodeVisits[id] + 1) /\ ~Breaks(n, edges, c, nodeVisits[id] + 1)
            => \/ id \in L!DefaultEdgeMissing(wf) \/ MarkerRouted(n)
               \/ ValueNotListed(id, AfterLabel(n, edges, c))

(* No run of a validated workflow ends or gets stuck in a way that         *)
(* coverage and lint, which never run anything, said it would not.         *)
RunsAreForeseen == DeadEndsAreSinks /\ SuccessHasPath /\ ForcedOnlyWhereWarned

-----------------------------------------------------------------------------
(* dippin test *)

Result == [status |-> status, path |-> path]

NothingExpected ==
    [status |-> "", visited |-> {}, notVisited |-> {}, pathContains |-> <<>>, immediatelyAfter |-> <<>>]

InOrder(ids) == [NothingExpected EXCEPT !.pathContains = ids]
AtOnce(from, to) == [NothingExpected EXCEPT !.immediatelyAfter = [id \in {from} |-> to]]

\* Some choice of positions has the three IDs in order.
OccurInOrder(a, b, c) ==
    \E i \in Occurrences(a) : \E j \in Occurrences(b) : \E k \in Occurrences(c) : i < j /\ j < k

(* "Node IDs that must appear in order in the execution path", other nodes *)
(* between them (docs/testing.md:67): looking for each ID behind the one   *)
(* found before loses no path that has them.  A run that failed passes no  *)
(* case, not even one that expects nothing.  And without fan-outs, where   *)
(* one node follows another at once an edge between them is covered, and a *)
(* run that covers all edges visits all nodes.                             *)
TestsJudgeThePath ==
    pc = "done" /\ ~opts.interactive =>
        /\ T!Passed(Result, NothingExpected) = Ended
        /\ Ended => \A a, b, c \in NodeIDs(wf) :
                T!Passed(Result, InOrder(<<a, b, c>>)) = OccurInOrder(a, b, c)
        /\ Ended /\ ~Forks =>
                /\ \A e \in T!Uncovered(wf, events) : ~T!Passed(Result, AtOnce(e.from, e.to))
                /\ T!Uncovered(wf, events) = {} => Range(path) = NodeIDs(wf)

-----------------------------------------------------------------------------
(* The command comes to an end, whatever cycles the graph has: the         *)
(* depth-first searches of the validator and of the enumerator and the run.*)
CommandEnds == <>(pc = "done" \/ (check = "done" /\ HasErrors))

(* "findJoinNode locates the fan_in node whose sources match the given     *)
(* targets" (parallel.go:64), and the validator has seen to it that there  *)
(* is one: the branches meet at a join that waits for all of them.         *)
JoinWaitsForBranches ==
    pc = "branch" =>
        LET targets == TargetsOf(wf, current)
        IN  join # NoNode => Range(NodeOf(wf, join).sources) = Range(targets)

=============================================================================
