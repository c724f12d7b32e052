----------------------------- MODULE TestRunner -----------------------------
(***************************************************************************)
(* dippin test (testrunner/runner.go, testrunner/coverage.go): what a test *)
(* case expects of a run is checked against its result, and the edges of   *)
(* the workflow are checked off against the events of all cases.           *)
(*                                                                         *)
(* A result is [status, path]; an expectation is                           *)
(*    [status, visited, notVisited, pathContains, immediatelyAfter]        *)
(* where "" , {} and <<>> expect nothing and immediatelyAfter maps an ID to*)
(* an ID.  Positions count from 1, and 0 stands for "not found".           *)
(***************************************************************************)
EXTENDS Workflow, Integers

FindInPath(path, id, from) ==
    LET found == {i \in DOMAIN path : i >= from /\ path[i] = id}
    IN  IF found = {} THEN 0 ELSE Min(found)

\* Mutant: the search goes on where the last match was.
PathContainsAgain(path, expected) ==
    FoldLeft(LAMBDA at, id : IF at = 0 THEN 0 ELSE FindInPath(path, id, at), 1, expected) # 0

\* checkPathContains: at[k], where the search for the k-th ID starts.  The errors
\* after the first change nothing.
PathContains(path, expected) ==
    LET After(i, id) == IF i = 0 \/ FindInPath(path, id, i) = 0 THEN 0 ELSE FindInPath(path, id, i) + 1
        at[k \in 1..(Len(expected) + 1)] == IF k = 1 THEN 1 ELSE After(at[k - 1], expected[k - 1])
    IN  at[Len(expected) + 1] # 0

\* checkAdjacent: the first visit of from decides.
Adjacent(path, from, to) ==
    LET i == FindInPath(path, from, 1)
    IN  i # 0 /\ i < Len(path) /\ path[i + 1] = to

\* RunCase: a run that fails has no result, and no case passes on it.
Passed(result, expect) ==
    /\ result.status # "error"
    /\ expect.status \in {"", result.status}
    /\ expect.visited \subseteq Range(result.path)
    /\ expect.notVisited \cap Range(result.path) = {}
    /\ PathContains(result.path, expect.pathContains)
    /\ \A from \in DOMAIN expect.immediatelyAfter :
          Adjacent(result.path, from, expect.immediatelyAfter[from])

\* ComputeEdgeCoverage: edges are told apart by their ends alone.
Uncovered(w, events) ==
    LET traversed == {<<ev.from, ev.to>> : ev \in {x \in Range(events) : x.event = "edge_traverse"}}
    IN  {e \in Range(w.edges) : <<e.from, e.to>> \notin traversed}

=============================================================================
