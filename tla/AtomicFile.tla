----------------------------- MODULE AtomicFile -----------------------------
(***************************************************************************)
(* What `dippin pack` promises of its output file (docs/cli.md:705 "File   *)
(* output is atomic"): callers replace a file as a whole.  A call settles  *)
(* what it means to write, installs that very value in one step or leaves  *)
(* the file alone, and reports success only if it installed.  A caller may *)
(* die at any time.                                                        *)
(***************************************************************************)
CONSTANTS
    Callers,    \* who writes
    Values,     \* what may be written
    Absent      \* no such file

VARIABLES
    content,    \* the file
    value,      \* value[p]: what p means to write
    call        \* call[p]: "idle", "working", "ready", "installed", "ok", "left" or "dead"

Init ==
    /\ content \in Values \cup {Absent}
    /\ value \in [Callers -> Values]
    /\ call = [p \in Callers |-> "idle"]

Move(p, from, to) == call[p] \in from /\ call' = [call EXCEPT ![p] = to]

Begin(p) == Move(p, {"idle", "ok", "left"}, "working") /\ UNCHANGED <<content, value>>

\* Once per call: nothing changes a value that is ready.
Settle(p) ==
    /\ Move(p, {"working"}, "ready")
    /\ \E v \in Values : value' = [value EXCEPT ![p] = v]
    /\ UNCHANGED content

Install(p) == Move(p, {"ready"}, "installed") /\ content' = value[p] /\ UNCHANGED value
Succeed(p) == Move(p, {"installed"}, "ok") /\ UNCHANGED <<content, value>>
Leave(p)   == Move(p, {"working", "ready"}, "left") /\ UNCHANGED <<content, value>>

\* Also after it has left: before it is done tidying up.
Die(p) == Move(p, {"working", "ready", "installed", "left"}, "dead") /\ UNCHANGED <<content, value>>

Next == \E p \in Callers : Begin(p) \/ Settle(p) \/ Install(p) \/ Succeed(p) \/ Leave(p) \/ Die(p)

Spec == Init /\ [][Next]_<<content, value, call>>

=============================================================================
