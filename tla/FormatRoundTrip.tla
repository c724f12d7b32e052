-------------------------- MODULE FormatRoundTrip ---------------------------
(***************************************************************************)
(* dippin fmt --write (cmd/dippin/cmd_fmt.go), run twice on one file: the  *)
(* file is lexed, parsed, and written back formatted, unless the parser    *)
(* complains.  What was in the file must still be there, and the second    *)
(* run must find nothing to change.                                        *)
(***************************************************************************)
EXTENDS DippinParser, FormatLimits

CONSTANT Documents      \* the files people write, as sequences of lines

ASSUME DocumentsAssumption == \A d \in Documents : d \in Seq([ind : Nat, t : Seq(STRING)])

VARIABLES
    phase,      \* "running", "done", or "refused" when the parser complained
    runs        \* of each run so far: what it read, and what it wrote

vars == <<lines, at, stack, toks, pos, ctx, wf, node, part, diags, phase, runs>>

MaxRuns == 2

Init ==
    /\ \E d \in Documents : LexInit(d)
    /\ ParseInit
    /\ phase = "running"
    /\ runs = <<>>

ReadFile == ReadStep /\ UNCHANGED <<phase, runs>>

Run == [read |-> lines, flow |-> wf, wrote |-> Format(wf)]

(* The file is replaced by the formatted text, and read again.             *)
WriteBack ==
    /\ phase = "running" /\ Parsed /\ diags = {} /\ Len(runs) + 1 < MaxRuns
    /\ runs' = Append(runs, Run)
    /\ lines' = Format(wf) /\ at' = 1 /\ stack' = <<0>> /\ toks' = <<>>
    /\ pos' = 1 /\ ctx' = <<"file">> /\ wf' = EmptyWorkflow
    /\ node' = NewNode("", <<>>) /\ part' = None
    /\ UNCHANGED <<diags, phase>>

Finish ==
    /\ phase = "running" /\ Parsed /\ diags = {} /\ Len(runs) + 1 = MaxRuns
    /\ runs' = Append(runs, Run)
    /\ phase' = "done"
    /\ UNCHANGED <<lines, at, stack, toks, pos, ctx, wf, node, part, diags>>

Refuse ==
    /\ phase = "running" /\ Parsed /\ diags # {}
    /\ phase' = "refused"
    /\ UNCHANGED <<lines, at, stack, toks, pos, ctx, wf, node, part, diags, runs>>

Ended == phase # "running" /\ UNCHANGED vars

Next == ReadFile \/ WriteBack \/ Finish \/ Refuse \/ Ended

Spec == Init /\ [][Next]_vars

-----------------------------------------------------------------------------
(* Formatting keeps the workflow: of one whose texts can be carried, every *)
(* node, edge, section and field comes back from the formatted file, but   *)
(* for the fields no line is written for and parts of seconds; and the     *)
(* second run writes what the first one wrote (formatter/format.go:18,     *)
(* parser/parser.go:32).                                                   *)
RoundTripKeeps ==
    /\ phase = "done" /\ Carried(runs[1].flow) =>
          /\ [runs[2].flow EXCEPT !.stylesheet = ToSet(@)] = Kept(runs[1].flow)
          /\ runs[2].wrote = runs[1].wrote
    /\ phase = "refused" /\ runs # <<>> => ~Carried(runs[1].flow)

(* A file that is accepted loses nothing out of the middle: without a      *)
(* diagnostic, the nodes and the edges of the workflow are those the file  *)
(* declares, in the order of the file, up to a point, and with the first   *)
(* edge come all nodes declared before it.  That the end may be cut off is *)
(* the code's doing: a line too far left or right ends the body, and what  *)
(* follows is passed over (parser/parser.go:43, 68).                       *)
Declares(line) ==
    Len(line.t) >= 3 /\ line.t[2] = " " /\ line.t[1] \in NodeKinds \cup {"parallel", "fan_in"}

Joins(line) == "->" \in ToSet(line.t) /\ line.t[1] # "parallel"

AcceptedInOrder ==
    phase = "running" /\ Parsed /\ diags = {} =>
        LET declared == SelectSeq(lines, Declares)
            joined == SelectSeq(lines, Joins)
        IN  /\ IsPrefix([i \in DOMAIN wf.nodes |-> wf.nodes[i].id],
                        [i \in DOMAIN declared |-> <<declared[i].t[3]>>])
            /\ IsPrefix([i \in DOMAIN wf.edges |-> <<wf.edges[i].from, wf.edges[i].to>>],
                        [i \in DOMAIN joined |-> << <<joined[i].t[1]>>, <<joined[i].t[5]>> >>])
            /\ wf.edges # <<>> =>
                   Len(wf.nodes) >= Len(SelectSeq(
                       SubSeq(lines, 1, SelectInSeq(lines, Joins) - 1), Declares))

=============================================================================
