---------------------------- MODULE DippinParser ----------------------------
(***************************************************************************)
(* The recursive-descent parser of .dip files (parser/parser.go and the    *)
(* parse_*.go files).  Each loop of the code is a block the parser is in,  *)
(* and one turn of the loop is one action; ctx holds the blocks entered.   *)
(* What a turn reads is taken from the tokens, or, for the value of a      *)
(* field, from the source line itself, as the code does.                   *)
(*                                                                         *)
(* A workflow is a record; the attributes of a node, of an edge and of the *)
(* defaults are a function from the names that are set to a value that is  *)
(* not zero, so that reading zero and not reading are the same, as in Go.  *)
(***************************************************************************)
EXTENDS DippinLexer

VARIABLES
    pos,        \* the token to read next
    ctx,        \* the blocks entered, innermost last
    wf,         \* the workflow built so far
    node,       \* the node or fan-out under construction
    part,       \* the branch or edge under construction
    diags       \* the kinds of diagnostics reported

parseVars == <<pos, ctx, wf, node, part, diags>>

None == <<>>        \* the function that sets nothing

EmptyWorkflow ==
    [name |-> <<>>, header |-> None, defaults |-> None, vars |-> None,
     nodes |-> <<>>, edges |-> <<>>, stylesheet |-> <<>>]

NewNode(kind, id) == [kind |-> kind, id |-> id, attrs |-> None]

-----------------------------------------------------------------------------
(* Reading tokens.  Beyond the last token every token is EOF, and EOF is   *)
(* never passed.                                                           *)
Type(i) == IF i \in DOMAIN toks THEN toks[i].type ELSE "eof"
Val(i)  == IF i \in DOMAIN toks THEN toks[i].val ELSE <<>>
After(i) == Min({i, Len(toks) + 1})

\* The value of a token, where it is one word: what a switch compares.
Name(i) == IF Len(Val(i)) = 1 THEN Val(i)[1] ELSE ""

IsName(i) == Type(i) = "ident"

\* expect: the token is consumed whatever it is.
Expect(i, type) == IF Type(i) = type THEN {} ELSE {"expected"}

LineEnd(i) == Min({j \in i..Len(toks) : Type(j) \in {"newline", "eof"}} \cup {Len(toks) + 1})

\* readFieldValue
FieldValue(i, n) ==
    CASE Type(i) = "raw" -> [val |-> Val(i), next |-> i + 1]
      [] Type(i) = "newline" /\ Type(i + 1) = "raw" -> [val |-> Val(i + 1), next |-> i + 2]
      [] Type(i) = "newline" /\ Type(i + 1) # "raw" -> [val |-> <<>>, next |-> i + 1]
      [] OTHER -> [val |-> IF n \in DOMAIN lines THEN UnquoteRaw(RawValueText(lines[n].t))
                           ELSE <<>>,
                   next |-> LineEnd(i)]

\* "key: value" at token i
Field(i) ==
    LET v == FieldValue(i + 2, toks[i].line)
    IN  [val |-> v.val, next |-> v.next, bad |-> Expect(i + 1, "colon")]

\* parseCommaList: it goes on as long as a comma follows.
CommaListEnd(i) ==
    Min({j \in i..(Len(toks) + 1) : (j - i) % 2 = 0 /\ Type(j + 1) # "comma"})
CommaList(i) == [k \in 1..((CommaListEnd(i) - i) \div 2 + 1) |-> Val(i + 2 * (k - 1))]

-----------------------------------------------------------------------------
(* parseParamsBlock, parseSteerContext: the last entry of a key wins.      *)
Entries(pieces, sep) ==
    LET entry(p) == LET i == IndexOf(p, sep)
                    IN  [key |-> TrimSpace(SubSeq(p, 1, i - 1)), sep |-> i,
                         val |-> UnquoteRaw(TrimSpace(SubSeq(p, i + 1, Len(p))))]
    IN  [i \in DOMAIN pieces |-> entry(TrimSpace(pieces[i]))]

MapOf(entries) ==
    FoldLeft(LAMBDA m, e : IF e.sep = 0 \/ e.key = <<>> THEN m ELSE (e.key :> e.val) @@ m,
             None, entries)

Duplicates(entries) ==
    IF \E i, j \in DOMAIN entries : /\ i < j
                                    /\ entries[i].sep # 0 /\ entries[i].key # <<>>
                                    /\ entries[i].key = entries[j].key /\ entries[j].sep # 0
    THEN {"duplicate"} ELSE {}

BlockEntries(es) == [val |-> MapOf(es), bad |-> Duplicates(es)]

InlineEntries(es) ==
    [val |-> MapOf(es),
     bad |-> Duplicates(es) \cup (IF \E i \in DOMAIN es : es[i].sep = 0 THEN {"malformed"} ELSE {})]

ParamsBlock(raw) == BlockEntries(Entries(Split(raw, "NL"), ":"))

IsBlockForm(raw) ==
    IndexOf(raw, ":") # 0 /\ (IndexOf(raw, "=") = 0 \/ IndexOf(raw, ":") < IndexOf(raw, "="))

WithoutColons(read) ==
    LET kept == {k \in DOMAIN read.val : IndexOf(k, ":") = 0}
    IN  [val |-> [k \in kept |-> read.val[k]],
         bad |-> read.bad \cup (IF kept = DOMAIN read.val THEN {} ELSE {"colon in key"})]

SteerContext(raw) ==
    IF TrimSpace(raw) = <<>> THEN [val |-> None, bad |-> {}]
    ELSE WithoutColons(
            IF IsBlockForm(raw) THEN ParamsBlock(raw)
            ELSE InlineEntries(
                    Entries(SelectSeq(Split(raw, ","), LAMBDA p : TrimSpace(p) # <<>>), "=")))

-----------------------------------------------------------------------------
(***************************************************************************)
(* Which fields there are, and how the text of each is read: the switch    *)
(* statements of parse_nodes.go and parse_defaults.go.                     *)
(***************************************************************************)
CommonFields ==
    [label |-> "text", class |-> "list", reads |-> "list", writes |-> "list",
     satisfies |-> "entries", retry_policy |-> "text", retry_target |-> "text",
     fallback_target |-> "text", max_retries |-> "int", base_delay |-> "duration"]

AgentFields ==
    [prompt |-> "text", system_prompt |-> "text", reasoning_effort |-> "text",
     response_schema |-> "text", model |-> "text", provider |-> "text", fidelity |-> "text",
     response_format |-> "text", backend |-> "text", working_dir |-> "text",
     compaction |-> "text", goal_gate |-> "bool", auto_status |-> "bool",
     cache_tools |-> "bool", params |-> "params", max_turns |-> "int",
     compaction_threshold |-> "float", cmd_timeout |-> "duration"]

HumanFields ==
    [mode |-> "text", default |-> "text", prompt |-> "text", questions_key |-> "text",
     answers_key |-> "text", timeout |-> "duration", timeout_action |-> "action"]

ToolFields ==
    [command |-> "text", outputs |-> "list", marker_grep |-> "text", verify_acid |-> "entries",
     route_required |-> "bool", timeout |-> "duration", output_limit |-> "limit"]

SubgraphFields == [ref |-> "text", params |-> "params"]

ManagerLoopFields ==
    [subgraph_ref |-> "text", stop_condition |-> "text", steer_condition |-> "text",
     poll_interval |-> "duration", max_cycles |-> "int", steer_context |-> "steer"]

FieldsOf(kind) ==
    CommonFields @@
    CASE kind = "agent" -> AgentFields [] kind = "human" -> HumanFields
      [] kind = "tool" -> ToolFields [] kind = "subgraph" -> SubgraphFields
      [] kind = "manager_loop" -> ManagerLoopFields [] kind = "conditional" -> None

NodeKinds == {"agent", "human", "tool", "subgraph", "conditional", "manager_loop"}

DefaultsFields ==
    [model |-> "text", provider |-> "text", retry_policy |-> "text", fidelity |-> "text",
     restart_target |-> "text", compaction |-> "text", on_resume |-> "text",
     tool_commands_allow |-> "text", tool_denylist_add |-> "text", max_retries |-> "int",
     max_restarts |-> "int", cache_tools |-> "exactly true", max_total_tokens |-> "int",
     max_cost_cents |-> "int", max_wall_time |-> "duration"]

BranchFields == [model |-> "text", provider |-> "text", fidelity |-> "text"]

HeaderFields ==
    [goal |-> "text", start |-> "text", exit |-> "text", requires |-> "entries", spec |-> "pair"]

EdgeFields ==
    [when |-> "text", label |-> "text", weight |-> "int", restart |-> "exactly true"]

Truthy == {<<"true">>, <<"1">>, <<"yes">>, <<"on">>}
Falsy  == {<<"false">>, <<"0">>, <<"no">>, <<"off">>}

(* splitSpecValue: the loader and the path, split at the first blank.      *)
SpecValue(t) ==
    LET i == IndexOf(t, " ")
    IN  [val |-> <<SubSeq(t, 1, i - 1), TrimSpace(SubSeq(t, i + 1, Len(t)))>>, zero |-> FALSE,
         set |-> i # 0, bad |-> IF i # 0 THEN {} ELSE {"spec"}]

(* The value read from a text, whether it is zero, and the complaint.  A   *)
(* number, duration or boolean that does not parse is set to zero; a minus *)
(* limit and an unknown timeout_action leave the field as it was.          *)
Reading(v, zero, ok) ==
    [val |-> v, zero |-> zero, set |-> TRUE, bad |-> IF ok THEN {} ELSE {"invalid"}]

Invalid  == Reading(0, TRUE, FALSE)
Unset(r) == [r EXCEPT !.set = FALSE]

NumberReading(n) == Reading(n, n = 0, TRUE)
LimitReading(n)  == IF n >= 0 THEN NumberReading(n) ELSE Unset(Invalid)
ListReading(l)   == Reading(l, l = <<>>, TRUE)
FloatReading(x)  == Reading(x, x = <<"0", ".", "0">>, TRUE)
MapReading(r)    == [val |-> r.val, zero |-> r.val = None, set |-> TRUE, bad |-> r.bad]
UnknownReading   == [Unset(Invalid) EXCEPT !.bad = {"unknown"}]

Read(how, t) ==
    CASE how = "text" -> Reading(t, t = <<>>, TRUE)
      [] how = "list" -> Reading(SplitComma(t), FALSE, TRUE)
      [] how = "entries" -> ListReading(SplitCommaNoEmpty(t))
      [] how = "int" -> IF IsInt(t) THEN NumberReading(IntOf(t)) ELSE Invalid
      [] how = "limit" -> IF IsInt(t) THEN LimitReading(IntOf(t)) ELSE Invalid
      [] how = "duration" -> IF IsDuration(t) THEN NumberReading(Millis[t[1]]) ELSE Invalid
      [] how = "float" -> IF IsFloat(t) THEN FloatReading(FloatOf(t)) ELSE Invalid
      [] how = "bool" -> Reading(t \in Truthy, t \notin Truthy, t \in Truthy \cup Falsy)
      [] how = "exactly true" -> Reading(t = <<"true">>, t # <<"true">>, TRUE)
      [] how = "action" -> IF t \in {<<>>, <<"fail">>, <<"default">>} THEN Reading(t, t = <<>>, TRUE)
                           ELSE Unset(Invalid)
      [] how = "params" -> MapReading(ParamsBlock(t))
      [] how = "steer" -> MapReading(SteerContext(t))
      [] how = "pair" -> SpecValue(TrimSpace(t))
      [] how = "unknown" -> UnknownReading

\* How the field named at pos is read, of the fields there are.
HowIn(fields) == IF Name(pos) \in DOMAIN fields THEN fields[Name(pos)] ELSE "unknown"

\* The attributes with one more field assigned.
Assign(attrs, key, r) ==
    IF ~r.set THEN attrs
    ELSE IF r.zero THEN [k \in DOMAIN attrs \ {key} |-> attrs[k]]
    ELSE (key :> r.val) @@ attrs

-----------------------------------------------------------------------------
(* parse_stylesheet.go: a line in the first column opens a rule, deeper    *)
(* lines are its properties; those before any rule are dropped.            *)
RuleProperty(p) ==
    LET i == IndexOf(p, ":")
        key == TrimSpace(SubSeq(p, 1, i - 1))
    IN  IF key = <<>> THEN None ELSE key :> TrimSpace(SubSeq(p, i + 1, Len(p)))

StyleRules(raw) ==
    LET add(rules, p) ==
            IF TrimSpace(p) = <<>> THEN rules
            ELSE IF p[1] # " " THEN Append(rules, [selector |-> TrimSpace(p), props |-> None])
            ELSE IF rules = <<>> THEN rules
            ELSE [rules EXCEPT ![Len(rules)].props = RuleProperty(p) @@ @]
    IN  FoldLeft(add, <<>>, Split(raw, "NL"))

-----------------------------------------------------------------------------
(***************************************************************************)
(* The actions.  In(b): the lexer is done and block b is the innermost.    *)
(***************************************************************************)
ParseInit ==
    /\ pos = 1
    /\ ctx = <<"file">>
    /\ wf = EmptyWorkflow
    /\ node = NewNode("", <<>>)
    /\ part = None
    /\ diags = {}

In(b) == Lexed /\ Last(ctx) = b

MoveTo(i)      == pos' = After(i)
Report(bad)    == diags' = diags \cup bad
Enter(b)       == ctx' = Append(ctx, b)
EndOfBlock     == Type(pos) \in {"outdent", "eof"}
AddNode(n)     == wf' = [wf EXCEPT !.nodes = Append(@, n)]

Parsed == Lexed /\ ctx = <<"file">> /\ Type(pos) = "eof"

(* parseTopLevel: whatever is not a workflow is passed over in silence.    *)
ParseWorkflow ==
    /\ In("file") /\ IsName(pos) /\ Name(pos) = "workflow"
    /\ wf' = [wf EXCEPT !.name = Val(pos + 1)]
    /\ Report(Expect(pos + 2, "newline") \cup Expect(pos + 3, "indent"))
    /\ MoveTo(pos + 4)
    /\ Enter("workflow")
    /\ UNCHANGED <<node, part>>

(* The tokens a loop passes over: line ends everywhere, and whatever is    *)
(* not a name.  Only the vars block complains about those.                 *)
SkipToken ==
    /\ Lexed
    /\ \/ /\ Last(ctx) = "file" /\ Type(pos) # "eof"
          /\ ~(IsName(pos) /\ Name(pos) = "workflow")
       \/ /\ Last(ctx) \in {"workflow", "defaults", "vars", "node", "branch"}
          /\ ~IsName(pos) /\ ~EndOfBlock
       \/ /\ Last(ctx) = "parallel" /\ ~EndOfBlock
          /\ ~(IsName(pos) /\ Name(pos) = "branch")
       \/ Last(ctx) = "edges" /\ Type(pos) = "newline"
    /\ Report(IF Last(ctx) = "vars" /\ Type(pos) # "newline" THEN {"unexpected"} ELSE {})
    /\ MoveTo(pos + 1)
    /\ UNCHANGED <<ctx, wf, node, part>>

(* The end of an indented block, and what the code does after its loop.    *)
Finished ==
    CASE Last(ctx) = "node" -> node
      [] Last(ctx) = "parallel" ->
            LET bs == node.attrs.branches
            IN  [node EXCEPT !.attrs =
                    IF bs = <<>> THEN None
                    ELSE [branches |-> bs, targets |-> [i \in DOMAIN bs |-> bs[i].target]]]

CloseBlock ==
    /\ Lexed /\ EndOfBlock /\ Last(ctx) \notin {"file", "edge"}
    /\ IF Last(ctx) \in {"node", "parallel"} THEN AddNode(Finished) ELSE UNCHANGED wf
    /\ node' = CASE Last(ctx) \in {"node", "parallel"} -> NewNode("", <<>>)
                 [] Last(ctx) = "branch" -> [node EXCEPT !.attrs.branches = Append(@, part)]
                 [] OTHER -> node
    /\ part' = None
    /\ Report(Expect(pos, "outdent"))
    /\ MoveTo(pos + 1)
    /\ ctx' = Front(ctx)

(* goal, start, exit, requires and spec *)
ParseHeaderField ==
    /\ In("workflow") /\ IsName(pos) /\ Name(pos) \in DOMAIN HeaderFields
    /\ LET f == Field(pos)
           r == Read(HeaderFields[Name(pos)], f.val)
       IN  /\ wf' = [wf EXCEPT !.header = Assign(@, Name(pos), r)]
           /\ Report(f.bad \cup r.bad)
           /\ MoveTo(f.next)
    /\ UNCHANGED <<ctx, node, part>>

(* defaults, vars and edges open a block of their own. *)
ParseSection ==
    /\ In("workflow") /\ IsName(pos)
    /\ Name(pos) \in {"defaults", "vars", "edges"}
    /\ Report(Expect(pos + 1, "newline") \cup Expect(pos + 2, "indent"))
    /\ MoveTo(pos + 3)
    /\ Enter(Name(pos))
    /\ UNCHANGED <<wf, node, part>>

ParseStylesheet ==
    /\ In("workflow") /\ IsName(pos) /\ Name(pos) = "stylesheet"
    /\ LET v == FieldValue(pos + 2, IF pos + 2 \in DOMAIN toks THEN toks[pos + 2].line ELSE 0)
       IN  /\ wf' = [wf EXCEPT !.stylesheet = StyleRules(v.val)]
           /\ MoveTo(v.next)
    /\ Report(Expect(pos + 1, "colon"))
    /\ UNCHANGED <<ctx, node, part>>

(* An identifier that is no keyword of the workflow body.                  *)
Keywords == {"goal", "start", "exit", "requires", "spec", "defaults", "vars", "edges",
             "stylesheet", "parallel", "fan_in"} \cup NodeKinds

\* Plausible mistake: the identifier is reported and not read.
ParseUnknownUnread ==
    /\ In("workflow") /\ IsName(pos) /\ Name(pos) \notin Keywords
    /\ Report({"unknown"})
    /\ UNCHANGED <<pos, ctx, wf, node, part>>

ParseUnknown ==
    /\ In("workflow") /\ IsName(pos) /\ Name(pos) \notin Keywords
    /\ Report({"unknown"})
    /\ MoveTo(pos + 1)
    /\ UNCHANGED <<ctx, wf, node, part>>

(* A field of the defaults, of the vars, of a node or of a branch.  Only a *)
(* branch takes a field it does not know without complaint.                *)
ParseDefaultField ==
    /\ In("defaults") /\ IsName(pos)
    /\ LET f == Field(pos)
           r == Read(HowIn(DefaultsFields), f.val)
       IN  /\ wf' = [wf EXCEPT !.defaults = Assign(@, Name(pos), r)]
           /\ Report(f.bad \cup r.bad)
           /\ MoveTo(f.next)
    /\ UNCHANGED <<ctx, node, part>>

ParseVarField ==
    /\ In("vars") /\ IsName(pos)
    /\ LET f == Field(pos)
       IN  /\ wf' = [wf EXCEPT !.vars = (Val(pos) :> f.val) @@ @]
           /\ Report(f.bad \cup (IF Val(pos) \in DOMAIN wf.vars THEN {"duplicate"} ELSE {}))
           /\ MoveTo(f.next)
    /\ UNCHANGED <<ctx, node, part>>

ParseNode ==
    /\ In("workflow") /\ IsName(pos) /\ Name(pos) \in NodeKinds
    /\ node' = NewNode(Name(pos), Val(pos + 1))
    /\ Report(Expect(pos + 2, "newline") \cup Expect(pos + 3, "indent"))
    /\ MoveTo(pos + 4)
    /\ Enter("node")
    /\ UNCHANGED <<wf, part>>

ParseNodeField ==
    /\ In("node") /\ IsName(pos) /\ Name(pos) # "retry"
    /\ LET f == Field(pos)
           r == Read(HowIn(FieldsOf(node.kind)), f.val)
       IN  /\ node' = [node EXCEPT !.attrs = Assign(@, Name(pos), r)]
           /\ Report(f.bad \cup r.bad)
           /\ MoveTo(f.next)
    /\ UNCHANGED <<ctx, wf, part>>

(* A retry block is refused, and skipped up to the first end of a block.   *)
NestedRetry ==
    /\ In("node") /\ IsName(pos) /\ Name(pos) = "retry"
    /\ LET e == LineEnd(pos + 1)
           n == IF Type(e) = "newline" THEN e + 1 ELSE e
           end == Min({j \in n..Len(toks) : Type(j) \in {"outdent", "eof"}})
       IN  MoveTo(IF Type(n) # "indent" THEN n
                  ELSE IF Type(end) = "outdent" THEN end + 1 ELSE end)
    /\ Report({"nested retry"})
    /\ UNCHANGED <<ctx, wf, node, part>>

(* parallel a -> b, c     and the block form with a branch per line        *)
ParseParallel ==
    /\ In("workflow") /\ IsName(pos) /\ Name(pos) = "parallel"
    /\ IF Type(pos + 2) = "arrow"
       THEN /\ AddNode([NewNode("parallel", Val(pos + 1))
                            EXCEPT !.attrs = [targets |-> CommaList(pos + 3)]])
            /\ Report(Expect(CommaListEnd(pos + 3) + 1, "newline"))
            /\ MoveTo(CommaListEnd(pos + 3) + 2)
            /\ UNCHANGED <<ctx, node>>
       ELSE /\ node' = [NewNode("parallel", Val(pos + 1)) EXCEPT !.attrs = [branches |-> <<>>]]
            /\ Report(Expect(pos + 2, "newline") \cup Expect(pos + 3, "indent"))
            /\ MoveTo(pos + 4)
            /\ Enter("parallel")
            /\ UNCHANGED wf
    /\ UNCHANGED part

ParseBranch ==
    /\ In("parallel") /\ IsName(pos) /\ Name(pos) = "branch"
    /\ LET e == LineEnd(pos + 3)
           n == IF Type(e) = "newline" THEN e + 1 ELSE e
           branch == [target |-> Val(pos + 2), attrs |-> None]
       IN  IF Type(n) = "indent"
           THEN part' = branch /\ Enter("branch") /\ MoveTo(n + 1) /\ UNCHANGED node
           ELSE /\ node' = [node EXCEPT !.attrs.branches = Append(@, branch)]
                /\ MoveTo(n)
                /\ UNCHANGED <<ctx, part>>
    /\ Report(Expect(pos + 1, "colon"))
    /\ UNCHANGED wf

ParseBranchField ==
    /\ In("branch") /\ IsName(pos)
    /\ LET f == Field(pos)
       IN  /\ part' = [part EXCEPT !.attrs = Assign(@, Name(pos), Read(HowIn(BranchFields), f.val))]
           /\ Report(f.bad)
           /\ MoveTo(f.next)
    /\ UNCHANGED <<ctx, wf, node>>

ParseFanIn ==
    /\ In("workflow") /\ IsName(pos) /\ Name(pos) = "fan_in"
    /\ AddNode([NewNode("fan_in", Val(pos + 1)) EXCEPT !.attrs = [sources |-> CommaList(pos + 3)]])
    /\ Report(Expect(pos + 2, "backarrow") \cup Expect(CommaListEnd(pos + 3) + 1, "newline"))
    /\ MoveTo(CommaListEnd(pos + 3) + 2)
    /\ UNCHANGED <<ctx, node, part>>

(* An edge: its ends, then one attribute after the other.  Tokens that are *)
(* no attribute are passed over.                                           *)
EdgeBegin ==
    /\ In("edges") /\ ~EndOfBlock /\ Type(pos) # "newline"
    /\ part' = [from |-> Val(pos), to |-> Val(pos + 2), attrs |-> None]
    /\ Report(Expect(pos + 1, "arrow")
              \cup (IF Type(pos + 3) = "lbracket" THEN {"bracket"} ELSE {}))
    /\ MoveTo(IF Type(pos + 3) = "lbracket" THEN LineEnd(pos + 4) ELSE pos + 3)
    /\ Enter("edge")
    /\ UNCHANGED <<wf, node>>

\* readConditionRaw: a literal that reads like a keyword ends it, too.
ConditionEnd(i) ==
    Min({LineEnd(i)} \cup {j \in i..Len(toks) : Name(j) \in {"label", "weight", "restart"}})

ConditionText(i) ==
    LET text(j) == IF Type(j) = "literal" THEN <<"\"">> \o Val(j) \o <<"\"">> ELSE Val(j)
    IN  TrimSpace(Join([k \in 1..(ConditionEnd(i) - i) |-> text(i + k - 1)], <<" ">>))

EdgeAttribute ==
    /\ In("edge") /\ Type(pos) \notin {"newline", "eof"}
    /\ LET when == Name(pos) = "when"
           r == Read(EdgeFields[Name(pos)], IF when THEN ConditionText(pos + 1) ELSE Val(pos + 2))
       IN  IF Name(pos) \in DOMAIN EdgeFields
           THEN /\ part' = [part EXCEPT !.attrs = Assign(@, Name(pos), r)]
                /\ Report(r.bad \cup (IF when THEN {} ELSE Expect(pos + 1, "colon")))
                /\ MoveTo(IF when THEN ConditionEnd(pos + 1) ELSE pos + 3)
           ELSE MoveTo(pos + 1) /\ UNCHANGED <<part, diags>>
    /\ UNCHANGED <<ctx, wf, node>>

EdgeEnd ==
    /\ In("edge") /\ Type(pos) \in {"newline", "eof"}
    /\ wf' = [wf EXCEPT !.edges = Append(@, part)]
    /\ part' = None
    /\ Report(Expect(pos, "newline"))
    /\ MoveTo(pos + 1)
    /\ ctx' = Front(ctx)
    /\ UNCHANGED node

ParseNext ==
    \/ ParseWorkflow \/ SkipToken \/ CloseBlock
    \/ ParseHeaderField \/ ParseSection \/ ParseStylesheet \/ ParseUnknown
    \/ ParseDefaultField \/ ParseVarField
    \/ ParseNode \/ ParseNodeField \/ NestedRetry
    \/ ParseParallel \/ ParseBranch \/ ParseBranchField \/ ParseFanIn
    \/ EdgeBegin \/ EdgeAttribute \/ EdgeEnd

-----------------------------------------------------------------------------
(* A file is read: lexed to its end, then parsed.                          *)
readVars == <<lexVars, parseVars>>

ReadInit == (\E source \in Seq([ind : Nat, t : Seq(STRING)]) : LexInit(source)) /\ ParseInit

ReadStep ==
    \/ LexNext /\ UNCHANGED parseVars
    \/ ParseNext /\ UNCHANGED lexVars

ReadSpec == ReadInit /\ [][ReadStep]_readVars

(* Whatever the file holds, the parser gets through it: every turn of each *)
(* of its loops consumes a token or leaves the loop, and no file leaves it *)
(* without a turn to take (parser/parser.go:43, lexer.go:40).              *)
EveryTurnAdvances ==
    [][ReadStep => \/ at' > at
                   \/ pos' > pos
                   \/ pos' = pos /\ Len(ctx') < Len(ctx)]_readVars

=============================================================================
