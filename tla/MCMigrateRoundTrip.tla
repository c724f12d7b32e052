------------------------- MODULE MCMigrateRoundTrip -------------------------
(* Workflows to export, with subgraphs of every shape, and DOT files as    *)
(* people write them.                                                      *)
EXTENDS MigrateRoundTrip

MCMillis ==
    [w \in {"0s", "90s", "1m30s", "500ms", "1500ms", "1s"} |->
        CASE w = "0s" -> 0 [] w \in {"90s", "1m30s"} -> 90000 [] w = "500ms" -> 500
          [] w = "1500ms" -> 1500 [] w = "1s" -> 1000]

MCDurationWord ==
    [d \in {500, 1000, 90000} |->
        CASE d = 500 -> "500ms" [] d = 1000 -> "1s" [] d = 90000 -> "1m30s"]

MCAlphabet == <<" ", "%", ",", "=", "_", "b", "goal", "k", "l", "model", "x">>

-----------------------------------------------------------------------------
(* Workflows.                                                              *)
N(kind, id, attrs) == [kind |-> kind, id |-> <<id>>, attrs |-> attrs]
E(from, to, attrs) == [from |-> <<from>>, to |-> <<to>>, attrs |-> attrs]
A(id)              == N("agent", id, [prompt |-> <<"x">>])
Sub(id, ref)       == N("subgraph", id, [ref |-> <<ref>>])
Ctx(rest)          == <<"ctx", ".">> \o rest
When(cond)         == [when |-> cond]

W(start, exit, nodes, edges) ==
    [EmptyWorkflow EXCEPT !.name = <<"w">>, !.header = [start |-> <<start>>, exit |-> <<exit>>],
                          !.nodes = nodes, !.edges = edges]

Line2(a, b) == W(a, b, <<A(a), A(b)>>, <<E(a, b, <<>>)>>)

(* Every kind of node, every attribute DOT has, and texts that need care.  *)
KindsFlow ==
    [W("a", "b",
       <<N("agent", "a", [prompt |-> <<"say", " ", "\"", "x", "\"", "NL", "\\", "k", "\\">>,
                          model |-> <<"m">>, provider |-> <<"p">>, backend |-> <<"x", "-", "y">>,
                          working_dir |-> <<"/", "d">>, label |-> <<"one", " ", "#", "2">>,
                          goal_gate |-> TRUE, satisfies |-> <<<<"k">>, <<"l">>>>]),
         N("human", "h", [mode |-> <<"choice">>, default |-> <<"k">>, timeout |-> 90000,
                          timeout_action |-> <<"fail">>, prompt |-> <<"x">>]),
         N("tool", "t", [command |-> <<"run", " ", "x", "NL", "then">>, timeout |-> 1500,
                         marker_grep |-> <<"k", "=">>, route_required |-> TRUE, output_limit |-> 5,
                         outputs |-> <<<<"k">>, <<"l">>>>]),
         N("conditional", "c", [reads |-> <<<<"k">>>>]),
         N("parallel", "p", [targets |-> <<<<"h">>, <<"t">>>>,
                             branches |-> <<[target |-> <<"h">>, attrs |-> <<>>],
                                            [target |-> <<"t">>, attrs |-> <<>>]>>]),
         N("fan_in", "j", [sources |-> <<<<"h">>, <<"t">>>>]),
         N("manager_loop", "m", [subgraph_ref |-> <<"x">>, poll_interval |-> 1000, max_cycles |-> 4,
                                 stop_condition |-> Ctx(<<"x", " ", "=", " ", "y">>),
                                 steer_condition |-> Ctx(<<"x", " ", "=", " ", "y">>),
                                 steer_context |-> (<<"k", "=", "l">> :> <<"%", ",", " ", "x">>)
                                                   @@ (<<"b">> :> <<"x">>)]),
         N("agent", "b", [auto_status |-> TRUE, max_turns |-> 3])>>,
       <<E("a", "p", <<>>), E("j", "c", [weight |-> 2]),
         E("c", "m", When(Ctx(<<"outcome", " ", "=", " ", "done">>))),
         E("c", "a", [when |-> Ctx(<<"k", " ", "contains", " ", "x", ".", "y">>),
                      label |-> <<"try", " ", "more">>, restart |-> TRUE]),
         E("m", "b", [weight |-> -1])>>)
     EXCEPT !.vars = (<<"k">> :> <<"x", " ", "\"", "y">>) @@ (<<"model">> :> <<"l">>)
                     @@ (<<"b">> :> <<"\\", "x">>),
            !.defaults = [tool_commands_allow |-> <<"*", ",", "k">>, tool_denylist_add |-> <<"l">>,
                          model |-> <<"m">>, max_retries |-> 2],
            !.header = [start |-> <<"a">>, exit |-> <<"b">>, goal |-> <<"x">>]]

(* A manager loop first, two conditions that join the same nodes.          *)
LoopFlow ==
    W("a", "b", <<N("manager_loop", "a", [subgraph_ref |-> <<"x">>, max_cycles |-> 2]), A("k"), A("b")>>,
      <<E("a", "k", When(Ctx(<<"x", " ", "!=", " ", "y">>))),
        E("a", "k", When(Ctx(<<"x", " ", "=", " ", "y">>))), E("k", "b", <<>>)>>)

(* What does not come back as it was: another kind of exit, a node called  *)
(* "edge", two comparisons, a value that reads like a line break.          *)
LostFlow ==
    W("a", "b", <<A("a"), A("edge"), N("tool", "b", [command |-> <<"echo", " ", "\\", "n">>])>>,
      <<E("a", "edge", When(Ctx(<<"x", " ", "=", " ", "y", " ", "and", " ", "ctx", ".", "k",
                                  " ", "==", " ", "l">>))),
        E("a", "b", When(Ctx(<<"x", " ", "==", " ", "y">>))), E("edge", "b", <<>>)>>)

(* Subgraphs: one inside, at both ends, nested, twice the same, in a       *)
(* circle, missing, without a start, with an ID that collides, with an     *)
(* exit nothing leads to, and under two names.                             *)
Around(refs) ==
    LET id == <<"s", "t">>
    IN  W("a", "b", <<A("a")>> \o [i \in DOMAIN refs |-> Sub(id[i], refs[i])] \o <<A("b")>>,
          <<E("a", "s", When(Ctx(<<"x", " ", "=", " ", "y">>)))>>
          \o (IF Len(refs) = 2 THEN <<E("s", "t", <<>>), E("t", "b", <<>>)>>
              ELSE <<E("s", "b", <<>>)>>))

Colliding ==
    [Around(<<"leaf">>) EXCEPT !.nodes = Append(@, [A("x") EXCEPT !.id = <<"s", "_", "k">>])]

Ends(ref) == W("s", "t", <<Sub("s", ref), Sub("t", ref)>>, <<E("s", "t", <<>>)>>)

Fanned ==
    W("a", "b", <<A("a"), Sub("s", "leaf"), A("k"), N("parallel", "p", [targets |-> <<<<"s">>, <<"k">>>>]),
                  N("fan_in", "j", [sources |-> <<<<"s">>, <<"k">>>>]), A("b")>>,
      <<E("a", "p", <<>>), E("j", "b", <<>>)>>)

MCFileAt == [ref \in {<<"leaf">>, <<"pair">>, <<"loop">>, <<"self">>, <<"dead">>, <<"headless">>} |-> ref]
            @@ (<<"./self">> :> <<"self">>)

MCFlowOf ==
    (<<"leaf">> :> Line2("k", "l"))
    @@ (<<"pair">> :> W("k", "s", <<A("k"), Sub("s", "leaf")>>, <<E("k", "s", <<>>)>>))
    @@ (<<"loop">> :> W("k", "l", <<A("k"), Sub("s", "loop"), A("l")>>, <<E("k", "s", <<>>)>>))
    @@ (<<"self">> :> W("k", "l", <<A("k"), Sub("s", "./self"), A("l")>>, <<E("k", "s", <<>>)>>))
    @@ (<<"dead">> :> W("k", "l", <<A("k"), A("l")>>, <<E("l", "k", <<>>)>>))
    @@ (<<"headless">> :> [EmptyWorkflow EXCEPT !.header = [exit |-> <<"l">>], !.nodes = <<A("l")>>])

Flows ==
    {KindsFlow, LoopFlow, LostFlow, Colliding, Fanned, Ends("leaf"), Ends("pair")}
    \cup {Around(<<r>>) : r \in {"leaf", "pair", "loop", "self", "dead", "headless", "gone"}}
    \cup {Around(<<r, "leaf">>) : r \in {"leaf", "pair", "dead"}}

Options(path) ==
    {[rankdir |-> "TB", prompts |-> p, path |-> path] : p \in BOOLEAN}

MCExports ==
    {[flow |-> f, opts |-> o] : f \in Flows, o \in Options(<<>>)}
    \cup {[flow |-> KindsFlow, opts |-> o] :
              o \in Options(<<<<"a">>, <<"p">>, <<"h">>, <<"a">>>>)}

-----------------------------------------------------------------------------
(* DOT files.                                                              *)
S(words)     == words \o <<";", "NL">>
At(k, text)  == <<k, "=", "\"">> \o text \o <<"\"">>
List(pairs)  == DotList(pairs)
File(stmts)  == <<"digraph", " ", "g", " ", "{", "NL">> \o FlattenSeq(stmts) \o <<"}">>
Plain(id, shape, pairs) == S(<<id, " ">> \o List(<<At("shape", <<shape>>)>> \o pairs))
Arrow(a, b, pairs)      == S(<<a, "->", b, " ">> \o List(pairs))
PromptX                 == <<At("prompt", <<"x">>)>>
FirstAndLast            == Plain("a", "Mdiamond", PromptX) \o Plain("b", "Msquare", PromptX)

\* Nodes that only edges name.
BareFile == File(<<S(<<"a", "->", "b">>), S(<<"b", "->", "c">>)>>)

(* Comments, defaults that come late, a node in two statements, older      *)
(* names of attributes, escapes.                                           *)
OldFile ==
    File(<<<<"/", "/", " ", "old", "NL", "/", "*", " ", "{", "*", "/">>,
           S(<<"graph", " ">> \o List(<<At("goal", <<"x">>), At("max_retries", <<"3">>),
                                        At("fidelity", <<"f">>), At("k", <<"l">>)>>)),
           S(<<"a", "->", "b", " ">> \o List(<<At("condition", <<"outcome", "=", "done">>)>>)),
           S(<<"node", " ">> \o List(<<At("llm_model", <<"m">>)>>)),
           <<";">>, FirstAndLast,
           S(<<"a", " ">> \o List(<<At("prompt", <<"say", "\\", "n", "x", "\\", "\"", "\\", "r">>),
                                    At("goal_gate", <<"1">>), At("cache_tools", <<"no">>)>>)),
           S(<<"edge", " ">> \o List(<<At("loop_restart", <<"yes">>), <<"weight", "=", "2">>>>)),
           Arrow("b", "a", <<At("condition", <<"context", ".", "k", "!=", "x", " ", "&&", " ", "!",
                                               "k", " ", "in", " ", "l">>)>>),
           Arrow("b", "a", <<At("condition", <<"not", " ", "x", "=", "y", " ", "||", " ", "k", "=", "l",
                                               " ", "||", " ", "k", " ", "startswith", " ", "x">>),
                             At("restart", <<"true">>), At("label", <<"l">>)>>)>>)

(* Lists that edges imply, and diamonds.                                   *)
FanFile ==
    File(<<FirstAndLast, Plain("p", "component", <<>>), Plain("k", "diamond", PromptX),
           Plain("t", "diamond", <<At("tool_command", <<"x">>), At("timeout", <<"90s">>)>>),
           Plain("c", "diamond", <<At("label", <<"l">>)>>), Plain("j", "tripleoctagon", <<>>),
           Plain("m", "house", <<At("max_cycles", <<"2">>),
                                 At("steer_context", <<"k", "=", "%2C", ",", "x">>)>>),
           S(<<"a", "->", "p">>), S(<<"p", "->", "k">>), S(<<"p", "->", "t">>),
           S(<<"k", "->", "c">>), S(<<"c", "->", "j">>), S(<<"t", "->", "j">>), S(<<"j", "->", "m">>), S(<<"m", "->", "b">>)>>)

(* One graph attribute under two names.                                    *)
TwoNamesFile ==
    File(<<S(<<"graph", " ">> \o List(<<At("fidelity", <<"f">>), At("default_fidelity", <<"k">>)>>)),
           FirstAndLast, S(<<"a", "->", "b">>)>>)

(* Two edges that only their conditions tell apart, of which the written   *)
(* file cuts one short.                                                    *)
CutFile(value) ==
    File(<<FirstAndLast,
           Arrow("a", "b", <<At("condition", <<"x", "=", "y">>)>>),
           Arrow("a", "b", <<At("condition", <<"x", "=">> \o value)>>)>>)

(* Conditions: an operator in every place, negations, parentheses, quotes, *)
(* values of several words, words of logic in a value.                     *)
CondFile(cond) == File(<<FirstAndLast, Arrow("a", "b", <<At("condition", cond)>>)>>)

And2(l, r) == l \o <<" ", "&&", " ">> \o r
Or2(l, r)  == l \o <<" ", "||", " ">> \o r
Not1(t)    == <<"not", " ">> \o t
XY == <<"x", " ", "=", " ", "y">>
KL == <<"context", ".", "k", " ", "!=", " ", "l">>
BX == <<"b", " ", "contains", " ", "x", "-", "y">>

Negations(t) == {t, Not1(t), <<"!">> \o t, Not1(Not1(t))}

Conditions ==
    UNION {{And2(x, y), Or2(x, y), And2(x, And2(y, BX)), Or2(x, Or2(y, BX)), And2(x, Or2(y, BX)),
            Or2(And2(x, y), BX)} : x \in Negations(XY), y \in Negations(KL)}
    \cup {And2(<<"(">> \o Or2(XY, KL) \o <<")">>, BX), Not1(<<"(">> \o And2(XY, KL) \o <<")">>),
          XY \o <<" ", "z">>, XY \o <<" ", "and", " ">> \o KL, XY \o <<" ", "not">>,
          <<"k", " ", "not", " ", "in", " ", "l">>, <<"k", " ", "in", " ", "l", ",", "x">>,
          <<"k", "=", "\\", "\"", "x", " ", "y", "\\", "\"">>,
          <<"k", "=", "\\", "\"", "\\", "\"">>, <<"x", " ", "==", " ", "y">>,
          <<"x", " ", "contains", " ", "k", " ", "=", " ", "l">>, <<"x", " ", "<", " ", "=", " ", "k">>}

NodeFile(shape, pairs) == File(<<FirstAndLast, Plain("k", shape, pairs), S(<<"a", "->", "b">>)>>)

MCDigraphs ==
    {CondFile(c) : c \in Conditions} \cup
    {BareFile, OldFile, FanFile, TwoNamesFile,
     CutFile(<<"y", " ", "#", " ", "k">>), CutFile(<<"k">>),
     CutFile(<<" ">>), File(<<FirstAndLast, Arrow("a", "b", <<At("condition", <<"k">>)>>)>>),
     File(<<FirstAndLast, Arrow("a", "b", <<At("condition",
                <<"not", " ", "(", "x", "=", "y", " ", "&&", " ", "k", "=", "l", ")">>)>>)>>),
     NodeFile("hexagon", <<At("timeout", <<"soon">>)>>),
     NodeFile("hexagon", <<At("timeout_action", <<"wait">>)>>),
     NodeFile("parallelogram", <<At("output_limit", <<"-", "1">>)>>),
     NodeFile("parallelogram", <<At("tool_command", <<"x">>), At("timeout", <<"1500ms">>)>>),
     NodeFile("parallelogram", <<At("tool_command", <<"x">>), At("outputs", <<"k", ",", " ", "l">>)>>),
     NodeFile("tab", <<At("ref", <<"x", ".", "dip">>)>>),
     <<"graph", " ", "g", " ", "{", "}">>,
     <<"digraph", " ", "g", " ", "{", "a", "->", "}">>,
     <<"digraph", " ", "g", " ", "{", "a", " ", "[", "weight", "=", "-", "1", "]", "}">>,
     <<"digraph", " ", "g", " ", "{", "a", " ", "[", "k", "=", "\"", "x">>,
     <<"digraph", " ", "g", " ", "{", "a", ";", "=">>}

=============================================================================
