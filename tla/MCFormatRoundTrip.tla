------------------------- MODULE MCFormatRoundTrip --------------------------
(* Files that between them use every section, every kind of node and, in   *)
(* each, every field, and what becomes of them when a line is lost, moved  *)
(* or replaced.                                                            *)
EXTENDS FormatRoundTrip

L(n, text)    == Line(n, text)
F(n, key, v)  == Line(n, <<key, ":", " ">> \o v)
Q(v)          == <<"\"">> \o v \o <<"\"">>
Field1(k, v)  == F(4, k, <<v>>)
Start(name)   == <<L(0, <<"workflow", " ", name>>), F(2, "start", <<"a">>), F(2, "exit", <<"b">>)>>

MCMillis ==
    [w \in {"0s", "90s", "1m30s", "500ms", "1500ms", "1s"} |->
        CASE w = "0s" -> 0 [] w \in {"90s", "1m30s"} -> 90000 [] w = "500ms" -> 500
          [] w = "1500ms" -> 1500 [] w = "1s" -> 1000]

MCDurationWord ==
    [d \in {500, 1000, 90000} |->
        CASE d = 500 -> "500ms" [] d = 1000 -> "1s" [] d = 90000 -> "1m30s"]

MCAlphabet == <<" ", "#", "*", ".", ":", "a", "b", "k", "l", "m", "model", "x">>

-----------------------------------------------------------------------------
(* An agent with every field there is, and a prompt in a block.            *)
AgentDoc ==
    Start("w") \o <<
    L(2, <<"agent", " ", "a">>), F(4, "label", Q(<<"two", " ", "words">>)),
    F(4, "class", <<"x", ",", " ", "y">>), F(4, "satisfies", <<"k", ",", " ", ",", "l">>),
    F(4, "system_prompt", Q(<<"be", " ", "x">>)),
    Field1("model", "m"), Field1("provider", "p"), Field1("reasoning_effort", "high"),
    Field1("fidelity", "f"), F(4, "backend", <<"x", "-", "y">>), Field1("working_dir", "d"),
    Field1("response_format", "json"), F(4, "response_schema", <<"k">>),
    Field1("goal_gate", "yes"), Field1("auto_status", "on"), Field1("max_turns", "3"),
    Field1("cmd_timeout", "1500ms"), Field1("cache_tools", "1"), Field1("compaction", "auto"),
    Field1("compaction_threshold", "1"), Field1("retry_policy", "p"), Field1("max_retries", "2"),
    F(4, "base_delay", <<"500ms", " ", "#", " ", "c">>), Field1("retry_target", "a"),
    Field1("fallback_target", "b"),
    F(4, "reads", <<"k", ",", "l">>), Field1("writes", "l"), L(4, <<"params", ":">>),
    F(6, "k", Q(<<"a", ":", " ", "b">>)), F(6, "a", <<"x">>),
    L(4, <<"prompt", ":">>), L(6, <<"say", ":", " ", "x">>), BlankLine, L(8, <<"#", " ", "deep">>),
    L(2, <<"conditional", " ", "b">>), Field1("reads", "k")>>

(* The other kinds of node.                                                *)
KindsDoc ==
    Start("w") \o <<
    L(2, <<"human", " ", "a">>), Field1("mode", "m"), Field1("default", "d"),
    Field1("questions_key", "k"), Field1("answers_key", "l"), Field1("timeout", "90s"),
    Field1("timeout_action", "fail"), F(4, "prompt", Q(<<"a", " ", "\\", "\"", "b">>)),
    L(2, <<"tool", " ", "b">>), F(4, "outputs", <<"k">>), Field1("marker_grep", "x"),
    Field1("route_required", "true"), Field1("output_limit", "5"), Field1("verify_acid", "x"),
    Field1("timeout", "1s"), Field1("writes", "k"), Field1("max_retries", "2"),
    L(4, <<"command", ":">>), L(7, <<"run", " ", "x">>), L(6, <<"then">>), L(9, <<"y">>),
    BlankLine,
    L(2, <<"subgraph", " ", "s">>), F(4, "ref", <<"x", ".", "dip">>),
    L(4, <<"params", ":">>), F(6, "k", <<"x">>),
    L(2, <<"manager_loop", " ", "m">>), Field1("subgraph_ref", "x"), Field1("poll_interval", "1s"),
    Field1("max_cycles", "4"), F(4, "stop_condition", <<"ctx", ".", "x", " ", "=", " ", "y">>),
    F(4, "steer_condition", <<"ctx", ".", "x", " ", "=", " ", "y">>), Field1("reads", "k"),
    F(4, "steer_context", <<"k", " ", "=", " ", "x", ",", "l", "=", "y">>)>>

(* What every kind of node may have, on those that write only some of it.  *)
Common ==
    <<F(4, "label", <<"x">>), F(4, "class", <<"x">>), F(4, "satisfies", <<"k">>),
      Field1("retry_policy", "p"), Field1("max_retries", "2"), Field1("base_delay", "1s"),
      Field1("retry_target", "a"), Field1("fallback_target", "b"),
      Field1("reads", "k"), Field1("writes", "l")>>

CommonDoc ==
    Start("w")
    \o <<L(2, <<"human", " ", "a">>)>> \o Common \o <<L(2, <<"tool", " ", "b">>)>> \o Common
    \o <<L(2, <<"conditional", " ", "k">>)>> \o Common \o <<L(2, <<"subgraph", " ", "s">>)>> \o Common
    \o <<L(2, <<"manager_loop", " ", "m">>)>> \o Common

(* Everything around the nodes, and edges.                                 *)
FlowDoc ==
    <<L(0, <<"#", " ", "c">>)>> \o Start("w") \o <<
    F(2, "goal", Q(<<"to", " ", "#", "x">>)), F(2, "requires", <<"k", ",", "l">>),
    F(2, "spec", <<"file", " ", "x">>),
    L(2, <<"defaults">>), Field1("model", "m"), Field1("max_retries", "2"),
    Field1("cache_tools", "true"), Field1("max_wall_time", "1m30s"), Field1("restart_target", "a"),
    Field1("provider", "p"), Field1("retry_policy", "p"), Field1("fidelity", "f"),
    Field1("max_restarts", "3"), Field1("compaction", "auto"), Field1("on_resume", "x"),
    Field1("max_total_tokens", "5"), Field1("max_cost_cents", "4"),
    F(4, "tool_commands_allow", <<"k", ",", "l">>), Field1("tool_denylist_add", "x"),
    L(2, <<"vars">>), Field1("k", "x"), F(4, "b", Q(<<"a", " ", "b">>)),
    L(2, <<"parallel", " ", "p">>), F(4, "branch", <<"a">>),
    F(4, "branch", <<"b">>), F(6, "model", <<"m">>), F(6, "provider", <<"p">>), F(6, "fidelity", <<"f">>),
    L(2, <<"parallel", " ", "q", " ", "->", " ", "a", ",", " ", "b">>),
    L(2, <<"fan_in", " ", "j", " ", "<-", " ", "a", ",", " ", "b">>),
    L(2, <<"agent", " ", "a">>), F(4, "prompt", <<"x">>),
    L(2, <<"stylesheet", ":">>), L(4, <<"#", "a">>), F(6, "model", <<"m">>),
    F(6, "k", <<"x">>), L(4, <<"*">>), F(6, "model", <<"l">>), L(4, <<".", "x">>),
    L(2, <<"edges">>), L(4, <<"a", " ", "->", " ", "b">>),
    L(4, <<"a", " ", "->", " ", "b", " ", "when", " ", "ctx", ".", "x", " ", "=", " ">>
         \o Q(<<"a", " ", "b">>) \o <<" ", "label", ":", " ", "go", " ", "weight", ":", " ", "2">>),
    L(4, <<"b", " ", "->", " ", "a", " ", "when", " ", "not", "(", "k", "==", "l", ")", " ",
           "restart", ":", " ", "true", " ", "label", ":", " ">> \o Q(<<"one", " ", "more">>))>>

(* What the parser refuses, or passes over.                                *)
RefusedDoc ==
    <<L(0, <<"say">>)>> \o Start("w") \o <<
    L(2, <<"agent", " ", "a">>), L(4, <<"retry", ":">>), L(6, <<"max_retries", ":", " ", "2">>),
    F(4, "model", <<"m">>), F(4, "nonsense", <<"x">>),
    L(2, <<"parallel", " ", "p">>), L(4, <<"branch", ":", " ", "a">>), L(4, <<"say">>),
    L(2, <<"nonsense">>), L(2, <<"defaults">>), F(4, "nonsense", <<"x">>),
    L(2, <<"edges">>), L(4, <<"a", " ", "->", " ", "b", " ", "[", "label", ":", " ", "x">>),
    L(4, <<"a", " ", "->", " ", "b", " ", "label", " ", "x">>)>>

-----------------------------------------------------------------------------
Without(d, i)  == RemoveAt(d, i)
Shifted(d, i)  == [d EXCEPT ![i].ind = @ + 1]
Outwards(d, i) == [d EXCEPT ![i].ind = IF @ = 0 THEN 0 ELSE @ - 1]
\* A field with another value, which is no number, duration or boolean.
Replaced(d, i) ==
    IF Len(d[i].t) > 1 /\ d[i].t[2] = ":"
    THEN [d EXCEPT ![i].t = <<@[1], ":", " ", "m">>]
    ELSE d

Damaged(d) ==
    UNION {{Without(d, i), Shifted(d, i), Outwards(d, i), Replaced(d, i)} : i \in DOMAIN d}

Docs == {AgentDoc, KindsDoc, CommonDoc, FlowDoc, RefusedDoc}

MCDocuments == Docs \cup UNION {Damaged(d) : d \in Docs}

=============================================================================
