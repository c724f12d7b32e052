----------------------------- MODULE DotParser ------------------------------
(***************************************************************************)
(* The reader of DOT digraphs (migrate/dot_parser.go).  The text is in the *)
(* pieces of SourceText.  Each turn of a loop of the parser is one action; *)
(* the lexer hands it the token at a place of the text when it asks.       *)
(* Attributes are functions from texts to texts.                           *)
(***************************************************************************)
EXTENDS SourceText

VARIABLES
    dot,        \* the text
    dotAt,      \* the place the parser has come to
    graph,      \* the digraph read so far
    stmt        \* the statement under way

dotVars == <<dot, dotAt, graph, stmt>>

EmptyGraph ==
    [name |-> <<>>, graphAttrs |-> <<>>, nodeAttrs |-> <<>>, edgeAttrs |-> <<>>,
     nodes |-> <<>>, edges |-> <<>>]

\* kind: "header", "none", "defaults", "node", "edge", "done" or "error"
NoStatement(kind) == [kind |-> kind, id |-> <<>>, to |-> <<>>, attrs |-> <<>>, listed |-> FALSE]

-----------------------------------------------------------------------------
(* The lexer.                                                              *)
Punctuation == {"{", "}", "[", "]", "=", ";", ","}

Piece(i) == IF i \in DOMAIN dot THEN dot[i] ELSE ""

(* skipWhitespace: blanks, line comments and block comments.               *)
RECURSIVE SkipBlank(_)
SkipBlank(i) ==
    LET lineEnd  == Min({j \in i..Len(dot) : dot[j] = "NL"} \cup {Len(dot) + 1})
        blockEnd == Min({j + 2 : j \in {k \in (i + 2)..Len(dot) : dot[k] = "*" /\ Piece(k + 1) = "/"}}
                        \cup {Max({i + 2, Len(dot)})})
    IN  CASE Piece(i) \in {" ", "NL"}               -> SkipBlank(i + 1)
          [] Piece(i) = "/" /\ Piece(i + 1) = "/"   -> SkipBlank(lineEnd)
          [] Piece(i) = "/" /\ Piece(i + 1) = "*"   -> SkipBlank(blockEnd)
          [] OTHER                                  -> i

\* escapeMap
Unescaped(c) ==
    CASE c \in {"\"", "\\"} -> <<c>> [] c \in {"n", "l"} -> <<"NL">> [] c = "r" -> <<>>
      [] OTHER -> <<"\\", c>>

\* readString, behind the opening quote
RECURSIVE ReadString(_, _)
ReadString(i, val) ==
    CASE i > Len(dot)      -> [k |-> "string", v |-> val, next |-> i]
      [] Piece(i) = "\""   -> [k |-> "string", v |-> val, next |-> i + 1]
      [] Piece(i) = "\\" /\ i < Len(dot) -> ReadString(i + 2, val \o Unescaped(dot[i + 1]))
      [] OTHER             -> ReadString(i + 1, Append(val, dot[i]))

InID(c) == c # "" /\ (IsWord(c) \/ c = ".") /\ c \notin Punctuation

(* next.  A dash that begins no arrow is a name of no characters, and the  *)
(* lexer does not get past it.                                             *)
TokenAt(place) ==
    LET i == SkipBlank(place)
        c == Piece(i)
        idEnd == Min({j \in i..(Len(dot) + 1) : ~InID(Piece(j))})
    IN  CASE c = ""              -> [k |-> "eof", v |-> <<>>, next |-> i]
          [] c \in Punctuation   -> [k |-> c, v |-> <<c>>, next |-> i + 1]
          [] c = "->"            -> [k |-> "->", v |-> <<c>>, next |-> i + 1]
          [] c = "-"             -> [k |-> "id", v |-> <<>>, next |-> i]
          [] c = "\""            -> ReadString(i + 1, <<>>)
          [] InID(c) /\ c # "."  -> [k |-> "id", v |-> SubSeq(dot, i, idEnd - 1), next |-> idEnd]
          [] OTHER               -> [k |-> "id", v |-> <<c>>, next |-> i + 1]

IsNamed(token) == token.k \in {"id", "string"}

\* consumeOptionalSeparator and consumeOptionalSemicolon
Past(place, separators) ==
    IF TokenAt(place).k \in separators THEN TokenAt(place).next ELSE place

-----------------------------------------------------------------------------
(* The parser.                                                             *)
DotInit(text) ==
    /\ dot = text
    /\ dotAt = 1
    /\ graph = EmptyGraph
    /\ stmt = NoStatement("header")

Malformed == stmt' = NoStatement("error") /\ UNCHANGED <<dot, dotAt, graph>>

ReadHeader ==
    /\ stmt.kind = "header"
    /\ LET keyword == TokenAt(dotAt)
           name == TokenAt(keyword.next)
           brace == TokenAt(name.next)
       IN  IF keyword.k = "id" /\ keyword.v = <<"digraph">> /\ IsNamed(name) /\ brace.k = "{"
           THEN /\ graph' = [graph EXCEPT !.name = name.v]
                /\ dotAt' = brace.next
                /\ stmt' = NoStatement("none")
                /\ UNCHANGED dot
           ELSE Malformed

SkipSemicolon ==
    /\ stmt.kind = "none" /\ TokenAt(dotAt).k = ";"
    /\ dotAt' = TokenAt(dotAt).next
    /\ UNCHANGED <<dot, graph, stmt>>

(* dispatchStatement: graph, node and edge are keywords where attributes   *)
(* follow; what an arrow follows is an edge, and all else a node.          *)
BeginStatement ==
    /\ stmt.kind = "none" /\ IsNamed(TokenAt(dotAt))
    /\ LET name == TokenAt(dotAt)
           sep == TokenAt(name.next)
           to == TokenAt(sep.next)
           keyword == name.k = "id" /\ name.v \in {<<"graph">>, <<"node">>, <<"edge">>}
           arrow == sep.k = "->"
           place == IF arrow THEN to.next ELSE name.next
           listed == TokenAt(place).k = "["
       IN  IF arrow /\ ~IsNamed(to) THEN Malformed
           ELSE /\ stmt' = [NoStatement(IF arrow THEN "edge"
                                        ELSE IF keyword /\ listed THEN "defaults" ELSE "node")
                                EXCEPT !.id = name.v, !.listed = listed,
                                       !.to = IF arrow THEN to.v ELSE <<>>]
                /\ dotAt' = Past(place, {"["})
                /\ UNCHANGED <<dot, graph>>

ReadAttribute ==
    /\ stmt.listed /\ TokenAt(dotAt).k # "]"
    /\ LET key == TokenAt(dotAt)
           eq == TokenAt(key.next)
           val == TokenAt(eq.next)
       IN  IF IsNamed(key) /\ eq.k = "=" /\ IsNamed(val)
           THEN /\ stmt' = [stmt EXCEPT !.attrs = (key.v :> val.v) @@ @]
                /\ dotAt' = Past(val.next, {",", ";"})
                /\ UNCHANGED <<dot, graph>>
           ELSE Malformed

\* addOrUpdateNode and ensureNode: the first statement sets the node's place.
MergeNode(nodes, id, attrs) ==
    LET i == SelectInSeq(nodes, LAMBDA n : n.id = id)
    IN  IF i = 0 THEN Append(nodes, [id |-> id, attrs |-> attrs])
        ELSE [nodes EXCEPT ![i].attrs = attrs @@ @]

AddEdge(g, s) ==
    [g EXCEPT !.edges = Append(@, [from |-> s.id, to |-> s.to, attrs |-> s.attrs @@ g.edgeAttrs]),
              !.nodes = MergeNode(MergeNode(@, s.id, <<>>), s.to, <<>>)]

FinishStatement ==
    /\ stmt.kind \in {"defaults", "node", "edge"}
    /\ stmt.listed => TokenAt(dotAt).k = "]"
    /\ graph' =
        CASE stmt.kind = "node" ->
                [graph EXCEPT !.nodes = MergeNode(@, stmt.id, stmt.attrs @@ graph.nodeAttrs)]
          [] stmt.kind = "edge" -> AddEdge(graph, stmt)
          [] stmt.kind = "defaults" ->
                CASE stmt.id = <<"graph">> -> [graph EXCEPT !.graphAttrs = stmt.attrs @@ @]
                  [] stmt.id = <<"node">>  -> [graph EXCEPT !.nodeAttrs = stmt.attrs @@ @]
                  [] stmt.id = <<"edge">>  -> [graph EXCEPT !.edgeAttrs = stmt.attrs @@ @]
    /\ dotAt' = Past(IF stmt.listed THEN TokenAt(dotAt).next ELSE dotAt, {";"})
    /\ stmt' = NoStatement("none")
    /\ UNCHANGED dot

\* What follows the closing brace is not read.
EndGraph ==
    /\ stmt.kind = "none" /\ ~IsNamed(TokenAt(dotAt)) /\ TokenAt(dotAt).k # ";"
    /\ IF TokenAt(dotAt).k = "}"
       THEN stmt' = NoStatement("done") /\ UNCHANGED <<dot, dotAt, graph>>
       ELSE Malformed

DotNext ==
    \/ ReadHeader \/ SkipSemicolon \/ BeginStatement \/ ReadAttribute \/ FinishStatement
    \/ EndGraph

=============================================================================
