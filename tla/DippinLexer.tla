---------------------------- MODULE DippinLexer -----------------------------
(***************************************************************************)
(* The indentation-sensitive lexer (parser/lexer.go).  One action per      *)
(* source line, lexOneLine, which takes a "key:" line and the block below  *)
(* it at once; the last one closes the levels still open.                  *)
(***************************************************************************)
EXTENDS SourceText

VARIABLES
    lines,      \* the source
    at,         \* the line to lex next; Len(lines) + 2 once all is done
    stack,      \* indentStack, the columns of the open levels
    toks        \* the tokens: [type, val, line]

lexVars == <<lines, at, stack, toks>>

Token(type, val, n) == [type |-> type, val |-> val, line |-> n]

\* Marks that are a token of their own; the others are skipped.
MarkType(c) ==
    CASE c = ":" -> "colon" [] c = "," -> "comma" [] c = "(" -> "lparen"
      [] c = ")" -> "rparen" [] c = "[" -> "lbracket" [] c = "->" -> "arrow"
      [] c = "<-" -> "backarrow" [] c \in {"=", "==", "!=", "<", ">"} -> "operator"
      [] OTHER -> "skipped"

(***************************************************************************)
(* lexLine: the tokens of one line, piece by piece.  mode is where the     *)
(* lexer stands: between tokens, in an identifier, in a quoted literal, or *)
(* behind a backslash in one.                                              *)
(***************************************************************************)
Emit(acc, type, n) ==
    [acc EXCEPT !.out = Append(@, Token(type, acc.cur, n)), !.cur = <<>>, !.mode = "between"]

LexPiece(acc, c, n) ==
    LET before == IF acc.mode = "ident" THEN Emit(acc, "ident", n) ELSE acc
    IN  CASE acc.mode = "escape" ->
                [acc EXCEPT !.cur = Append(@, c), !.mode = "literal"]
          [] acc.mode = "literal" /\ c = "\"" -> Emit(acc, "literal", n)
          [] acc.mode = "literal" /\ c = "\\" -> [acc EXCEPT !.mode = "escape"]
          [] acc.mode = "literal" /\ c \notin {"\"", "\\"} -> [acc EXCEPT !.cur = Append(@, c)]
          [] acc.mode = "ident" /\ (IsWord(c) \/ c \in {"-", ".", "/"}) ->
                [acc EXCEPT !.cur = Append(@, c)]
          [] acc.mode = "between" /\ IsWord(c) -> [acc EXCEPT !.cur = <<c>>, !.mode = "ident"]
          [] acc.mode \in {"between", "ident"} /\ c = "\"" -> [before EXCEPT !.mode = "literal"]
          [] OTHER -> IF MarkType(c) = "skipped" THEN before
                      ELSE [before EXCEPT !.out = Append(@, Token(MarkType(c), <<c>>, n))]

LexText(t, n) ==
    LET upTo[k \in 0..Len(t)] ==
            IF k = 0 THEN [out |-> <<>>, cur |-> <<>>, mode |-> "between"]
            ELSE LexPiece(upTo[k - 1], t[k], n)
        end == upTo[Len(t)]
    IN  CASE end.mode = "ident"   -> Emit(end, "ident", n).out
          [] end.mode = "literal" -> Emit(end, "literal", n).out
          [] end.mode = "escape"  -> Emit([end EXCEPT !.cur = Append(@, "\\")], "literal", n).out
          [] OTHER                -> end.out

(***************************************************************************)
(* emitIndentTokens.  A line between two open levels closes the inner one  *)
(* and opens none: it counts as a line of the outer level.                 *)
(***************************************************************************)
LevelsAt(n) ==
    IF n > Last(stack) THEN Append(stack, n)
    ELSE SubSeq(stack, 1, Max({1} \cup {i \in DOMAIN stack : stack[i] <= n}))

\* Plausible mistake: a line closes one level, however far left it is.
IndentTokensOnce(n, num) ==
    IF n = Last(stack) THEN <<>>
    ELSE <<Token(IF n > Last(stack) THEN "indent" ELSE "outdent", <<>>, num)>>

IndentTokens(n, num) ==
    IF n > Last(stack) THEN <<Token("indent", <<>>, num)>>
    ELSE [i \in 1..(Len(stack) - Len(LevelsAt(n))) |-> Token("outdent", <<>>, num)]

(***************************************************************************)
(* "key:" with nothing behind it, and the deeper lines that follow: a raw  *)
(* block.  A comment in the block is text, and the first line of the block *)
(* sets the column the others are cut at.                                  *)
(***************************************************************************)
IsKeyColonLine(t) ==
    Len(t) > 1 /\ Last(t) = ":" /\ \A i \in 1..(Len(t) - 1) : IsWord(t[i])

IsBlank(i) == TrimSpace(lines[i].t) = <<>>

NextContent(i) == {j \in i..Len(lines) : ~IsBlank(j)}

BlockEnd(i, n) == Min({Len(lines) + 1} \cup {j \in i..Len(lines) : ~IsBlank(j) /\ lines[j].ind <= n})

RawBlock(first, end) ==
    LET column == lines[first].ind
        cut(j) == [k \in 1..Max({0, lines[j].ind - column}) |-> " "] \o lines[j].t
    IN  TrimRight(Join([k \in 1..(end - first) |-> cut(first + k - 1)], <<"NL">>))

KeyColonLine(t, n) ==
    LET first == Min(NextContent(at + 1))
        end == BlockEnd(first, n)
        key == <<Token("ident", SubSeq(t, 1, Len(t) - 1), at), Token("colon", <<":">>, at),
                 Token("newline", <<>>, at)>>
    IN  IF NextContent(at + 1) # {} /\ lines[first].ind > n
        THEN [toks |-> key \o <<Token("raw", RawBlock(first, end), first),
                                Token("newline", <<>>, end)>>,
              next |-> end]
        ELSE [toks |-> key, next |-> at + 1]

(***************************************************************************)
(* The actions.                                                            *)
(***************************************************************************)
LexInit(source) ==
    /\ lines = source
    /\ at = 1
    /\ stack = <<0>>
    /\ toks = <<>>

LexOneLine ==
    /\ at <= Len(lines)
    /\ LET n == lines[at].ind
           t == TrimRight(StripComment(lines[at].t))
           block == KeyColonLine(t, n)
       IN  IF t = <<>>
           THEN at' = at + 1 /\ UNCHANGED <<stack, toks>>
           ELSE /\ stack' = LevelsAt(n)
                /\ at' = IF IsKeyColonLine(t) THEN block.next ELSE at + 1
                /\ toks' = toks \o IndentTokens(n, at) \o
                           (IF IsKeyColonLine(t) THEN block.toks
                            ELSE Append(LexText(t, at), Token("newline", <<>>, at)))
    /\ UNCHANGED lines

EmitRemainingOutdents ==
    /\ at = Len(lines) + 1
    /\ toks' = toks \o [i \in 1..(Len(stack) - 1) |-> Token("outdent", <<>>, at)]
                    \o <<Token("eof", <<>>, at)>>
    /\ stack' = <<0>>
    /\ at' = at + 1
    /\ UNCHANGED lines

LexNext == LexOneLine \/ EmitRemainingOutdents

Lexed == at = Len(lines) + 2

=============================================================================
