-------------------------- MODULE ConditionParser ---------------------------
(***************************************************************************)
(* How the text of a condition is read before a workflow is checked or run *)
(* (simulate/condition.go).  The grammar has no parentheses: one is part   *)
(* of the word it stands in.  An empty text in quotes is taken for the end *)
(* of the condition.  Arrows do not occur in conditions.                   *)
(***************************************************************************)
EXTENDS SourceText

(* Expressions: of two parts, of one, and comparisons.                     *)
CondBinary(op, l, r)      == [op |-> op, left |-> l, right |-> r]
CondNot(e)                == [op |-> "not", inner |-> e]
CondCompare(key, op, val) == [op |-> op, key |-> key, value |-> val]

Quotes         == {"\"", "'"}
OperatorPieces == {"=", "==", "!=", "<", ">", "!"}

\* The last piece of the token that begins at i.
TokenEnd(t, i) ==
    LET until(stop(_)) == Min({j \in (i + 1)..Len(t) : stop(t[j])} \cup {Len(t) + 1})
    IN  CASE t[i] \in Quotes -> Min({until(LAMBDA c : c = t[i]), Len(t)})
          [] t[i] \in OperatorPieces ->
                IF t[i] \in {"=", "<", ">", "!"} /\ i < Len(t) /\ t[i + 1] = "=" THEN i + 1 ELSE i
          [] OTHER -> until(LAMBDA c : c = " " \/ c \in OperatorPieces) - 1

\* The text of the token t: without its quotes, an operator as one piece.
TokenText(t) ==
    CASE t[1] \in Quotes -> SelectSeq(t, LAMBDA c : c # t[1])
      [] Len(t) = 2 /\ t[1] \in OperatorPieces -> <<IF t[1] = "=" THEN "==" ELSE t[1] \o "=">>
      [] OTHER -> t

RECURSIVE TokensFrom(_, _)
TokenAndRest(t, i, end) == <<TokenText(SubSeq(t, i, end))>> \o TokensFrom(t, end + 1)
TokensFrom(t, i) ==
    IF i > Len(t) THEN <<>>
    ELSE IF t[i] = " " THEN TokensFrom(t, i + 1)
    ELSE TokenAndRest(t, i, TokenEnd(t, i))

TokenizeCondition(raw) == TokensFrom(TrimSpace(raw), 1)

-----------------------------------------------------------------------------
(* What a method of condParser returns, and the tokens it leaves.          *)
Got(e, rest) == [ok |-> TRUE, expr |-> e, rest |-> rest]
NotGot        == [ok |-> FALSE, expr |-> <<>>, rest |-> <<>>]

Peek(ts)     == IF ts = <<>> THEN <<>> ELSE ts[1]
Ahead(ts, k) == SubSeq(ts, k + 1, Len(ts))

ValidOperators == {<<op>> : op \in {"=", "==", "!=", "contains", "startswith", "endswith", "in"}}

\* parseOpValue
CompareWith(var, ts) ==
    IF Len(ts) < 2 \/ ts[1] \notin ValidOperators \/ ts[2] = <<>> THEN NotGot
    ELSE Got(CondCompare(var, ts[1][1], ts[2]), Ahead(ts, 2))

Negated(r) == IF r.ok THEN Got(CondNot(r.expr), r.rest) ELSE r

\* parseCompare: "not" may stand between the variable and the operator.
ParseCompare(ts) ==
    CASE Peek(ts) = <<>> -> NotGot
      [] Peek(ts) # <<>> /\ Peek(Ahead(ts, 1)) = <<"not">> ->
            Negated(CompareWith(ts[1], Ahead(ts, 2)))
      [] OTHER -> CompareWith(ts[1], Ahead(ts, 1))

\* Mutant: one negation only.
OneNot(ts) == IF Peek(ts) = <<"not">> THEN Negated(ParseCompare(Ahead(ts, 1))) ELSE ParseCompare(ts)

RECURSIVE ParseUnary(_)
ParseUnary(ts) ==
    IF Peek(ts) = <<"not">> THEN Negated(ParseUnary(Ahead(ts, 1))) ELSE ParseCompare(ts)

\* One more operand on the right: left and right are results.
Joined(op, left, right) ==
    IF right.ok THEN Got(CondBinary(op, left.expr, right.expr), right.rest) ELSE right

RECURSIVE MoreAnds(_)
MoreAnds(left) ==
    IF left.ok /\ Peek(left.rest) = <<"and">>
    THEN MoreAnds(Joined("and", left, ParseUnary(Ahead(left.rest, 1))))
    ELSE left

ParseAnd(ts) == MoreAnds(ParseUnary(ts))

RECURSIVE MoreOrs(_)
MoreOrs(left) ==
    IF left.ok /\ Peek(left.rest) = <<"or">>
    THEN MoreOrs(Joined("or", left, ParseAnd(Ahead(left.rest, 1))))
    ELSE left

ParseOr(ts) == MoreOrs(ParseAnd(ts))

\* Nothing may be left over.
Whole(r) == IF r.rest = <<>> THEN r ELSE NotGot

ParseCondition(raw) == Whole(ParseOr(TokenizeCondition(raw)))

=============================================================================
