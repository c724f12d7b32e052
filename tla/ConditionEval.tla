--------------------------- MODULE ConditionEval ----------------------------
(***************************************************************************)
(* Evaluation of a parsed edge condition (simulate/defaults.go:65-143).    *)
(* Only TLC's runs use this module: Eval is recursive over the expression. *)
(*                                                                         *)
(* An expression is a record with a field op:                              *)
(*    and, or            [op, left, right]                                 *)
(*    not                [op, inner]                                       *)
(*    a comparison       [op, variable, value]; the value of "in" is the   *)
(*                       set of the texts between the commas               *)
(* A variable is the name as it is written, and a context maps the keys    *)
(* that are set to their values.  Of the six text comparisons the three    *)
(* that look inside a text are left to TextOp.                             *)
(***************************************************************************)
CONSTANTS
    TextOp(_, _, _),    \* TextOp(op, text, part)
    Bare(_),            \* Bare(variable): without its "ctx." prefix, if it has one
    Goal                \* the goal of the workflow, "" when it declares none

Compare(op, variable, value) == [op |-> op, variable |-> variable, value |-> value]
And(l, r) == [op |-> "and", left |-> l, right |-> r]
Or(l, r)  == [op |-> "or", left |-> l, right |-> r]
Not(e)    == [op |-> "not", inner |-> e]

\* The bare key first, then the full name, which a scenario may have set; what
\* is neither reads as the empty text.
ResolveVariable(variable, c) ==
    CASE Bare(variable) \in DOMAIN c -> c[Bare(variable)]
      [] Bare(variable) \notin DOMAIN c /\ variable \in DOMAIN c -> c[variable]
      [] OTHER -> IF variable = "graph.goal" THEN Goal ELSE ""

\* An operator the table does not have never holds.
EvalCompare(e, c) ==
    LET text == ResolveVariable(e.variable, c)
    IN  CASE e.op \in {"=", "=="} -> text = e.value
          [] e.op = "!=" -> text # e.value
          [] e.op = "in" -> text \in e.value
          [] e.op \in {"contains", "startswith", "endswith"} -> TextOp(e.op, text, e.value)
          [] OTHER -> FALSE

RECURSIVE Eval(_, _)
Eval(e, c) ==
    CASE e.op = "and" -> Eval(e.left, c) /\ Eval(e.right, c)
      [] e.op = "or"  -> Eval(e.left, c) \/ Eval(e.right, c)
      [] e.op = "not" -> ~Eval(e.inner, c)
      [] OTHER        -> EvalCompare(e, c)

=============================================================================
