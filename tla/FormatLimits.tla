---------------------------- MODULE FormatLimits ----------------------------
(***************************************************************************)
(* What the formatter can carry: the workflows that come back from the     *)
(* text Format makes of them, and what comes back.  Nothing in the code    *)
(* says so; these are the preconditions of the properties about it.        *)
(***************************************************************************)
EXTENDS DippinFormatter

(***************************************************************************)
(* What a text must look like for the formatter to carry it.  Quotes and   *)
(* backslashes are written unescaped, a line break inside a line ends it,  *)
(* and # behind a blank starts a comment where there are no quotes.        *)
(***************************************************************************)
IsIdent(t) ==
    t # <<>> /\ IsWord(t[1]) /\ \A i \in DOMAIN t : IsWord(t[i]) \/ t[i] \in {"-", ".", "/"}

OnOneLine(t) == t = TrimSpace(t) /\ "NL" \notin ToSet(t)
Quotable(t)  == OnOneLine(t) /\ ToSet(t) \cap {"\"", "\\"} = {}
Bare(t)      == OnOneLine(t) /\ "#" \notin ToSet(t) /\ (t # <<>> => t[1] # "\"")
BlockText(t) == t # <<>> /\ t[1] \notin {" ", "NL"} /\ Last(t) \notin {" ", "NL"}

EdgeLabel(t) == IF NeedsQuoting(t) THEN Quotable(t) ELSE IsIdent(t)

\* A quote opens or closes a literal, which has blanks around it.
ConditionCarried(t) ==
    /\ OnOneLine(t) /\ "\\" \notin ToSet(t)
    /\ \A i \in DOMAIN t : t[i] = "\"" =>
          \/ i \in {1, Len(t)} \/ t[i - 1] = " " \/ t[i + 1] = " "

FieldCarried(key, v) ==
    CASE WrittenAs(key) \in {"joined", "pair"} -> \A i \in DOMAIN v : Bare(v[i])
      [] WrittenAs(key) = "plain"  -> Bare(v)
      [] WrittenAs(key) = "block"  -> BlockText(v)
      [] WrittenAs(key) = "map"    -> \A k \in DOMAIN v : OnOneLine(k) /\ Quotable(v[k])
      [] WrittenAs(key) = "quoted" -> Quotable(v)
      [] OTHER -> TRUE

FieldsCarried(attrs) == \A key \in DOMAIN attrs : FieldCarried(key, attrs[key])

\* The fields the formatter has no line for.
Unwritten(kind) ==
    LET retry == {"retry_policy", "max_retries", "base_delay", "retry_target", "fallback_target"}
    IN  CASE kind = "agent" -> {"system_prompt"}
          [] kind \in {"human", "tool", "conditional"} -> retry
          [] kind = "subgraph" -> retry \cup {"reads", "writes"}
          [] OTHER -> {}

WholeSeconds(d) == IF d < 1000 THEN d ELSE (d \div 1000) * 1000

KeptAttrs(attrs, lost) ==
    [k \in DOMAIN attrs \ lost |->
        IF WrittenAs(k) = "duration" THEN WholeSeconds(attrs[k]) ELSE attrs[k]]

KeptNode(n) == [n EXCEPT !.attrs = KeptAttrs(n.attrs, Unwritten(n.kind))]

NodeCarried(n) ==
    /\ IsIdent(n.id)
    /\ CASE n.kind = "parallel" /\ "branches" \in DOMAIN n.attrs ->
              \A i \in DOMAIN n.attrs.branches :
                  LET b == n.attrs.branches[i] IN IsIdent(b.target) /\ FieldsCarried(b.attrs)
         [] n.kind = "parallel" /\ "branches" \notin DOMAIN n.attrs ->
              "targets" \in DOMAIN n.attrs /\ \A t \in ToSet(n.attrs.targets) : IsIdent(t)
         [] n.kind = "fan_in" -> \A t \in ToSet(n.attrs.sources) : IsIdent(t)
         [] OTHER -> DOMAIN KeptNode(n).attrs # {} /\ FieldsCarried(n.attrs)

EdgeCarried(e) ==
    /\ IsIdent(e.from) /\ IsIdent(e.to)
    /\ "label" \in DOMAIN e.attrs => EdgeLabel(e.attrs["label"])
    /\ "when" \in DOMAIN e.attrs => ConditionCarried(e.attrs["when"])

Carried(w) ==
    /\ IsIdent(w.name)
    /\ FieldsCarried(w.header) /\ FieldsCarried(w.defaults)
    /\ \A k \in DOMAIN w.vars : IsIdent(k) /\ Quotable(w.vars[k])
    /\ \A i \in DOMAIN w.nodes : NodeCarried(w.nodes[i])
    /\ \A i \in DOMAIN w.edges : EdgeCarried(w.edges[i])

Kept(w) ==
    [w EXCEPT !.defaults = KeptAttrs(@, {}),
              !.nodes = [i \in DOMAIN @ |-> KeptNode(@[i])],
              !.stylesheet = ToSet(@)]

=============================================================================
