----------------------------- MODULE LoopProofs -----------------------------
(***************************************************************************)
(* The two loops that take whatever comes: the lexer and parser over the   *)
(* text of a file (parser/lexer.go, parser/parser.go), and the watch loop  *)
(* over the events of a directory (watch/).                                *)
(*                                                                         *)
(* Reading gets on.  The invariant Reads says where lexer and parser       *)
(* stand: the tokens end with the line, and with an eof once the source is *)
(* used up, whose neighbour is never a name; the parser stands on a token  *)
(* or behind the last, and in the file at least.  The eof is what every    *)
(* search for an end finds, and the file is the block no turn leaves.      *)
(*                                                                         *)
(* Watching forgets nothing: the remembered file always has its timer, and *)
(* where a single file is saved, no save stays unseen.                     *)
(***************************************************************************)
EXTENDS DippinParser, Watch, WellFoundedInduction, TLAPS

-----------------------------------------------------------------------------
(* Sequences, whatever they hold.                                          *)
IsSeq(s) == \E S : s \in Seq(S)

LEMMA SeqOfMore ==
  ASSUME NEW S, NEW T, S \subseteq T, NEW s \in Seq(S) PROVE s \in Seq(T)
<1>1. Len(s) \in Nat /\ s = [i \in 1..Len(s) |-> s[i]] /\ \A i \in 1..Len(s) : s[i] \in S
  OBVIOUS
<1>2. s \in [1..Len(s) -> T]
  BY <1>1
<1>3. QED
  BY <1>1, <1>2

LEMMA SeqAppend ==
  ASSUME NEW s, IsSeq(s), NEW e
  PROVE  /\ Len(s) \in Nat /\ DOMAIN s = 1..Len(s)
         /\ IsSeq(Append(s, e)) /\ Len(Append(s, e)) = Len(s) + 1 /\ Append(s, e)[Len(s) + 1] = e
<1>1. PICK S : s \in Seq(S)
  BY DEF IsSeq
<1>2. s \in Seq(S \cup {e})
  BY <1>1, SeqOfMore
<1>3. Append(s, e) \in Seq(S \cup {e})
  BY <1>2
<1>4. QED
  BY <1>1, <1>2, <1>3 DEF IsSeq

LEMMA SeqConcat ==
  ASSUME NEW s, IsSeq(s), NEW t, IsSeq(t)
  PROVE  /\ IsSeq(s \o t) /\ Len(s \o t) = Len(s) + Len(t) /\ Len(s) \in Nat /\ Len(t) \in Nat
         /\ \A i \in 1..Len(t) : (s \o t)[Len(s) + i] = t[i]
<1>1. PICK S : s \in Seq(S)
  BY DEF IsSeq
<1>2. PICK T : t \in Seq(T)
  BY DEF IsSeq
<1>3. s \in Seq(S \cup T) /\ t \in Seq(S \cup T)
  BY <1>1, <1>2, SeqOfMore
<1> DEFINE U == S \cup T
<1> HIDE DEF U
<1>4. s \in Seq(U) /\ t \in Seq(U)
  BY <1>3 DEF U
<1>5. s \o t \in Seq(U)
  BY <1>4
<1>6. QED
  BY <1>4, <1>5 DEF IsSeq


LEMMA SeqTuples ==
  ASSUME NEW x, NEW y, NEW z
  PROVE  /\ IsSeq(<<x>>) /\ Len(<<x>>) = 1 /\ <<x>>[1] = x
         /\ IsSeq(<<x, y>>) /\ Len(<<x, y>>) = 2 /\ <<x, y>>[2] = y
         /\ IsSeq(<<x, y, z>>) /\ Len(<<x, y, z>>) = 3 /\ <<x, y, z>>[3] = z
<1> DEFINE U == {x, y, z}
<1>1. x \in U /\ y \in U /\ z \in U
  OBVIOUS
<1> HIDE DEF U
<1>2. <<x>> \in Seq(U) /\ <<x, y>> \in Seq(U) /\ <<x, y, z>> \in Seq(U)
  BY <1>1
<1>3. QED
  BY <1>2 DEF IsSeq

\* What lexLine has so far: tokens, and the one it is in.
IsLexing(acc) == IsSeq(acc.out) /\ DOMAIN acc = {"out", "cur", "mode"}

LEMMA EmitIsLexing ==
  ASSUME NEW acc, IsLexing(acc), NEW type, NEW n
  PROVE  IsLexing(Emit(acc, type, n))
<1>1. DOMAIN Emit(acc, type, n) = DOMAIN acc
  BY DEF Emit
<1>2. Emit(acc, type, n).out = Append(acc.out, Token(type, acc.cur, n))
  BY DEF Emit, IsLexing
<1>3. IsSeq(Append(acc.out, Token(type, acc.cur, n)))
  BY SeqAppend DEF IsLexing
<1>4. QED
  BY <1>1, <1>2, <1>3 DEF IsLexing

LEMMA ExceptIsLexing ==
  ASSUME NEW acc, IsLexing(acc), NEW cur, NEW mode, NEW token
  PROVE  /\ IsLexing([acc EXCEPT !.mode = mode]) /\ IsLexing([acc EXCEPT !.cur = cur])
         /\ IsLexing([acc EXCEPT !.cur = cur, !.mode = mode])
         /\ IsLexing([acc EXCEPT !.out = Append(@, token)])
<1>1. DOMAIN [acc EXCEPT !.mode = mode] = DOMAIN acc /\ [acc EXCEPT !.mode = mode].out = acc.out
  BY DEF IsLexing
<1>2. DOMAIN [acc EXCEPT !.cur = cur] = DOMAIN acc /\ [acc EXCEPT !.cur = cur].out = acc.out
  BY DEF IsLexing
<1>3. /\ DOMAIN [acc EXCEPT !.cur = cur, !.mode = mode] = DOMAIN acc
      /\ [acc EXCEPT !.cur = cur, !.mode = mode].out = acc.out
  BY DEF IsLexing
<1>4. /\ DOMAIN [acc EXCEPT !.out = Append(@, token)] = DOMAIN acc
      /\ [acc EXCEPT !.out = Append(@, token)].out = Append(acc.out, token)
  BY DEF IsLexing
<1>5. IsSeq(Append(acc.out, token))
  BY SeqAppend DEF IsLexing
<1>6. QED
  BY <1>1, <1>2, <1>3, <1>4, <1>5 DEF IsLexing

LEMMA PieceIsLexing ==
  ASSUME NEW acc, IsLexing(acc), NEW c, NEW n
  PROVE  IsLexing(LexPiece(acc, c, n))
<1> DEFINE before == IF acc.mode = "ident" THEN Emit(acc, "ident", n) ELSE acc
           escaped == [acc EXCEPT !.cur = Append(@, c), !.mode = "literal"]
           ended == Emit(acc, "literal", n)
           escape == [acc EXCEPT !.mode = "escape"]
           longer == [acc EXCEPT !.cur = Append(@, c)]
           begun == [acc EXCEPT !.cur = <<c>>, !.mode = "ident"]
           quoted == [before EXCEPT !.mode = "literal"]
           marked == [before EXCEPT !.out = Append(@, Token(MarkType(c), <<c>>, n))]
<1>1. LexPiece(acc, c, n) =
         CASE acc.mode = "escape" -> escaped
           [] acc.mode = "literal" /\ c = "\"" -> ended
           [] acc.mode = "literal" /\ c = "\\" -> escape
           [] acc.mode = "literal" /\ c \notin {"\"", "\\"} -> longer
           [] acc.mode = "ident" /\ (IsWord(c) \/ c \in {"-", ".", "/"}) -> longer
           [] acc.mode = "between" /\ IsWord(c) -> begun
           [] acc.mode \in {"between", "ident"} /\ c = "\"" -> quoted
           [] OTHER -> IF MarkType(c) = "skipped" THEN before ELSE marked
  BY DEF LexPiece
<1>2. IsLexing(ended) /\ IsLexing(before)
  BY EmitIsLexing
<1>3. IsLexing(escaped) /\ IsLexing(escape) /\ IsLexing(longer) /\ IsLexing(begun)
  BY ExceptIsLexing
<1> HIDE DEF before
<1>4. IsLexing(quoted) /\ IsLexing(marked)
  BY <1>2, ExceptIsLexing
<1> HIDE DEF escaped, ended, escape, longer, begun, quoted, marked
<1>5. LexPiece(acc, c, n) \in {before, escaped, ended, escape, longer, begun, quoted, marked}
  BY <1>1
<1>6. QED
  BY <1>2, <1>3, <1>4, <1>5

(* A nonempty set of naturals has a least element, and one with a bound    *)
(* has a greatest; Min and Max return them.                                *)
LEMMA HasLeast ==
  ASSUME NEW S \in SUBSET Nat, S # {}
  PROVE  Min(S) \in S /\ \A y \in S : Min(S) <= y
<1> DEFINE R == {ss \in Nat \X Nat : ss[1] < ss[2]}
<1>1. IsWellFoundedOn(R, Nat)
  BY NatLessThanWellFounded DEF OpToRel
<1>2. PICK x \in S : \A y \in S : <<y, x>> \notin R
  BY <1>1, WFMin
<1>3. ASSUME NEW y \in S PROVE x <= y
  <2>1. <<y, x>> \in Nat \X Nat /\ <<y, x>> \notin R
    BY <1>2
  <2>2. ~(<<y, x>>[1] < <<y, x>>[2])
    BY <2>1
  <2>3. QED
    BY <2>2
<1>4. QED
  BY <1>3 DEF Min

LEMMA HasGreatest ==
  ASSUME NEW n \in Nat, NEW S \in SUBSET (0..n), S # {}
  PROVE  Max(S) \in S /\ \A y \in S : y <= Max(S)
<1> DEFINE T == {n - x : x \in S}
<1>1. T \in SUBSET Nat /\ T # {}
  <2>1. \A x \in S : n - x \in Nat
    OBVIOUS
  <2>2. QED
    BY <2>1
<1> HIDE DEF T
<1>2. Min(T) \in T /\ \A y \in T : Min(T) <= y
  BY <1>1, HasLeast
<1> USE DEF T
<1>3. PICK x \in S : Min(T) = n - x
  BY <1>2
<1>4. ASSUME NEW y \in S PROVE y <= x
  <2>1. n - x <= n - y
    BY <1>2, <1>3
  <2>2. QED
    BY <2>1
<1>5. QED
  BY <1>4 DEF Max

\* f[k] is what the lexer has after k pieces of the line t.
LexSteps(f, t, n, start) ==
    /\ f = [k \in 0..Len(t) |-> f[k]]
    /\ \A k \in 0..Len(t) : f[k] = IF k = 0 THEN start ELSE LexPiece(f[k - 1], t[k], n)

(* The pieces of a line, one by one: there is such a sequence of steps.    *)
LEMMA LexingExists ==
  ASSUME NEW t, Len(t) \in Nat, NEW n, NEW start
  PROVE  \E f : LexSteps(f, t, n, start)
<1> DEFINE N == Len(t)
           Adds(f, m) == f[0] = start /\ \A k \in 1..m : f[k] = LexPiece(f[k - 1], t[k], n)
           Good(m) == \E f : Adds(f, m)
           bad == {m \in Nat : m \in 0..N /\ ~Good(m)}
<1>1. Good(0)
  <2> DEFINE f == [k \in {0} |-> start]
  <2>1. f[0] = start /\ 1..0 = {}
    OBVIOUS
  <2>2. QED
    BY <2>1
<1>2. ASSUME NEW m \in 1..N, Good(m - 1) PROVE Good(m)
  <2>1. PICK g : Adds(g, m - 1)
    BY <1>2
  <2> DEFINE f == [k \in 0..m |-> IF k = m THEN LexPiece(g[m - 1], t[m], n) ELSE g[k]]
  <2>2. f[m] = LexPiece(g[m - 1], t[m], n) /\ \A k \in 0..(m - 1) : f[k] = g[k]
    OBVIOUS
  <2> HIDE DEF f
  <2>3. ASSUME NEW k \in 1..m PROVE f[k] = LexPiece(f[k - 1], t[k], n)
    <3>1. k - 1 \in 0..(m - 1)
      OBVIOUS
    <3>2. CASE k = m
      BY <2>2, <3>1, <3>2
    <3>3. CASE k # m
      <4>1. k \in 1..(m - 1) /\ k \in 0..(m - 1)
        BY <3>3
      <4>2. g[k] = LexPiece(g[k - 1], t[k], n)
        BY <2>1, <4>1
      <4>3. QED
        BY <2>2, <3>1, <4>1, <4>2
    <3>4. QED
      BY <3>2, <3>3
  <2>4. f[0] = start
    BY <2>1, <2>2
  <2>5. QED
    BY <2>3, <2>4
<1> HIDE DEF Good
<1>3. bad = {}
  <2> SUFFICES ASSUME bad # {} PROVE FALSE
    OBVIOUS
  <2>1. Min(bad) \in bad /\ \A y \in bad : Min(bad) <= y
    <3>1. bad \in SUBSET Nat
      OBVIOUS
    <3> HIDE DEF bad
    <3>2. QED
      BY <3>1, HasLeast
  <2> DEFINE m == Min(bad)
  <2> HIDE DEF m
  <2>2. m \in 0..N /\ ~Good(m) /\ m # 0 /\ \A y \in bad : m <= y
    BY <1>1, <2>1 DEF m
  <2>3. m - 1 \in 0..N /\ m - 1 \notin bad
    BY <2>2
  <2>4. QED
    BY <1>2, <2>2, <2>3
<1>4. PICK f : Adds(f, N)
  BY <1>3 DEF Good
<1> DEFINE h == [k \in 0..N |-> f[k]]
<1>5. \A k \in 0..N : h[k] = f[k] /\ (k # 0 => k \in 1..N /\ k - 1 \in 0..N)
  OBVIOUS
<1>6. \A k \in 0..N : h[k] = IF k = 0 THEN start ELSE LexPiece(h[k - 1], t[k], n)
  BY <1>4, <1>5
<1>7. h = [k \in 0..N |-> h[k]]
  BY <1>5
<1> HIDE DEF h
<1>8. QED
  BY <1>6, <1>7 DEF LexSteps

(* The tokens of a line are a sequence.                                    *)
LEMMA LineTokens ==
  ASSUME NEW t, Len(t) \in Nat, NEW n
  PROVE  IsSeq(LexText(t, n))
<1> DEFINE N == Len(t)
           start == [out |-> <<>>, cur |-> <<>>, mode |-> "between"]
           Step(f) == [k \in 0..N |-> IF k = 0 THEN start ELSE LexPiece(f[k - 1], t[k], n)]
           upTo == CHOOSE f : f = Step(f)
           end == upTo[N]
           bad == {m \in Nat : m \in 0..N /\ ~IsLexing(upTo[m])}
<1> HIDE DEF start
<1>1. \E f : f = Step(f)
  <2>1. PICK f : LexSteps(f, t, n, start)
    BY LexingExists
  <2>2. f = Step(f)
    BY <2>1 DEF LexSteps
  <2>3. QED
    BY <2>2
<1>2. upTo = Step(upTo)
  <2> HIDE DEF Step
  <2>1. QED
    BY <1>1
<1> HIDE DEF upTo
<1>3. upTo[0] = start /\ \A k \in 1..N : upTo[k] = LexPiece(upTo[k - 1], t[k], n)
  BY <1>2
<1>4. IsLexing(upTo[0])
  BY <1>3 DEF IsLexing, IsSeq, start
<1>5. bad = {}
  <2> SUFFICES ASSUME bad # {} PROVE FALSE
    OBVIOUS
  <2>1. Min(bad) \in bad /\ \A y \in bad : Min(bad) <= y
    <3>1. bad \in SUBSET Nat
      OBVIOUS
    <3> HIDE DEF bad
    <3>2. QED
      BY <3>1, HasLeast
  <2> DEFINE m == Min(bad)
  <2> HIDE DEF m
  <2>2. m \in 0..N /\ ~IsLexing(upTo[m]) /\ m # 0 /\ \A y \in bad : m <= y
    BY <1>4, <2>1 DEF m
  <2>3. m - 1 \in 0..N /\ m - 1 \notin bad /\ m \in 1..N
    BY <2>2
  <2>4. IsLexing(upTo[m - 1]) /\ upTo[m] = LexPiece(upTo[m - 1], t[m], n)
    BY <1>3, <2>3
  <2>5. QED
    BY <2>2, <2>4, PieceIsLexing
<1>6. IsLexing(end)
  BY <1>5
<1> DEFINE ident == Emit(end, "ident", n).out
           literal == Emit(end, "literal", n).out
           escape == Emit([end EXCEPT !.cur = Append(@, "\\")], "literal", n).out
<1>7. LexText(t, n) =
         CASE end.mode = "ident" -> ident
           [] end.mode = "literal" -> literal
           [] end.mode = "escape" -> escape
           [] OTHER -> end.out
  BY DEF LexText, upTo, start
<1> HIDE DEF end
<1>8. IsSeq(ident) /\ IsSeq(literal) /\ IsSeq(escape) /\ IsSeq(end.out)
  <2>1. IsLexing([end EXCEPT !.cur = Append(@, "\\")])
    BY <1>6, ExceptIsLexing
  <2>2. IsLexing(Emit([end EXCEPT !.cur = Append(@, "\\")], "literal", n))
    BY <2>1, EmitIsLexing
  <2>3. QED
    BY <1>6, <2>2, EmitIsLexing DEF IsLexing
<1> HIDE DEF ident, literal, escape
<1>9. LexText(t, n) \in {ident, literal, escape, end.out}
  BY <1>7
<1>10. QED
  BY <1>8, <1>9

(* Trimmed and without its comment, a text is a text.                      *)
LEMMA SubSeqFacts ==
  ASSUME NEW S, NEW s \in Seq(S), NEW m \in 1..(Len(s) + 1), NEW n \in 0..Len(s)
  PROVE  SubSeq(s, m, n) \in Seq(S)
OBVIOUS

LEMMA StartOfSeq ==
  ASSUME NEW S, NEW s \in Seq(S), NEW n \in 1..Len(s)
  PROVE  SubSeq(s, 1, n) \in Seq(S) /\ Len(SubSeq(s, 1, n)) = n /\ SubSeq(s, 1, n)[1] = s[1]
OBVIOUS

LEMMA TrimmedIsText ==
  ASSUME NEW t \in Seq(STRING)
  PROVE  TrimRight(t) \in Seq(STRING) /\ StripComment(t) \in Seq(STRING)
<1>1. ASSUME NEW u \in Seq(STRING) PROVE TrimRight(u) \in Seq(STRING)
  <2> DEFINE ink == {i \in DOMAIN u : u[i] \notin {" ", "NL"}}
  <2>1. CASE ink = {}
    <3>1. TrimRight(u) = <<>>
      BY <2>1 DEF TrimRight
    <3>2. QED
      BY <3>1
  <2>2. CASE ink # {}
    <3>1. Len(u) \in Nat /\ ink \in SUBSET (0..Len(u))
      <4>1. Len(u) \in Nat /\ DOMAIN u = 1..Len(u)
        OBVIOUS
      <4>2. \A k \in ink : k \in 1..Len(u)
        BY <4>1
      <4> HIDE DEF ink
      <4>3. QED
        BY <4>1, <4>2
    <3>2. Max(ink) \in 0..Len(u)
      <4> HIDE DEF ink
      <4>1. QED
        BY <2>2, <3>1, HasGreatest
    <3>3. TrimRight(u) = SubSeq(u, 1, Max(ink))
      BY <2>2 DEF TrimRight
    <3> HIDE DEF ink
    <3>4. QED
      BY <3>1, <3>2, <3>3, SubSeqFacts
  <2>3. QED
    BY <2>1, <2>2
<1> DEFINE text == TrimRight(t)
           i == Min(UnquotedHash(text))
<1>2. text \in Seq(STRING)
  BY <1>1
<1> HIDE DEF text
<1>3. CASE UnquotedHash(text) = {}
  BY <1>1, <1>2, <1>3 DEF StripComment, text
<1>4. CASE UnquotedHash(text) # {}
  <2>1. UnquotedHash(text) \in SUBSET Nat /\ \A k \in UnquotedHash(text) : k \in 1..Len(text)
    <3>1. Len(text) \in Nat /\ DOMAIN text = 1..Len(text)
      BY <1>2
    <3>2. UnquotedHash(text) \subseteq DOMAIN text
      BY Zenon DEF UnquotedHash
    <3>3. QED
      BY <3>1, <3>2
  <2>2. i \in 1..Len(text)
    BY <1>4, <2>1, HasLeast
  <2>3. SubSeq(text, 1, i - 1) \in Seq(STRING)
    BY <1>2, <2>2, SubSeqFacts
  <2>4. StripComment(t) \in {text, SubSeq(text, 1, i - 1)}
    BY DEF StripComment, text
  <2>5. QED
    BY <1>1, <1>2, <2>3, <2>4
<1>5. QED
  BY <1>1, <1>3, <1>4

(* A token repeated.                                                       *)
LEMMA Repeated ==
  ASSUME NEW d \in Int, NEW e, NEW s \in [1..d -> {e}]
  PROVE  IsSeq(s) /\ Len(s) = (IF d > 0 THEN d ELSE 0) /\ \A i \in 1..Len(s) : s[i] = e
<1>1. CASE d > 0
  <2>1. s \in Seq({e}) /\ Len(s) = d /\ \A i \in 1..d : s[i] = e
    BY <1>1
  <2>2. QED
    BY <1>1, <2>1 DEF IsSeq
<1>2. CASE ~(d > 0)
  <2>1. 1..d = {}
    BY <1>2
  <2>2. s = <<>>
    BY <2>1
  <2>3. <<>> \in Seq({e}) /\ Len(<<>>) = 0 /\ 1..0 = {}
    OBVIOUS
  <2>4. IsSeq(<<>>)
    BY <2>3 DEF IsSeq
  <2>5. IsSeq(s) /\ Len(s) = 0 /\ 1..Len(s) = {}
    BY ONLY <2>2, <2>3, <2>4
  <2>6. QED
    BY <1>2, <2>5
<1>3. QED
  BY <1>1, <1>2

-----------------------------------------------------------------------------
(* The lexer                                                               *)

EndsLine(ts) == ts = <<>> \/ ts[Len(ts)].type = "newline"

\* A file behind whose last line the lexer puts an eof, whatever is in it.
EndsFile(ts) ==
    /\ Len(ts) >= 1 /\ ts[Len(ts)].type = "eof"
    /\ Len(ts) >= 2 => ts[Len(ts) - 1].type \in {"newline", "outdent"}

Lexing ==
    /\ lines \in Seq([ind : Nat, t : Seq(STRING)])
    /\ at \in 1..(Len(lines) + 2)
    /\ IsSeq(stack) /\ Len(stack) >= 1
    /\ IsSeq(toks)
    /\ ~Lexed => EndsLine(toks)
    /\ Lexed => EndsFile(toks)

LEMMA LevelsAreSeq ==
  ASSUME IsSeq(stack), Len(stack) >= 1, NEW n, NEW num
  PROVE  IsSeq(LevelsAt(n)) /\ Len(LevelsAt(n)) >= 1 /\ IsSeq(IndentTokens(n, num))
<1> DEFINE below == {1} \cup {i \in DOMAIN stack : stack[i] <= n}
<1>1. PICK S : stack \in Seq(S)
  BY DEF IsSeq
<1>2. Len(stack) \in Nat /\ DOMAIN stack = 1..Len(stack)
  BY <1>1
<1>3. Max(below) \in 1..Len(stack)
  <2>1. below \in SUBSET (0..Len(stack)) /\ below # {} /\ \A i \in below : i \in 1..Len(stack)
    BY <1>2
  <2> HIDE DEF below
  <2>2. QED
    BY <1>2, <2>1, HasGreatest
<1>4. IsSeq(Append(stack, n)) /\ Len(Append(stack, n)) >= 1
  BY <1>2, SeqAppend
<1>5. SubSeq(stack, 1, Max(below)) \in Seq(S) /\ Len(SubSeq(stack, 1, Max(below))) = Max(below)
  <2> HIDE DEF below
  <2>1. QED
    BY <1>1, <1>2, <1>3
<1>6. IsSeq(LevelsAt(n)) /\ Len(LevelsAt(n)) >= 1
  <2>1. LevelsAt(n) \in {Append(stack, n), SubSeq(stack, 1, Max(below))}
    BY DEF LevelsAt
  <2>2. IsSeq(SubSeq(stack, 1, Max(below))) /\ Len(SubSeq(stack, 1, Max(below))) >= 1
    <3> HIDE DEF below
    <3>1. \E T : SubSeq(stack, 1, Max(below)) \in Seq(T)
      BY <1>5
    <3>2. Len(SubSeq(stack, 1, Max(below))) >= 1
      BY <1>2, <1>3, <1>5
    <3>3. QED
      BY <3>1, <3>2 DEF IsSeq
  <2> HIDE DEF below
  <2>3. QED
    BY <1>4, <2>1, <2>2
<1>7. IsSeq(IndentTokens(n, num))
  <2>1. Len(stack) - Len(LevelsAt(n)) \in Int
    BY <1>2, <1>6, SeqAppend
  <2> DEFINE d == Len(stack) - Len(LevelsAt(n))
             e == Token("outdent", <<>>, num)
             s == [i \in 1..d |-> e]
  <2>2. IsSeq(s)
    <3> HIDE DEF d, e
    <3>1. s \in [1..d -> {e}] /\ d \in Int
      BY <2>1 DEF d
    <3> HIDE DEF s
    <3>2. QED
      BY ONLY <3>1, Repeated
  <2>3. IsSeq(<<Token("indent", <<>>, num)>>)
    BY SeqTuples
  <2>4. QED
    BY <2>2, <2>3 DEF IndentTokens
<1>8. QED
  BY <1>6, <1>7

(* A raw block ends behind the line that opens it.                         *)
LEMMA BlocksGoOn ==
  ASSUME Lexing, at <= Len(lines), NEW t \in Seq(STRING), NEW n
  PROVE  LET block == KeyColonLine(t, n)
         IN  /\ block.next \in (at + 1)..(Len(lines) + 1)
             /\ IsSeq(block.toks) /\ Len(block.toks) >= 1
             /\ block.toks[Len(block.toks)].type = "newline"
<1> DEFINE first == Min(NextContent(at + 1))
           end == BlockEnd(first, n)
           key == <<Token("ident", SubSeq(t, 1, Len(t) - 1), at), Token("colon", <<":">>, at),
                    Token("newline", <<>>, at)>>
           tail == <<Token("raw", RawBlock(first, end), first), Token("newline", <<>>, end)>>
           deep == NextContent(at + 1) # {} /\ lines[first].ind > n
<1>1. Len(lines) \in Nat /\ at \in Nat /\ at + 1 <= Len(lines) + 1
  BY DEF Lexing
<1>2. KeyColonLine(t, n) = IF deep THEN [toks |-> key \o tail, next |-> end]
                                   ELSE [toks |-> key, next |-> at + 1]
  BY DEF KeyColonLine
<1>3. IsSeq(key) /\ Len(key) = 3 /\ key[3].type = "newline"
  BY SeqTuples DEF Token
<1>4. IsSeq(tail) /\ Len(tail) = 2 /\ tail[2].type = "newline"
  BY SeqTuples DEF Token
<1>5. deep => end \in (at + 1)..(Len(lines) + 1)
  <2> SUFFICES ASSUME deep PROVE end \in (at + 1)..(Len(lines) + 1)
    OBVIOUS
  <2>1. NextContent(at + 1) \in SUBSET Nat /\ \A j \in NextContent(at + 1) : j \in (at + 1)..Len(lines)
    BY <1>1 DEF NextContent
  <2>2. first \in (at + 1)..Len(lines)
    BY <2>1, HasLeast
  <2> HIDE DEF first
  <2> DEFINE B == {Len(lines) + 1} \cup {j \in first..Len(lines) : ~IsBlank(j) /\ lines[j].ind <= n}
  <2>3. B \in SUBSET Nat /\ B # {} /\ \A j \in B : j \in (at + 1)..(Len(lines) + 1)
    BY <1>1, <2>2
  <2>4. end = Min(B)
    BY DEF BlockEnd
  <2> HIDE DEF B
  <2>5. QED
    BY <2>3, <2>4, HasLeast
<1> HIDE DEF first, end, key, tail, deep
<1>6. IsSeq(key \o tail) /\ Len(key \o tail) = 5 /\ (key \o tail)[5].type = "newline"
  <2>1. 2 \in 1..Len(tail) /\ Len(key) + 2 = 5
    BY <1>3, <1>4
  <2>2. /\ IsSeq(key \o tail) /\ Len(key \o tail) = Len(key) + Len(tail)
        /\ \A i \in 1..Len(tail) : (key \o tail)[Len(key) + i] = tail[i]
    <3>1. IsSeq(key) /\ IsSeq(tail)
      BY <1>3, <1>4
    <3> HIDE <1>1, <1>2, <1>3, <1>4, <1>5
    <3>2. QED
      BY ONLY <3>1, SeqConcat
  <2>3. (key \o tail)[Len(key) + 2] = tail[2]
    BY <2>1, <2>2
  <2>4. QED
    BY <1>3, <1>4, <2>1, <2>2, <2>3
<1> DEFINE block == KeyColonLine(t, n)
<1>7. CASE deep
  <2>1. block.toks = key \o tail /\ block.next = end
    BY <1>2, <1>7
  <2> HIDE DEF block
  <2>2. /\ block.next \in (at + 1)..(Len(lines) + 1) /\ IsSeq(block.toks) /\ Len(block.toks) >= 1
        /\ block.toks[Len(block.toks)].type = "newline"
    BY <1>5, <1>6, <1>7, <2>1
  <2>3. QED
    BY <2>2 DEF block
<1>8. CASE ~deep
  <2>1. block.toks = key /\ block.next = at + 1
    BY <1>2, <1>8
  <2> HIDE DEF block
  <2>2. /\ block.next \in (at + 1)..(Len(lines) + 1) /\ IsSeq(block.toks) /\ Len(block.toks) >= 1
        /\ block.toks[Len(block.toks)].type = "newline"
    <3>1. at + 1 \in (at + 1)..(Len(lines) + 1)
      BY <1>1
    <3>2. Len(key) >= 1 /\ key[Len(key)].type = "newline"
      BY <1>3
    <3>3. QED
      BY <1>3, <2>1, <3>1, <3>2
  <2>3. QED
    BY <2>2 DEF block
<1>9. QED
  BY <1>7, <1>8

(* A line lexed leaves the lexer behind it, and its tokens end the line.   *)
LEMMA LineLexed ==
  ASSUME Lexing, LexOneLine
  PROVE  Lexing' /\ at' > at
<1> DEFINE n == lines[at].ind
           t == TrimRight(StripComment(lines[at].t))
           block == KeyColonLine(t, n)
           newline == Token("newline", <<>>, at)
           text == Append(LexText(t, at), newline)
           indents == IndentTokens(n, at)
           line == IF IsKeyColonLine(t) THEN block.toks ELSE text
<1>1. /\ at <= Len(lines) /\ Len(lines) \in Nat /\ at \in Nat /\ at >= 1
      /\ lines' = lines /\ lines \in Seq([ind : Nat, t : Seq(STRING)])
  BY DEF Lexing, LexOneLine
<1>2. IF t = <<>> THEN at' = at + 1 /\ stack' = stack /\ toks' = toks
      ELSE /\ stack' = LevelsAt(n)
           /\ at' = IF IsKeyColonLine(t) THEN block.next ELSE at + 1
           /\ toks' = toks \o indents \o line
  BY DEF LexOneLine
<1>3. t \in Seq(STRING)
  <2>1. lines[at] \in [ind : Nat, t : Seq(STRING)]
    <3>1. at \in 1..Len(lines)
      BY <1>1
    <3> DEFINE L == [ind : Nat, t : Seq(STRING)]
    <3>2. lines \in Seq(L)
      BY <1>1
    <3> HIDE DEF L
    <3>3. lines[at] \in L
      BY <3>1, <3>2
    <3>4. QED
      BY <3>3 DEF L
  <2>2. lines[at].t \in Seq(STRING)
    BY <2>1
  <2>3. StripComment(lines[at].t) \in Seq(STRING)
    BY <2>2, TrimmedIsText
  <2>4. QED
    BY <2>3, TrimmedIsText
<1> HIDE DEF t
<1>4. /\ block.next \in (at + 1)..(Len(lines) + 1)
      /\ IsSeq(block.toks) /\ Len(block.toks) >= 1 /\ block.toks[Len(block.toks)].type = "newline"
  BY <1>1, <1>3, BlocksGoOn
<1>5. IsSeq(text) /\ Len(text) >= 1 /\ text[Len(text)].type = "newline"
  <2>1. Len(t) \in Nat
    BY <1>3
  <2>2. IsSeq(LexText(t, at))
    BY <2>1, LineTokens
  <2> DEFINE u == LexText(t, at)
  <2> HIDE DEF u
  <2>3. newline.type = "newline"
    BY DEF Token
  <2> HIDE DEF newline
  <2>4. /\ Len(u) \in Nat /\ IsSeq(Append(u, newline)) /\ Len(Append(u, newline)) = Len(u) + 1
        /\ Append(u, newline)[Len(u) + 1] = newline
    BY <2>2, SeqAppend DEF u
  <2>5. QED
    BY <2>3, <2>4 DEF u
<1> HIDE DEF block, text
<1>6. IsSeq(line) /\ Len(line) >= 1 /\ line[Len(line)].type = "newline"
  BY <1>4, <1>5
<1>7. IsSeq(LevelsAt(n)) /\ Len(LevelsAt(n)) >= 1 /\ IsSeq(indents)
  BY LevelsAreSeq DEF Lexing
<1> HIDE DEF indents, line, n
<1>8. /\ IsSeq(toks \o indents \o line) /\ Len(toks \o indents \o line) >= 1
      /\ (toks \o indents \o line)[Len(toks \o indents \o line)].type = "newline"
  <2> DEFINE before == toks \o indents
  <2>1. IsSeq(toks)
    BY DEF Lexing
  <2>2. IsSeq(before)
    BY ONLY <1>7, <2>1, SeqConcat
  <2> HIDE DEF before
  <2>3. /\ IsSeq(before \o line) /\ Len(before \o line) = Len(before) + Len(line)
        /\ Len(before) \in Nat /\ Len(line) \in Nat
        /\ \A i \in 1..Len(line) : (before \o line)[Len(before) + i] = line[i]
    BY ONLY <1>6, <2>2, SeqConcat
  <2>4. Len(line) \in 1..Len(line)
    BY <1>6, <2>3
  <2>5. (before \o line)[Len(before) + Len(line)] = line[Len(line)]
    BY <2>3, <2>4
  <2>6. IsSeq(before \o line) /\ Len(before \o line) >= 1
        /\ (before \o line)[Len(before \o line)].type = "newline"
    BY <1>6, <2>3, <2>5
  <2>7. QED
    BY <2>6 DEF before
<1>9. at' \in (at + 1)..(Len(lines) + 1)
  <2>1. at + 1 \in (at + 1)..(Len(lines) + 1)
    BY <1>1
  <2>2. QED
    BY <1>2, <1>4, <2>1
<1>10. ~Lexed /\ ~Lexed'
  BY <1>1, <1>9 DEF Lexed
<1>11. EndsLine(toks) /\ IsSeq(toks) /\ IsSeq(stack) /\ Len(stack) >= 1
  BY <1>10 DEF Lexing
<1>12. EndsLine(toks') /\ IsSeq(toks') /\ IsSeq(stack') /\ Len(stack') >= 1
  <2>1. CASE t = <<>>
    BY <1>2, <1>11, <2>1
  <2>2. CASE t # <<>>
    <3>1. toks' = toks \o indents \o line /\ stack' = LevelsAt(n)
      BY <1>2, <2>2
    <3> DEFINE new == toks \o indents \o line
    <3> HIDE DEF new
    <3>2. IsSeq(new) /\ new[Len(new)].type = "newline"
      BY <1>8 DEF new
    <3>3. toks' = new
      BY <3>1 DEF new
    <3>4. QED
      BY <1>7, <3>1, <3>2, <3>3 DEF EndsLine
  <2>3. QED
    BY <2>1, <2>2
<1>13. Lexing' = (/\ lines' \in Seq([ind : Nat, t : Seq(STRING)])
                  /\ at' \in 1..(Len(lines') + 2)
                  /\ IsSeq(stack') /\ Len(stack') >= 1
                  /\ IsSeq(toks')
                  /\ ~Lexed' => EndsLine(toks')
                  /\ Lexed' => EndsFile(toks'))
  BY DEF Lexing
<1>14. at' \in 1..(Len(lines') + 2) /\ at' > at
  BY <1>1, <1>9
<1>15. QED
  BY <1>1, <1>10, <1>12, <1>13, <1>14

(* The last turn closes what is open and ends the file.                    *)
LEMMA FileLexed ==
  ASSUME Lexing, EmitRemainingOutdents
  PROVE  Lexing' /\ at' > at
<1> DEFINE outs == [i \in 1..(Len(stack) - 1) |-> Token("outdent", <<>>, at)]
           eof == <<Token("eof", <<>>, at)>>
           before == toks \o outs
<1>1. /\ at = Len(lines) + 1 /\ at' = at + 1 /\ lines' = lines /\ stack' = <<0>>
      /\ toks' = before \o eof
  BY DEF EmitRemainingOutdents
<1>2. Len(lines) \in Nat /\ lines \in Seq([ind : Nat, t : Seq(STRING)])
  BY DEF Lexing
<1>3. ~Lexed /\ Lexed'
  BY <1>1, <1>2 DEF Lexed
<1>4. EndsLine(toks) /\ IsSeq(toks) /\ IsSeq(stack) /\ Len(stack) >= 1 /\ Len(stack) \in Nat
  BY <1>3, SeqAppend DEF Lexing
<1>5. /\ IsSeq(outs) /\ Len(outs) = Len(stack) - 1
      /\ \A i \in 1..Len(outs) : outs[i].type = "outdent"
  <2> DEFINE d == Len(stack) - 1
             e == Token("outdent", <<>>, at)
  <2>1. d \in Int /\ d >= 0 /\ e.type = "outdent"
    BY <1>4 DEF Token
  <2>2. outs \in [1..d -> {e}]
    <3> HIDE DEF d, e
    <3>1. [i \in 1..d |-> e] \in [1..d -> {e}]
      OBVIOUS
    <3>2. QED
      BY <3>1 DEF d, e
  <2> HIDE DEF outs, d, e
  <2>3. /\ IsSeq(outs) /\ Len(outs) = (IF d > 0 THEN d ELSE 0)
        /\ \A i \in 1..Len(outs) : outs[i] = e
    BY ONLY <2>1, <2>2, Repeated
  <2>4. Len(outs) = d
    BY <2>1, <2>3
  <2>5. QED
    BY <2>1, <2>3, <2>4 DEF d
<1>6. IsSeq(eof) /\ Len(eof) = 1 /\ eof[1].type = "eof"
  BY SeqTuples DEF Token
<1> HIDE DEF outs, eof
<1>7. /\ IsSeq(before) /\ Len(before) = Len(toks) + Len(outs) /\ Len(toks) \in Nat /\ Len(outs) \in Nat
      /\ \A i \in 1..Len(outs) : before[Len(toks) + i] = outs[i]
  BY ONLY <1>4, <1>5, SeqConcat
<1>8. Len(before) >= 1 => before[Len(before)].type \in {"newline", "outdent"}
  <2>1. CASE Len(outs) >= 1
    <3>1. Len(outs) \in 1..Len(outs)
      BY <1>7, <2>1
    <3>2. before[Len(toks) + Len(outs)] = outs[Len(outs)] /\ outs[Len(outs)].type = "outdent"
      BY <1>5, <1>7, <3>1
    <3> HIDE DEF before
    <3>3. QED
      BY <1>7, <3>2
  <2>2. CASE Len(outs) = 0
    <3>1. before = toks
      <4>1. outs = <<>>
        BY <1>5, <2>2 DEF IsSeq
      <4>2. PICK S : toks \in Seq(S)
        BY <1>4 DEF IsSeq
      <4>3. QED
        BY <4>1, <4>2
    <3>2. toks = <<>> => Len(toks) = 0
      OBVIOUS
    <3> HIDE DEF before
    <3>3. QED
      BY <1>4, <1>7, <2>2, <3>1, <3>2 DEF EndsLine
  <2>3. QED
    BY <1>7, <2>1, <2>2
<1> HIDE DEF before
<1>9. /\ IsSeq(before \o eof) /\ Len(before \o eof) = Len(before) + Len(eof) /\ Len(before) \in Nat
      /\ \A i \in 1..Len(eof) : (before \o eof)[Len(before) + i] = eof[i]
  <2>1. IsSeq(before) /\ IsSeq(eof)
    BY <1>6, <1>7
  <2>2. QED
    BY ONLY <2>1, SeqConcat
<1> DEFINE new == before \o eof
<1> HIDE DEF new
<1>10. IsSeq(new) /\ EndsFile(new)
  <2>1. Len(new) = Len(before) + 1 /\ IsSeq(new)
    BY <1>6, <1>9 DEF new
  <2>2. new[Len(before) + 1].type = "eof"
    <3>1. 1 \in 1..Len(eof)
      BY <1>6
    <3>2. QED
      BY <1>6, <1>9, <3>1 DEF new
  <2>3. Len(before) >= 1 => new[Len(before)] = before[Len(before)]
    <3>1. PICK S : before \in Seq(S)
      BY <1>7 DEF IsSeq
    <3>2. PICK T : eof \in Seq(T)
      BY <1>6 DEF IsSeq
    <3>3. before \in Seq(S \cup T) /\ eof \in Seq(S \cup T)
      BY <3>1, <3>2, SeqOfMore
    <3> DEFINE U == S \cup T
    <3> HIDE DEF U
    <3>4. before \in Seq(U) /\ eof \in Seq(U)
      BY <3>3 DEF U
    <3>5. QED
      BY <3>4 DEF new
  <2>4. Len(new) >= 1 /\ Len(new) - 1 = Len(before) /\ (Len(new) >= 2 <=> Len(before) >= 1)
    BY <1>9, <2>1
  <2>5. QED
    BY <1>8, <2>1, <2>2, <2>3, <2>4 DEF EndsFile
<1>11. toks' = new
  BY <1>1 DEF new
<1>12. IsSeq(stack') /\ Len(stack') >= 1
  <2>1. IsSeq(<<0>>) /\ Len(<<0>>) = 1
    BY SeqTuples
  <2>2. QED
    BY <1>1, <2>1
<1>13. Lexing' = (/\ lines' \in Seq([ind : Nat, t : Seq(STRING)])
                  /\ at' \in 1..(Len(lines') + 2)
                  /\ IsSeq(stack') /\ Len(stack') >= 1
                  /\ IsSeq(toks')
                  /\ ~Lexed' => EndsLine(toks')
                  /\ Lexed' => EndsFile(toks'))
  BY DEF Lexing
<1>14. at' \in 1..(Len(lines') + 2) /\ at' > at
  BY <1>1, <1>2
<1>15. QED
  BY <1>1, <1>2, <1>3, <1>10, <1>11, <1>12, <1>13, <1>14

-----------------------------------------------------------------------------
(***************************************************************************)
(* The parser.  While the lexer is at work it waits; from then on it       *)
(* stands on a token or behind the last one, in a block of the file.       *)
(***************************************************************************)
Reads ==
    /\ Lexing
    /\ pos \in 1..(Len(toks) + 1)
    /\ ~Lexed => pos = 1
    /\ IsSeq(ctx) /\ Len(ctx) >= 1 /\ ctx[1] = "file"

\* A place to move to from pos, which is not the end of the file.
IsAhead(x) == x \in Nat /\ (x > pos \/ x = Len(toks) + 1)

Onward ==
    /\ Lexed /\ Type(pos) # "eof"
    /\ \E x : IsAhead(x) /\ pos' = After(x)
    /\ ctx' = ctx \/ \E b : ctx' = Append(ctx, b)

(* Some token is read: it is not the last, and a name is not the last but  *)
(* one, either.                                                            *)
LEMMA TokenRead ==
  ASSUME Reads, Lexed
  PROVE  /\ Len(toks) \in Nat /\ DOMAIN toks = 1..Len(toks) /\ Len(toks) >= 1 /\ pos \in Nat
         /\ Type(Len(toks)) = "eof" /\ \A i \in Nat : i > Len(toks) => Type(i) = "eof"
         /\ \A i \in Nat : Type(i) # "eof" => i \in 1..(Len(toks) - 1)
         /\ IsName(pos) => pos + 2 <= Len(toks)
<1>1. IsSeq(toks) /\ EndsFile(toks) /\ pos \in 1..(Len(toks) + 1)
  BY DEF Reads, Lexing
<1>2. Len(toks) \in Nat /\ DOMAIN toks = 1..Len(toks) /\ Len(toks) >= 1
  BY <1>1, SeqAppend DEF EndsFile
<1>3. Type(Len(toks)) = "eof"
  BY <1>1, <1>2 DEF Type, EndsFile
<1>4. \A i \in Nat : i > Len(toks) => Type(i) = "eof"
  BY <1>2 DEF Type
<1>5. ASSUME NEW i \in Nat, Type(i) # "eof" PROVE i \in 1..(Len(toks) - 1)
  <2>1. i \in DOMAIN toks
    BY <1>5 DEF Type
  <2>2. QED
    BY <1>2, <1>3, <1>5, <2>1
<1>6. ASSUME IsName(pos) PROVE pos + 2 <= Len(toks)
  <2>1. Type(pos) = "ident" /\ pos \in Nat
    BY <1>1, <1>2, <1>6 DEF IsName
  <2>2. pos \in 1..(Len(toks) - 1)
    BY <1>5, <2>1
  <2>3. CASE pos = Len(toks) - 1
    <3>1. Len(toks) >= 2 /\ toks[pos].type \in {"newline", "outdent"}
      BY <1>1, <1>2, <2>2, <2>3 DEF EndsFile
    <3>2. Type(pos) = toks[pos].type
      BY <1>2, <2>2 DEF Type
    <3>3. QED
      BY <2>1, <3>1, <3>2
  <2>4. CASE pos # Len(toks) - 1
    <3> DEFINE n == Len(toks)
    <3>1. n \in Nat /\ pos \in 1..(n - 1) /\ pos # n - 1
      BY <1>2, <2>2, <2>4
    <3> HIDE DEF n
    <3>2. pos + 2 <= n
      BY ONLY <3>1
    <3>3. QED
      BY <3>2 DEF n
  <2>5. QED
    BY <2>3, <2>4
<1>7. QED
  BY <1>1, <1>2, <1>3, <1>4, <1>5, <1>6

(* The ends of a line, of a list, of a condition and of a value lie ahead. *)
LEMMA LineEndsAhead ==
  ASSUME Reads, Lexed, NEW i \in Nat
  PROVE  LineEnd(i) \in Nat /\ (LineEnd(i) >= i \/ LineEnd(i) = Len(toks) + 1)
<1> DEFINE S == {j \in i..Len(toks) : Type(j) \in {"newline", "eof"}} \cup {Len(toks) + 1}
<1>1. S \in SUBSET Nat /\ S # {} /\ \A j \in S : j >= i \/ j = Len(toks) + 1
  BY TokenRead
<1>2. LineEnd(i) = Min(S)
  BY DEF LineEnd
<1> HIDE DEF S
<1>3. QED
  BY <1>1, <1>2, HasLeast

LEMMA ListsEndAhead ==
  ASSUME Reads, Lexed, NEW i \in 1..(Len(toks) + 1)
  PROVE  CommaListEnd(i) \in Nat /\ CommaListEnd(i) >= i
<1> DEFINE S == {j \in i..(Len(toks) + 1) : (j - i) % 2 = 0 /\ Type(j + 1) # "comma"}
           n == Len(toks)
<1>1. n \in Nat /\ \A k \in Nat : k > n => Type(k) = "eof"
  BY TokenRead
<1>2. n + 1 \in S \/ n \in S
  <2>1. Type(n + 1) # "comma" /\ Type(n + 1 + 1) # "comma"
    BY <1>1
  <2>2. CASE i = n + 1
    BY <1>1, <2>1, <2>2
  <2>3. CASE i <= n
    <3>1. (n - i) % 2 = 0 \/ (n + 1 - i) % 2 = 0
      BY <1>1, <2>3
    <3>2. n \in i..(n + 1) /\ n + 1 \in i..(n + 1)
      BY <1>1, <2>3
    <3>3. QED
      BY <2>1, <3>1, <3>2
  <2>4. QED
    BY <1>1, <2>2, <2>3
<1>3. S \in SUBSET Nat /\ S # {} /\ \A j \in S : j >= i
  BY <1>1, <1>2
<1>4. CommaListEnd(i) = Min(S)
  BY DEF CommaListEnd
<1> HIDE DEF S
<1>5. QED
  BY <1>3, <1>4, HasLeast

LEMMA ConditionsEndAhead ==
  ASSUME Reads, Lexed, NEW i \in Nat
  PROVE  ConditionEnd(i) \in Nat /\ (ConditionEnd(i) >= i \/ ConditionEnd(i) = Len(toks) + 1)
<1> DEFINE S == {LineEnd(i)} \cup {j \in i..Len(toks) : Name(j) \in {"label", "weight", "restart"}}
<1>1. LineEnd(i) \in Nat /\ (LineEnd(i) >= i \/ LineEnd(i) = Len(toks) + 1)
  BY LineEndsAhead
<1>2. Len(toks) \in Nat
  BY TokenRead
<1>3. S \in SUBSET Nat /\ S # {} /\ \A j \in S : j >= i \/ j = Len(toks) + 1
  BY <1>1, <1>2
<1>4. ConditionEnd(i) = Min(S)
  BY DEF ConditionEnd
<1> HIDE DEF S
<1>5. QED
  BY <1>3, <1>4, HasLeast

LEMMA ValuesEndAhead ==
  ASSUME Reads, Lexed, NEW i \in Nat, i > pos, NEW n
  PROVE  IsAhead(FieldValue(i, n).next)
<1>1. LineEnd(i) \in Nat /\ (LineEnd(i) >= i \/ LineEnd(i) = Len(toks) + 1)
  BY LineEndsAhead
<1>2. FieldValue(i, n).next \in {i + 1, i + 2, LineEnd(i)}
  <2> DEFINE raw == [val |-> Val(i), next |-> i + 1]
             below == [val |-> Val(i + 1), next |-> i + 2]
             empty == [val |-> <<>>, next |-> i + 1]
             line == [val |-> IF n \in DOMAIN lines THEN UnquoteRaw(RawValueText(lines[n].t))
                              ELSE <<>>,
                      next |-> LineEnd(i)]
  <2>1. FieldValue(i, n) =
           CASE Type(i) = "raw" -> raw
             [] Type(i) = "newline" /\ Type(i + 1) = "raw" -> below
             [] Type(i) = "newline" /\ Type(i + 1) # "raw" -> empty
             [] OTHER -> line
    BY DEF FieldValue
  <2>2. raw.next = i + 1 /\ below.next = i + 2 /\ empty.next = i + 1 /\ line.next = LineEnd(i)
    OBVIOUS
  <2> HIDE DEF raw, below, empty, line
  <2>3. FieldValue(i, n) \in {raw, below, empty, line}
    BY <2>1
  <2>4. QED
    BY <2>2, <2>3
<1>3. pos \in Nat
  BY TokenRead
<1>4. IsAhead(i + 1) /\ IsAhead(i + 2) /\ IsAhead(LineEnd(i))
  BY <1>1, <1>3 DEF IsAhead
<1>5. QED
  BY <1>2, <1>4

LEMMA FieldsEndAhead ==
  ASSUME Reads, Lexed
  PROVE  IsAhead(Field(pos).next)
<1>1. pos \in Nat
  BY TokenRead
<1>2. Field(pos).next = FieldValue(pos + 2, toks[pos].line).next
  BY DEF Field
<1>3. QED
  BY <1>1, <1>2, ValuesEndAhead

(* A turn that reads a token moves beyond it, and stays where it is or     *)
(* enters a block.                                                         *)
LEMMA TurnsGoOnward ==
  ASSUME Reads,
         \/ ParseWorkflow \/ SkipToken \/ ParseHeaderField \/ ParseSection \/ ParseStylesheet
         \/ ParseUnknown \/ ParseDefaultField \/ ParseVarField \/ ParseNode \/ ParseNodeField
         \/ NestedRetry \/ ParseParallel \/ ParseBranch \/ ParseBranchField \/ ParseFanIn
         \/ EdgeBegin \/ EdgeAttribute
  PROVE  Onward
<1> DEFINE Goes(x) == pos' = After(x)
           Stays == ctx' = ctx \/ \E b : ctx' = Append(ctx, b)
<1>1. Lexed
  BY DEF ParseWorkflow, SkipToken, ParseHeaderField, ParseSection, ParseStylesheet, ParseUnknown,
         ParseDefaultField, ParseVarField, ParseNode, ParseNodeField, NestedRetry, ParseParallel,
         ParseBranch, ParseBranchField, ParseFanIn, EdgeBegin, EdgeAttribute, In
<1>2. /\ Len(toks) \in Nat /\ DOMAIN toks = 1..Len(toks) /\ Len(toks) >= 1 /\ pos \in Nat
      /\ Type(Len(toks)) = "eof"
      /\ \A i \in Nat : Type(i) # "eof" => i \in 1..(Len(toks) - 1)
      /\ IsName(pos) => pos + 2 <= Len(toks)
  BY <1>1, TokenRead
<1>3. IsName(pos) => Type(pos) # "eof"
  BY DEF IsName
<1>4. IsAhead(pos + 1) /\ IsAhead(pos + 2) /\ IsAhead(pos + 3) /\ IsAhead(pos + 4)
  BY <1>2 DEF IsAhead
<1>0. /\ pos + 1 \in Nat /\ pos + 2 \in Nat /\ pos + 3 \in Nat /\ pos + 4 \in Nat
      /\ pos + 2 > pos
  BY <1>2
<1>5. ASSUME Type(pos) # "eof", Stays, NEW x, IsAhead(x), Goes(x) PROVE Onward
  BY <1>1, <1>5 DEF Onward
<1>6. IsAhead(Field(pos).next)
  BY <1>1, FieldsEndAhead
<1>7. CASE ParseWorkflow
  <2>1. IsName(pos) /\ Goes(pos + 4) /\ Stays
    BY <1>7 DEF ParseWorkflow, MoveTo, Enter
  <2>2. QED
    BY <1>3, <1>4, <1>5, <2>1
<1>8. CASE SkipToken
  <2>1. Goes(pos + 1) /\ Stays
    BY <1>8 DEF SkipToken, MoveTo
  <2>2. Type(pos) # "eof"
    BY <1>8 DEF SkipToken, EndOfBlock
  <2>3. QED
    BY <1>4, <1>5, <2>1, <2>2
<1>9. CASE ParseHeaderField
  <2>1. IsName(pos) /\ Goes(Field(pos).next) /\ Stays
    BY <1>9 DEF ParseHeaderField, MoveTo
  <2>2. QED
    BY <1>3, <1>5, <1>6, <2>1
<1>10. CASE ParseSection
  <2>1. IsName(pos) /\ Goes(pos + 3) /\ Stays
    BY <1>10 DEF ParseSection, MoveTo, Enter
  <2>2. QED
    BY <1>3, <1>4, <1>5, <2>1
<1>11. CASE ParseStylesheet
  <2> DEFINE n == IF pos + 2 \in DOMAIN toks THEN toks[pos + 2].line ELSE 0
  <2>1. IsName(pos) /\ Goes(FieldValue(pos + 2, n).next) /\ Stays
    BY <1>11 DEF ParseStylesheet, MoveTo
  <2> HIDE DEF n
  <2>2. IsAhead(FieldValue(pos + 2, n).next)
    BY <1>0, <1>1, ValuesEndAhead
  <2>3. QED
    BY <1>3, <1>5, <2>1, <2>2
<1>12. CASE ParseUnknown
  <2>1. IsName(pos) /\ Goes(pos + 1) /\ Stays
    BY <1>12 DEF ParseUnknown, MoveTo
  <2>2. QED
    BY <1>3, <1>4, <1>5, <2>1
<1>13. CASE ParseDefaultField
  <2>1. IsName(pos) /\ Goes(Field(pos).next) /\ Stays
    BY <1>13 DEF ParseDefaultField, MoveTo
  <2>2. QED
    BY <1>3, <1>5, <1>6, <2>1
<1>14. CASE ParseVarField
  <2>1. IsName(pos) /\ Goes(Field(pos).next) /\ Stays
    BY <1>14 DEF ParseVarField, MoveTo
  <2>2. QED
    BY <1>3, <1>5, <1>6, <2>1
<1>15. CASE ParseNode
  <2>1. IsName(pos) /\ Goes(pos + 4) /\ Stays
    BY <1>15 DEF ParseNode, MoveTo, Enter
  <2>2. QED
    BY <1>3, <1>4, <1>5, <2>1
<1>16. CASE ParseNodeField
  <2>1. IsName(pos) /\ Goes(Field(pos).next) /\ Stays
    BY <1>16 DEF ParseNodeField, MoveTo
  <2>2. QED
    BY <1>3, <1>5, <1>6, <2>1
<1>17. CASE NestedRetry
  <2> DEFINE e == LineEnd(pos + 1)
             n == IF Type(e) = "newline" THEN e + 1 ELSE e
             S == {j \in n..Len(toks) : Type(j) \in {"outdent", "eof"}}
             end == Min(S)
             x == IF Type(n) # "indent" THEN n ELSE IF Type(end) = "outdent" THEN end + 1 ELSE end
  <2>1. IsName(pos) /\ Goes(x) /\ Stays
    BY <1>17 DEF NestedRetry, MoveTo
  <2>2. e \in Nat /\ (e >= pos + 1 \/ e = Len(toks) + 1)
    BY <1>0, <1>1, LineEndsAhead
  <2> HIDE DEF e
  <2>3. pos < Len(toks) + 1 /\ n \in Nat /\ n > pos
    BY <1>2, <2>1, <2>2
  <2> HIDE DEF n
  <2>4. ASSUME Type(n) = "indent" PROVE end \in Nat /\ end > pos
    <3>1. Len(toks) \in S
      BY <1>2, <2>3, <2>4
    <3>2. S \in SUBSET Nat /\ \A j \in S : j >= n
      BY <1>2, <2>3
    <3> HIDE DEF S
    <3>3. end \in Nat /\ end >= n
      BY <3>1, <3>2, HasLeast
    <3> HIDE DEF end
    <3>4. QED
      BY <1>2, <2>3, <3>3
  <2> HIDE DEF end
  <2>5. IsAhead(x)
    BY <1>2, <2>3, <2>4 DEF IsAhead
  <2> HIDE DEF x
  <2>6. QED
    BY <1>3, <1>5, <2>1, <2>5
<1>18. CASE ParseParallel
  <2>1. IsName(pos) /\ pos + 3 \in 1..(Len(toks) + 1)
    BY <1>2, <1>18 DEF ParseParallel
  <2>2. CommaListEnd(pos + 3) \in Nat /\ CommaListEnd(pos + 3) >= pos + 3
    BY <1>1, <2>1, ListsEndAhead
  <2>3. IsAhead(CommaListEnd(pos + 3) + 2)
    BY <1>2, <2>2 DEF IsAhead
  <2>4. Stays /\ (Goes(CommaListEnd(pos + 3) + 2) \/ Goes(pos + 4))
    BY <1>18 DEF ParseParallel, MoveTo, Enter
  <2>5. QED
    BY <1>3, <1>4, <1>5, <2>1, <2>3, <2>4
<1>19. CASE ParseBranch
  <2> DEFINE e == LineEnd(pos + 3)
             n == IF Type(e) = "newline" THEN e + 1 ELSE e
  <2>1. IsName(pos) /\ Stays /\ (Goes(n + 1) \/ Goes(n))
    BY <1>19 DEF ParseBranch, MoveTo, Enter
  <2>2. e \in Nat /\ (e >= pos + 3 \/ e = Len(toks) + 1)
    BY <1>0, <1>1, LineEndsAhead
  <2> HIDE DEF e
  <2>3. IsAhead(n) /\ IsAhead(n + 1)
    BY <1>2, <2>1, <2>2 DEF IsAhead
  <2> HIDE DEF n
  <2>4. QED
    BY <1>3, <1>5, <2>1, <2>3
<1>20. CASE ParseBranchField
  <2>1. IsName(pos) /\ Goes(Field(pos).next) /\ Stays
    BY <1>20 DEF ParseBranchField, MoveTo
  <2>2. QED
    BY <1>3, <1>5, <1>6, <2>1
<1>21. CASE ParseFanIn
  <2>1. IsName(pos) /\ pos + 3 \in 1..(Len(toks) + 1)
    BY <1>2, <1>21 DEF ParseFanIn
  <2>2. CommaListEnd(pos + 3) \in Nat /\ CommaListEnd(pos + 3) >= pos + 3
    BY <1>1, <2>1, ListsEndAhead
  <2>3. IsAhead(CommaListEnd(pos + 3) + 2)
    BY <1>2, <2>2 DEF IsAhead
  <2>4. Stays /\ Goes(CommaListEnd(pos + 3) + 2)
    BY <1>21 DEF ParseFanIn, MoveTo
  <2>5. QED
    BY <1>3, <1>5, <2>1, <2>3, <2>4
<1>22. CASE EdgeBegin
  <2> DEFINE e == LineEnd(pos + 4)
  <2>1. Type(pos) # "eof" /\ Stays /\ (Goes(e) \/ Goes(pos + 3))
    BY <1>22 DEF EdgeBegin, MoveTo, Enter, EndOfBlock
  <2>2. e \in Nat /\ (e >= pos + 4 \/ e = Len(toks) + 1)
    BY <1>0, <1>1, LineEndsAhead
  <2> HIDE DEF e
  <2>3. IsAhead(e)
    BY <1>2, <2>2 DEF IsAhead
  <2>4. QED
    BY <1>4, <1>5, <2>1, <2>3
<1>23. CASE EdgeAttribute
  <2> DEFINE e == ConditionEnd(pos + 1)
  <2>1. Type(pos) # "eof" /\ Stays /\ (Goes(e) \/ Goes(pos + 3) \/ Goes(pos + 1))
    BY <1>23 DEF EdgeAttribute, MoveTo
  <2>2. e \in Nat /\ (e >= pos + 1 \/ e = Len(toks) + 1)
    BY <1>0, <1>1, ConditionsEndAhead
  <2> HIDE DEF e
  <2>3. IsAhead(e)
    BY <1>2, <2>2 DEF IsAhead
  <2>4. QED
    BY <1>4, <1>5, <2>1, <2>3
<1>24. QED
  BY <1>7, <1>8, <1>9, <1>10, <1>11, <1>12, <1>13, <1>14, <1>15, <1>16, <1>17, <1>18, <1>19,
     <1>20, <1>21, <1>22, <1>23

\* The other turns leave the innermost block, which is never the file itself.
Leaves == Lexed /\ Last(ctx) # "file" /\ pos' = After(pos + 1) /\ ctx' = Front(ctx)

LEMMA TurnsLeave ==
  ASSUME CloseBlock \/ EdgeEnd
  PROVE  Leaves
BY DEF CloseBlock, EdgeEnd, Leaves, In, MoveTo

(* Where a turn moves to, the parser is still in the file or just behind   *)
(* it.                                                                     *)
LEMMA AfterStaysInFile ==
  ASSUME Reads, Lexed, NEW x \in Nat, x > pos \/ x = Len(toks) + 1
  PROVE  /\ After(x) \in 1..(Len(toks) + 1)
         /\ pos <= Len(toks) => After(x) > pos
         /\ After(x) >= pos
<1> DEFINE S == {x, Len(toks) + 1}
<1>1. Len(toks) \in Nat /\ pos \in 1..(Len(toks) + 1)
  BY TokenRead DEF Reads
<1>2. S \in SUBSET Nat /\ S # {} /\ Len(toks) + 1 \in S /\ \A y \in S : y > pos \/ y = Len(toks) + 1
  BY <1>1
<1>3. After(x) = Min(S)
  BY DEF After
<1> HIDE DEF S
<1>4. Min(S) \in S /\ Min(S) <= Len(toks) + 1 /\ Min(S) \in Nat
  BY <1>2, HasLeast
<1>5. Min(S) > pos \/ Min(S) = Len(toks) + 1
  BY <1>2, <1>4
<1>6. QED
  BY <1>1, <1>3, <1>4, <1>5

LEMMA OnwardAdvances ==
  ASSUME Reads, Onward, UNCHANGED lexVars
  PROVE  Reads' /\ pos' > pos
<1>1. PICK x : IsAhead(x) /\ pos' = After(x)
  BY DEF Onward
<1>2. Lexed /\ Type(pos) # "eof" /\ (ctx' = ctx \/ \E b : ctx' = Append(ctx, b))
  BY DEF Onward
<1>3. pos \in Nat /\ pos <= Len(toks) /\ Len(toks) \in Nat
  BY <1>2, TokenRead
<1>4. pos' \in 1..(Len(toks) + 1) /\ pos' > pos
  BY <1>1, <1>2, <1>3, AfterStaysInFile DEF IsAhead
<1>5. IsSeq(ctx) /\ Len(ctx) >= 1 /\ ctx[1] = "file" /\ Lexing
  BY DEF Reads
<1>6. IsSeq(ctx') /\ Len(ctx') >= 1 /\ ctx'[1] = "file"
  <2>1. CASE ctx' = ctx
    BY <1>5, <2>1
  <2>2. ASSUME NEW b, ctx' = Append(ctx, b) PROVE IsSeq(ctx') /\ Len(ctx') >= 1 /\ ctx'[1] = "file"
    <3>1. IsSeq(Append(ctx, b)) /\ Len(Append(ctx, b)) = Len(ctx) + 1 /\ Len(ctx) \in Nat
      BY <1>5, SeqAppend
    <3>2. Append(ctx, b)[1] = ctx[1]
      <4>1. PICK S : ctx \in Seq(S)
        BY <1>5 DEF IsSeq
      <4>2. ctx \in Seq(S \cup {b}) /\ 1 \in 1..Len(ctx)
        BY <1>5, <4>1, SeqOfMore
      <4>3. QED
        BY <4>2
    <3>3. QED
      BY <1>5, <2>2, <3>1, <3>2
  <2>3. QED
    BY <1>2, <2>1, <2>2
<1>7. lines' = lines /\ at' = at /\ stack' = stack /\ toks' = toks
  BY DEF lexVars
<1>8. Lexing' /\ (Lexed' <=> Lexed)
  BY <1>5, <1>7 DEF Lexing, Lexed
<1>9. QED
  BY <1>2, <1>4, <1>6, <1>7, <1>8 DEF Reads

LEMMA LeavesAdvances ==
  ASSUME Reads, Leaves, UNCHANGED lexVars
  PROVE  Reads' /\ (pos' > pos \/ (pos' = pos /\ Len(ctx') < Len(ctx)))
<1>1. Lexed /\ Last(ctx) # "file" /\ pos' = After(pos + 1) /\ ctx' = Front(ctx)
  BY DEF Leaves
<1>2. pos \in Nat /\ Len(toks) \in Nat
  BY <1>1, TokenRead
<1>3. pos' \in 1..(Len(toks) + 1) /\ pos' >= pos
  BY <1>1, <1>2, AfterStaysInFile
<1>4. IsSeq(ctx) /\ Len(ctx) >= 1 /\ ctx[1] = "file" /\ Lexing
  BY DEF Reads
<1>5. PICK S : ctx \in Seq(S)
  BY <1>4 DEF IsSeq
<1>6. Len(ctx) \in Nat /\ Len(ctx) # 1
  BY <1>1, <1>4, <1>5 DEF Last
<1>7. /\ SubSeq(ctx, 1, Len(ctx) - 1) \in Seq(S)
      /\ Len(SubSeq(ctx, 1, Len(ctx) - 1)) = Len(ctx) - 1
      /\ SubSeq(ctx, 1, Len(ctx) - 1)[1] = ctx[1]
  <2> DEFINE n == Len(ctx)
  <2>0. n \in Nat /\ n >= 1 /\ n # 1
    BY <1>4, <1>6
  <2> HIDE DEF n
  <2>1. n - 1 \in 1..n
    BY ONLY <2>0
  <2>2. QED
    BY <1>5, <2>1, StartOfSeq DEF n
<1>8. IsSeq(ctx') /\ Len(ctx') >= 1 /\ ctx'[1] = "file" /\ Len(ctx') < Len(ctx)
  <2>1. ctx' = SubSeq(ctx, 1, Len(ctx) - 1)
    BY <1>1 DEF Front
  <2>2. IsSeq(ctx')
    BY <1>7, <2>1 DEF IsSeq
  <2>3. Len(ctx') = Len(ctx) - 1 /\ ctx'[1] = "file"
    BY <1>4, <1>7, <2>1
  <2>4. QED
    BY <1>4, <1>6, <2>2, <2>3
<1>9. lines' = lines /\ at' = at /\ stack' = stack /\ toks' = toks
  BY DEF lexVars
<1>10. Lexing' /\ (Lexed' <=> Lexed)
  BY <1>4, <1>9 DEF Lexing, Lexed
<1>11. QED
  BY <1>1, <1>2, <1>3, <1>8, <1>9, <1>10 DEF Reads

(* A step of the lexer or the parser keeps the invariant and advances.     *)
Advances == at' > at \/ pos' > pos \/ (pos' = pos /\ Len(ctx') < Len(ctx))

LEMMA ReadStepAdvances ==
  ASSUME Reads, ReadStep
  PROVE  Reads' /\ Advances
<1>1. CASE LexNext /\ UNCHANGED parseVars
  <2>1. Lexing
    BY DEF Reads
  <2>2. Lexing' /\ at' > at
    BY <1>1, <2>1, LineLexed, FileLexed DEF LexNext
  <2>3. ~Lexed
    <3>1. Len(lines) \in Nat
      BY <2>1 DEF Lexing
    <3>2. at <= Len(lines) \/ at = Len(lines) + 1
      BY <1>1 DEF LexNext, LexOneLine, EmitRemainingOutdents
    <3>3. QED
      BY <3>1, <3>2 DEF Lexed
  <2>4. pos' = pos /\ ctx' = ctx
    BY <1>1 DEF parseVars
  <2>5. pos' = 1 /\ Len(toks') \in Nat
    BY <2>2, <2>3, <2>4, SeqAppend DEF Reads, Lexing
  <2>6. IsSeq(ctx') /\ Len(ctx') >= 1 /\ ctx'[1] = "file"
    BY <2>4 DEF Reads
  <2>7. QED
    BY <2>2, <2>5, <2>6 DEF Reads, Advances
<1>2. CASE ParseNext /\ UNCHANGED lexVars
  <2>1. CASE CloseBlock \/ EdgeEnd
    BY <1>2, <2>1, TurnsLeave, LeavesAdvances DEF Advances
  <2>2. CASE ~(CloseBlock \/ EdgeEnd)
    <3>1. Onward
      BY <1>2, <2>2, TurnsGoOnward DEF ParseNext
    <3>2. QED
      BY <1>2, <3>1, OnwardAdvances DEF Advances
  <2>3. QED
    BY <2>1, <2>2
<1>3. QED
  BY <1>1, <1>2 DEF ReadStep

LEMMA ReadInitReads ==
  ASSUME ReadInit
  PROVE  Reads
<1>1. PICK source \in Seq([ind : Nat, t : Seq(STRING)]) : LexInit(source)
  BY DEF ReadInit
<1>2. lines \in Seq([ind : Nat, t : Seq(STRING)]) /\ at = 1 /\ stack = <<0>> /\ toks = <<>>
  BY <1>1 DEF LexInit
<1>3. pos = 1 /\ ctx = <<"file">>
  BY DEF ReadInit, ParseInit
<1>4. /\ IsSeq(<<"file">>) /\ Len(<<"file">>) = 1 /\ <<"file">>[1] = "file"
      /\ IsSeq(<<0>>) /\ Len(<<0>>) = 1
  BY SeqTuples
<1>5. IsSeq(<<>>) /\ Len(<<>>) = 0
  BY DEF IsSeq
<1>6. Len(lines) \in Nat
  BY <1>2
<1>7. ~Lexed
  BY <1>2, <1>6 DEF Lexed
<1>8. Lexing
  BY <1>2, <1>4, <1>5, <1>6, <1>7 DEF Lexing, EndsLine
<1>9. QED
  BY <1>2, <1>3, <1>4, <1>5, <1>8 DEF Reads

(* While a file is read, the lexer's tokens end the line, or the file once *)
(* it is done; the parser stands on a token or behind the last one, and in *)
(* the file at least.                                                      *)
THEOREM ReadingHolds == ReadSpec => []Reads
<1>1. ReadInit => Reads
  BY ReadInitReads
<1>2. Reads /\ [ReadStep]_readVars => Reads'
  <2> SUFFICES ASSUME Reads, [ReadStep]_readVars PROVE Reads'
    OBVIOUS
  <2>1. CASE ReadStep
    BY <2>1, ReadStepAdvances
  <2>2. CASE UNCHANGED readVars
    <3>1. lines' = lines /\ at' = at /\ stack' = stack /\ toks' = toks /\ pos' = pos /\ ctx' = ctx
      BY <2>2 DEF readVars, lexVars, parseVars
    <3>2. QED
      BY <3>1 DEF Reads, Lexing, Lexed
  <2>3. QED
    BY <2>1, <2>2
<1>3. QED
  BY <1>1, <1>2, PTL DEF ReadSpec

(* Whatever the file holds, each turn of the loops that read it consumes a *)
(* line or a token, or leaves a block: none of them can spin.              *)
THEOREM ReadingAdvances == ReadSpec => EveryTurnAdvances
<1>1. Reads /\ [ReadStep]_readVars
        => [ReadStep => at' > at \/ pos' > pos \/ (pos' = pos /\ Len(ctx') < Len(ctx))]_readVars
  BY ReadStepAdvances DEF Advances
<1>2. QED
  BY <1>1, ReadingHolds, PTL DEF ReadSpec, EveryTurnAdvances

-----------------------------------------------------------------------------
(***************************************************************************)
(* The watch loop: what it keeps in any run, and what it keeps when a      *)
(* single .dip file of a watched directory is saved.                       *)
(***************************************************************************)
(* The types are kept, and the remembered file is never without a timer.   *)
IInv == TypeOK /\ PendingHasTimer

LEMMA InitIInv == Init => IInv
<1> SUFFICES ASSUME Init PROVE IInv
  OBVIOUS
<1> USE DEF Init
<1>1. version \in [Files -> Nat] /\ linted \in [Files -> Nat] /\ watched \subseteq Files
  OBVIOUS
<1>2. queue \in Seq(Events)
  <2>1. queue = <<>>
    OBVIOUS
  <2>2. QED
    BY ONLY <2>1
<1>3. timer = "off" /\ pending = "" /\ saves = 0
  OBVIOUS
<1>4. QED
  BY ONLY <1>1, <1>2, <1>3 DEF IInv, TypeOK, PendingHasTimer

LEMMA NextKeeps == IInv /\ [Next]_vars => IInv'
<1> SUFFICES ASSUME IInv, [Next]_vars PROVE IInv'
  OBVIOUS
<1> USE DEF IInv, TypeOK, PendingHasTimer
<1>1. ASSUME NEW f \in Files, SaveInPlace(f) \/ SaveByRename(f) PROVE IInv'
  <2>1. \A op \in {"write", "create", "remove"} : Event(f, op) \in Events
    BY DEF Event, Events
  <2>2. queue' \in Seq(Events)
    <3>1. queue' = queue \/ \E e \in Events : queue' = Append(queue, e)
      BY <1>1, <2>1 DEF SaveInPlace, SaveByRename
    <3>2. queue \in Seq(Events)
      OBVIOUS
    <3>3. QED
      BY ONLY <3>1, <3>2
  <2>3. /\ version' = [version EXCEPT ![f] = @ + 1] /\ saves' = saves + 1
        /\ watched' \in {watched, watched \ {f}}
        /\ UNCHANGED <<linted, timer, pending>>
    BY <1>1 DEF SaveInPlace, SaveByRename
  <2>4. version' \in [Files -> Nat]
    <3>1. version \in [Files -> Nat] /\ version' = [version EXCEPT ![f] = @ + 1]
      BY <2>3
    <3>2. QED
      BY ONLY <3>1
  <2>5. saves' \in Nat /\ watched' \subseteq Files
    <3>1. saves \in Nat /\ watched \subseteq Files
      OBVIOUS
    <3>2. saves' = saves + 1 /\ watched' \in {watched, watched \ {f}}
      BY <2>3
    <3>3. watched' \subseteq Files
      BY ONLY <3>1, <3>2
    <3>4. QED
      BY ONLY <3>1, <3>2, <3>3
  <2>6. QED
    BY <2>2, <2>3, <2>4, <2>5
<1>2. CASE HandleFsEvent
  <2>1. queue' \in Seq(Events) /\ UNCHANGED <<version, linted, watched, saves>>
    <3>1. queue # <<>> /\ queue' = Tail(queue) /\ UNCHANGED <<version, linted, watched, saves>>
      BY <1>2 DEF HandleFsEvent
    <3>2. queue \in Seq(Events)
      OBVIOUS
    <3>3. QED
      BY ONLY <3>1, <3>2
  <2>2. \/ pending' \in DipFiles /\ timer' = "running"
        \/ UNCHANGED <<pending, timer>>
    BY <1>2 DEF HandleFsEvent, IsDipEvent
  <2>3. QED
    BY <2>1, <2>2, FilesAssumption
<1>3. CASE Drain
  <2>1. linted' \in [Files -> Nat]
    BY <1>3, FilesAssumption DEF Drain
  <2>2. QED
    BY <1>3, <2>1 DEF Drain
<1>4. CASE Expire
  BY <1>4 DEF Expire
<1>5. CASE UNCHANGED vars
  BY <1>5 DEF vars
<1>6. QED
  BY <1>1, <1>2, <1>3, <1>4, <1>5 DEF Next, Loop

(* A file waits for the linter only while the debounce timer runs, and the *)
(* timer only runs for a file.                                             *)
THEOREM TimerForPending == Spec => []PendingHasTimer
<1>1. IInv => PendingHasTimer
  BY DEF IInv
<1>2. QED
  BY <1>1, InitIInv, NextKeeps, PTL DEF Spec

(* Every queued event is one the loop does not filter, when it is of a     *)
(* .dip file in a watched directory.                                       *)
Unfiltered ==
    \A i \in DOMAIN queue : queue[i].file \in DipFiles => IsDipEvent(queue[i])

LEMMA NothingForgottenStep ==
  ASSUME NEW d, DipFiles = {d}, DirTarget = TRUE,
         IInv, Unfiltered, NothingForgotten, [Next]_vars
  PROVE  Unfiltered' /\ NothingForgotten'
<1> USE DEF IInv, TypeOK
<1>1. ASSUME NEW f \in Files, SaveInPlace(f) \/ SaveByRename(f)
      PROVE  Unfiltered' /\ NothingForgotten'
  <2>1. PICK op \in {"write", "create"} :
          /\ queue' = Append(queue, Event(f, op))
          /\ version' = [version EXCEPT ![f] = @ + 1]
          /\ UNCHANGED <<linted, pending>>
    BY <1>1 DEF SaveInPlace, SaveByRename
  <2> HIDE DEF IInv, TypeOK
  <2>a. queue \in Seq(Events) /\ Event(f, op) \in Events /\ version \in [Files -> Nat]
    BY <2>1 DEF IInv, TypeOK, Event, Events
  <2>2. /\ Len(queue') = Len(queue) + 1 /\ queue'[Len(queue) + 1] = Event(f, op)
        /\ \A i \in DOMAIN queue : i \in DOMAIN queue' /\ queue'[i] = queue[i]
        /\ DOMAIN queue' = DOMAIN queue \cup {Len(queue) + 1}
    BY <2>1, <2>a
  <2>3. Unfiltered'
    <3>1. Event(f, op).file \in DipFiles => IsDipEvent(Event(f, op))
      BY DEF Event, IsDipEvent
    <3>2. QED
      BY <2>2, <3>1 DEF Unfiltered
  <2>4. ASSUME NEW g \in DipFiles, linted'[g] < version'[g]
        PROVE  pending' = g \/ \E i \in DOMAIN queue' : queue'[i].file = g
    <3>1. CASE g = f
      BY <2>2, <3>1 DEF Event
    <3>2. CASE g # f
      <4>1. linted[g] < version[g] /\ pending' = pending
        BY <2>1, <2>4, <2>a, <3>2, FilesAssumption
      <4>2. QED
        BY <2>2, <4>1 DEF NothingForgotten
    <3>3. QED
      BY <3>1, <3>2
  <2>5. QED
    BY <2>3, <2>4 DEF NothingForgotten
<1>2. CASE HandleFsEvent
  <2>1. queue # <<>> /\ queue' = Tail(queue) /\ UNCHANGED <<version, linted>>
    BY <1>2 DEF HandleFsEvent
  <2>2. /\ \A i \in DOMAIN queue' : i + 1 \in DOMAIN queue /\ queue'[i] = queue[i + 1]
        /\ \A i \in DOMAIN queue : i # 1 => i - 1 \in DOMAIN queue' /\ queue'[i - 1] = queue[i]
        /\ 1 \in DOMAIN queue /\ Head(queue) = queue[1]
    <3>1. queue \in Seq(Events) /\ Len(queue) \in Nat /\ Len(queue) # 0
      <4>1. queue \in Seq(Events)
        OBVIOUS
      <4>2. QED
        BY ONLY <2>1, <4>1
    <3>2. /\ Len(queue') = Len(queue) - 1
          /\ DOMAIN queue = 1..Len(queue) /\ DOMAIN queue' = 1..(Len(queue) - 1)
          /\ \A i \in 1..(Len(queue) - 1) : queue'[i] = queue[i + 1]
          /\ Head(queue) = queue[1]
      BY ONLY <2>1, <3>1
    <3>3. QED
      BY ONLY <3>1, <3>2
  <2>3. Unfiltered'
    BY <2>2 DEF Unfiltered, IsDipEvent
  <2>4. ASSUME linted'[d] < version'[d]
        PROVE  pending' = d \/ \E i \in DOMAIN queue' : queue'[i].file = d
    <3>1. pending = d \/ \E i \in DOMAIN queue : queue[i].file = d
      BY <2>1, <2>4 DEF NothingForgotten
    <3>2. CASE Head(queue).file = d
      <4>1. IsDipEvent(Head(queue))
        BY <2>2, <3>2 DEF Unfiltered
      <4>2. QED
        BY <1>2, <3>2, <4>1 DEF HandleFsEvent
    <3>3. CASE Head(queue).file # d
      <4>1. pending' = pending
        BY <1>2, <3>3 DEF HandleFsEvent, IsDipEvent
      <4>2. ASSUME NEW i \in DOMAIN queue, queue[i].file = d
            PROVE  \E j \in DOMAIN queue' : queue'[j].file = d
        BY <2>2, <3>3, <4>2
      <4>3. QED
        BY <3>1, <4>1, <4>2
    <3>4. QED
      BY <3>2, <3>3
  <2>5. QED
    BY <2>3, <2>4 DEF NothingForgotten
<1>3. CASE Drain
  <2>1. pending = d /\ d \in Files
    BY <1>3, FilesAssumption DEF Drain, PendingHasTimer
  <2>2. linted'[d] = version'[d] /\ UNCHANGED queue
    BY <1>3, <2>1, FilesAssumption DEF Drain
  <2>3. ~(linted'[d] < version'[d])
    <3>1. version'[d] \in Nat
      BY <1>3, <2>1 DEF Drain
    <3>2. QED
      BY ONLY <2>2, <3>1
  <2>4. QED
    BY <2>2, <2>3 DEF Unfiltered, NothingForgotten, IsDipEvent
<1>4. CASE Expire \/ UNCHANGED vars
  BY <1>4 DEF Expire, vars, Unfiltered, NothingForgotten, IsDipEvent
<1>5. QED
  BY <1>1, <1>2, <1>3, <1>4 DEF Next, Loop

(* In a watched directory with one .dip file no save is ever forgotten.    *)
THEOREM OneFileIsRemembered ==
  ASSUME NEW d, DipFiles = {d}, DirTarget = TRUE
  PROVE  Spec => []NothingForgotten
<1> DEFINE J == IInv /\ Unfiltered /\ NothingForgotten
<1>1. Init => J
  <2>1. Init => Unfiltered /\ NothingForgotten
    <3> SUFFICES ASSUME Init PROVE Unfiltered /\ NothingForgotten
      OBVIOUS
    <3>1. DOMAIN queue = {}
      <4>1. queue = <<>>
        BY DEF Init
      <4>2. QED
        BY ONLY <4>1
    <3>2. \A f \in DipFiles : ~(linted[f] < version[f])
      <4>1. \A f \in DipFiles : linted[f] = 0 /\ version[f] = 0
        BY FilesAssumption DEF Init
      <4>2. QED
        BY ONLY <4>1
    <3>3. QED
      BY ONLY <3>1, <3>2 DEF Unfiltered, NothingForgotten
  <2>2. QED
    BY <2>1, InitIInv
<1>2. J /\ [Next]_vars => J'
  BY NextKeeps, NothingForgottenStep
<1>3. J => NothingForgotten
  OBVIOUS
<1> HIDE DEF J
<1>4. QED
  BY <1>1, <1>2, <1>3, PTL DEF Spec

=============================================================================
