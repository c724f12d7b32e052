----------------------------- MODULE SourceText -----------------------------
(***************************************************************************)
(* Text of a .dip file, and the conversions the lexer, the parser and the  *)
(* formatter make on it.                                                   *)
(*                                                                         *)
(* A text is a sequence of pieces.  A piece is one of the marks below, each*)
(* of which some conversion treats specially, or a word: any other string, *)
(* a run of letters, digits and underscores.  "NL" is a line break, a blank*)
(* run is one " ".  An arrow or operator stands between blanks.  A line is *)
(* [ind |-> n, t |-> text]: n columns, then a text without outer blanks.   *)
(***************************************************************************)
EXTENDS Integers, Sequences, SequencesExt, TLC

CONSTANTS
    Millis,         \* what time.ParseDuration makes of a word, in ms
    DurationWord,   \* the word the formatter makes of ms: "1m30s"
    Alphabet        \* the pieces that occur in texts that get sorted, in order

Marks == {" ", "NL", ":", ",", "(", ")", "[", "->", "<-", "=", "==", "!=", "<", ">",
          "\"", "\\", "#", "-", ".", "/", "*", "%"}

IsWord(c) == c \notin Marks

Line(n, text) == [ind |-> n, t |-> text]
BlankLine     == Line(0, <<>>)

(* strings.TrimRight and strings.TrimSpace *)
TrimRight(t) ==
    LET ink == {i \in DOMAIN t : t[i] \notin {" ", "NL"}}
    IN  IF ink = {} THEN <<>> ELSE SubSeq(t, 1, Max(ink))

TrimSpace(t) ==
    LET ink == {i \in DOMAIN t : t[i] \notin {" ", "NL"}}
    IN  IF ink = {} THEN <<>> ELSE SubSeq(t, Min(ink), Max(ink))

(* strings.Split and strings.Join *)
Split(t, sep) ==
    FoldLeft(LAMBDA acc, c : IF c = sep THEN Append(acc, <<>>)
                                        ELSE [acc EXCEPT ![Len(acc)] = Append(@, c)],
             << <<>> >>, t)

Join(parts, sep) ==
    IF parts = <<>> THEN <<>>
    ELSE FoldLeft(LAMBDA acc, p : acc \o sep \o p, Head(parts), Tail(parts))

IndexOf(t, c) == SelectInSeq(t, LAMBDA x : x = c)

-----------------------------------------------------------------------------
(* Comments (lexer.go:104-141).  Only the first # outside quotes counts,   *)
(* and only at the start or after a blank.                                 *)
UnquotedHash(t) ==
    {i \in DOMAIN t : t[i] = "#" /\ Len(SelectSeq(SubSeq(t, 1, i), LAMBDA c : c = "\"")) % 2 = 0}

StripComment(t) ==
    LET text == TrimRight(t)
        i == Min(UnquotedHash(text))
    IN  IF UnquotedHash(text) # {} /\ (i = 1 \/ text[i - 1] = " ")
        THEN SubSeq(text, 1, i - 1)
        ELSE text

(* RawValueText: what stands after the first colon of the source line.     *)
RawValueText(t) ==
    LET val == TrimSpace(SubSeq(t, IndexOf(t, ":") + 1, Len(t)))
    IN  IF IndexOf(t, ":") = 0 THEN <<>>
        ELSE IF val = <<>> \/ val[1] \in {"#", "\""} THEN val
        ELSE TrimSpace(StripComment(val))

(* strings.ReplaceAll of the two pieces x y by r, left to right.           *)
ReplacePair(t, x, y, r) ==
    FoldLeft(LAMBDA acc, c :
                IF acc.open /\ c = y
                THEN [out |-> Append(Front(acc.out), r), open |-> FALSE]
                ELSE [out |-> Append(acc.out, c), open |-> c = x],
             [out |-> <<>>, open |-> FALSE], t).out

UnquoteRaw(raw) ==
    IF Len(raw) < 2 \/ raw[1] # "\"" \/ Last(raw) # "\"" THEN raw
    ELSE ReplacePair(ReplacePair(SubSeq(raw, 2, Len(raw) - 1), "\\", "\"", "\""),
                     "\\", "\\", "\\")

(* quoteValue of the formatter: quotes are added, nothing is escaped.      *)
NeedsQuoting(s) == \E i \in DOMAIN s : ~IsWord(s[i]) /\ s[i] \notin {"-", ".", "/", ":"}

QuoteValue(s) == IF s = <<>> \/ NeedsQuoting(s) THEN <<"\"">> \o s \o <<"\"">> ELSE s

-----------------------------------------------------------------------------
(* Lists, numbers and durations (parse_helpers.go, formatter.formatDuration) *)
SplitComma(t) == LET parts == Split(t, ",") IN [i \in DOMAIN parts |-> TrimSpace(parts[i])]

SplitCommaNoEmpty(t) == SelectSeq(SplitComma(t), LAMBDA p : p # <<>>)

MaxNumber == 9                      \* the bound of the numbers that are written

NumberOf(word) == CHOOSE n \in 0..MaxNumber : ToString(n) = word
IsNumber(word) == \E n \in 0..MaxNumber : ToString(n) = word

\* strconv.Atoi
IsInt(t) == \/ Len(t) = 1 /\ IsNumber(t[1])
            \/ Len(t) = 2 /\ t[1] = "-" /\ IsNumber(t[2])
IntOf(t) == IF Len(t) = 1 THEN NumberOf(t[1]) ELSE -NumberOf(t[2])
IntText(n) == IF n < 0 THEN <<"-", ToString(-n)>> ELSE <<ToString(n)>>

IsDuration(t) == Len(t) = 1 /\ t[1] \in DOMAIN Millis

\* Hours, minutes and whole seconds are written; less than a second as it is.
FormatDuration(d) == <<DurationWord[IF d < 1000 THEN d ELSE (d \div 1000) * 1000]>>

\* strconv.ParseFloat and formatFloat: a number without a point gets ".0".
IsFloat(t) == \/ Len(t) = 1 /\ IsNumber(t[1])
              \/ Len(t) = 3 /\ IsNumber(t[1]) /\ t[2] = "." /\ IsNumber(t[3])
FloatOf(t) == IF Len(t) = 1 THEN t \o <<".", "0">> ELSE t

(* sort.Strings: the order of the first pieces that differ.                *)
Before(a, b) ==
    LET differ == {i \in 1..Min({Len(a), Len(b)}) : a[i] # b[i]}
    IN  IF differ = {} THEN Len(a) < Len(b)
        ELSE IndexOf(Alphabet, a[Min(differ)]) < IndexOf(Alphabet, b[Min(differ)])

SortTexts(S) == SetToSortSeq(S, Before)

=============================================================================
