--------------------------- MODULE MCDipxRoundTrip --------------------------
(***************************************************************************)
(* Instances of DipxRoundTrip for TLC: source trees of three files with    *)
(* every kind of fault, diamonds and circles, and an editor at work.       *)
(***************************************************************************)
EXTENDS DipxRoundTrip

MCPathOrder == <<"$.dip", "A.dip", "a.dip", "b.dip", "c.dip">>
MCUnsafe == {"$.dip"}
MCFold(p) == IF p = "A.dip" THEN "a.dip" ELSE p

\* "../src/b.dip" is b.dip on disk and outside of workflows/ in the bundle.
MCResolve(ref, parent) == IF ref \in {"../out.dip", "../src/b.dip"} \cup MCUnsafe THEN Escapes ELSE ref
MCDiskResolve(ref, cur) ==
    IF ref = "../out.dip" THEN Escapes ELSE IF ref = "../src/b.dip" THEN "b.dip" ELSE ref

Plain(refs) == Content(refs, 1, TRUE, TRUE)

EntryContents ==
    {Plain(<<>>), Plain(<<"b.dip", "c.dip">>), Plain(<<"c.dip", "b.dip", "a.dip">>),
     Plain(<<"../src/b.dip">>), Plain(<<"b.dip", "../out.dip">>), Plain(<<"$.dip">>),
     Plain(<<"A.dip">>), Content(<<"b.dip">>, 3, TRUE, TRUE),
     Content(<<>>, 4, TRUE, TRUE), Content(<<>>, 1, FALSE, TRUE)}
ChildContents ==
    {Plain(<<>>), Plain(<<"c.dip">>), Plain(<<"a.dip", "c.dip">>), Content(<<"b.dip">>, 2, TRUE, TRUE),
     Content(<<>>, 0, TRUE, TRUE), Content(<<>>, 1, TRUE, FALSE), Content(<<>>, 1, FALSE, TRUE), Missing, Symlink}

MCTrees ==
    {("$.dip" :> Plain(<<>>) @@ "A.dip" :> Plain(<<>>) @@ "a.dip" :> a @@ "b.dip" :> b @@ "c.dip" :> c) :
        a \in EntryContents, b \in ChildContents, c \in ChildContents}

MCEditsOf ==
    [p \in Range(MCPathOrder) |->
        IF p \in {"b.dip", "c.dip"} THEN {Plain(<<>>), Plain(<<"a.dip">>), Missing} ELSE {}]

=============================================================================
