----------------------------- MODULE MCDipxOpen -----------------------------
(***************************************************************************)
(* Instances of DipxOpen for TLC: every reference graph of three files     *)
(* with up to two refs each, and bundles with one or two faults.           *)
(***************************************************************************)
EXTENDS DipxOpen

\* Three files, a fourth one that no bundle lists, one whose name folds to
\* another's, and a name Canonicalize refuses.
MCPathOrder == <<"../up.dip", "A.dip", "a.dip", "b.dip", "c.dip", "d.dip">>
MCUnsafe == {"../up.dip"}
MCFold(p) == IF p = "A.dip" THEN "a.dip" ELSE p
MCResolve(ref, parent) == IF ref \in MCUnsafe THEN Escapes ELSE ref

ThreePaths == <<"a.dip", "b.dip", "c.dip">>
RefLists(targets) == {<<>>} \cup {<<t>> : t \in targets} \cup {<<t, u>> : t \in targets, u \in targets}

Plain(refs) == Content(refs, 1, TRUE, TRUE)

\* A bundle whose manifest lists and vouches for exactly what the zip holds.
Sound(paths, contents) ==
    [zip |-> [i \in DOMAIN paths |-> ZipEntry(paths[i], contents[i])],
     manifest |-> Manifest(paths[1], [i \in DOMAIN paths |-> File(paths[i], contents[i])])]

GraphBundles ==
    {Sound(ThreePaths, <<Plain(r[1]), Plain(r[2]), Plain(r[3])>>) :
        r \in [1..3 -> RefLists(Range(ThreePaths))]}

\* Contents with and without a fault of their own, two files.
Contents ==
    {Content(refs, size, parses, conditions) :
        refs \in {<<>>, <<"b.dip">>, <<"d.dip">>, <<"../up.dip">>},
        size \in {0, 2, 3, 4}, parses \in BOOLEAN, conditions \in BOOLEAN}

PairBundles == {Sound(<<"a.dip", "b.dip">>, c) : c \in [1..2 -> Contents]}

Good == Sound(ThreePaths, <<Plain(<<"b.dip">>), Plain(<<"c.dip">>), Plain(<<>>)>>)
Big == Content(<<>>, 4, TRUE, TRUE)

FaultyBundles ==
    {[Good EXCEPT !.manifest = NoManifest],
     [Good EXCEPT !.manifest.version = 2],
     [Good EXCEPT !.manifest.files = <<>>],
     [Good EXCEPT !.manifest.entry = "d.dip"],
     [Good EXCEPT !.manifest.entry = "../up.dip"],
     [Good EXCEPT !.manifest.files[2].path = "../up.dip"],
     [Good EXCEPT !.manifest.files[2].path = "A.dip"],
     [Good EXCEPT !.manifest.files[3].path = "d.dip"],
     [Good EXCEPT !.manifest.files[1].sha = Big],
     [Good EXCEPT !.manifest.files[3].sha = Big],
     [Good EXCEPT !.zip[2].content = Big],
     [Good EXCEPT !.manifest.files[1].sha = Big, !.zip[3].content = Big],
     [Good EXCEPT !.zip[3].content = Plain(<<"d.dip">>)],
     [Good EXCEPT !.manifest.files = Front(@)],
     [Good EXCEPT !.zip = Append(@, ZipEntry("d.dip", Big))],
     [Good EXCEPT !.zip = Append(@, ZipEntry("A.dip", Big))],
     [Good EXCEPT !.zip = @ \o <<ZipEntry("d.dip", Big), ZipEntry("e.dip", Big)>>]}

MCBundles == GraphBundles \cup PairBundles \cup FaultyBundles

=============================================================================
