---------------------------- MODULE MCDipxExtract ---------------------------
(* Two bundles that share one file and differ in another.                  *)
EXTENDS DipxExtract, TLC

CONSTANTS b1, b2

MCFilesOf == (b1 :> {Manifest, "main.dip"}) @@ (b2 :> {Manifest, "main.dip", "sub.dip"})
=============================================================================
