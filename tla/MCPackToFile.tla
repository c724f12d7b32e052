----------------------------- MODULE MCPackToFile ---------------------------
(***************************************************************************)
(* Instances of PackToFile for TLC: v1 is valid, v2 packs without being    *)
(* valid, v3 passes the validator and is refused by Pack.                  *)
(***************************************************************************)
EXTENDS PackToFile

CONSTANTS v1, v2, v3, t1, t2, t3, p1, p2

MCVersions == {v1, v2, v3}
MCValid == {v1, v3}
MCPackable == {v1, v2}

=============================================================================
