---------------------------- MODULE DipxRoundTrip ---------------------------
(***************************************************************************)
(* Pack and then Open: what DipxPack wrote is the bundle DipxOpen reads,   *)
(* in strict mode and undisturbed.                                         *)
(***************************************************************************)
EXTENDS DipxPack

VARIABLES lax, stage, result, at, verified, total, stack, nextRef, black

openVars == <<lax, stage, result, at, verified, total, stack, nextRef, black>>

O == INSTANCE DipxOpen WITH bundle <- output, Bundles <- {}, CanCancel <- FALSE

RoundTripInit == Init /\ O!Begin /\ lax = FALSE

OpenPacked == outcome = "ok" /\ UNCHANGED vars /\ O!Next

PackOrOpen == (PackStep /\ UNCHANGED openVars) \/ OpenPacked

Around == (PackCancelled \/ Edit) /\ UNCHANGED openVars

allVars == <<vars, openVars>>

\* One goroutine that never waits.
RoundTripSpec == RoundTripInit /\ [][PackOrOpen \/ Around]_allVars /\ WF_allVars(PackOrOpen)

-----------------------------------------------------------------------------
(* Properties                                                              *)

(* What Open asks beyond what Pack has looked at. *)
SizeUpTo ==
    LET size[n \in 0..Len(output.zip)] ==
            IF n = 0 THEN 0 ELSE size[n - 1] + output.zip[n].content.size
    IN  size

\* The files do not fit, or they just fit and Open, which has nothing left for a
\* file that needs nothing, refuses an empty one.
TooLarge ==
    LET size == SizeUpTo[Len(output.zip)]
    IN  size > TotalCap \/ (size = TotalCap /\ \E i \in DOMAIN all : all[i].sha.size = 0)

RefsAgree ==
    \A i \in DOMAIN all : DiskTargets(all[i].path, all[i].sha) = RefTargets(all[i].path, all[i].sha)

Chains(n) ==
    {c \in [1..(n + 1) -> O!Listed] : \A i \in 1..n : c[i + 1] \in O!TargetsOf(c[i])}

Causes(r) ==
    \/ r = "CapExceeded" /\ (Len(all) + 1 > MaxFiles \/ TooLarge \/ Chains(MaxDepth + 1) # {})
    \/ r = "SubgraphParse" /\ \E i \in DOMAIN all : ~all[i].sha.conditions
    \/ r = "RefCycle" /\ ~O!Acyclic(O!Listed)
    \/ r \in {"PathUnsafe", "RefEscape"} /\ ~RefsAgree

(* "Pack-produced bundles always pass strict mode" (the format's design    *)
(* document, line 412): a bundle fresh from Pack is never refused for its  *)
(* zip, its manifest, its digests or the entry's text.  It is refused, for *)
(* what Pack does not look at: too many or too large files, conditions     *)
(* that do not parse, circular or too deep refs, and refs that lead        *)
(* elsewhere in the bundle than on disk.                                   *)
RefusedForCause == stage = "done" /\ result # "ok" => Causes(result)

(* Both return, although refs may go round in circles.                     *)
RoundTripEnds == <>(phase = "done" /\ (outcome = "ok" => stage = "done"))

=============================================================================
