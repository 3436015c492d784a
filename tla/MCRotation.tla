----------------------------- MODULE MCRotation -----------------------------
(* Instances of Rotation for TLC.                                           *)
EXTENDS Rotation, TLC

CONSTANTS i1, i2, i3, c1, c2

(* Two verses and a hadith; one of the verses is too long to send.          *)
MixedType == (i1 :> "AYAH") @@ (i2 :> "AYAH") @@ (i3 :> "HADITH")
ByAge == (i1 :> 1) @@ (i2 :> 2) @@ (i3 :> 3)
VerseThenHadith == <<"AYAH", "HADITH">>

CallerSymmetry == Permutations(Callers)
=============================================================================
