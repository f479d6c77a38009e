--------------------------- MODULE Normalisation ----------------------------
(***************************************************************************)
(* The abstract specification of NormalizePath: one step from the raw path *)
(* to what it means.                                                       *)
(***************************************************************************)
EXTENDS PathMeaning

VARIABLES
    raw,     \* what is to be normalised, any text
    result   \* empty, or the one result

AInit == raw \in Seq(Nat) /\ result = <<>>
Normalise == result = <<>> /\ result' = <<Meaning(raw)>> /\ UNCHANGED raw
ASpec == AInit /\ [][Normalise]_<<raw, result>>
=============================================================================
