----------------------------- MODULE MCModStore -----------------------------
(***************************************************************************)
(* Constants for ModStore: four uploads of two mods, three of one name     *)
(* (the second is a retry of the first, the third a new version) and one   *)
(* of another, with the first and the last of the sixteen sections.  There *)
(* is no symmetry: the run checks liveness too.                            *)
(***************************************************************************)
EXTENDS ModStore, TLC

CONSTANTS q1, q2, q3, q4

FourNames == q1 :> "tanks" @@ q2 :> "tanks" @@ q3 :> "tanks" @@ q4 :> "ships"
FourVersions == q1 :> "v1" @@ q2 :> "v1" @@ q3 :> "v2" @@ q4 :> "v1"

FirstAndLast ==
  SelectSeq(SubmitOrder, LAMBDA s : s \in {SubmitOrder[1], SubmitOrder[Len(SubmitOrder)]})
=============================================================================
