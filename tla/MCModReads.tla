----------------------------- MODULE MCModReads -----------------------------
(***************************************************************************)
(* Constants for ModReads: two uploads of one mod, two readers.            *)
(***************************************************************************)
EXTENDS ModReads, TLC

CONSTANTS q1, q2, r1, r2

Names == q1 :> "tanks" @@ q2 :> "tanks"
Versions == q1 :> "v1" @@ q2 :> "v2"
OneSection == <<"units">>
=============================================================================
