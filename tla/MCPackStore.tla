---------------------------- MODULE MCPackStore ----------------------------
(***************************************************************************)
(* Constants for PackStore: two versions of one pack, one reader.          *)
(***************************************************************************)
EXTENDS PackStore, TLC

CONSTANTS q1, q2, r1

Names == q1 :> "classic" @@ q2 :> "classic"
Versions == q1 :> "v1" @@ q2 :> "v2"
=============================================================================
