---------------------------- MODULE MCGameReads -----------------------------
(***************************************************************************)
(* Constants for GameReads: two calls of createGame and one reader.        *)
(***************************************************************************)
EXTENDS GameReads

CONSTANTS c1, c2, r1

TestGame == {-1}
FullInput == {Tables}
=============================================================================
