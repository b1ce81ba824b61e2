---------------------------- MODULE MCGameStore -----------------------------
(***************************************************************************)
(* Constants for GameStore: calls of createGame for the game -1 of the     *)
(* test program, for one with the first id MySQL gives, and for new games; *)
(* with full lists, without variants, and with slots but no users.         *)
(***************************************************************************)
EXTENDS GameStore

CONSTANTS c1, c2

SomeGames == {-1, 1}
SomeInputs ==
  {Tables \ lacks : lacks \in {{}, {"SETTINGS_VARIANT_REFERENCE"}, {"PLAYER"}}}
=============================================================================
