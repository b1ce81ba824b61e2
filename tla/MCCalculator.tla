---------------------------- MODULE MCCalculator ----------------------------
(***************************************************************************)
(* Constants for Calculator: a mod whose effects meet every rule of the    *)
(* calculator, and three players in a turn order that is not that of their *)
(* ids, two of them in a team.                                             *)
(***************************************************************************)
EXTENDS Calculator, TLC

Us == {"own", "ally"}
Them == {"enemy"}

UnitEffects ==
  "drill" :> [targets |-> {"self"}, firepowerMod |-> -10, movementMod |-> 2,
              captureRateMod |-> -40, unitCostMod |-> -130,
              maxRangeMod |-> 1, minRangeMod |-> -2, goodLuckMod |-> 9,
              unitTypeRequired |-> {"tank", "infantry"}]
  @@ "bank" :> [targets |-> Us, firepowerFromFunds |-> 7,
                defenseFromFunds |-> 3, visionMod |-> 1,
                classificationRequired |-> {<<"ground", TRUE>>,
                                            <<"naval", FALSE>>}]
  @@ "towers" :> [targets |-> Us, firepowerFromOwnedTerrain |->
                    "city" :> 5 @@ "wood" :> 1,
                  defenseFromOwnedTerrain |-> "city" :> 2,
                  hpPartVisible |-> Us]
  @@ "ambush" :> [targets |-> {"own"}, terrainRequired |-> {"wood"},
                  terrainStarsFirepower |-> 7, terrainStarsFlatFirepower |-> 3,
                  terrainStarsDefense |-> -9, terrainStarsMod |-> 130,
                  terrainStarsFlatMod |-> 1, counterfireMod |-> 15]
  @@ "flat" :> [targets |-> Us, terrainStarsFlatFirepower |-> 11,
                terrainStarsFlatDefense |-> 13]
  @@ "snow" :> [targets |-> Them, movementMod |-> -1,
                visionVariantMods |-> "snow" :> -1,
                firepowerVariantMods |-> "snow" :> -20 @@ "rain" :> 4,
                defenseVariantMods |-> "snow" :> 6,
                hiddenHitPoints |-> {"enemy", "neutral"},
                luckPointsVisible |-> {"own"}]
  @@ "curse" :> [targets |-> Them, captureRateMod |-> -150, badLuckMod |-> 5,
                 indirectDefenseMod |-> -8, unitTypeRequired |-> {}]

TerrainEffects ==
  "tax" :> [targets |-> {"own"}, affects |-> {"own"},
            terrainRequired |-> {"city"}]
  @@ "fog" :> [targets |-> {"neutral", "enemy"}, affects |-> Us]

GlobalEffects ==
  "sun" :> [targets |-> {"own"}, variantMod |-> "normal"]
  @@ "storm" :> [targets |-> {"own", "ally", "enemy"}, variantMod |-> "rain"]
  @@ "freeze" :> [targets |-> Them, variantMod |-> "snow"]
  @@ "boots" :> [targets |-> {"own"},
                 movementClassVariantOverride |-> "normal",
                 movementClassVariantReplace |-> "snow"]
  @@ "mud" :> [targets |-> Them,
               movementClassVariantOverride |-> "rain",
               movementClassVariantReplace |-> "normal"]

TheMod ==
  [units |->
     "infantry" :> [movementRange |-> 3, visionRange |-> 2, cost |-> 1000,
                    captureSpeed |-> 10, classifications |-> {"ground"},
                    weapons |-> <<"rifle">>, movementClass |-> "foot"]
     @@ "tank" :> [movementRange |-> 6, visionRange |-> 3, cost |-> 7015,
                   classifications |-> {"ground", "vehicle"},
                   weapons |-> <<"cannon">>, movementClass |-> "tread"]
     @@ "ship" :> [movementRange |-> 5, visionRange |-> 1, cost |-> 99,
                   classifications |-> {"naval"}, movementClass |-> "hull"],
   terrains |-> "city" :> [stars |-> 3] @@ "wood" :> [stars |-> 2],
   weapons |-> "rifle" :> [maxRange |-> 1]
               @@ "cannon" :> [minRange |-> 2, maxRange |-> 3],
   movements |->
     "foot" :> [movementCosts |-> "city" :> 1 @@ "wood" :> 1,
                variantMods |-> "snow" :> ("wood" :> 1)]
     @@ "tread" :> [movementCosts |-> "city" :> 1,
                    variantMods |-> "rain" :> ("city" :> -3)],
   players |-> "human" :> [commanderTypeMod |-> "army"],
   commanders |->
     "army" :> [unit |-> [d2d |-> <<"ambush">>, cop |-> <<"drill">>],
                terrain |-> [d2d |-> <<"tax">>], global |-> <<>>]
     @@ "banker" :> [unit |-> [d2d |-> <<"bank">>, cop |-> <<"towers">>,
                               scop |-> <<"flat", "bank">>],
                     terrain |-> [cop |-> <<"fog">>],
                     global |-> [cop |-> <<"sun">>, scop |-> <<"boots">>]]
     @@ "witch" :> [unit |-> [d2d |-> <<"curse", "unknown">>,
                              scop |-> <<"snow">>],
                    terrain |-> <<>>,
                    global |-> [cop |-> <<"storm">>, scop |-> <<"freeze", "mud">>]]
     @@ "plain" :> [unit |-> <<>>, terrain |-> <<>>, global |-> <<>>],
   effects |-> [unit |-> UnitEffects, terrain |-> TerrainEffects,
                global |-> GlobalEffects],
   config |-> [minTerrainStars |-> 1,
               terrainDefenseScalesWithHitpoints |-> TRUE]]

Player(type, commander, power, funds) ==
  [playerType |-> type, commanderName |-> commander, powerActive |-> power,
   funds |-> funds]

Skirmish ==
  [players |-> 1 :> ("team" :> "red" @@ Player("human", "banker", "none", 0))
               @@ 2 :> Player("", "witch", "none", 1999)
               @@ 3 :> ("team" :> "red"
                          @@ Player("human", "plain", "cop", 1750)),
   playerOrder |-> <<2, 1, 3>>, playerTurn |-> 0, variant |-> "normal",
   coPowers |-> TRUE,
   terrains |-> "n" :> [name |-> "city", owner |-> 1]
                @@ "s" :> [name |-> "wood", owner |-> NoPlayer],
   units |-> "i" :> [name |-> "infantry", owner |-> 3, place |-> "s",
                     fuel |-> 4, hitPoints |-> 100]
             @@ "t" :> [name |-> "tank", owner |-> 1, place |-> "n",
                        fuel |-> 70, hitPoints |-> 45]
             @@ "b" :> [name |-> "ship", place |-> "s", fuel |-> 1,
                        hitPoints |-> 9]]

\* The same with powers in use, without commanders, on a snowy day, when the
\* third player has the turn, and as a reader finds it whose players are not
\* those of its turn order.
TheGames ==
  {Skirmish,
   [Skirmish EXCEPT !.players[1].powerActive = "scop",
                    !.players[2].powerActive = "scop"],
   [Skirmish EXCEPT !.players[1].powerActive = "cop", !.coPowers = FALSE],
   [Skirmish EXCEPT !.players[1].powerActive = "cop", !.playerTurn = 1,
                    !.players[2].powerActive = "cop", !.variant = "snow"],
   [Skirmish EXCEPT !.playerTurn = 2, !.players[2].powerActive = "scop"],
   [Skirmish EXCEPT !.playerOrder = <<2, 1, 4>>]}
=============================================================================
