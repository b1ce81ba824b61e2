----------------------------- MODULE Calculator -----------------------------
(***************************************************************************)
(* The battle calculator, namespace calc (src/Calculator.cpp): pure        *)
(* functions of a game and of the mod it is played with, which collect the *)
(* effects of all commanders that reach a unit and add them up.            *)
(*                                                                         *)
(* An optional member of the code is a field that a record may lack.  The  *)
(* maps of Game are unordered: walk is the order in which a loop over      *)
(* playersById happens to meet the players.  The place of a terrain is its *)
(* key for terrainsByCoordinate and terrainsById alike: in the games here  *)
(* no two terrains have the same coordinates.                              *)
(***************************************************************************)
EXTENDS Integers, Sequences, SequencesExt, FiniteSetsExt

CONSTANTS
  ModData,   \* the tables of a mod, each a function from names
  Throws,    \* what a call that throws std::runtime_error answers
  NoPlayer,  \* the null PlayerState*
  InitialGames,             \* games as they are stored
  Funds, HitPoints, Places, \* what play may give a player or a unit
  MaxMoves                  \* bound: moves after the stored game

VARIABLES
  game,   \* the Game that the calculator is given
  walk,   \* the order of its unordered_map of players
  moves   \* moves played so far

vars == <<game, walk, moves>>

-----------------------------------------------------------------------------
(* Small helpers: std::optional, integer division, hit points.             *)

ValueOr(record, field, default) ==
  IF field \in DOMAIN record THEN record[field] ELSE default

\* A record where one optional member is set.
With(record, field, value) ==
  [f \in DOMAIN record \cup {field} |->
     IF f = field THEN value ELSE record[f]]

\* The elements of a sequence that are in a set: std::erase_if of the others.
Keep(seq, S) ==
  LET upTo[i \in 0..Len(seq)] ==
        IF i = 0 THEN <<>>
        ELSE IF seq[i] \in S THEN Append(upTo[i - 1], seq[i])
        ELSE upTo[i - 1]
  IN  upTo[Len(seq)]

\* The sum of a sequence of numbers: std::ranges::fold_left.
Total(numbers) ==
  LET upTo[i \in 0..Len(numbers)] ==
        IF i = 0 THEN 0 ELSE upTo[i - 1] + numbers[i]
  IN  upTo[Len(numbers)]

\* Division of C++ truncates towards zero.
Quotient(a, b) == IF a >= 0 THEN a \div b ELSE -((-a) \div b)

Larger(a, b) == IF a >= b THEN a ELSE b
Smaller(a, b) == IF a <= b THEN a ELSE b

flatHitPoints(h) == -(10 * ((-h) \div 10))

UnitHitPoints(unit) == flatHitPoints(ValueOr(unit, "hitPoints", 100))

\* Wrong: what belongs to nobody belongs to who has the turn.
OwnerOrActive(g, thing) ==
  ValueOr(thing, "owner", g.playerOrder[g.playerTurn + 1])

\* find(game.playersById, owner.value_or(-1))
OwnerOf(g, thing) ==
  LET owner == ValueOr(thing, "owner", NoPlayer)
  IN  IF owner \in DOMAIN g.players THEN owner ELSE NoPlayer

-----------------------------------------------------------------------------
(* Alliances, and the words by which an effect names them.                 *)

getAlliance(g, a, b) ==
  LET team(p) == ValueOr(g.players[p], "team", NoPlayer)
  IN  IF a = NoPlayer \/ b = NoPlayer THEN "NEUTRAL"
      ELSE IF a = b THEN "SELF"
      ELSE IF team(a) # NoPlayer /\ team(a) = team(b) THEN "ALLY"
      ELSE "ENEMY"

Words(alliance) ==
  CASE alliance = "SELF"    -> {"own", "self"}
    [] alliance = "ALLY"    -> {"ally"}
    [] alliance = "ENEMY"   -> {"enemy"}
    [] alliance = "NEUTRAL" -> {"neutral"}

Names(effect, field, alliance) ==
  ValueOr(effect, field, {}) \cap Words(alliance) # {}

-----------------------------------------------------------------------------
(* The effects a player's commanders give.  A commander has, for each kind *)
(* of effect, the names it gives day to day ("d2d"), under its power       *)
(* ("cop") and under its super power ("scop").                             *)

CommanderLists(name, kind, power) ==
  IF name \notin DOMAIN ModData.commanders
  THEN <<>>
  ELSE LET lists == ModData.commanders[name][kind]
       IN  ValueOr(lists, "d2d", <<>>)
             \o (IF power \in {"cop", "scop"} THEN ValueOr(lists, power, <<>>)
                 ELSE <<>>)

Baseline(player) ==
  IF player.playerType \in DOMAIN ModData.players
  THEN ValueOr(ModData.players[player.playerType], "commanderTypeMod", "")
  ELSE ""

\* Unknown effect names are passed over; each effect is paired with its giver.
EffectsOf(g, p, kind) ==
  LET player == g.players[p]
      power == ValueOr(player, "powerActive", "none")
      named == CommanderLists(Baseline(player), kind, power)
                 \o (IF g.coPowers
                     THEN CommanderLists(player.commanderName, kind, power)
                     ELSE <<>>)
      known == Keep(named, DOMAIN ModData.effects[kind])
  IN  [i \in DOMAIN known |->
         [effect |-> ModData.effects[kind][known[i]], giver |-> p]]

\* All effects of a kind there are, with any giver.
Gifts(g, kind) ==
  [effect : {ModData.effects[kind][n] : n \in DOMAIN ModData.effects[kind]},
   giver : DOMAIN g.players]

\* One player after the other, those of the effects that reach.
EffectsOfAll(g, players, kind, reaching) ==
  FlattenSeq([i \in DOMAIN players |->
                Keep(EffectsOf(g, players[i], kind), reaching)])

\* The list of names is empty or names it: an empty one asks for nothing.
AnyOf(effect, field, name) ==
  ValueOr(effect, field, {}) = {} \/ name \in effect[field]

\* A classification is <<word, wanted>>: "!word" asks that it be absent.
unitMatchesEffect(unit, terrainName, effect) ==
  /\ AnyOf(effect, "unitTypeRequired", unit.name)
  /\ AnyOf(effect, "terrainRequired", terrainName)
  /\ \A c \in ValueOr(effect, "classificationRequired", {}) :
       (c[1] \in ModData.units[unit.name].classifications) = c[2]

terrainMatchesEffect(terrainName, effect) ==
  AnyOf(effect, "terrainRequired", terrainName)

TerrainUnder(g, unit) ==
  IF unit.place \in DOMAIN g.terrains THEN g.terrains[unit.place].name ELSE ""

\* The filters of all callers ask for any of some members.
ReachingUnit(g, unit, members) ==
  {given \in Gifts(g, "unit") :
     LET alliance == getAlliance(g, given.giver, OwnerOf(g, unit))
     IN  /\ alliance # "NEUTRAL"
         /\ Names(given.effect, "targets", alliance)
         /\ unitMatchesEffect(unit, TerrainUnder(g, unit), given.effect)
         /\ DOMAIN given.effect \cap members # {}}

getAllPassiveUnitEffects(g, w, unit, members) ==
  EffectsOfAll(g, w, "unit", ReachingUnit(g, unit, members))

activePlayer(g) == g.playerOrder[g.playerTurn + 1]

\* playerOrder.at(playerTurn) is there, and so is that player.
ActiveIsKnown(g) ==
  /\ g.playerTurn + 1 \in DOMAIN g.playerOrder
  /\ activePlayer(g) \in DOMAIN g.players

\* Wrong: the order is not turned to begin with the active player.
orderUnturned(g) == g.playerOrder

\* The players from the active one onward, as their turns come.
orderedPlayers(g) ==
  LET n == Len(g.playerOrder)
  IN  [i \in 1..n |-> g.playerOrder[((g.playerTurn + i - 1) % n) + 1]]

ReachingTerrain(g, terrain) ==
  {given \in Gifts(g, "terrain") :
     LET active == activePlayer(g)
         powerAlliance == getAlliance(g, given.giver, active)
     IN  /\ Names(given.effect, "targets",
                  getAlliance(g, OwnerOf(g, terrain), active))
         /\ powerAlliance # "NEUTRAL"
         /\ Names(given.effect, "affects", powerAlliance)
         /\ terrainMatchesEffect(terrain.name, given.effect)}

getAllPassiveTerrainEffects(g, w, place) ==
  IF g.terrains[place].name \notin DOMAIN ModData.terrains \/ ~ActiveIsKnown(g)
  THEN Throws
  ELSE EffectsOfAll(g, w, "terrain", ReachingTerrain(g, g.terrains[place]))

\* The filters of both callers ask for all of some members.
ReachingPlayer(g, target, members) ==
  {given \in Gifts(g, "global") :
     /\ Names(given.effect, "targets", getAlliance(g, given.giver, target))
     /\ members \subseteq DOMAIN given.effect}

\* Without a target player the effects are those that reach the active one.
getAllPassiveGlobalEffects(g, targetPlayer, members) ==
  LET target == IF targetPlayer = NoPlayer THEN activePlayer(g)
                ELSE targetPlayer
  IN  IF ActiveIsKnown(g) /\ ToSet(g.playerOrder) \subseteq DOMAIN g.players
      THEN EffectsOfAll(g, orderedPlayers(g), "global",
                        ReachingPlayer(g, target, members))
      ELSE Throws

GivesVariant == {"variantMod"}

getCurrentVariant(g) ==
  LET given == getAllPassiveGlobalEffects(g, NoPlayer, GivesVariant)
  IN  IF given = Throws THEN Throws
      ELSE IF given = <<>> THEN g.variant
      ELSE Last(given).effect.variantMod

-----------------------------------------------------------------------------
(* What the callers ask.  All of them need the unit's type.                *)

TypeOf(unit) == ModData.units[unit.name]

Asked(unit, answer) ==
  IF unit.name \in DOMAIN ModData.units THEN answer ELSE Throws

\* The fold over the effects that reach the unit.
ModSum(g, w, unit, fields, field, base) ==
  LET given == getAllPassiveUnitEffects(g, w, unit, fields)
  IN  base + Total([i \in DOMAIN given |-> ValueOr(given[i].effect, field, 0)])

calculateUnitMovementRange(g, w, unit) ==
  Asked(unit, Smaller(unit.fuel,
                      ModSum(g, w, unit, {"movementMod"}, "movementMod",
                             TypeOf(unit).movementRange)))

\* The share an effect has for the variant the game is in.
VariantShare(effect, field, variant) ==
  IF field \in DOMAIN effect THEN ValueOr(effect[field], variant, 0) ELSE 0

calculateUnitVisionRange(g, w, unit) ==
  LET variant == getCurrentVariant(g)
      given == getAllPassiveUnitEffects(g, w, unit,
                                        {"visionMod", "visionVariantMods"})
  IN  Asked(unit,
        IF variant = Throws THEN Throws
        ELSE TypeOf(unit).visionRange
               + Total([i \in DOMAIN given |->
                   VariantShare(given[i].effect, "visionVariantMods", variant)
                     + ValueOr(given[i].effect, "visionMod", 0)]))

\* The owner of a terrain is compared with the id, found in game or not.
countTerrainsOwnedByPlayer(g, p, name) ==
  Cardinality({place \in DOMAIN g.terrains :
                 /\ g.terrains[place].name = name
                 /\ ValueOr(g.terrains[place], "owner", NoPlayer) = p})

calculateUnitTerrainStars(g, w, unit) ==
  LET name == TerrainUnder(g, unit)
      fields == {"terrainStarsMod", "terrainStarsFlatMod"}
      stars == Quotient(
        ModSum(g, w, unit, fields, "terrainStarsFlatMod",
               ModData.terrains[name].stars)
          * ModSum(g, w, unit, fields, "terrainStarsMod", 0), 100)
  IN  Asked(unit,
        IF name \notin DOMAIN ModData.terrains THEN Throws
        ELSE Larger(ValueOr(ModData.config, "minTerrainStars", stars), stars))

\* Wrong: effects that only have a share by terrains do not count.
FirepowerIgnoringTerrain(attacking) ==
  [filter |-> {"firepowerFromFunds", "firepowerMod", "firepowerVariantMods",
               "terrainStarsFirepower", "counterfireMod"},
   mod |-> "firepowerMod", variantMods |-> "firepowerVariantMods",
   extra |-> "counterfireMod", useExtra |-> ~attacking,
   stars |-> "terrainStarsFirepower", flat |-> "terrainStarsFlatFirepower",
   scales |-> "terrainFirepowerScalesWithHitpoints",
   terrain |-> "firepowerFromOwnedTerrain", funds |-> "firepowerFromFunds"]

\* Firepower and defense differ in the members they read.  The lists of
\* fields that make an effect count lack the flat shares of the stars.
FirepowerSide(attacking) ==
  [filter |-> {"firepowerFromFunds", "firepowerFromOwnedTerrain",
               "firepowerMod", "firepowerVariantMods",
               "terrainStarsFirepower", "counterfireMod"},
   mod |-> "firepowerMod", variantMods |-> "firepowerVariantMods",
   extra |-> "counterfireMod", useExtra |-> ~attacking,
   stars |-> "terrainStarsFirepower", flat |-> "terrainStarsFlatFirepower",
   scales |-> "terrainFirepowerScalesWithHitpoints",
   terrain |-> "firepowerFromOwnedTerrain", funds |-> "firepowerFromFunds"]

DefenseSide(attackerIndirect) ==
  [filter |-> {"defenseFromFunds", "defenseFromOwnedTerrain", "defenseMod",
               "defenseVariantMods", "indirectDefenseMod",
               "terrainStarsDefense"},
   mod |-> "defenseMod", variantMods |-> "defenseVariantMods",
   extra |-> "indirectDefenseMod", useExtra |-> attackerIndirect,
   stars |-> "terrainStarsDefense", flat |-> "terrainStarsFlatDefense",
   scales |-> "terrainDefenseScalesWithHitpoints",
   terrain |-> "defenseFromOwnedTerrain", funds |-> "defenseFromFunds"]

\* Whose funds and whose terrains count: those of the giver.  The order of
\* the map of terrain names makes no difference to a sum.
FromTerrains(g, side, one) ==
  LET mods == ValueOr(one.effect, side.terrain, <<>>)
      names == SetToSeq(DOMAIN mods)
  IN  Total([i \in DOMAIN names |->
               mods[names[i]]
                 * countTerrainsOwnedByPlayer(g, one.giver, names[i])])

\* Wrong: thousands before the product; the funds of who has the turn.
FromThousands(g, side, one) ==
  ValueOr(one.effect, side.funds, 0) * (g.players[one.giver].funds \div 1000)

FromActiveFunds(g, side, one) ==
  Quotient(ValueOr(one.effect, side.funds, 0)
             * g.players[activePlayer(g)].funds, 1000)

FromFunds(g, side, one) ==
  Quotient(ValueOr(one.effect, side.funds, 0) * g.players[one.giver].funds,
           1000)

FromStars(side, unit, stars, one) ==
  LET share == ValueOr(one.effect, side.stars, 0) * stars
                 + ValueOr(one.effect, side.flat, 0)
  IN  IF ValueOr(ModData.config, side.scales, FALSE)
      THEN Quotient(share * UnitHitPoints(unit), 100)
      ELSE share

Share(g, unit, side, variant, stars, one) ==
  ValueOr(one.effect, side.mod, 0)
    + VariantShare(one.effect, side.variantMods, variant)
    + (IF side.useExtra THEN ValueOr(one.effect, side.extra, 0) ELSE 0)
    + FromStars(side, unit, stars, one)
    + FromTerrains(g, side, one)
    + FromFunds(g, side, one)

\* The stars are only looked up when an effect counts.
Strength(g, w, unit, side) ==
  LET given == getAllPassiveUnitEffects(g, w, unit, side.filter)
      variant == getCurrentVariant(g)
      stars == calculateUnitTerrainStars(g, w, unit)
  IN  Asked(unit,
        IF variant = Throws \/ (given # <<>> /\ stars = Throws) THEN Throws
        ELSE 100 + Total([i \in DOMAIN given |->
                            Share(g, unit, side, variant, stars, given[i])]))

calculateUnitFirepower(g, w, unit, attacking) ==
  Strength(g, w, unit, FirepowerSide(attacking))

calculateUnitDefense(g, w, unit, attackerIndirect) ==
  Strength(g, w, unit, DefenseSide(attackerIndirect))

calculateUnitLuck(g, w, unit, goodLuck) ==
  Asked(unit,
    Larger(0, ModSum(g, w, unit, {"goodLuckMod", "badLuckMod"},
                     IF goodLuck THEN "goodLuckMod" ELSE "badLuckMod", 0)))

calculateUnitRange(g, w, unit, index, maxRange) ==
  LET weapons == ValueOr(TypeOf(unit), "weapons", <<>>)
      weapon == ModData.weapons[weapons[index + 1]]
  IN  Asked(unit,
        IF index + 1 \notin DOMAIN weapons THEN Throws
        ELSE IF weapons[index + 1] \notin DOMAIN ModData.weapons THEN Throws
        ELSE Larger(0, ModSum(g, w, unit, {"maxRangeMod", "minRangeMod"},
               IF maxRange THEN "maxRangeMod" ELSE "minRangeMod",
               IF maxRange THEN weapon.maxRange
               ELSE ValueOr(weapon, "minRange", 1))))

\* The flags as a set: what the observer may know of a unit is decided by
\* how it stands to the giver of the effect.
getUnitIntel(g, w, unit, observer) ==
  LET fields == [HIDE_HITPOINTS |-> "hiddenHitPoints",
                 EXACT_HITPOINTS |-> "hpPartVisible",
                 LUCK |-> "luckPointsVisible"]
      given == getAllPassiveUnitEffects(g, w, unit, {fields[f] : f \in DOMAIN fields})
  IN  Asked(unit,
        {f \in DOMAIN fields : \E i \in DOMAIN given :
           Names(given[i].effect, fields[f],
                 getAlliance(g, observer, given[i].giver))})

\* Wrong: no lower bound.
captureUnbounded(g, w, unit) ==
  Quotient(
    ModSum(g, w, unit, {"captureRateMod"}, "captureRateMod", 100)
      * ValueOr(TypeOf(unit), "captureSpeed", 0) * UnitHitPoints(unit), 10000)

calculateUnitCapturePoints(g, w, unit) ==
  Asked(unit,
    Larger(0, Quotient(
      ModSum(g, w, unit, {"captureRateMod"}, "captureRateMod", 100)
        * ValueOr(TypeOf(unit), "captureSpeed", 0) * UnitHitPoints(unit),
      10000)))

calculateUnitCost(g, w, unit) ==
  Asked(unit,
    Quotient(Larger(0, ModSum(g, w, unit, {"unitCostMod"}, "unitCostMod", 100))
               * TypeOf(unit).cost, 100))

ReplacesVariant ==
  {"movementClassVariantOverride", "movementClassVariantReplace"}

\* The variant a unit moves in: rules of the last player in turn come first.
MovementVariant(given, variant) ==
  LET one(i) == given[Len(given) + 1 - i].effect
      after[i \in 0..Len(given)] ==
        IF i = 0 THEN variant
        ELSE IF after[i - 1] = one(i).movementClassVariantReplace
        THEN one(i).movementClassVariantOverride
        ELSE after[i - 1]
  IN  after[Len(given)]

\* "none" is the std::nullopt of a terrain the class cannot enter.
calculateMovementCost(g, unit, terrainName) ==
  LET class == ModData.movements[TypeOf(unit).movementClass]
      given == getAllPassiveGlobalEffects(g, OwnerOf(g, unit), ReplacesVariant)
      variant == getCurrentVariant(g)
      mods == ValueOr(class.variantMods, MovementVariant(given, variant), <<>>)
      mod == IF terrainName \in DOMAIN mods THEN mods[terrainName] ELSE 0
  IN  Asked(unit,
        IF \/ TypeOf(unit).movementClass \notin DOMAIN ModData.movements
           \/ given = Throws
        THEN Throws
        ELSE IF terrainName \notin DOMAIN class.movementCosts THEN "none"
        ELSE Larger(0, class.movementCosts[terrainName] + mod))

-----------------------------------------------------------------------------
(* What the members of the mod and of a game are.                          *)

Kinds == {"unit", "terrain", "global"}
Powers == {"d2d", "cop", "scop"}

\* The members of an effect on units that are numbers, by variant or by
\* terrain where they are maps.
Numbers ==
  {"movementMod", "visionMod", "captureRateMod", "unitCostMod", "maxRangeMod",
   "minRangeMod", "goodLuckMod", "badLuckMod", "terrainStarsMod",
   "terrainStarsFlatMod", "firepowerMod", "counterfireMod",
   "terrainStarsFirepower", "terrainStarsFlatFirepower", "firepowerFromFunds",
   "defenseMod", "indirectDefenseMod", "terrainStarsDefense",
   "terrainStarsFlatDefense", "defenseFromFunds"}
NumbersByName ==
  {"visionVariantMods", "firepowerVariantMods", "defenseVariantMods",
   "firepowerFromOwnedTerrain", "defenseFromOwnedTerrain"}

ASSUME ModAssumption ==
  /\ \A c \in DOMAIN ModData.commanders, kind \in Kinds, power \in Powers :
       ValueOr(ModData.commanders[c][kind], power, <<>>) \in Seq(STRING)
  /\ \A n \in DOMAIN ModData.effects["unit"] :
       LET e == ModData.effects["unit"][n]
       IN  /\ \A field \in Numbers : ValueOr(e, field, 0) \in Int
           /\ \A field \in NumbersByName \cap DOMAIN e :
                /\ IsFiniteSet(DOMAIN e[field])
                /\ \A name \in DOMAIN e[field] : e[field][name] \in Int
  /\ \A n \in DOMAIN ModData.terrains : ModData.terrains[n].stars \in Int
  /\ ValueOr(ModData.config, "minTerrainStars", 0) \in Int
  /\ \A n \in DOMAIN ModData.units :
       ValueOr(ModData.units[n], "captureSpeed", 0) \in Int

\* A call that throws answers with no list of effects.
ASSUME ThrowsAssumption ==
  \A kind \in Kinds :
    Throws \notin
      Seq([effect : {ModData.effects[kind][n] : n \in DOMAIN ModData.effects[kind]},
           giver : Int])

IsPlayer(player) ==
  /\ {"playerType", "commanderName", "funds"} \subseteq DOMAIN player
  /\ player.funds \in Int

IsUnit(unit) ==
  /\ {"name", "place", "fuel"} \subseteq DOMAIN unit
  /\ ValueOr(unit, "hitPoints", 100) \in Nat

\* Nobody has two turns in a round, and no unit fewer than no hit points.
IsGame(g) ==
  /\ {"players", "playerOrder", "playerTurn", "variant", "coPowers",
      "terrains", "units"} \subseteq DOMAIN g
  /\ IsFiniteSet(DOMAIN g.players) /\ DOMAIN g.players \subseteq Int
  /\ NoPlayer \notin DOMAIN g.players
  /\ \A p \in DOMAIN g.players : IsPlayer(g.players[p])
  /\ g.playerOrder \in Seq(Int) /\ IsInjective(g.playerOrder)
  /\ g.playerTurn \in Nat
  /\ IsFiniteSet(DOMAIN g.terrains)
  /\ \A place \in DOMAIN g.terrains : "name" \in DOMAIN g.terrains[place]
  /\ \A u \in DOMAIN g.units : IsUnit(g.units[u])

ASSUME GamesAssumption ==
  /\ \A g \in InitialGames : IsGame(g)
  /\ Funds \subseteq Int /\ HitPoints \subseteq Nat /\ MaxMoves \in Nat

-----------------------------------------------------------------------------
(* The games it is asked about.  No code under src/ changes a stored game: *)
(* the program that plays it does, one move at a time.                     *)

Init ==
  /\ game \in InitialGames
  /\ walk \in SetToSeqs(DOMAIN game.players)
  /\ moves = 0

Play(next) ==
  /\ moves < MaxMoves
  /\ next # game
  /\ game' = next
  /\ moves' = moves + 1
  /\ UNCHANGED walk

PassTurn ==
  /\ game.playerOrder # <<>>
  /\ Play([game EXCEPT !.playerTurn = (@ + 1) % Len(game.playerOrder)])

UsePower(p, power) ==
  Play([game EXCEPT !.players[p] = With(@, "powerActive", power)])

Earn(p, funds) == Play([game EXCEPT !.players[p].funds = funds])

SetHitPoints(u, h) ==
  Play([game EXCEPT !.units[u] = With(@, "hitPoints", h)])

MoveUnit(u, place) == Play([game EXCEPT !.units[u].place = place])

Capture(place, p) ==
  Play([game EXCEPT !.terrains[place] = With(@, "owner", p)])

\* The Game is read again and its map built anew, in another order.
Rehash ==
  /\ moves < MaxMoves
  /\ walk' \in SetToSeqs(DOMAIN game.players) \ {walk}
  /\ moves' = moves + 1
  /\ UNCHANGED game

Next ==
  \/ PassTurn
  \/ \E p \in DOMAIN game.players :
       \/ \E power \in {"none", "cop", "scop"} : UsePower(p, power)
       \/ \E funds \in Funds : Earn(p, funds)
       \/ \E place \in DOMAIN game.terrains : Capture(place, p)
  \/ \E u \in DOMAIN game.units :
       \/ \E h \in HitPoints : SetHitPoints(u, h)
       \/ \E place \in Places : MoveUnit(u, place)
  \/ Rehash

Spec == Init /\ [][Next]_vars

-----------------------------------------------------------------------------
(* Properties.                                                             *)

\* What is played stays a game, and its map holds each player once.
TypeOK ==
  /\ IsGame(game)
  /\ walk \in SetToSeqs(DOMAIN game.players)
  /\ moves \in 0..MaxMoves

\* Every answer about a unit that is a sum over the effects that reach it.
UnitAnswers(g, w, unit) ==
  [movement |-> calculateUnitMovementRange(g, w, unit),
   vision   |-> calculateUnitVisionRange(g, w, unit),
   power    |-> calculateUnitFirepower(g, w, unit, FALSE),
   defense  |-> calculateUnitDefense(g, w, unit, TRUE),
   luck     |-> [b \in BOOLEAN |-> calculateUnitLuck(g, w, unit, b)],
   range    |-> [b \in BOOLEAN |-> calculateUnitRange(g, w, unit, 0, b)],
   stars    |-> calculateUnitTerrainStars(g, w, unit),
   intel    |-> [o \in DOMAIN g.players \cup {NoPlayer} |->
                   getUnitIntel(g, w, unit, o)],
   capture  |-> calculateUnitCapturePoints(g, w, unit),
   cost     |-> calculateUnitCost(g, w, unit)]

TerrainAnswer(g, w, place) ==
  LET given == getAllPassiveTerrainEffects(g, w, place)
  IN  IF given = Throws THEN Throws ELSE ToSet(given)

\* What a step leaves of the answers about a unit.
SameAnswers(u) ==
  UnitAnswers(game', walk', game'.units[u])
    = UnitAnswers(game, walk, game.units[u])

SameVariant == getCurrentVariant(game') = getCurrentVariant(game)

\* The stars of a unit's terrain in hundredths, not cut off.
ExactStars(g, w, unit) ==
  LET name == TerrainUnder(g, unit)
      given == getAllPassiveUnitEffects(g, w, unit,
                                        {"terrainStarsMod", "terrainStarsFlatMod"})
      sum(field) == Total([i \in DOMAIN given |-> ValueOr(given[i].effect, field, 0)])
      stars == (ModData.terrains[name].stars + sum("terrainStarsFlatMod"))
                 * sum("terrainStarsMod")
  IN  IF name \notin DOMAIN ModData.terrains THEN 0
      ELSE IF "minTerrainStars" \in DOMAIN ModData.config
      THEN Larger(100 * ModData.config.minTerrainStars, stars)
      ELSE stars

\* All members of an effect that a side adds up, whatever its filter asks for.
Fields(side) ==
  {side.mod, side.variantMods, side.extra, side.stars, side.flat, side.terrain,
   side.funds}

\* What scales the share by stars: hit points, or 100 percent.
Scale(side, unit) ==
  IF ValueOr(ModData.config, side.scales, FALSE) THEN UnitHitPoints(unit) ELSE 100

\* What an effect is worth with nothing cut off, in units of 1/10000 ...
ExactShare(g, unit, side, variant, stars, one) ==
  LET e == one.effect
      mods == ValueOr(e, side.terrain, <<>>)
      names == SetToSeq(DOMAIN mods)
      owned(name) ==
        Cardinality({x \in DOMAIN g.terrains :
          /\ g.terrains[x].name = name
          /\ OwnerOf(g, g.terrains[x]) = one.giver})
      whole == ValueOr(e, side.mod, 0)
                 + VariantShare(e, side.variantMods, variant)
                 + (IF side.useExtra THEN ValueOr(e, side.extra, 0) ELSE 0)
                 + Total([i \in DOMAIN names |-> mods[names[i]] * owned(names[i])])
  IN  10000 * whole
        + Scale(side, unit)
            * (ValueOr(e, side.stars, 0) * stars + 100 * ValueOr(e, side.flat, 0))
        + 10 * ValueOr(e, side.funds, 0) * g.players[one.giver].funds

\* ... and what two quotients may cut off from it, and a third from the stars.
Slack(unit, side, one) ==
  LET factor == ValueOr(one.effect, side.stars, 0)
  IN  20000 + 100 * Scale(side, unit) * Larger(factor, -factor)

\* The exact sum over every effect that reaches the unit with some field of
\* the side, but for those that have just the fields in without.
ExactStrength(g, w, unit, side, without) ==
  LET given == getAllPassiveUnitEffects(g, w, unit, Fields(side))
      counts(i) == DOMAIN given[i].effect \cap Fields(side) # without
      variant == getCurrentVariant(g)
      stars == ExactStars(g, w, unit)
  IN  [sum |-> 1000000
                 + Total([i \in DOMAIN given |->
                     IF counts(i)
                     THEN ExactShare(g, unit, side, variant, stars, given[i])
                     ELSE 0]),
       slack |-> Total([i \in DOMAIN given |->
                   IF counts(i) THEN Slack(unit, side, given[i]) ELSE 0])]

NearExact(answer, exact) ==
  LET off == 10000 * answer - exact.sum
  IN  answer # Throws => off = 0 \/ (-exact.slack < off /\ off < exact.slack)

Sides == UNION {{FirepowerSide(b), DefenseSide(b)} : b \in BOOLEAN}

\* Firepower and defense pick the effects by one list of fields and add them
\* up by another, as quotients each cut off on its own (funds / 1000, hit
\* points / 100, stars / 100).  The answer is the exact sum over all effects
\* that reach with a field that is added, but for two points for each effect
\* and one more for each of its points per star.  What is missing is known: an
\* effect with no other field than the flat share of the stars is left out, so
\* the sum without these is accepted as well.
StrengthNearExact ==
  \A u \in DOMAIN game.units, side \in Sides :
    \E without \in {{}, {side.flat}} :
      NearExact(Strength(game, walk, game.units[u], side),
                ExactStrength(game, walk, game.units[u], side, without))

\* The rules for the variant a unit moves in, when none of them applies to
\* what another one gives and no two replace the same variant differently.
Unchained(given) ==
  \A i, j \in DOMAIN given :
    LET one == given[i].effect
        other == given[j].effect
    IN  /\ one.movementClassVariantOverride # other.movementClassVariantReplace
        /\ one.movementClassVariantReplace = other.movementClassVariantReplace
             => one.movementClassVariantOverride
                  = other.movementClassVariantOverride

SameMovementCost(u) ==
  LET unit == game.units[u]
      given == getAllPassiveGlobalEffects(game, OwnerOf(game, unit),
                                          ReplacesVariant)
  IN  given # Throws /\ Unchained(given) /\ OwnerOf(game, unit) # NoPlayer
        => \A name \in DOMAIN ModData.terrains :
             calculateMovementCost(game', unit, name)
               = calculateMovementCost(game, unit, name)

TurnAndHashingStep ==
  /\ /\ game' = [game EXCEPT !.playerTurn = game'.playerTurn]
     /\ SameVariant
     => \A u \in DOMAIN game.units : SameAnswers(u) /\ SameMovementCost(u)
  /\ game' = game
     => \A place \in DOMAIN game.terrains :
          TerrainAnswer(game', walk', place)
            = TerrainAnswer(game, walk, place)

\* The order of the unordered map decides nothing, and whose turn it is
\* decides nothing but the variant: the effects on a unit go by how their
\* giver stands to its owner, never to the player who has the turn.  What an
\* owned unit pays to move depends on the turn only where the rules that
\* replace the variant build on one another.
TurnAndHashingDoNotMatter == [][TurnAndHashingStep]_vars

\* The effects of one kind that a player's commanders have, in use or not.
Repertoire(g, p, kind) ==
  UNION {ToSet(EffectsOf([g EXCEPT !.coPowers = TRUE,
                                   !.players[p] = With(@, "powerActive", power)],
                     p, kind))
           : power \in {"cop", "scop"}}

Targets(given, alliance) ==
  ValueOr(given.effect, "targets", {}) \cap Words(alliance) # {}

CannotReachUnit(g, p, unit) ==
  LET alliance == getAlliance(g, p, OwnerOf(g, unit))
  IN  \A given \in Repertoire(g, p, "unit") :
        alliance = "NEUTRAL" \/ ~Targets(given, alliance)

CannotReachTerrains(g, p) ==
  LET alliance == getAlliance(g, p, activePlayer(g))
  IN  \A given \in Repertoire(g, p, "terrain") :
        ValueOr(given.effect, "affects", {}) \cap Words(alliance) = {}

\* Whose own state a step changes, and who wins or loses a terrain by it.
Touched ==
  {p \in DOMAIN game.players :
     \/ game'.players[p] # game.players[p]
     \/ \E place \in DOMAIN game.terrains :
          /\ game'.terrains[place] # game.terrains[place]
          /\ p \in {ValueOr(game.terrains[place], "owner", NoPlayer),
                    ValueOr(game'.terrains[place], "owner", NoPlayer)}}

OnlyGiversStep ==
  game' = [game EXCEPT !.players = game'.players,
                       !.terrains = game'.terrains]
  => /\ SameVariant =>
          \A u \in DOMAIN game.units :
            (\A p \in Touched : CannotReachUnit(game, p, game.units[u]))
              => SameAnswers(u)
     /\ (\A p \in Touched : CannotReachTerrains(game, p)) =>
          \A place \in DOMAIN game.terrains :
            game'.terrains[place] = game.terrains[place] =>
              TerrainAnswer(game', walk', place)
                = TerrainAnswer(game, walk, place)

\* Only who gives an effect counts: as long as the variant stays the same, what
\* a player who can reach a unit with no effect earns, invokes, takes or loses
\* changes no answer about the unit; and no effect on a terrain changes with
\* the powers of a player whose effects affect nobody in the turn.  (Anyone's
\* power may change the variant, and with it the answers about all units.)
OnlyGiversCount == [][OnlyGiversStep]_vars

\* The variant is the game's own unless players change it; then the one whose
\* turn was the latest decides ("always using the most recent player"), and
\* the player who has the turn is heard only where nobody else speaks.
LatestTurnDecidesVariant ==
  LET turns == Len(game.playerOrder)
      turnsUntil(p) ==
        LET seat == CHOOSE i \in 1..turns : game.playerOrder[i] = p
        IN  (seat - 1 - game.playerTurn + turns) % turns
      changes(p) ==
        {i \in DOMAIN EffectsOf(game, p, "global") :
           LET given == EffectsOf(game, p, "global")[i]
           IN  /\ GivesVariant \subseteq DOMAIN given.effect
               /\ Targets(given, getAlliance(game, p, activePlayer(game)))}
      speakers == {p \in ToSet(game.playerOrder) : changes(p) # {}}
      speaker == CHOOSE p \in speakers :
                   \A q \in speakers : turnsUntil(q) <= turnsUntil(p)
  IN  getCurrentVariant(game) # Throws =>
        getCurrentVariant(game) =
          IF speakers = {} THEN game.variant
          ELSE EffectsOf(game, speaker, "global")[Max(changes(speaker))]
                 .effect.variantMod

AlikeBut(field, one, other) ==
  \A f \in (DOMAIN one \cup DOMAIN other) \ {field} :
    f \in DOMAIN one \cap DOMAIN other /\ one[f] = other[f]

DamageStep ==
  \A u \in DOMAIN game.units :
    LET unit == game.units[u]
        after == game'.units[u]
        before == calculateUnitCapturePoints(game, walk, unit)
    IN  /\ game' = [game EXCEPT !.units[u] = after]
        /\ AlikeBut("hitPoints", unit, after)
        /\ UnitHitPoints(after) <= UnitHitPoints(unit)
        /\ before # Throws
        => calculateUnitCapturePoints(game', walk', after) <= before

\* A unit that is damaged never captures faster than before, whatever effects
\* slow it down: a negative rate is not less negative for fewer hit points.
DamageNeverHelpsCapture == [][DamageStep]_vars
=============================================================================
