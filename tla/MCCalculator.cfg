SPECIFICATION Spec
CONSTANTS
  ModData <- TheMod
  Throws = Throws
  NoPlayer = NoPlayer
  InitialGames <- TheGames
  Funds = {0, 1750}
  HitPoints = {1, 45, 100}
  Places = {"n", "s", "gap"}
  MaxMoves = 1
INVARIANTS
  StrengthNearExact
  LatestTurnDecidesVariant
PROPERTIES
  TurnAndHashingDoNotMatter
  OnlyGiversCount
  DamageNeverHelpsCapture
CHECK_DEADLOCK FALSE
