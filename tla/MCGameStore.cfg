SPECIFICATION LiveSpec
CONSTANTS
  c1 = c1
  c2 = c2
  Old = Old
  Calls = {c1, c2}
  GameIds <- SomeGames
  Inputs <- SomeInputs
  MaxId = 2
INVARIANTS
  TypeOK
  GamesWhole
PROPERTIES
  GamesStay
  EveryCallEnds
