SPECIFICATION ReadsSpec
CONSTANTS
  c1 = c1
  c2 = c2
  r1 = r1
  Old = Old
  Calls = {c1, c2}
  Readers = {r1}
  GameIds <- TestGame
  Inputs <- FullInput
  MaxId = 1
INVARIANTS
  KnownGameServedWhole
  UndisturbedFitsTogether
