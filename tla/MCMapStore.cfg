SPECIFICATION Spec
CONSTANTS
  c1 = c1
  c2 = c2
  c3 = c3
  r1 = r1
  Calls = {c1, c2, c3}
  Readers = {r1}
  Maps <- SomeMaps
  MaxId = 3
SYMMETRY Symmetry
INVARIANTS
  MapsWhole
  OneCurrentPerVersion
  KnownMapServedWhole
