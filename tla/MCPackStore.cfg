SPECIFICATION PackSpec
CONSTANTS
  q1 = q1
  q2 = q2
  r1 = r1
  Requests = {q1, q2}
  Readers = {r1}
  Protocols = {0, 1, 2}
  NameOf <- Names
  VersionOf <- Versions
  Pipeline <- PackSections
  MaxId = 2
  MaxFaults = 1
INVARIANTS
  PackServedWhole
  LookupServesAsked
  KnownPackFound
