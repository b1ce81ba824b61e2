SPECIFICATION ReadsLiveSpec
CONSTANTS
  q1 = q1
  q2 = q2
  r1 = r1
  r2 = r2
  Requests = {q1, q2}
  Readers = {r1, r2}
  NameOf <- Names
  VersionOf <- Versions
  Pipeline <- OneSection
  MaxId = 2
  MaxFaults = 1
INVARIANTS
  ReadsTypeOK
  KnownModServedWhole
  ServedIsStored
PROPERTIES
  EveryReadAnswered
