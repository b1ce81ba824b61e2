SPECIFICATION LiveSpec
CONSTANTS
  c1 = c1
  c2 = c2
  Clients = {c1, c2}
  MaxThreads = 1
  MaxRequests = 2
INVARIANTS
  TypeOK
  QuietWhenDestroyed
  OnlyLastUnanswered
PROPERTIES
  ClientsAccepted
  SilentSessionsEnd
  StopEnds
