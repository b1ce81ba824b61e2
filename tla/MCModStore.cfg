SPECIFICATION LiveSpec
CONSTANTS
  q1 = q1
  q2 = q2
  q3 = q3
  q4 = q4
  Requests = {q1, q2, q3, q4}
  NameOf <- FourNames
  VersionOf <- FourVersions
  Pipeline <- FirstAndLast
  MaxId = 3
  MaxFaults = 1
INVARIANTS
  TypeOK
  OneCurrentPerName
  StoredWhole
  AnswersAreTrue
  VersionFindsCurrent
  IInv
PROPERTIES
  CurrentOnlyAdvances
  ImplementsCatalog
  EveryUploadAnswered
