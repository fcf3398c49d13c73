SPECIFICATION Spec
CONSTANTS
  ThreadCount = 3
  BatchSize = 2
  NumSize = 2
  TotalCount = 6
  Value <- MCValue
  Lengths <- MCLengths
INVARIANTS
  EachNumberOnce
  NoLostUpdate
PROPERTIES
  RefinesSumOnce
  Terminates
