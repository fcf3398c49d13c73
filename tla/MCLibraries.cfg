SPECIFICATION Spec
CONSTANT
  Arg <- MCArg
INVARIANTS
  AnswersFromTold
PROPERTY
  WorkingStays
