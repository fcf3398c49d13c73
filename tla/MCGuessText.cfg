SPECIFICATION Spec
CONSTANTS
  Byte <- MCByte
  DigitByte <- MCDigitByte
  Shuffled <- MCShuffled
  Msg <- MCMsg
  GUESS_NUMBER = 5
  ReadSize = 26
  MaxWritten = 3
INVARIANTS
  TypeOK
  ScoresRight
PROPERTIES
  WholeTextsDecode
  ThrowsOnlyOnCutOrNul
CHECK_DEADLOCK FALSE
