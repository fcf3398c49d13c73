SPECIFICATION Spec
CONSTANTS
  Letter <- MCLetter
  Vowel <- MCVowel
  Line <- MCLine
  BufferSize = 4
  MaxLines = 3
INVARIANTS
  TypeOK
  OutputsRight
PROPERTIES
  LineHandled
  QuitEnds
  RefinesLineFilter
