SPECIFICATION Spec
CONSTANTS
  Letter <- MCLetter
  Vowel = {"a"}
  Word <- MCWord
  ReadSize = 2
  Capacity = 3
  MaxWords = 4
INVARIANTS
  FirstChildWaits
  KilledOnlyAlone
PROPERTIES
  RefinesStreamFilter
  SecondChildEnds
  AllWritten
  WordTaken
