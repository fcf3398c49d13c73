SPECIFICATION Spec
CONSTANTS
  Pid = {p1, p2, p3}
  NoPid = NoPid
  NoSecret = NoSecret
  Code <- MCCode
  Secret <- MCCode
  Word <- MCWord
  Rank <- MCRank
  IntOf <- MCIntOf
  FourDigits <- MCFourDigits
  Garbage <- MCGarbage
  Inbox <- PlayInbox
  MaxRounds = 2
  MaxGuesses = 3
SYMMETRY PidSymmetry
INVARIANTS
  TypeOK
  Seating
  Unguessed
  SingleWin
  Winner
  SecretKept
PROPERTIES
  GameLifecycle
  RefinesRounds
