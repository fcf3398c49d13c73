SPECIFICATION Spec
CONSTANTS
  Pid = {p1, p2, p3}
  NoPid = NoPid
  NoSecret = NoSecret
  Code <- MCCode
  Secret <- MCSecret
  Word <- MCWord
  Rank <- MCRank
  IntOf <- MCIntOf
  FourDigits <- MCFourDigits
  Garbage <- MCGarbage
  Inbox <- LobbyInbox
  MaxRounds = 1
  MaxGuesses = 0
SYMMETRY PidSymmetry
INVARIANTS
  Seating
  JoinedMeansSeated
PROPERTIES
  SecondSeatOnlyByFind
