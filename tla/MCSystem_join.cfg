SPECIFICATION SysSpec
CONSTANTS
  Pid = {p1, p2}
  NoPid = NoPid
  NoSecret = NoSecret
  NoName = NoName
  Jumble = Jumble
  Shown <- MCShown
  Signalled = {p1, p2}
  Code = {"1234"}
  Secret = {"1234"}
  Word <- MCWord
  Rank <- MCRank
  IntOf <- MCIntOf
  FourDigits = {"1234"}
  Garbage = {0, 2}
  Inbox <- MCInbox
  MaxRounds = 1
  MaxGuesses = 0
  Command <- JoinCommands
  Size <- MCSize
  Scrap <- MCScrap
  MaxSent <- ThreeAndTwo
  MaxQueued = 2
INVARIANTS
  JoinedWhatItAsked
