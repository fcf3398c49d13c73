------------------------------ MODULE MCSystem ------------------------------
(***************************************************************************)
(* Small instances of System.                                              *)
(***************************************************************************)
EXTENDS System, CommandLine

Words == <<" ", "0", "1", "12", "1234", "2", "3", "a", "a's", "b", "s">>

MCWord == {Words[i] : i \in DOMAIN Words}
MCRank == [w \in MCWord |-> CHOOSE i \in DOMAIN Words : Words[i] = w]
MCIntOf ==
  [w \in MCWord |-> CASE w = "1" -> 1 [] w = "12" -> 12 [] w = "1234" -> 1234
                      [] w = "2" -> 2 [] w = "3" -> 3 [] OTHER -> 0]

\* What stands between the first two apostrophes of "Game 'a's' created ...".
MCShown == [w \in MCWord |-> IF w = "a's" THEN "a" ELSE w]

Commands(lines) == {parse_command(line) : line \in lines}

\* Ways to and from a seat, one of them in a game with an apostrophe in its name.
SeatCommands ==
  Commands({With("CREATE_GAME", <<"a's", "2">>), With("CREATE_GAME", <<"b", "2">>),
            Bare("FIND_GAME"), Bare("LEAVE_GAME")})

\* Two games, both open to join.
JoinCommands ==
  Commands({With("CREATE_GAME", <<"a", "2">>), With("CREATE_GAME", <<"b", "2">>),
            With("JOIN_GAME", <<"a">>), With("JOIN_GAME", <<"b">>), Bare("LEAVE_GAME")})

\* Enough to watch clients end; the last one is no command.
QuitCommands == Commands({Bare("LIST_GAMES"), Bare("QUIT"), With("a", <<"b">>)})

Payloads == {cmd.payload : cmd \in SeatCommands \cup JoinCommands \cup QuitCommands}

\* A payload takes one character for a word, two more for "a's", and one for a blank.
MCSize ==
  [p \in Payloads |-> IF p = <<>> THEN 0
                      ELSE 2 * Len(p) - 1 + (IF p[1] = "a's" THEN 2 ELSE 0)]

\* The last characters, as many as the first payload has, of a text that ends in "... 1 a",
\* "... 3 b 2" and so on; the pids end in 12.
MCScrap ==
  [pair \in Payloads \X Payloads |->
     LET size == MCSize[pair[1]]
         last == pair[2]
     IN  CASE size = 1 /\ last = <<>>            -> {<<" ">>}
           [] size = 1 /\ Len(last) = 2          -> {<<last[2]>>}
           [] size = 3 /\ last = <<>>            -> {<<"0">>}
           [] size = 3 /\ Len(last) = 1          -> {<<"1", last[1]>>}
           [] size = 3 /\ last = <<"a's", "2">>  -> {<<"s", "2">>}
           [] size = 5 /\ last = <<>>            -> {<<"12", "0">>}
           [] size = 5 /\ Len(last) = 1          -> {<<"2", "1", last[1]>>}
           [] size = 5 /\ Len(last) = 2          -> {<<"3">> \o last}
           [] OTHER                              -> {}]

\* What the server may take the reads for.
MCInbox == Parsed

\* One client sends three commands, the others one or two.
Leader == CHOOSE c \in Pid : TRUE
ThreeAndOne == [c \in Pid |-> IF c = Leader THEN 3 ELSE 1]
ThreeAndTwo == [c \in Pid |-> IF c = Leader THEN 3 ELSE 2]
TwoEach == [c \in Pid |-> 2]
=============================================================================
