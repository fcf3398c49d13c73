------------------------------ MODULE MCServer ------------------------------
(***************************************************************************)
(* Small instances of Server.                                              *)
(***************************************************************************)
EXTENDS Server, TLC

\* Words, in the order of their ASCII texts.
Words == <<"0", "1", "1123", "1234", "2", "5678", "a", "b">>

MCWord == {Words[i] : i \in DOMAIN Words}
MCRank == [w \in MCWord |-> CHOOSE i \in DOMAIN Words : Words[i] = w]
MCIntOf ==
  [w \in MCWord |->
     CASE w = "1" -> 1 [] w = "2" -> 2 [] w = "1123" -> 1123
       [] w = "1234" -> 1234 [] w = "5678" -> 5678 [] OTHER -> 0]
MCFourDigits == {"1123", "1234", "5678"}
MCCode == {"1234", "5678"}
MCSecret == {"5678"}
MCGarbage == {-1, 1, 2}

Messages(types, payloads) ==
  [type : types, client_pid : Pid, payload : payloads]

\* One game, played, abandoned, joined again and restarted.
PlayInbox ==
  Messages({"CREATE_GAME"}, {<<"a", "2">>})
    \cup Messages({"JOIN_GAME", "GET_GAME_STATS"}, {<<"a">>})
    \cup Messages({"LEAVE_GAME"}, {<<>>})
    \cup Messages({"GUESS_NUMBER"}, {<<"1123">>, <<"1234">>, <<"a", "5678">>})

\* Several games, one of them named like a guess, and every way to a seat.
LobbyInbox ==
  Messages({"CREATE_GAME"}, {<<"a">>, <<"1234", "2">>, <<"b", "0">>, <<>>})
    \cup Messages({"JOIN_GAME", "LEAVE_GAME"}, {<<>>, <<"a">>, <<"1234">>, <<"a", "b">>})
    \cup Messages({"GUESS_NUMBER"}, {<<>>, <<"a">>, <<"1234", "5678">>, <<"1234", "5678", "a">>})
    \cup Messages({"FIND_GAME", "LIST_GAMES", "QUIT", "HELP", "INVALID_COMMAND"}, {<<>>})
    \cup Messages({"GET_GAME_STATE", "GET_GAME_PLAYERS", "GET_GAME_LOG",
                   "GET_GAME_STATS"}, {<<>>, <<"b">>})

PidSymmetry == Permutations(Pid)
=============================================================================
