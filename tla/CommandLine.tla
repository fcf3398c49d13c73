----------------------------- MODULE CommandLine -----------------------------
(***************************************************************************)
(* What the client makes of a line that is typed.  A line is its first     *)
(* word, whether a space follows that word, and the words after it.        *)
(***************************************************************************)
EXTENDS Sequences

\* A bare word, and one with something behind it.
Bare(word) == [first |-> word, spaced |-> FALSE, args |-> <<>>]
With(word, args) == [first |-> word, spaced |-> TRUE, args |-> args]

\* The commands that need a space behind them, that allow it, and that forbid it.
NeedsArgs == {"CREATE_GAME", "JOIN_GAME", "GUESS_NUMBER"}
TakesArgs == {"LEAVE_GAME", "GET_GAME_STATE", "GET_GAME_PLAYERS", "GET_GAME_STATS",
              "GET_GAME_LOG"}
NoArgs == {"FIND_GAME", "LIST_GAMES", "QUIT", "HELP"}

recognised(line) ==
  \/ line.first \in NeedsArgs /\ line.spaced
  \/ line.first \in TakesArgs
  \/ line.first \in NoArgs /\ ~line.spaced

\* A line that is none of the commands is sent as a whole.
parse_command(line) ==
  IF recognised(line) THEN [type |-> line.first, payload |-> line.args]
  ELSE [type |-> "INVALID_COMMAND", payload |-> <<line.first>> \o line.args]
=============================================================================
