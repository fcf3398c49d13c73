---------------------------- MODULE MCGuessText ----------------------------
(***************************************************************************)
(* A small instance of GuessText: five digits, guesses that are taken and  *)
(* others, messages without a payload, with one that looks like a header   *)
(* and with one that holds a NUL, early enough to make the server throw or *)
(* not.  Two messages fit into a read, three may not.                      *)
(***************************************************************************)
EXTENDS GuessText

MCByte == ToSet(Digit) \cup {Space, Nul}
MCDigitByte == {"0", "1", "2", "3", "4"}
MCShuffled == {p \in [1 .. 5 -> MCDigitByte] : distinct(p)}

guessOf(pid, word) == [type |-> GUESS_NUMBER, client_pid |-> pid, payload |-> word]
MCMsg ==
  {guessOf(7, <<"1", "0", "2", "3">>), guessOf(12, <<"4", "3", "2", "1">>),
   guessOf(12, <<"1", "1", "2", "3">>), guessOf(7, <<"5", " ", "7", " ", "9", " ", "1">>),
   guessOf(7, <<"1", Nul, "0", "2", "3", "4", "0", "1", "2">>), guessOf(12, <<"1", Nul>>),
   [type |-> 10, client_pid |-> 7, payload |-> <<>>]}
=============================================================================
