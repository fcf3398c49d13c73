-------------------------------- MODULE Game --------------------------------
(***************************************************************************)
(* One game of Bulls and Cows: class Game of KP/server.  A game is a       *)
(* record, and each method that changes it is an operator from the record  *)
(* before the call to the record after it, so that the server's handlers   *)
(* compose them inside one step (the server is single-threaded: a handler  *)
(* runs to its end before the next message is read).                       *)
(*                                                                         *)
(* Abstractions.  A code is a well-formed guess (four different digits);   *)
(* what calculateBullsCows returns is kept as "four bulls or not", which   *)
(* is all that guess() branches on.  player_guesses_ and player_results_   *)
(* are always pushed together: they are one log of entries per player.     *)
(* round is a history field: how many times startGame has drawn a secret.  *)
(***************************************************************************)
EXTENDS Naturals, FiniteSets, Sequences

CONSTANTS
  Pid,      \* the client processes
  NoPid,    \* -1, the value of winner_pid_ while nobody has won
  Code,     \* the well-formed guesses: four different digits
  Secret,   \* what generateSecretNumber may return (no leading zero)
  NoSecret  \* the empty string secret_number_ is constructed with

ASSUME GameAssumption ==
  /\ NoPid \notin Pid
  /\ Secret \subseteq Code
  /\ NoSecret \notin Code

State == {"WAITING_FOR_PLAYERS", "IN_PROGRESS", "GAME_OVER"}

\* One line of a player's log: the guess, whether it scored four bulls, and
\* the round whose secret it was scored against.
Guess == [guess : Code, won : BOOLEAN, round : Nat]

GameRecord ==
  [max_players : Nat \ {0}, players : SUBSET Pid, state : State,
   secret_number : Secret \cup {NoSecret}, log : [Pid -> Seq(Guess)],
   winner_pid : Pid \cup {NoPid}, round : Nat]

NewGame(max_players) ==
  [max_players |-> max_players, players |-> {},
   state |-> "WAITING_FOR_PLAYERS", secret_number |-> NoSecret,
   log |-> [p \in Pid |-> <<>>], winner_pid |-> NoPid, round |-> 0]
-----------------------------------------------------------------------------
isPlayerInGame(game, pid) == pid \in game.players

\* Seeded fault: an off-by-one in the seat count.
isFull_OffByOne(game) == Cardinality(game.players) > game.max_players

isFull(game) == Cardinality(game.players) = game.max_players

isReadyToStart(game) == Cardinality(game.players) = game.max_players

\* Seeded fault: a finished game that fills up again goes on with its old secret.
startGame_KeepsSecret(game, secret) ==
  [game EXCEPT !.state = "IN_PROGRESS",
               !.round = IF game.secret_number = NoSecret THEN @ + 1 ELSE @,
               !.secret_number = IF @ = NoSecret THEN secret ELSE @]

\* The guard repeats the one of its only caller, addPlayer.
startGame(game, secret) ==
  IF isReadyToStart(game)
  THEN [game EXCEPT !.state = "IN_PROGRESS", !.round = @ + 1,
                    !.secret_number = secret]
  ELSE game

\* Seeded fault: the last player to join does not start the game.
addPlayer_NeverStarts(game, pid, secret) ==
  IF Cardinality(game.players) < game.max_players
  THEN [game EXCEPT !.players = @ \cup {pid}]
  ELSE game

addPlayer(game, pid, secret) ==
  IF Cardinality(game.players) < game.max_players
  THEN LET joined == [game EXCEPT !.players = @ \cup {pid}]
       IN  IF isReadyToStart(joined) THEN startGame(joined, secret) ELSE joined
  ELSE game

\* Seeded faults: the last player leaves without ending the game; any player who
\* leaves ends it.
removePlayer_StaysOpen(game, pid) == [game EXCEPT !.players = @ \ {pid}]

removePlayer_EndsGame(game, pid) ==
  IF pid \in game.players
  THEN [game EXCEPT !.players = @ \ {pid}, !.state = "GAME_OVER"]
  ELSE game

\* The last player to leave ends the game, whatever its state was.
removePlayer(game, pid) ==
  IF pid \in game.players
  THEN [game EXCEPT !.players = @ \ {pid},
                    !.state = IF game.players = {pid} THEN "GAME_OVER" ELSE @]
  ELSE game
-----------------------------------------------------------------------------
\* Seeded fault: repeated digits are not looked for.
guessAccepted_AnyDigits(game, word) == game.state = "IN_PROGRESS"

\* guess() returns {-1, -1} and changes nothing when this is false.
guessAccepted(game, word) == game.state = "IN_PROGRESS" /\ word \in Code

\* calculateBullsCows(word).first = 4
fourBulls(game, word) == word = game.secret_number

\* Seeded faults: the winning guess does not end the game; only the first winner is
\* ever recorded.
guess_PlaysOn(game, pid, word) ==
  IF guessAccepted(game, word)
  THEN LET won == fourBulls(game, word)
       IN  [game EXCEPT
              !.log[pid] = Append(@, [guess |-> word, won |-> won,
                                      round |-> game.round]),
              !.winner_pid = IF won THEN pid ELSE @]
  ELSE game

guess_FirstWinnerStays(game, pid, word) ==
  IF guessAccepted(game, word)
  THEN LET won == fourBulls(game, word)
       IN  [game EXCEPT
              !.log[pid] = Append(@, [guess |-> word, won |-> won,
                                      round |-> game.round]),
              !.state = IF won THEN "GAME_OVER" ELSE @,
              !.winner_pid = IF won /\ @ = NoPid THEN pid ELSE @]
  ELSE game

guess(game, pid, word) ==
  IF guessAccepted(game, word)
  THEN LET won == fourBulls(game, word)
       IN  [game EXCEPT
              !.log[pid] = Append(@, [guess |-> word, won |-> won,
                                      round |-> game.round]),
              !.state = IF won THEN "GAME_OVER" ELSE @,
              !.winner_pid = IF won THEN pid ELSE @]
  ELSE game

\* getGameStats prints the secret number once the game is over.
showsSecret(game) == game.state = "GAME_OVER"
-----------------------------------------------------------------------------
(***************************************************************************)
(* What is true of every game the server keeps.                            *)
(***************************************************************************)

\* A game seats at most max_players.  A waiting game has a player and a free seat,
\* so the isFull test beside the state test in findAvailableGame never decides.
\* A game in progress has players, and a secret: calculateBullsCows never runs on
\* the empty secret_number_ of a game that was not started.
StateMatchesSeats(game) ==
  /\ IsFiniteSet(game.players)
  /\ Cardinality(game.players) <= game.max_players
  /\ game.state = "WAITING_FOR_PLAYERS" =>
       game.players # {} /\ Cardinality(game.players) < game.max_players
  /\ game.state = "IN_PROGRESS" =>
       game.players # {} /\ game.secret_number \in Secret

\* Nobody has guessed the secret of a game in progress since it was drawn:
\* a finished game that fills up again never goes on with the old secret.
RunningSecretUnguessed(game) ==
  game.state = "IN_PROGRESS" =>
    \A p \in Pid : \A i \in DOMAIN game.log[p] :
      game.log[p][i].round = game.round =>
        ~game.log[p][i].won /\ game.log[p][i].guess # game.secret_number

\* At most one guess wins a round, whoever joins, leaves and joins again.
OneWinPerRound(game) ==
  \A p, q \in Pid : \A i \in DOMAIN game.log[p], j \in DOMAIN game.log[q] :
    /\ game.log[p][i].won
    /\ game.log[q][j].won
    /\ game.log[p][i].round = game.log[q][j].round
    => p = q /\ i = j

\* winner_pid_ is the player of the latest winning guess on record, and is -1
\* only if there is none: startGame does not clear it, so a game that restarts
\* goes on naming the winner of an earlier round.
WinnerIsLatest(game) ==
  LET winner == game.winner_pid
  IN  /\ winner # NoPid => \E i \in DOMAIN game.log[winner] : game.log[winner][i].won
      /\ \A q \in Pid : \A j \in DOMAIN game.log[q] :
           game.log[q][j].won =>
             /\ winner # NoPid
             /\ \E i \in DOMAIN game.log[winner] :
                  /\ game.log[winner][i].won
                  /\ game.log[q][j].round <= game.log[winner][i].round

\* A game in progress was started, and every entry of a log belongs to a round
\* that was started.
LogRounds(game) ==
  /\ game.state = "IN_PROGRESS" => game.round > 0
  /\ \A p \in Pid : \A i \in DOMAIN game.log[p] :
       game.log[p][i].round \in 1 .. game.round
=============================================================================
