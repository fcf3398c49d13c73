----------------------------- MODULE GameManager -----------------------------
(***************************************************************************)
(* class GameManager of KP/server: the games by name.  games_ is a         *)
(* std::map, so games is a function whose domain is the set of names in    *)
(* use.  A lookup returns a shared_ptr that may be null: here the set of   *)
(* the names it may stand for, which has at most one member and is empty   *)
(* for nullptr.  games_mutex_ is never contended (one thread), and the     *)
(* server never calls removeGame or gameExists: a game is kept for ever.   *)
(***************************************************************************)
EXTENDS Game, Integers

CONSTANTS
  Word,       \* the words a payload is made of: names, counts, guesses
  Rank        \* the position of each word in the order of the map's keys

ASSUME WordAssumption ==
  /\ Code \subseteq Word
  /\ Rank \in [Word -> Nat]
  /\ \A v, w \in Word : Rank[v] = Rank[w] => v = w

VARIABLE games

\* The first of a set of names in the order in which the map is walked.
First(names) == {n \in names : \A m \in names : Rank[n] <= Rank[m]}

getGame(name) == {name} \cap DOMAIN games

getPlayerCurrentGame(pid) ==
  First({n \in DOMAIN games : isPlayerInGame(games[n], pid)})

findAvailableGame ==
  First({n \in DOMAIN games : /\ games[n].state = "WAITING_FOR_PLAYERS"
                              /\ ~isFull(games[n])})

\* games_[name] = std::make_shared<Game>(name, max_players), for a name that
\* is not in use.
createGame(name, max_players) ==
  [n \in DOMAIN games \cup {name} |->
     IF n = name THEN NewGame(max_players) ELSE games[n]]

\* A change of one game through its shared_ptr.
Update(name, game) == [games EXCEPT ![name] = game]
=============================================================================
