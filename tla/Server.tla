-------------------------------- MODULE Server --------------------------------
(***************************************************************************)
(* The message handlers of class Server of KP/server, over the games of    *)
(* the GameManager.  Next takes any message of Inbox: which messages       *)
(* reach processMessage, and in which shape, is the subject of module      *)
(* System, which puts the FIFOs and the clients around these handlers.     *)
(*                                                                         *)
(* A payload is the sequence of its words; one of several words is never   *)
(* the name of a game, since CREATE_GAME takes a single word for it.       *)
(* Blanks at either end of a payload are left out.                         *)
(***************************************************************************)
EXTENDS GameManager

CONSTANTS
  IntOf,       \* what >> into an int makes of a word: 0 if it is no number
  FourDigits,  \* the words of four digits, with repetitions or without
  Garbage,     \* values num_players may hold when nothing was read into it
  Inbox,       \* the messages that may arrive
  MaxRounds,   \* bound: how often one game may be started
  MaxGuesses   \* bound: how many guesses may be logged in one game

RequestType ==
  {"CREATE_GAME", "JOIN_GAME", "LEAVE_GAME", "FIND_GAME", "LIST_GAMES",
   "GUESS_NUMBER", "GET_GAME_STATE", "GET_GAME_PLAYERS", "GET_GAME_STATS",
   "GET_GAME_LOG", "QUIT", "HELP", "INVALID_COMMAND"}

\* LEFT is the OK whose text begins with "Left game '", which is how a client
\* tells it from the other answers of type OK.
ReplyType ==
  {"GAME_CREATED", "GAME_JOINED", "GAME_NOT_FOUND", "GAME_FULL", "OK",
   "INVALID_COMMAND", "SERVER_ERROR", "GUESS_RESULT", "GAME_STATE",
   "GAME_PLAYERS", "GAME_STATS", "GAME_LOG", "LEFT"}

Message == [type : RequestType, client_pid : Pid, payload : Seq(Word)]

ASSUME ServerAssumption ==
  /\ IntOf \in [Word -> Int]
  /\ FourDigits \subseteq Word
  /\ Code \subseteq FourDigits
  /\ Garbage \subseteq Int
  /\ Inbox \subseteq Message
  /\ MaxRounds \in Nat
  /\ MaxGuesses \in Nat

VARIABLES
  response,  \* the last message handled, the type of its answer and the
             \* names of the games that the answer speaks of
  revealed   \* history: the <<game, round>> pairs whose secret was told

vars == <<games, response, revealed>>

NoMessage == [type |-> "HELP", client_pid |-> NoPid, payload |-> <<>>]

Respond(msg, type, about) ==
  response' = [request |-> msg, type |-> type, about |-> about]

\* An answer that leaves every game as it was.
Answer(msg, type, about) ==
  Respond(msg, type, about) /\ UNCHANGED <<games, revealed>>

Init ==
  /\ games = [n \in {} |-> NewGame(1)]
  /\ response = [request |-> NoMessage, type |-> "OK", about |-> {}]
  /\ revealed = {}
-----------------------------------------------------------------------------
\* The game a handler works on: the one the payload names, or the sender's
\* current game when the payload is empty.
Addressed(msg) ==
  IF msg.payload = <<>> THEN getPlayerCurrentGame(msg.client_pid)
  ELSE IF Len(msg.payload) = 1 THEN getGame(msg.payload[1])
  ELSE {}

\* The error for a game that is not there.
NotThere(msg) ==
  Answer(msg, IF msg.payload = <<>> THEN "SERVER_ERROR" ELSE "GAME_NOT_FOUND", {})

\* num_players is an uninitialised local: with a second word missing nothing is
\* read into it.
numPlayers(payload) ==
  IF Len(payload) >= 2 THEN {IntOf[payload[2]]} ELSE Garbage

handleCreateGame(msg) ==
  LET current == getPlayerCurrentGame(msg.client_pid)
      name    == msg.payload[1]
  IN  \/ /\ msg.payload = <<>>
         /\ Answer(msg, "INVALID_COMMAND", {})
      \/ /\ msg.payload # <<>>
         /\ \E n \in numPlayers(msg.payload) :
              \/ /\ n <= 0
                 /\ Answer(msg, "INVALID_COMMAND", {})
              \/ /\ n > 0
                 /\ current # {}
                 /\ Answer(msg, "SERVER_ERROR", current)
              \/ /\ n > 0
                 /\ current = {}
                 /\ getGame(name) # {}
                 /\ Answer(msg, "SERVER_ERROR", {name})
              \/ /\ n > 0
                 /\ current = {}
                 /\ getGame(name) = {}
                 /\ \E s \in Secret :
                      games' = [createGame(name, n) EXCEPT
                                  ![name] = addPlayer(@, msg.client_pid, s)]
                 /\ Respond(msg, "GAME_CREATED", {name})
                 /\ UNCHANGED revealed

\* A player is seated, with a new secret if that fills the game.
Seat(name, pid) ==
  \E s \in Secret : games' = Update(name, addPlayer(games[name], pid, s))

\* Seeded fault: the sender's current game is not asked for.
handleJoinGame_AnyPlayer(msg) ==
  \E g \in Addressed(msg) :
    \/ isFull(games[g]) /\ Answer(msg, "GAME_FULL", {g})
    \/ /\ ~isFull(games[g])
       /\ Seat(g, msg.client_pid)
       /\ Respond(msg, "GAME_JOINED", {g})
       /\ UNCHANGED revealed

handleJoinGame(msg) ==
  LET current == getPlayerCurrentGame(msg.client_pid)
      game    == Addressed(msg)
  IN  \/ /\ msg.payload = <<>>
         /\ Answer(msg, "INVALID_COMMAND", {})
      \/ /\ msg.payload # <<>>
         /\ current # {}
         /\ Answer(msg, "SERVER_ERROR", current)
      \/ /\ msg.payload # <<>>
         /\ current = {}
         /\ \/ game = {} /\ NotThere(msg)
            \/ \E g \in game :
                 \/ isFull(games[g]) /\ Answer(msg, "GAME_FULL", game)
                 \/ /\ ~isFull(games[g])
                    /\ Seat(g, msg.client_pid)
                    /\ Respond(msg, "GAME_JOINED", game)
                    /\ UNCHANGED revealed

handleLeaveGame(msg) ==
  LET game == Addressed(msg)
  IN  \/ game = {} /\ NotThere(msg)
      \/ \E g \in game :
           \/ /\ ~isPlayerInGame(games[g], msg.client_pid)
              /\ Answer(msg, "SERVER_ERROR", game)
           \/ /\ isPlayerInGame(games[g], msg.client_pid)
              /\ games' = Update(g, removePlayer(games[g], msg.client_pid))
              /\ Respond(msg, "LEFT", game)
              /\ UNCHANGED revealed

\* Unlike CREATE_GAME and JOIN_GAME, the sender's current game is not asked for.
handleFindGame(msg) ==
  \/ findAvailableGame = {} /\ Answer(msg, "OK", {})
  \/ \E g \in findAvailableGame :
       \/ isFull(games[g]) /\ Answer(msg, "GAME_FULL", {g})
       \/ /\ ~isFull(games[g])
          /\ Seat(g, msg.client_pid)
          /\ Respond(msg, "GAME_JOINED", {g})
          /\ UNCHANGED revealed

\* listGames lists every game in games_, whatever its state.
handleListGames(msg) == Answer(msg, "OK", DOMAIN games)
-----------------------------------------------------------------------------
\* A first word of four digits is taken for the guess itself, to be made in the
\* sender's current game, if reading two words met the end of the payload: so even
\* when a second word follows, and the first one was meant as a game's name.
BareGuess(msg) ==
  \/ msg.payload = <<>>
  \/ msg.payload[1] \in FourDigits /\ Len(msg.payload) <= 2

guessedGame(msg) ==
  IF BareGuess(msg) THEN getPlayerCurrentGame(msg.client_pid)
  ELSE getGame(msg.payload[1])

\* guess_str; {} when there is none.
guessWord(msg) ==
  IF msg.payload = <<>> THEN {}
  ELSE IF BareGuess(msg) THEN {msg.payload[1]}
  ELSE IF Len(msg.payload) = 1 THEN {}
  ELSE {msg.payload[2]}

handleGuessNumber(msg) ==
  LET game == guessedGame(msg)
      word == guessWord(msg)
  IN  \/ /\ game = {}
         /\ Answer(msg, IF BareGuess(msg) THEN "SERVER_ERROR" ELSE "GAME_NOT_FOUND", {})
      \/ /\ game # {}
         /\ word = {}
         /\ Answer(msg, "INVALID_COMMAND", game)
      \/ \E g \in game, w \in word :
           \/ /\ ~isPlayerInGame(games[g], msg.client_pid)
              /\ Answer(msg, "SERVER_ERROR", game)
           \/ /\ isPlayerInGame(games[g], msg.client_pid)
              /\ games' = Update(g, guess(games[g], msg.client_pid, w))
              /\ Respond(msg, IF guessAccepted(games[g], w) THEN "GUESS_RESULT"
                              ELSE "INVALID_COMMAND", game)
              /\ UNCHANGED revealed
-----------------------------------------------------------------------------
\* The four queries differ in the text they return.  The text of the stats
\* holds the secret once the game is over.
handleGet(msg, type) ==
  LET game == Addressed(msg)
  IN  \/ game = {} /\ NotThere(msg)
      \/ game # {} /\ Answer(msg, type, game)

handleGetGameState(msg) == handleGet(msg, "GAME_STATE")
handleGetGamePlayers(msg) == handleGet(msg, "GAME_PLAYERS")
handleGetGameLog(msg) == handleGet(msg, "GAME_LOG")

handleGetGameStats(msg) ==
  LET game == Addressed(msg)
  IN  \/ game = {} /\ NotThere(msg)
      \/ \E g \in game :
           /\ revealed' = IF showsSecret(games[g])
                          THEN revealed \cup {<<g, games[g].round>>} ELSE revealed
           /\ Respond(msg, "GAME_STATS", game)
           /\ UNCHANGED games

\* A client that quits keeps its seat: QUIT and HELP only answer.
handleQuit(msg) == Answer(msg, "OK", {})
handleHelp(msg) == Answer(msg, "OK", {})

processMessage(msg) ==
  \/ msg.type = "CREATE_GAME" /\ handleCreateGame(msg)
  \/ msg.type = "JOIN_GAME" /\ handleJoinGame(msg)
  \/ msg.type = "LEAVE_GAME" /\ handleLeaveGame(msg)
  \/ msg.type = "FIND_GAME" /\ handleFindGame(msg)
  \/ msg.type = "LIST_GAMES" /\ handleListGames(msg)
  \/ msg.type = "GUESS_NUMBER" /\ handleGuessNumber(msg)
  \/ msg.type = "GET_GAME_STATE" /\ handleGetGameState(msg)
  \/ msg.type = "GET_GAME_PLAYERS" /\ handleGetGamePlayers(msg)
  \/ msg.type = "GET_GAME_STATS" /\ handleGetGameStats(msg)
  \/ msg.type = "GET_GAME_LOG" /\ handleGetGameLog(msg)
  \/ msg.type = "QUIT" /\ handleQuit(msg)
  \/ msg.type = "HELP" /\ handleHelp(msg)
  \/ msg.type = "INVALID_COMMAND" /\ Answer(msg, "INVALID_COMMAND", {})
-----------------------------------------------------------------------------
WithinBounds ==
  \A g \in DOMAIN games :
    /\ games[g].round <= MaxRounds
    /\ Cardinality(UNION {{p} \X DOMAIN games[g].log[p] : p \in Pid}) <= MaxGuesses

Next == \E msg \in Inbox : processMessage(msg) /\ WithinBounds'

Spec == Init /\ [][Next]_vars
-----------------------------------------------------------------------------
(***************************************************************************)
(* Properties.                                                             *)
(***************************************************************************)

\* The shape of the state: games, the last answer, the history of secrets told.
TypeOK ==
  /\ DOMAIN games \subseteq Word
  /\ games \in [DOMAIN games -> GameRecord]
  /\ response.type \in ReplyType
  /\ response.about \subseteq DOMAIN games
  /\ revealed \subseteq Word \X Nat

\* The seats and the state of every game agree, however players come and go: the
\* handlers test isFull but never the state, and ignore what addPlayer returns.
Seating == \A g \in DOMAIN games : StateMatchesSeats(games[g])

\* No game in progress has a secret that was guessed in this round.
Unguessed == \A g \in DOMAIN games : RunningSecretUnguessed(games[g])

\* No round of any game is won twice.
SingleWin == \A g \in DOMAIN games : OneWinPerRound(games[g])

\* winner_pid_ always names the latest winner on record.
Winner == \A g \in DOMAIN games : WinnerIsLatest(games[g])

\* GET_GAME_STATS tells the secret of a game that is over to anyone; if the game
\* fills up again afterwards, the secret that was told is not the one in play.
SecretKept ==
  \A g \in DOMAIN games :
    games[g].state = "IN_PROGRESS" => <<g, games[g].round>> \notin revealed

\* The handlers ignore what addPlayer returns; still, a player who is told that
\* it has joined or created a game has a seat in it.
JoinedMeansSeated ==
  response.type \in {"GAME_CREATED", "GAME_JOINED"} =>
    \A g \in response.about : response.request.client_pid \in games[g].players

\* A game never waits again; it starts only in the step that takes its last free
\* seat, and then with a new round; it ends only by a win or by its last player
\* leaving.  So a finished game can restart, but only by filling up.
LifecycleStep ==
  \A g \in DOMAIN games :
    LET old == games[g]
        new == games'[g]
    IN  new.state # old.state \/ new.round # old.round =>
          \/ /\ new.state = "IN_PROGRESS"
             /\ new.round = old.round + 1
             /\ isFull(new) /\ ~isFull(old)
          \/ /\ new.state = "GAME_OVER"
             /\ new.round = old.round
             /\ \/ new.players = {}
                \/ \E p \in old.players :
                     /\ Len(new.log[p]) > Len(old.log[p])
                     /\ new.log[p][Len(new.log[p])].won
                     /\ new.log[p][Len(new.log[p])].round = old.round

GameLifecycle == [][LifecycleStep]_vars

\* Only FIND_GAME gives a player who has a seat another one.
SecondSeatStep ==
  \A p \in Pid : \A g \in DOMAIN games, h \in DOMAIN games' :
    /\ p \in games[g].players
    /\ p \in games'[h].players
    /\ h \in DOMAIN games => p \notin games[h].players
    => response'.request.type = "FIND_GAME"

SecondSeatOnlyByFind == [][SecondSeatStep]_vars

\* A log only ever grows, by one guess at a time, made by the player itself in a
\* game in progress in which it has a seat.
LogStep ==
  \A g \in DOMAIN games, p \in Pid :
    games'[g].log[p] # games[g].log[p] =>
      /\ games[g].state = "IN_PROGRESS"
      /\ p \in games[g].players
      /\ response'.request.client_pid = p
      /\ Len(games'[g].log[p]) = Len(games[g].log[p]) + 1
      /\ SubSeq(games'[g].log[p], 1, Len(games[g].log[p])) = games[g].log[p]

LogsOnlyGrow == [][LogStep]_vars

\* Each game, its rounds and winners read off the players' logs, goes as module Rounds says:
\* a round has one winner at most, who has a seat when it wins, and after a win, or when all
\* have left, nothing is won until the seats were full again.
Founded(g) == g \in DOMAIN games

winnersOf(game) ==
  [r \in 1 .. game.round |->
     {p \in Pid : \E i \in DOMAIN game.log[p] :
                    game.log[p][i].won /\ game.log[p][i].round = r}]

Abstract(g) == INSTANCE Rounds WITH
  Player  <- Pid,
  places  <- IF Founded(g) THEN games[g].max_players ELSE 0,
  seated  <- IF Founded(g) THEN games[g].players ELSE {},
  winners <- IF Founded(g) THEN winnersOf(games[g]) ELSE <<>>,
  open    <- Founded(g) /\ games[g].state = "IN_PROGRESS"

RoundsStep ==
  \A g \in DOMAIN games \cup DOMAIN games' : [Abstract(g)!Next]_(Abstract(g)!vars)

RefinesRounds == (\A g \in Word : Abstract(g)!Init) /\ [][RoundsStep]_vars
=============================================================================
