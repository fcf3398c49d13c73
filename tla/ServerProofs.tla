---------------------------- MODULE ServerProofs ----------------------------
(***************************************************************************)
(* Theorems about Server, for every set of players, words, codes and       *)
(* messages.  The argument has three layers: what each method of a game    *)
(* preserves (one lemma per method), the four ways in which a handler      *)
(* changes the table of games (StepShape), and the induction over the      *)
(* steps, which combines the two.                                          *)
(***************************************************************************)
EXTENDS Server, FiniteSetTheorems, SequenceTheorems, WellFoundedInduction, TLAPS

\* What every game satisfies between two messages.
GameInv(game) ==
  /\ game \in GameRecord
  /\ StateMatchesSeats(game)
  /\ LogRounds(game)
  /\ RunningSecretUnguessed(game)
  /\ OneWinPerRound(game)
  /\ WinnerIsLatest(game)

-----------------------------------------------------------------------------
(***************************************************************************)
(* The methods of a game.                                                  *)
(***************************************************************************)

\* A game that was just created is well formed and has nobody and nothing in it.
LEMMA NewGameLemma ==
  ASSUME NEW n \in Nat \ {0}
  PROVE  /\ NewGame(n) \in GameRecord
         /\ IsFiniteSet(NewGame(n).players)
         /\ Cardinality(NewGame(n).players) < NewGame(n).max_players
         /\ NewGame(n).state = "WAITING_FOR_PLAYERS"
         /\ LogRounds(NewGame(n))
         /\ OneWinPerRound(NewGame(n))
         /\ WinnerIsLatest(NewGame(n))
<1>1. NewGame(n) \in GameRecord
  BY DEF NewGame, GameRecord, State
<1>2. IsFiniteSet(NewGame(n).players) /\ Cardinality(NewGame(n).players) = 0
  BY FS_EmptySet DEF NewGame
<1>3. \A p \in Pid : DOMAIN NewGame(n).log[p] = {}
  BY DEF NewGame
<1> QED
  BY <1>1, <1>2, <1>3 DEF LogRounds, OneWinPerRound, WinnerIsLatest, NewGame

\* Seating a player in a game with a free seat keeps the game well formed; if that
\* starts the game, it starts a new round.
LEMMA AddPlayerLemma ==
  ASSUME NEW game \in GameRecord, NEW pid \in Pid, NEW s \in Secret,
         IsFiniteSet(game.players),
         Cardinality(game.players) < game.max_players,
         game.state = "IN_PROGRESS" => game.secret_number \in Secret,
         LogRounds(game), RunningSecretUnguessed(game), OneWinPerRound(game),
         WinnerIsLatest(game)
  PROVE  /\ GameInv(addPlayer(game, pid, s))
         /\ pid \in addPlayer(game, pid, s).players
<1> DEFINE joined == [game EXCEPT !.players = @ \cup {pid}]
           new == addPlayer(game, pid, s)
<1>1. /\ joined \in GameRecord
      /\ joined.players = game.players \cup {pid}
      /\ joined.max_players = game.max_players
      /\ joined.state = game.state
      /\ joined.secret_number = game.secret_number
      /\ joined.log = game.log
      /\ joined.round = game.round
      /\ joined.winner_pid = game.winner_pid
  BY DEF GameRecord
<1> HIDE DEF joined
<1>2. /\ IsFiniteSet(joined.players)
      /\ joined.players # {}
      /\ Cardinality(joined.players) <= game.max_players
      /\ Cardinality(joined.players) \in Nat
  <2>1. /\ game.max_players \in Nat
        /\ Cardinality(game.players) \in Nat
    BY FS_CardinalityType DEF GameRecord
  <2>2. /\ IsFiniteSet(game.players \cup {pid})
        /\ Cardinality(game.players \cup {pid}) \in
             {Cardinality(game.players), Cardinality(game.players) + 1}
    BY FS_AddElement
  <2> QED
    BY <2>1, <2>2, <1>1
<1>3. CASE isReadyToStart(joined)
  <2>1. new = [joined EXCEPT !.state = "IN_PROGRESS", !.round = @ + 1,
                             !.secret_number = s]
    BY <1>3 DEF addPlayer, startGame, joined
  <2> HIDE DEF new
  <2>2. joined.round + 1 \in Nat /\ "IN_PROGRESS" \in State /\ s \in Secret \cup {NoSecret}
    BY <1>1 DEF GameRecord, State
  <2>3. new \in GameRecord
    BY <2>1, <2>2, <1>1 DEF GameRecord
  <2>4. /\ new \in GameRecord
        /\ new.players = joined.players
        /\ new.max_players = game.max_players
        /\ new.state = "IN_PROGRESS"
        /\ new.secret_number = s
        /\ new.log = game.log
        /\ new.round = game.round + 1
        /\ new.winner_pid = game.winner_pid
    BY <2>1, <2>3, <1>1 DEF GameRecord
  <2>5. StateMatchesSeats(new)
    BY <2>4, <1>1, <1>2 DEF StateMatchesSeats
  <2>6. LogRounds(new)
    BY <2>4 DEF LogRounds, GameRecord
  <2>7. RunningSecretUnguessed(new)
    BY <2>4 DEF LogRounds, RunningSecretUnguessed, GameRecord
  <2>8. OneWinPerRound(new) /\ WinnerIsLatest(new)
    BY <2>4 DEF OneWinPerRound, WinnerIsLatest
  <2> QED
    BY <2>4, <2>5, <2>6, <2>7, <2>8, <1>1 DEF GameInv, new
<1>4. CASE ~isReadyToStart(joined)
  <2>1. new = joined
    BY <1>4 DEF addPlayer, joined
  <2>2. Cardinality(joined.players) < game.max_players
    BY <1>1, <1>2, <1>4 DEF isReadyToStart, GameRecord
  <2>3. StateMatchesSeats(joined)
    BY <1>1, <1>2, <2>2 DEF StateMatchesSeats
  <2>4. /\ LogRounds(joined)
        /\ RunningSecretUnguessed(joined)
        /\ OneWinPerRound(joined)
        /\ WinnerIsLatest(joined)
    BY <1>1 DEF LogRounds, RunningSecretUnguessed, OneWinPerRound, WinnerIsLatest
  <2> QED
    BY <2>1, <2>3, <2>4, <1>1 DEF GameInv
<1> QED
  BY <1>3, <1>4

\* A player who leaves takes nothing but its seat with it.
LEMMA RemovePlayerLemma ==
  ASSUME NEW game, GameInv(game), NEW pid \in game.players
  PROVE  GameInv(removePlayer(game, pid))
<1> DEFINE new == removePlayer(game, pid)
<1>1. /\ new \in GameRecord
      /\ new.players = game.players \ {pid}
      /\ new.max_players = game.max_players
      /\ new.state = IF game.players = {pid} THEN "GAME_OVER" ELSE game.state
      /\ new.secret_number = game.secret_number
      /\ new.log = game.log
      /\ new.round = game.round
      /\ new.winner_pid = game.winner_pid
  BY DEF GameInv, GameRecord, State, removePlayer
<1> HIDE DEF new
<1>2. /\ IsFiniteSet(new.players)
      /\ Cardinality(new.players) <= game.max_players
      /\ Cardinality(new.players) < Cardinality(game.players)
  <2>1. IsFiniteSet(game.players) /\ Cardinality(game.players) <= game.max_players
    BY DEF GameInv, StateMatchesSeats
  <2>2. game.max_players \in Nat /\ Cardinality(game.players) \in Nat
    BY <2>1, FS_CardinalityType DEF GameInv, GameRecord
  <2>3. /\ IsFiniteSet(game.players \ {pid})
        /\ Cardinality(game.players \ {pid}) = Cardinality(game.players) - 1
    BY <2>1, FS_RemoveElement
  <2> QED
    BY <2>1, <2>2, <2>3, <1>1
<1>3. StateMatchesSeats(new)
  <2>1. /\ Cardinality(new.players) \in Nat
        /\ Cardinality(game.players) \in Nat
        /\ game.max_players \in Nat
    BY <1>2, FS_CardinalityType DEF GameInv, GameRecord, StateMatchesSeats
  <2> QED
    BY <1>1, <1>2, <2>1 DEF GameInv, StateMatchesSeats
<1>4. /\ LogRounds(new)
      /\ RunningSecretUnguessed(new)
      /\ OneWinPerRound(new)
      /\ WinnerIsLatest(new)
  BY <1>1 DEF GameInv, LogRounds, RunningSecretUnguessed, OneWinPerRound, WinnerIsLatest
<1> QED
  BY <1>1, <1>3, <1>4 DEF GameInv, new

\* A guess never breaks what holds of a game: only the round in play gets an entry,
\* and a winning entry is the first of its round.
LEMMA GuessLemma ==
  ASSUME NEW game, GameInv(game), NEW pid \in Pid, NEW word
  PROVE  GameInv(guess(game, pid, word))
<1>1. CASE ~guessAccepted(game, word)
  BY <1>1 DEF guess
<1>2. CASE guessAccepted(game, word)
  <2> DEFINE won == fourBulls(game, word)
             entry == [guess |-> word, won |-> won, round |-> game.round]
             new == guess(game, pid, word)
  <2>1. /\ entry \in Guess
        /\ entry.round = game.round
        /\ entry.guess = word
        /\ entry.won <=> word = game.secret_number
    BY <1>2 DEF GameInv, GameRecord, Guess, fourBulls, guessAccepted
  <2>2. /\ game.log \in [Pid -> Seq(Guess)]
        /\ Append(game.log[pid], entry) \in Seq(Guess)
    BY <2>1 DEF GameInv, GameRecord
  <2>3. new = [game EXCEPT !.log[pid] = Append(@, entry),
                           !.state = IF won THEN "GAME_OVER" ELSE @,
                           !.winner_pid = IF won THEN pid ELSE @]
    BY <1>2 DEF guess
  <2> HIDE DEF entry, new, won
  <2>4. /\ new \in GameRecord
        /\ new.players = game.players
        /\ new.max_players = game.max_players
        /\ new.state = IF won THEN "GAME_OVER" ELSE game.state
        /\ new.secret_number = game.secret_number
        /\ new.log = [game.log EXCEPT ![pid] = Append(@, entry)]
        /\ new.round = game.round
        /\ new.winner_pid = IF won THEN pid ELSE game.winner_pid
    BY <2>2, <2>3 DEF GameInv, GameRecord, State
  <2>5. ASSUME NEW p \in Pid, NEW i \in DOMAIN new.log[p]
        PROVE  \/ i \in DOMAIN game.log[p] /\ new.log[p][i] = game.log[p][i]
               \/ /\ p = pid
                  /\ i = Len(game.log[pid]) + 1
                  /\ new.log[p][i] = entry
    BY <2>1, <2>2, <2>4
  <2>6. /\ game.state = "IN_PROGRESS"
        /\ won <=> entry.won
        /\ won <=> word = game.secret_number
        /\ \A p \in Pid : \A i \in DOMAIN game.log[p] :
             game.log[p][i].round = game.round =>
               ~game.log[p][i].won /\ game.log[p][i].guess # game.secret_number
    BY <1>2, <2>1 DEF guessAccepted, GameInv, RunningSecretUnguessed, won, fourBulls
  <2>7. StateMatchesSeats(new)
    BY <2>4 DEF GameInv, StateMatchesSeats
  <2>8. LogRounds(new)
    <3>1. game.round \in 1 .. game.round
      BY <2>6 DEF GameInv, GameRecord, LogRounds
    <3> QED
      BY <2>1, <2>4, <2>5, <3>1 DEF GameInv, LogRounds
  <2>9. RunningSecretUnguessed(new)
    BY <2>1, <2>4, <2>5, <2>6 DEF GameInv, RunningSecretUnguessed
  <2>10. OneWinPerRound(new)
    BY <2>1, <2>4, <2>5, <2>6 DEF GameInv, OneWinPerRound
  <2>11. ASSUME NEW p \in Pid, NEW i \in DOMAIN game.log[p]
         PROVE  i \in DOMAIN new.log[p] /\ new.log[p][i] = game.log[p][i]
    BY <2>2, <2>4
  <2>12. WinnerIsLatest(new)
    <3>1. CASE won
      <4>1. Len(game.log[pid]) + 1 \in DOMAIN new.log[pid]
            /\ new.log[pid][Len(game.log[pid]) + 1] = entry
        BY <2>2, <2>4
      <4>2. \A q \in Pid : \A j \in DOMAIN new.log[q] :
              new.log[q][j].round <= entry.round
        BY <2>1, <2>5, <2>8, <2>4 DEF LogRounds, GameRecord
      <4>3. new.winner_pid = pid /\ pid # NoPid /\ entry.won
        BY <2>4, <2>6, <3>1, GameAssumption
      <4> QED
        BY <4>1, <4>2, <4>3 DEF WinnerIsLatest
    <3>2. CASE ~won
      <4>1. new.winner_pid = game.winner_pid /\ ~entry.won
        BY <2>4, <2>6, <3>2
      <4>2. game.winner_pid \in Pid \cup {NoPid} /\ WinnerIsLatest(game)
        BY DEF GameInv, GameRecord
      <4> QED
        BY <4>1, <4>2, <2>5, <2>11 DEF WinnerIsLatest
    <3> QED
      BY <3>1, <3>2
  <2> QED
    BY <2>4, <2>7, <2>8, <2>9, <2>10, <2>12 DEF GameInv, new
<1> QED
  BY <1>1, <1>2

-----------------------------------------------------------------------------
(***************************************************************************)
(* The ways in which a message changes the table of games.                 *)
(***************************************************************************)

Kept(msg) ==
  /\ UNCHANGED games
  /\ \/ UNCHANGED revealed
     \/ \E g \in DOMAIN games :
          /\ games[g].state = "GAME_OVER"
          /\ revealed' = revealed \cup {<<g, games[g].round>>}
  /\ response'.type \notin {"GAME_CREATED", "GAME_JOINED"}
  /\ response'.about \subseteq DOMAIN games

Created(msg) ==
  \E name \in Word \ DOMAIN games, n \in Nat \ {0}, s \in Secret :
    /\ games' = [createGame(name, n) EXCEPT ![name] = addPlayer(@, msg.client_pid, s)]
    /\ getPlayerCurrentGame(msg.client_pid) = {}
    /\ msg.type = "CREATE_GAME"
    /\ response'.about = {name}
    /\ UNCHANGED revealed

Seated(msg) ==
  \E g \in DOMAIN games, s \in Secret :
    /\ ~isFull(games[g])
    /\ games' = Update(g, addPlayer(games[g], msg.client_pid, s))
    /\ \/ msg.type = "FIND_GAME"
       \/ msg.type = "JOIN_GAME" /\ getPlayerCurrentGame(msg.client_pid) = {}
    /\ response'.about = {g}
    /\ UNCHANGED revealed

Left(msg) ==
  \E g \in DOMAIN games :
    /\ msg.client_pid \in games[g].players
    /\ games' = Update(g, removePlayer(games[g], msg.client_pid))
    /\ msg.type = "LEAVE_GAME"
    /\ response'.type = "LEFT"
    /\ response'.about = {g}
    /\ UNCHANGED revealed

Guessed(msg) ==
  \E g \in DOMAIN games, w \in Word :
    /\ msg.client_pid \in games[g].players
    /\ games' = Update(g, guess(games[g], msg.client_pid, w))
    /\ response'.type \notin {"GAME_CREATED", "GAME_JOINED"}
    /\ response'.about = {g}
    /\ UNCHANGED revealed

\* Lookups only find games that are there.
LEMMA LookupLemma ==
  ASSUME NEW msg
  PROVE  /\ Addressed(msg) \subseteq DOMAIN games
         /\ guessedGame(msg) \subseteq DOMAIN games
         /\ getPlayerCurrentGame(msg.client_pid) \subseteq DOMAIN games
         /\ findAvailableGame \subseteq DOMAIN games
  BY DEF Addressed, guessedGame, getPlayerCurrentGame, findAvailableGame, getGame, First

\* The position in the map's order tells the names apart, so a lookup finds at most
\* one game.
LEMMA LookupUnique ==
  ASSUME NEW msg, DOMAIN games \subseteq Word
  PROVE  /\ \A g \in Addressed(msg) : Addressed(msg) = {g}
         /\ \A g \in guessedGame(msg) : guessedGame(msg) = {g}
         /\ \A g \in getPlayerCurrentGame(msg.client_pid) :
              getPlayerCurrentGame(msg.client_pid) = {g}
<1>1. ASSUME NEW S \in SUBSET Word, NEW g \in First(S), NEW h \in First(S)
      PROVE  g = h
  <2>1. Rank[g] \in Nat /\ Rank[h] \in Nat /\ Rank[g] <= Rank[h] /\ Rank[h] <= Rank[g]
    BY <1>1, WordAssumption DEF First
  <2>2. Rank[g] = Rank[h]
    BY <2>1
  <2> QED
    BY <2>2, WordAssumption DEF First
<1>2. ASSUME NEW g \in getPlayerCurrentGame(msg.client_pid)
      PROVE  getPlayerCurrentGame(msg.client_pid) = {g}
  <2>1. PICK S \in SUBSET Word : getPlayerCurrentGame(msg.client_pid) = First(S)
    BY DEF getPlayerCurrentGame
  <2> QED
    BY <1>1, <1>2, <2>1
<1> QED
  BY <1>2 DEF Addressed, guessedGame, getGame

\* The words that a handler looks at are words.
LEMMA WordsLemma ==
  ASSUME NEW words \in Seq(Word)
  PROVE  /\ words # <<>> => words[1] \in Word
         /\ words # <<>> /\ Len(words) # 1 => words[2] \in Word
         /\ Len(words) >= 2 => words # <<>> /\ Len(words) # 1
<1>1. Len(words) \in Nat /\ DOMAIN words = 1 .. Len(words)
  OBVIOUS
<1>2. words # <<>> => Len(words) >= 1
  OBVIOUS
<1>3. Len(words) >= 2 => words # <<>>
  OBVIOUS
<1> QED
  BY <1>1, <1>2, <1>3

\* What any message does is one of the five.
LEMMA StepShape ==
  ASSUME NEW msg \in Message, processMessage(msg), DOMAIN games \subseteq Word
  PROVE  /\ response'.request = msg
         /\ response'.type \in ReplyType
         /\ Kept(msg) \/ Created(msg) \/ Seated(msg) \/ Left(msg) \/ Guessed(msg)
<1> DEFINE Shape == /\ response'.request = msg
                    /\ response'.type \in ReplyType
                    /\ \/ Kept(msg) \/ Created(msg) \/ Seated(msg) \/ Left(msg)
                       \/ Guessed(msg)
<1>0. /\ msg.client_pid \in Pid
      /\ msg.payload # <<>> => msg.payload[1] \in Word
      /\ msg.payload # <<>> /\ Len(msg.payload) # 1 => msg.payload[2] \in Word
      /\ Len(msg.payload) >= 2 => msg.payload # <<>> /\ Len(msg.payload) # 1
  BY WordsLemma DEF Message
<1> USE LookupLemma
<1>1. ASSUME NEW type \in ReplyType \ {"GAME_CREATED", "GAME_JOINED"},
             NEW about \in SUBSET DOMAIN games,
             Answer(msg, type, about)
      PROVE  Shape
  BY <1>1 DEF Answer, Respond, Kept
<1>2. ASSUME NotThere(msg)
      PROVE  Shape
  BY <1>2, <1>1 DEF NotThere, ReplyType
<1>3. ASSUME handleCreateGame(msg), msg.type = "CREATE_GAME"
      PROVE  Shape
  <2> DEFINE current == getPlayerCurrentGame(msg.client_pid)
  <2>1. CASE msg.payload = <<>>
    BY <2>1, <1>3, <1>1 DEF handleCreateGame, ReplyType
  <2>2. CASE msg.payload # <<>>
    <3>1. PICK n \in numPlayers(msg.payload) :
             \/ Answer(msg, "INVALID_COMMAND", {})
             \/ Answer(msg, "SERVER_ERROR", current)
             \/ /\ getGame(msg.payload[1]) # {}
                /\ Answer(msg, "SERVER_ERROR", {msg.payload[1]})
             \/ /\ n > 0
                /\ current = {}
                /\ getGame(msg.payload[1]) = {}
                /\ \E s \in Secret :
                     games' = [createGame(msg.payload[1], n) EXCEPT
                                 ![msg.payload[1]] = addPlayer(@, msg.client_pid, s)]
                /\ Respond(msg, "GAME_CREATED", {msg.payload[1]})
                /\ UNCHANGED revealed
      BY <2>2, <1>3 DEF handleCreateGame
    <3>2. n \in Int
      BY <1>0, <2>2, ServerAssumption DEF numPlayers
    <3>3. CASE Answer(msg, "INVALID_COMMAND", {}) \/ Answer(msg, "SERVER_ERROR", current)
      BY <3>3, <1>1 DEF ReplyType
    <3>4. CASE /\ getGame(msg.payload[1]) # {}
               /\ Answer(msg, "SERVER_ERROR", {msg.payload[1]})
      BY <3>4, <1>1 DEF getGame, ReplyType
    <3>5. CASE /\ n > 0
               /\ current = {}
               /\ getGame(msg.payload[1]) = {}
               /\ \E s \in Secret :
                    games' = [createGame(msg.payload[1], n) EXCEPT
                                ![msg.payload[1]] = addPlayer(@, msg.client_pid, s)]
               /\ Respond(msg, "GAME_CREATED", {msg.payload[1]})
               /\ UNCHANGED revealed
      <4>1. n \in Nat \ {0} /\ msg.payload[1] \in Word \ DOMAIN games
        BY <3>2, <3>5, <1>0, <2>2 DEF getGame
      <4>2. Created(msg)
        BY <1>3, <3>5, <4>1 DEF Created, Respond
      <4> QED
        BY <4>2, <3>5 DEF Respond, ReplyType
    <3> QED
      BY <3>1, <3>3, <3>4, <3>5
  <2> QED
    BY <2>1, <2>2
<1>4. ASSUME NEW g \in DOMAIN games, ~isFull(games[g]), Seat(g, msg.client_pid),
             \/ msg.type = "FIND_GAME"
             \/ msg.type = "JOIN_GAME" /\ getPlayerCurrentGame(msg.client_pid) = {},
             Respond(msg, "GAME_JOINED", {g}), UNCHANGED revealed
      PROVE  Shape
  BY <1>4 DEF Seat, Seated, Respond, ReplyType
<1>5. ASSUME handleJoinGame(msg), msg.type = "JOIN_GAME"
      PROVE  Shape
  <2>1. CASE msg.payload = <<>> /\ Answer(msg, "INVALID_COMMAND", {})
    BY <2>1, <1>1 DEF ReplyType
  <2>2. CASE Answer(msg, "SERVER_ERROR", getPlayerCurrentGame(msg.client_pid))
    BY <2>2, <1>1 DEF ReplyType
  <2>3. CASE NotThere(msg)
    BY <2>3, <1>2
  <2>4. ASSUME NEW g \in Addressed(msg),
               getPlayerCurrentGame(msg.client_pid) = {},
               \/ Answer(msg, "GAME_FULL", Addressed(msg))
               \/ /\ ~isFull(games[g])
                  /\ Seat(g, msg.client_pid)
                  /\ Respond(msg, "GAME_JOINED", Addressed(msg))
                  /\ UNCHANGED revealed,
               msg.payload # <<>>
        PROVE  Shape
    <3>1. Addressed(msg) = {g}
      BY <2>4 DEF Addressed, getGame
    <3>2. CASE Answer(msg, "GAME_FULL", Addressed(msg))
      BY <3>2, <1>1 DEF ReplyType
    <3> QED
      BY <3>1, <3>2, <2>4, <1>4, <1>5
  <2> QED
    BY <1>5, <2>1, <2>2, <2>3, <2>4 DEF handleJoinGame
<1>6. ASSUME handleLeaveGame(msg), msg.type = "LEAVE_GAME"
      PROVE  Shape
  <2>1. ASSUME NEW g \in Addressed(msg), Answer(msg, "SERVER_ERROR", Addressed(msg))
        PROVE  Shape
    BY <2>1, <1>1 DEF ReplyType
  <2>2. ASSUME NEW g \in Addressed(msg),
               isPlayerInGame(games[g], msg.client_pid),
               games' = Update(g, removePlayer(games[g], msg.client_pid)),
               Respond(msg, "LEFT", Addressed(msg)),
               UNCHANGED revealed
        PROVE  Shape
    <3>1. Addressed(msg) = {g}
      BY LookupUnique
    <3> QED
      BY <1>6, <3>1, <2>2 DEF Left, isPlayerInGame, Respond, ReplyType
  <2> QED
    BY <1>6, <1>2, <2>1, <2>2 DEF handleLeaveGame
<1>7. ASSUME handleFindGame(msg), msg.type = "FIND_GAME"
      PROVE  Shape
  <2>1. ASSUME NEW g \in findAvailableGame, Answer(msg, "GAME_FULL", {g})
        PROVE  Shape
    BY <2>1, <1>1 DEF ReplyType
  <2>2. CASE Answer(msg, "OK", {})
    BY <2>2, <1>1 DEF ReplyType
  <2> QED
    BY <1>7, <1>4, <2>1, <2>2 DEF handleFindGame
<1>8. ASSUME handleGuessNumber(msg)
      PROVE  Shape
  <2>1. CASE Answer(msg, IF BareGuess(msg) THEN "SERVER_ERROR" ELSE "GAME_NOT_FOUND", {})
    BY <2>1, <1>1 DEF ReplyType
  <2>2. CASE Answer(msg, "INVALID_COMMAND", guessedGame(msg))
    BY <2>2, <1>1 DEF ReplyType
  <2>3. CASE Answer(msg, "SERVER_ERROR", guessedGame(msg))
    BY <2>3, <1>1 DEF ReplyType
  <2>4. ASSUME NEW g \in guessedGame(msg), NEW w \in guessWord(msg),
               isPlayerInGame(games[g], msg.client_pid),
               games' = Update(g, guess(games[g], msg.client_pid, w)),
               Respond(msg, IF guessAccepted(games[g], w) THEN "GUESS_RESULT"
                            ELSE "INVALID_COMMAND", guessedGame(msg)),
               UNCHANGED revealed
        PROVE  Shape
    <3>1. guessedGame(msg) = {g}
      BY LookupUnique
    <3>2. w \in Word
      BY <1>0 DEF guessWord
    <3> QED
      BY <3>1, <3>2, <2>4 DEF Guessed, isPlayerInGame, Respond, ReplyType
  <2> QED
    BY <1>8, <2>1, <2>2, <2>3, <2>4 DEF handleGuessNumber
<1>9. ASSUME NEW type \in {"GAME_STATE", "GAME_PLAYERS", "GAME_LOG"}, handleGet(msg, type)
      PROVE  Shape
  BY <1>9, <1>1, <1>2 DEF handleGet, ReplyType
<1>10. ASSUME handleGetGameStats(msg)
       PROVE  Shape
  <2>1. ASSUME NEW g \in Addressed(msg),
               revealed' = IF showsSecret(games[g])
                           THEN revealed \cup {<<g, games[g].round>>} ELSE revealed,
               Respond(msg, "GAME_STATS", Addressed(msg)),
               UNCHANGED games
        PROVE  Shape
    BY <2>1 DEF Kept, showsSecret, Respond, ReplyType
  <2> QED
    BY <1>10, <1>2, <2>1 DEF handleGetGameStats
<1>11. CASE \/ handleListGames(msg) \/ handleQuit(msg) \/ handleHelp(msg)
           \/ Answer(msg, "INVALID_COMMAND", {})
  BY <1>11, <1>1 DEF handleListGames, handleQuit, handleHelp, ReplyType
<1> QED
  BY <1>3, <1>5, <1>6, <1>7, <1>8, <1>9, <1>10, <1>11
  DEF processMessage, handleGetGameState, handleGetGamePlayers, handleGetGameLog

-----------------------------------------------------------------------------
(***************************************************************************)
(* The induction.                                                          *)
(***************************************************************************)

\* What was told of a secret is of a round that is over.
RevealedPast ==
  \A e \in revealed :
    /\ e \in Word \X Nat
    /\ e[1] \in DOMAIN games
    /\ e[2] <= games[e[1]].round
    /\ e[2] = games[e[1]].round => games[e[1]].state = "GAME_OVER"

IInv ==
  /\ DOMAIN games \subseteq Word
  /\ games = [g \in DOMAIN games |-> games[g]]
  /\ \A g \in DOMAIN games : GameInv(games[g])
  /\ response.type \in ReplyType
  /\ response.about \subseteq DOMAIN games
  /\ RevealedPast
  /\ JoinedMeansSeated

LEMMA InitIInv == Init => IInv
  BY DEF Init, IInv, RevealedPast, JoinedMeansSeated, ReplyType

\* One game at most changes: it keeps its invariant, and it is over in a round that
\* was told of only if it was over before.
LEMMA UpdateIInv ==
  ASSUME IInv, NEW g \in DOMAIN games, NEW new, GameInv(new),
         games' = Update(g, new),
         response'.type \in ReplyType,
         response'.about = {g},
         UNCHANGED revealed,
         \/ new.round > games[g].round
         \/ new.round = games[g].round /\
              (games[g].state = "GAME_OVER" => new.state = "GAME_OVER"),
         response'.type \in {"GAME_CREATED", "GAME_JOINED"} =>
           response'.request.client_pid \in new.players
  PROVE  IInv'
<1>1. /\ DOMAIN games' = DOMAIN games
      /\ games' = [h \in DOMAIN games' |-> games'[h]]
      /\ games'[g] = new
      /\ \A h \in DOMAIN games \ {g} : games'[h] = games[h]
  BY DEF Update, IInv
<1>2. RevealedPast'
  <2>1. new.round \in Nat /\ games[g].round \in Nat
    BY DEF IInv, GameInv, GameRecord
  <2> QED
    BY <1>1, <2>1 DEF IInv, RevealedPast
<1> QED
  BY <1>1, <1>2 DEF IInv, JoinedMeansSeated

LEMMA CreatedIInv ==
  ASSUME IInv, NEW msg \in Message, Created(msg), response'.request = msg,
         response'.type \in ReplyType
  PROVE  IInv'
<1>1. PICK name \in Word \ DOMAIN games, n \in Nat \ {0}, s \in Secret :
        /\ games' = [createGame(name, n) EXCEPT
                       ![name] = addPlayer(@, msg.client_pid, s)]
        /\ response'.about = {name}
        /\ UNCHANGED revealed
  BY DEF Created
<1>2. /\ DOMAIN games' = DOMAIN games \cup {name}
      /\ games' = [h \in DOMAIN games' |-> games'[h]]
      /\ games'[name] = addPlayer(NewGame(n), msg.client_pid, s)
      /\ \A h \in DOMAIN games : games'[h] = games[h]
  BY <1>1 DEF createGame
<1>3. /\ GameInv(games'[name])
      /\ msg.client_pid \in games'[name].players
  <2>1. RunningSecretUnguessed(NewGame(n))
    BY NewGameLemma DEF RunningSecretUnguessed
  <2>2. msg.client_pid \in Pid
    BY DEF Message
  <2> QED
    BY <1>2, <2>1, <2>2, NewGameLemma, AddPlayerLemma
<1>4. RevealedPast'
  BY <1>1, <1>2 DEF IInv, RevealedPast
<1> QED
  BY <1>1, <1>2, <1>3, <1>4 DEF IInv, JoinedMeansSeated

LEMMA SeatedIInv ==
  ASSUME IInv, NEW msg \in Message, Seated(msg), response'.request = msg,
         response'.type \in ReplyType
  PROVE  IInv'
<1>1. PICK g \in DOMAIN games, s \in Secret :
        /\ ~isFull(games[g])
        /\ games' = Update(g, addPlayer(games[g], msg.client_pid, s))
        /\ response'.about = {g}
        /\ UNCHANGED revealed
  BY DEF Seated
<1> DEFINE new == addPlayer(games[g], msg.client_pid, s)
<1>2. /\ msg.client_pid \in Pid
      /\ GameInv(games[g])
      /\ Cardinality(games[g].players) < games[g].max_players
  <2>1. /\ Cardinality(games[g].players) \in Nat
        /\ games[g].max_players \in Nat
        /\ Cardinality(games[g].players) <= games[g].max_players
    BY FS_CardinalityType DEF IInv, GameInv, GameRecord, StateMatchesSeats
  <2> QED
    BY <1>1, <2>1 DEF isFull, IInv, Message
<1>3. GameInv(new) /\ msg.client_pid \in new.players
  BY <1>2, AddPlayerLemma DEF GameInv, StateMatchesSeats
<1>4. \/ new.round > games[g].round
      \/ new.round = games[g].round /\ new.state = games[g].state
  BY <1>2 DEF addPlayer, startGame, GameInv, GameRecord
<1> QED
  BY <1>1, <1>3, <1>4, UpdateIInv

LEMMA NextIInv ==
  ASSUME IInv, [Next]_vars
  PROVE  IInv'
<1>1. CASE UNCHANGED vars
  BY <1>1 DEF vars, IInv, RevealedPast, JoinedMeansSeated
<1>2. CASE Next
  <2>1. PICK msg \in Inbox : processMessage(msg)
    BY <1>2 DEF Next
  <2>2. /\ msg \in Message
        /\ response'.request = msg
        /\ response'.type \in ReplyType
        /\ Kept(msg) \/ Created(msg) \/ Seated(msg) \/ Left(msg) \/ Guessed(msg)
    BY <2>1, ServerAssumption, StepShape DEF IInv
  <2>3. CASE Kept(msg)
    <3>1. RevealedPast'
      <4>1. CASE UNCHANGED revealed
        BY <2>3, <4>1 DEF Kept, IInv, RevealedPast
      <4>2. ASSUME NEW g \in DOMAIN games,
                   games[g].state = "GAME_OVER",
                   revealed' = revealed \cup {<<g, games[g].round>>}
            PROVE  RevealedPast'
        <5>1. games[g].round \in Nat /\ g \in Word
          BY DEF IInv, GameInv, GameRecord
        <5> QED
          BY <2>3, <4>2, <5>1 DEF Kept, IInv, RevealedPast
      <4> QED
        BY <2>3, <4>1, <4>2 DEF Kept
    <3> QED
      BY <2>2, <2>3, <3>1 DEF Kept, IInv, JoinedMeansSeated
  <2>4. CASE Created(msg)
    BY <2>2, <2>4, CreatedIInv
  <2>5. CASE Seated(msg)
    BY <2>2, <2>5, SeatedIInv
  <2>6. CASE Left(msg)
    <3>1. PICK g \in DOMAIN games :
            /\ msg.client_pid \in games[g].players
            /\ games' = Update(g, removePlayer(games[g], msg.client_pid))
            /\ response'.type \notin {"GAME_CREATED", "GAME_JOINED"}
            /\ response'.about = {g}
            /\ UNCHANGED revealed
      BY <2>6 DEF Left
    <3> DEFINE new == removePlayer(games[g], msg.client_pid)
    <3>2. GameInv(games[g]) /\ GameInv(new)
      BY <3>1, RemovePlayerLemma DEF IInv
    <3>3. /\ new.round = games[g].round
          /\ games[g].state = "GAME_OVER" => new.state = "GAME_OVER"
      BY <3>2 DEF removePlayer, GameInv, GameRecord
    <3> QED
      BY <2>2, <3>1, <3>2, <3>3, UpdateIInv
  <2>7. CASE Guessed(msg)
    <3>1. PICK g \in DOMAIN games, w \in Word :
            /\ games' = Update(g, guess(games[g], msg.client_pid, w))
            /\ response'.type \notin {"GAME_CREATED", "GAME_JOINED"}
            /\ response'.about = {g}
            /\ UNCHANGED revealed
      BY <2>7 DEF Guessed
    <3> DEFINE new == guess(games[g], msg.client_pid, w)
    <3>2. GameInv(games[g]) /\ GameInv(new)
      BY <2>2, GuessLemma DEF IInv, Message
    <3>3. /\ new.round = games[g].round
          /\ games[g].state = "GAME_OVER" => new.state = "GAME_OVER"
      BY <3>2 DEF guess, guessAccepted, GameInv, GameRecord
    <3> QED
      BY <2>2, <3>1, <3>2, <3>3, UpdateIInv
  <2> QED
    BY <2>2, <2>3, <2>4, <2>5, <2>6, <2>7
<1> QED
  BY <1>1, <1>2

LEMMA Invariance == Spec => []IInv
  BY InitIInv, NextIInv, PTL DEF Spec

\* The tables and the answers keep their shape.
THEOREM TypeCorrect == Spec => []TypeOK
<1>1. IInv => TypeOK
  BY DEF IInv, TypeOK, GameInv, RevealedPast
<1> QED
  BY <1>1, Invariance, PTL

\* The seats and the state of a game agree, whatever the players do.
THEOREM SeatingHolds == Spec => []Seating
<1>1. IInv => Seating
  BY DEF IInv, Seating, GameInv
<1> QED
  BY <1>1, Invariance, PTL

\* The secret of a game in progress was not guessed in the round in play.
THEOREM UnguessedHolds == Spec => []Unguessed
<1>1. IInv => Unguessed
  BY DEF IInv, Unguessed, GameInv
<1> QED
  BY <1>1, Invariance, PTL

\* No round is won twice.
THEOREM SingleWinHolds == Spec => []SingleWin
<1>1. IInv => SingleWin
  BY DEF IInv, SingleWin, GameInv
<1> QED
  BY <1>1, Invariance, PTL

\* winner_pid_ names the latest winner on record.
THEOREM WinnerHolds == Spec => []Winner
<1>1. IInv => Winner
  BY DEF IInv, Winner, GameInv
<1> QED
  BY <1>1, Invariance, PTL

\* The secret in play is one that GET_GAME_STATS has not told.
THEOREM SecretKeptHolds == Spec => []SecretKept
<1>1. IInv => SecretKept
  BY DEF IInv, SecretKept, RevealedPast
<1> QED
  BY <1>1, Invariance, PTL

\* Who is told that it joined a game has a seat in it.
THEOREM JoinedMeansSeatedHolds == Spec => []JoinedMeansSeated
<1>1. IInv => JoinedMeansSeated
  BY DEF IInv
<1> QED
  BY <1>1, Invariance, PTL

-----------------------------------------------------------------------------
(***************************************************************************)
(* What no step does.                                                      *)
(***************************************************************************)

\* What the methods of a game do to its log, its state and its round.
LEMMA AddPlayerStep ==
  ASSUME NEW game, GameInv(game), NEW pid \in Pid, NEW s \in Secret, ~isFull(game)
  PROVE  LET new == addPlayer(game, pid, s)
         IN  /\ new.log = game.log
             /\ new.players = game.players \cup {pid}
             /\ \/ new.state = game.state /\ new.round = game.round
                \/ /\ new.state = "IN_PROGRESS"
                   /\ new.round = game.round + 1
                   /\ isFull(new)
<1>1. Cardinality(game.players) < game.max_players
  <2>1. /\ Cardinality(game.players) \in Nat
        /\ game.max_players \in Nat
        /\ Cardinality(game.players) <= game.max_players
    BY FS_CardinalityType DEF GameInv, GameRecord, StateMatchesSeats
  <2> QED
    BY <2>1 DEF isFull
<1> QED
  BY <1>1 DEF addPlayer, startGame, isReadyToStart, isFull, GameInv, GameRecord

LEMMA RemovePlayerStep ==
  ASSUME NEW game, GameInv(game), NEW pid \in game.players
  PROVE  LET new == removePlayer(game, pid)
         IN  /\ new.log = game.log
             /\ new.round = game.round
             /\ \/ new.state = game.state
                \/ new.state = "GAME_OVER" /\ new.players = {}
  BY DEF removePlayer, GameInv, GameRecord

LEMMA GuessStep ==
  ASSUME NEW game, GameInv(game), NEW pid \in Pid, NEW word,
         NEW new, new = guess(game, pid, word), new # game
  PROVE  \E entry \in Guess :
           /\ game.state = "IN_PROGRESS"
           /\ \A p \in Pid : new.log[p] = IF p = pid THEN Append(game.log[p], entry)
                                        ELSE game.log[p]
           /\ new.round = game.round
           /\ entry.round = game.round
           /\ new.state = IF entry.won THEN "GAME_OVER" ELSE game.state
<1> DEFINE won == fourBulls(game, word)
           entry == [guess |-> word, won |-> won, round |-> game.round]
<1>1. guessAccepted(game, word)
  BY DEF guess
<1>2. entry \in Guess /\ entry.won = won /\ entry.round = game.round
  BY <1>1 DEF GameInv, GameRecord, Guess, fourBulls, guessAccepted
<1>3. new = [game EXCEPT !.log[pid] = Append(@, entry),
                         !.state = IF won THEN "GAME_OVER" ELSE @,
                         !.winner_pid = IF won THEN pid ELSE @]
  BY <1>1 DEF guess
<1>4. game.state = "IN_PROGRESS"
  BY <1>1 DEF guessAccepted
<1> HIDE DEF entry, won
<1>5. /\ \A p \in Pid : new.log[p] = IF p = pid THEN Append(game.log[p], entry)
                                   ELSE game.log[p]
      /\ new.round = game.round
      /\ new.state = IF won THEN "GAME_OVER" ELSE game.state
  BY <1>3 DEF GameInv, GameRecord
<1> QED
  BY <1>2, <1>4, <1>5

\* One game changes, by one of its methods, or none does.
LEMMA OneMethod ==
  ASSUME IInv, [Next]_vars
  PROVE  \A g \in DOMAIN games :
           \/ games'[g] = games[g]
           \/ \E pid \in Pid :
                /\ response'.request.client_pid = pid
                /\ \/ \E s \in Secret :
                        ~isFull(games[g]) /\ games'[g] = addPlayer(games[g], pid, s)
                   \/ /\ pid \in games[g].players
                      /\ games'[g] = removePlayer(games[g], pid)
                   \/ /\ pid \in games[g].players
                      /\ \E w \in Word : games'[g] = guess(games[g], pid, w)
<1>1. CASE UNCHANGED vars
  BY <1>1 DEF vars
<1>2. CASE Next
  <2>1. PICK msg \in Inbox : processMessage(msg)
    BY <1>2 DEF Next
  <2>2. /\ msg \in Message
        /\ msg.client_pid \in Pid
        /\ response'.request = msg
        /\ Kept(msg) \/ Created(msg) \/ Seated(msg) \/ Left(msg) \/ Guessed(msg)
    BY <2>1, ServerAssumption, StepShape DEF IInv, Message
  <2>3. CASE Kept(msg)
    BY <2>3 DEF Kept
  <2>4. CASE Created(msg)
    BY <2>4 DEF Created, createGame
  <2>5. CASE Seated(msg)
    BY <2>2, <2>5 DEF Seated, Update, IInv
  <2>6. CASE Left(msg)
    BY <2>2, <2>6 DEF Left, Update, IInv
  <2>7. CASE Guessed(msg)
    BY <2>2, <2>7 DEF Guessed, Update, IInv
  <2> QED
    BY <2>2, <2>3, <2>4, <2>5, <2>6, <2>7
<1> QED
  BY <1>1, <1>2

\* A game starts only by filling up and ends only by a win or by its last leave.
THEOREM GameLifecycleHolds == Spec => GameLifecycle
<1>1. ASSUME IInv, [Next]_vars
      PROVE  LifecycleStep
  <2> SUFFICES ASSUME NEW g \in DOMAIN games,
                      games'[g].state # games[g].state \/ games'[g].round # games[g].round
               PROVE  \/ /\ games'[g].state = "IN_PROGRESS"
                         /\ games'[g].round = games[g].round + 1
                         /\ isFull(games'[g]) /\ ~isFull(games[g])
                      \/ /\ games'[g].state = "GAME_OVER"
                         /\ games'[g].round = games[g].round
                         /\ \/ games'[g].players = {}
                            \/ \E p \in games[g].players :
                                 LET log == games'[g].log[p]
                                 IN  /\ Len(log) > Len(games[g].log[p])
                                     /\ log[Len(log)].won
                                     /\ log[Len(log)].round = games[g].round
    BY DEF LifecycleStep
  <2>1. GameInv(games[g]) /\ games[g].log \in [Pid -> Seq(Guess)]
    BY <1>1 DEF IInv, GameInv, GameRecord
  <2>2. PICK pid \in Pid :
          \/ \E s \in Secret :
               ~isFull(games[g]) /\ games'[g] = addPlayer(games[g], pid, s)
          \/ /\ pid \in games[g].players
             /\ games'[g] = removePlayer(games[g], pid)
          \/ /\ pid \in games[g].players
             /\ \E w \in Word : games'[g] = guess(games[g], pid, w)
    BY <1>1, OneMethod
  <2>3. CASE \E s \in Secret :
               ~isFull(games[g]) /\ games'[g] = addPlayer(games[g], pid, s)
    BY <2>1, <2>3, AddPlayerStep
  <2>4. CASE pid \in games[g].players /\ games'[g] = removePlayer(games[g], pid)
    BY <2>1, <2>4, RemovePlayerStep
  <2>5. ASSUME pid \in games[g].players,
               NEW w \in Word, games'[g] = guess(games[g], pid, w)
        PROVE  /\ games'[g].state = "GAME_OVER"
               /\ games'[g].round = games[g].round
               /\ \E p \in games[g].players :
                    LET log == games'[g].log[p]
                    IN  /\ Len(log) > Len(games[g].log[p])
                        /\ log[Len(log)].won
                        /\ log[Len(log)].round = games[g].round
    <3>1. PICK entry \in Guess :
            /\ \A p \in Pid : games'[g].log[p] = IF p = pid
                                                THEN Append(games[g].log[p], entry)
                                                ELSE games[g].log[p]
            /\ games'[g].round = games[g].round
            /\ entry.round = games[g].round
            /\ games'[g].state = IF entry.won THEN "GAME_OVER" ELSE games[g].state
      BY <2>1, <2>5, GuessStep
    <3>2. games'[g].log[pid] = Append(games[g].log[pid], entry)
      BY <3>1
    <3>3. /\ Len(games'[g].log[pid]) > Len(games[g].log[pid])
          /\ games'[g].log[pid][Len(games'[g].log[pid])] = entry
      BY <2>1, <3>2
    <3> QED
      BY <2>5, <3>1, <3>3
  <2> QED
    BY <2>2, <2>3, <2>4, <2>5
<1> QED
  BY <1>1, Invariance, PTL DEF Spec, GameLifecycle

\* Only a player's own guesses, made from a seat while the game is on, enter a log.
THEOREM LogsOnlyGrowHolds == Spec => LogsOnlyGrow
<1>1. ASSUME IInv, [Next]_vars
      PROVE  LogStep
  <2> SUFFICES ASSUME NEW g \in DOMAIN games, NEW p \in Pid,
                      games'[g].log[p] # games[g].log[p]
               PROVE  /\ games[g].state = "IN_PROGRESS"
                      /\ p \in games[g].players
                      /\ response'.request.client_pid = p
                      /\ Len(games'[g].log[p]) = Len(games[g].log[p]) + 1
                      /\ SubSeq(games'[g].log[p], 1, Len(games[g].log[p])) = games[g].log[p]
    BY DEF LogStep
  <2>1. GameInv(games[g]) /\ games[g].log \in [Pid -> Seq(Guess)]
    BY <1>1 DEF IInv, GameInv, GameRecord
  <2>2. PICK pid \in Pid :
          /\ response'.request.client_pid = pid
          /\ \/ \E s \in Secret :
                  ~isFull(games[g]) /\ games'[g] = addPlayer(games[g], pid, s)
             \/ /\ pid \in games[g].players
                /\ games'[g] = removePlayer(games[g], pid)
             \/ /\ pid \in games[g].players
                /\ \E w \in Word : games'[g] = guess(games[g], pid, w)
    BY <1>1, OneMethod
  <2>3. PICK w \in Word : games'[g] = guess(games[g], pid, w) /\ pid \in games[g].players
    BY <2>1, <2>2, AddPlayerStep, RemovePlayerStep
  <2>4. PICK entry \in Guess :
          /\ games[g].state = "IN_PROGRESS"
          /\ \A q \in Pid : games'[g].log[q] = IF q = pid
                                              THEN Append(games[g].log[q], entry)
                                              ELSE games[g].log[q]
    BY <2>1, <2>3, GuessStep
  <2>5. p = pid /\ games'[g].log[p] = Append(games[g].log[p], entry)
    BY <2>4
  <2>6. games[g].log[p] \in Seq(Guess)
    BY <2>1
  <2>7. /\ Len(games'[g].log[p]) = Len(games[g].log[p]) + 1
        /\ SubSeq(games'[g].log[p], 1, Len(games[g].log[p])) = games[g].log[p]
    BY <2>5, <2>6
  <2> QED
    BY <2>2, <2>3, <2>4, <2>5, <2>7
<1> QED
  BY <1>1, Invariance, PTL DEF Spec, LogsOnlyGrow

\* Any set of names has a first one, so a player with a seat has a current game.
LEMMA NatMin ==
  ASSUME NEW T \in SUBSET Nat, T # {}
  PROVE  \E x \in T : \A y \in T : x <= y
<1>1. \A x, y \in Nat : y < x => <<y, x>> \in OpToRel(<, Nat)
  BY DEF OpToRel
<1>2. PICK x \in T : \A y \in T : ~ (<<y, x>> \in OpToRel(<, Nat))
  BY NatLessThanWellFounded, WFMin
<1>3. \A y \in T : ~(y < x)
  BY <1>1, <1>2, Zenon
<1> QED
  BY <1>3

LEMMA SeatedHasCurrentGame ==
  ASSUME DOMAIN games \subseteq Word, NEW pid, NEW g \in DOMAIN games,
         pid \in games[g].players
  PROVE  getPlayerCurrentGame(pid) # {}
<1> DEFINE S == {n \in DOMAIN games : isPlayerInGame(games[n], pid)}
           T == {Rank[n] : n \in S}
<1>1. g \in S
  BY DEF isPlayerInGame
<1>2. T \in SUBSET Nat /\ T # {}
  BY <1>1, WordAssumption
<1>3. PICK x \in T : \A y \in T : x <= y
  <2> HIDE DEF T
  <2> QED
    BY <1>2, NatMin
<1>4. First(S) # {}
  BY <1>3 DEF First
<1> QED
  BY <1>4 DEF getPlayerCurrentGame

\* CREATE_GAME and JOIN_GAME never give a second seat; only FIND_GAME can.
THEOREM SecondSeatOnlyByFindHolds == Spec => SecondSeatOnlyByFind
<1>1. ASSUME IInv, [Next]_vars
      PROVE  SecondSeatStep
  <2> SUFFICES ASSUME NEW p \in Pid, NEW g \in DOMAIN games, NEW h \in DOMAIN games',
                      p \in games[g].players,
                      p \in games'[h].players,
                      h \in DOMAIN games => p \notin games[h].players
               PROVE  response'.request.type = "FIND_GAME"
    BY DEF SecondSeatStep
  <2>1. PICK msg \in Inbox : processMessage(msg)
    BY <1>1 DEF Next, vars
  <2>2. /\ response'.request = msg
        /\ Kept(msg) \/ Created(msg) \/ Seated(msg) \/ Left(msg) \/ Guessed(msg)
    BY <2>1, <1>1, ServerAssumption, StepShape DEF IInv
  <2>3. /\ msg.client_pid \in Pid
        /\ getPlayerCurrentGame(p) # {}
        /\ \A k \in DOMAIN games : GameInv(games[k])
    BY <1>1, ServerAssumption, SeatedHasCurrentGame DEF IInv, Message
  <2>4. ~Kept(msg)
    BY DEF Kept
  <2>5. CASE Created(msg)
    <3>1. PICK name \in Word \ DOMAIN games, n \in Nat \ {0}, s \in Secret :
            /\ games' = [createGame(name, n) EXCEPT
                           ![name] = addPlayer(@, msg.client_pid, s)]
            /\ getPlayerCurrentGame(msg.client_pid) = {}
      BY <2>5 DEF Created
    <3>2. h = name /\ games'[name] = addPlayer(NewGame(n), msg.client_pid, s)
      BY <3>1 DEF createGame
    <3>3. games'[name].players \subseteq {msg.client_pid}
      BY <3>2 DEF addPlayer, startGame, NewGame
    <3> QED
      BY <3>1, <3>2, <3>3, <2>3
  <2>6. CASE Seated(msg)
    <3>1. PICK k \in DOMAIN games, s \in Secret :
            /\ ~isFull(games[k])
            /\ games' = Update(k, addPlayer(games[k], msg.client_pid, s))
            /\ msg.type = "FIND_GAME" \/ getPlayerCurrentGame(msg.client_pid) = {}
      BY <2>6 DEF Seated
    <3>2. h = k /\ games'[k] = addPlayer(games[k], msg.client_pid, s)
      BY <3>1, <1>1 DEF Update, IInv
    <3>3. games'[k].players = games[k].players \cup {msg.client_pid}
      BY <3>1, <3>2, <2>3, AddPlayerStep
    <3> QED
      BY <3>1, <3>2, <3>3, <2>2, <2>3
  <2>7. ~Left(msg)
    <3>1. ASSUME NEW k \in DOMAIN games,
                 games' = Update(k, removePlayer(games[k], msg.client_pid))
          PROVE  FALSE
      <4>1. h = k /\ games'[k] = removePlayer(games[k], msg.client_pid)
        BY <3>1, <1>1 DEF Update, IInv
      <4>2. games'[k].players \subseteq games[k].players
        BY <4>1, <2>3 DEF removePlayer, GameInv, GameRecord
      <4> QED
        BY <4>1, <4>2
    <3> QED
      BY <3>1 DEF Left
  <2>8. ~Guessed(msg)
    <3>1. ASSUME NEW k \in DOMAIN games, NEW w \in Word,
                 games' = Update(k, guess(games[k], msg.client_pid, w))
          PROVE  FALSE
      <4>1. h = k /\ games'[k] = guess(games[k], msg.client_pid, w)
        BY <3>1, <1>1 DEF Update, IInv
      <4>2. games'[k].players = games[k].players
        BY <4>1, <2>3 DEF guess, GameInv, GameRecord
      <4> QED
        BY <4>1, <4>2
    <3> QED
      BY <3>1 DEF Guessed
  <2> QED
    BY <2>2, <2>4, <2>5, <2>6, <2>7, <2>8
<1> QED
  BY <1>1, Invariance, PTL DEF Spec, SecondSeatOnlyByFind
-----------------------------------------------------------------------------
(***************************************************************************)
(* Every game implements module Rounds.                                    *)
(***************************************************************************)

\* The winners of the rounds, as the logs have them: as many as there were rounds, and the
\* same when neither the logs nor the rounds change.
LEMMA WinnersShape ==
  ASSUME NEW game \in GameRecord
  PROVE  /\ winnersOf(game) \in Seq(SUBSET Pid)
         /\ Len(winnersOf(game)) = game.round
         /\ DOMAIN winnersOf(game) = 1 .. game.round
<1>1. game.round \in Nat
  BY DEF GameRecord
<1>2. \A r \in 1 .. game.round : winnersOf(game)[r] \in SUBSET Pid
  BY DEF winnersOf
<1> QED
  BY <1>1, <1>2 DEF winnersOf

LEMMA WinnersKept ==
  ASSUME NEW game, NEW new, new.log = game.log, new.round = game.round
  PROVE  winnersOf(new) = winnersOf(game)
  BY DEF winnersOf

LEMMA AppendShape ==
  ASSUME NEW S, NEW s \in Seq(S), NEW e \in S
  PROVE  /\ DOMAIN Append(s, e) = 1 .. Len(s) + 1
         /\ Append(s, e) = [r \in 1 .. Len(s) + 1 |-> Append(s, e)[r]]
         /\ \A r \in 1 .. Len(s) : Append(s, e)[r] = s[r]
         /\ Append(s, e)[Len(s) + 1] = e
<1>1. Append(s, e) \in Seq(S) /\ Len(Append(s, e)) = Len(s) + 1
  OBVIOUS
<1>2. Append(s, e) \in [1 .. Len(s) + 1 -> S]
  BY <1>1, LenProperties
<1>3. Append(s, e) = [r \in 1 .. Len(s) + 1 |-> Append(s, e)[r]]
  BY <1>2, Zenon
<1>4. /\ DOMAIN Append(s, e) = 1 .. Len(s) + 1
      /\ \A r \in 1 .. Len(s) : Append(s, e)[r] = s[r]
      /\ Append(s, e)[Len(s) + 1] = e
  BY <1>2, AppendProperties
<1> QED
  BY <1>3, <1>4

\* A round that was just opened has no winner.
LEMMA WinnersOpened ==
  ASSUME NEW game \in GameRecord, LogRounds(game), NEW new, new.log = game.log,
         new.round = game.round + 1
  PROVE  winnersOf(new) = Append(winnersOf(game), {})
<1>1. game.round \in Nat
  BY DEF GameRecord
<1>2. \A p \in Pid : \A i \in DOMAIN game.log[p] : game.log[p][i].round # new.round
  BY <1>1 DEF LogRounds
<1>3. PICK w \in Seq(SUBSET Pid) : w = winnersOf(game)
  BY WinnersShape
<1>4. Len(w) = game.round
  BY <1>3, WinnersShape
<1>5. /\ DOMAIN Append(w, {}) = 1 .. new.round
      /\ Append(w, {}) = [r \in 1 .. new.round |-> Append(w, {})[r]]
      /\ \A r \in 1 .. game.round : Append(w, {})[r] = w[r]
      /\ Append(w, {})[new.round] = {}
  <2>1. {} \in SUBSET Pid
    OBVIOUS
  <2> QED
    BY <1>1, <1>4, <2>1, AppendShape
<1>6. \A r \in 1 .. new.round :
        {p \in Pid : \E i \in DOMAIN new.log[p] :
                       new.log[p][i].won /\ new.log[p][i].round = r} = Append(w, {})[r]
  <2> SUFFICES ASSUME NEW r \in 1 .. new.round
               PROVE  {p \in Pid : \E i \in DOMAIN game.log[p] :
                         game.log[p][i].won /\ game.log[p][i].round = r} = Append(w, {})[r]
    OBVIOUS
  <2>1. CASE r = new.round
    BY <1>2, <1>5, <2>1
  <2>2. CASE r # new.round
    <3>1. r \in 1 .. game.round
      BY <1>1, <2>2
    <3> QED
      BY <1>3, <1>5, <3>1 DEF winnersOf
  <2> QED
    BY <2>1, <2>2
<1> QED
  BY <1>3, <1>5, <1>6 DEF winnersOf

\* A guess in the round in play makes its player the winner, or nobody; there was none before.
LEMMA WinnersGuessed ==
  ASSUME NEW game, GameInv(game), NEW pid \in Pid, NEW entry \in Guess, NEW new,
         game.state = "IN_PROGRESS",
         \A p \in Pid : new.log[p] = IF p = pid THEN Append(game.log[p], entry)
                                     ELSE game.log[p],
         new.round = game.round, entry.round = game.round
  PROVE  /\ game.round \in 1 .. game.round
         /\ winnersOf(game)[game.round] = {}
         /\ winnersOf(new) = IF entry.won
                             THEN [winnersOf(game) EXCEPT ![game.round] = {pid}]
                             ELSE winnersOf(game)
<1>1. game.round \in Nat /\ game.round \in 1 .. game.round
  BY DEF GameInv, GameRecord, LogRounds
<1>2. \A p \in Pid : game.log[p] \in Seq(Guess)
  BY DEF GameInv, GameRecord
<1>3. ASSUME NEW p \in Pid, NEW r \in 1 .. game.round
      PROVE  (\E i \in DOMAIN new.log[p] : new.log[p][i].won /\ new.log[p][i].round = r)
               <=> \/ \E i \in DOMAIN game.log[p] :
                        game.log[p][i].won /\ game.log[p][i].round = r
                   \/ p = pid /\ entry.won /\ r = game.round
  <2>1. CASE p # pid
    BY <2>1
  <2>2. CASE p = pid
    <3> PICK old \in Seq(Guess) : old = game.log[p]
      BY <1>2
    <3>1. new.log[p] = Append(old, entry)
      BY <2>2
    <3>2. /\ DOMAIN Append(old, entry) = DOMAIN old \cup {Len(old) + 1}
          /\ Append(old, entry)[Len(old) + 1] = entry
          /\ \A i \in DOMAIN old : Append(old, entry)[i] = old[i]
      OBVIOUS
    <3> QED
      BY <2>2, <3>1, <3>2
  <2> QED
    BY <2>1, <2>2
<1>4. winnersOf(game)[game.round] = {}
  BY <1>1 DEF GameInv, RunningSecretUnguessed, winnersOf
<1>5. winnersOf(game) = [r \in 1 .. game.round |-> winnersOf(game)[r]]
  BY DEF winnersOf
<1>6. ASSUME NEW r \in 1 .. game.round
      PROVE  winnersOf(new)[r] = winnersOf(game)[r]
               \cup (IF entry.won /\ r = game.round THEN {pid} ELSE {})
  BY <1>3 DEF winnersOf
<1>7. winnersOf(new) = [r \in 1 .. game.round |-> winnersOf(new)[r]]
  BY DEF winnersOf
<1> HIDE DEF winnersOf
<1> PICK w, v : w = winnersOf(game) /\ v = winnersOf(new)
  OBVIOUS
<1>8. /\ w = [r \in 1 .. game.round |-> w[r]] /\ v = [r \in 1 .. game.round |-> v[r]]
      /\ w[game.round] = {}
      /\ \A r \in 1 .. game.round :
           v[r] = w[r] \cup (IF entry.won /\ r = game.round THEN {pid} ELSE {})
  BY <1>4, <1>5, <1>6, <1>7
<1>9. CASE entry.won
  <2>1. \A r \in 1 .. game.round : v[r] = [w EXCEPT ![game.round] = {pid}][r]
    <3> SUFFICES ASSUME NEW r \in 1 .. game.round
                 PROVE  v[r] = [w EXCEPT ![game.round] = {pid}][r]
      OBVIOUS
    <3>1. v[r] = w[r] \cup (IF r = game.round THEN {pid} ELSE {}) /\ r \in DOMAIN w
      BY <1>8, <1>9
    <3> QED
      BY <1>8, <3>1
  <2>2. v = [w EXCEPT ![game.round] = {pid}]
    BY <1>8, <2>1
  <2> QED
    BY <1>1, <1>4, <1>9, <2>2
<1>10. CASE ~entry.won
  <2>1. \A r \in 1 .. game.round : v[r] = w[r]
    <3> SUFFICES ASSUME NEW r \in 1 .. game.round PROVE v[r] = w[r]
      OBVIOUS
    <3>1. v[r] = w[r] \cup {}
      BY <1>8, <1>10
    <3> QED
      BY <3>1
  <2>2. v = w
    BY <1>8, <2>1
  <2> QED
    BY <1>1, <1>4, <1>10, <2>2
<1> QED
  BY <1>9, <1>10

\* A player who takes a free seat takes it for good, and opens a round if it is the last one;
\* one who has a seat already, by FIND_GAME, changes nothing.
LEMMA SeatShape ==
  ASSUME NEW game \in GameRecord, LogRounds(game), NEW pid \in Pid, NEW s \in Secret,
         IsFiniteSet(game.players), Cardinality(game.players) < game.max_players,
         NEW new, new = addPlayer(game, pid, s)
  PROVE  /\ new.max_players = game.max_players
         /\ new.players = game.players \cup {pid}
         /\ IF Cardinality(new.players) = new.max_players
            THEN /\ winnersOf(new) = Append(winnersOf(game), {})
                 /\ new.state = "IN_PROGRESS"
            ELSE winnersOf(new) = winnersOf(game) /\ new.state = game.state
         /\ pid \in game.players => new = game
<1> DEFINE joined == [game EXCEPT !.players = @ \cup {pid}]
<1>1. /\ joined.players = game.players \cup {pid}
      /\ joined.max_players = game.max_players
      /\ joined.state = game.state /\ joined.log = game.log /\ joined.round = game.round
      /\ pid \in game.players => joined = game
  BY DEF GameRecord
<1> HIDE DEF joined
<1>2. new = IF isReadyToStart(joined) THEN startGame(joined, s) ELSE joined
  BY DEF addPlayer, joined
<1>3. CASE isReadyToStart(joined)
  <2>1. /\ new.players = joined.players /\ new.max_players = joined.max_players
        /\ new.state = "IN_PROGRESS" /\ new.log = joined.log
        /\ new.round = joined.round + 1
    BY <1>2, <1>3 DEF startGame, joined, GameRecord
  <2>2. winnersOf(new) = Append(winnersOf(game), {})
    BY <1>1, <2>1, WinnersOpened
  <2>3. pid \notin game.players
    <3>1. Cardinality(game.players) \in Nat /\ game.max_players \in Nat
      BY FS_CardinalityType DEF GameRecord
    <3> QED
      BY <1>1, <1>3, <3>1 DEF isReadyToStart
  <2> QED
    BY <1>1, <1>3, <2>1, <2>2, <2>3 DEF isReadyToStart
<1>4. CASE ~isReadyToStart(joined)
  <2>1. winnersOf(new) = winnersOf(game)
    BY <1>1, <1>2, <1>4, WinnersKept
  <2> QED
    BY <1>1, <1>2, <1>4, <2>1 DEF isReadyToStart
<1> QED
  BY <1>3, <1>4

LEMMA FoundShape ==
  ASSUME NEW n \in Nat \ {0}, NEW pid \in Pid, NEW s \in Secret,
         NEW new, new = addPlayer(NewGame(n), pid, s)
  PROVE  /\ new.max_players = n
         /\ new.players = {} \cup {pid}
         /\ IF Cardinality(new.players) = n
            THEN winnersOf(new) = Append(<<>>, {}) /\ new.state = "IN_PROGRESS"
            ELSE winnersOf(new) = <<>> /\ new.state = "WAITING_FOR_PLAYERS"
<1> PICK game : game = NewGame(n)
  OBVIOUS
<1>1. /\ game \in GameRecord /\ LogRounds(game) /\ IsFiniteSet(game.players)
      /\ Cardinality(game.players) < game.max_players
      /\ new = addPlayer(game, pid, s)
  BY NewGameLemma
<1>2. /\ game.players = {} /\ game.max_players = n /\ winnersOf(game) = <<>>
      /\ game.state = "WAITING_FOR_PLAYERS"
  BY DEF NewGame, winnersOf
<1>3. /\ new.max_players = game.max_players
      /\ new.players = game.players \cup {pid}
      /\ IF Cardinality(new.players) = new.max_players
         THEN /\ winnersOf(new) = Append(winnersOf(game), {})
              /\ new.state = "IN_PROGRESS"
         ELSE winnersOf(new) = winnersOf(game) /\ new.state = game.state
  BY <1>1, SeatShape
<1> QED
  BY <1>2, <1>3

\* A guess that is taken either wins the round, which had no winner, or changes no winner.
LEMMA GuessShape ==
  ASSUME NEW game, GameInv(game), NEW pid \in Pid, NEW word,
         NEW new, new = guess(game, pid, word), new # game
  PROVE  /\ game.round \in 1 .. game.round
         /\ game.state = "IN_PROGRESS" /\ winnersOf(game)[game.round] = {}
         /\ \/ /\ winnersOf(new) = [winnersOf(game) EXCEPT ![game.round] = {pid}]
               /\ new.state = "GAME_OVER"
            \/ winnersOf(new) = winnersOf(game) /\ new.state = game.state
<1>1. PICK entry \in Guess :
        /\ game.state = "IN_PROGRESS"
        /\ \A p \in Pid : new.log[p] = IF p = pid THEN Append(game.log[p], entry)
                                     ELSE game.log[p]
        /\ new.round = game.round
        /\ entry.round = game.round
        /\ new.state = IF entry.won THEN "GAME_OVER" ELSE game.state
  BY GuessStep
<1>2. /\ game.round \in 1 .. game.round
      /\ winnersOf(game)[game.round] = {}
      /\ winnersOf(new) = IF entry.won
                          THEN [winnersOf(game) EXCEPT ![game.round] = {pid}]
                          ELSE winnersOf(game)
  BY <1>1, WinnersGuessed
<1> QED
  BY <1>1, <1>2

\* Module Rounds counts players as the server does.
LEMMA SameCardinality ==
  ASSUME NEW g, NEW S
  PROVE  Abstract(g)!Cardinality(S) = Cardinality(S)
  BY DEF Abstract!Cardinality, Cardinality

\* What happens to a game is a step of its rounds, or nothing to them.
LEMMA RoundsNext ==
  ASSUME IInv, [Next]_vars, NEW g \in Word
  PROVE  [Abstract(g)!Next]_(Abstract(g)!vars)
<1>1. ASSUME Founded(g)' <=> Founded(g), Founded(g) => games'[g] = games[g]
      PROVE  UNCHANGED Abstract(g)!vars
  BY <1>1 DEF Abstract!vars, Founded, winnersOf
<1>2. CASE UNCHANGED vars
  BY <1>1, <1>2 DEF vars, Founded
<1>3. CASE Next /\ ~Founded(g) /\ ~Founded(g)'
  BY <1>1, <1>3
<1>4. CASE Next /\ ~Founded(g) /\ Founded(g)'
  <2>1. PICK msg \in Inbox : processMessage(msg)
    BY <1>4 DEF Next
  <2>2. /\ msg.client_pid \in Pid
        /\ Kept(msg) \/ Created(msg) \/ Seated(msg) \/ Left(msg) \/ Guessed(msg)
    BY <2>1, ServerAssumption, StepShape DEF IInv, Message
  <2>3. Created(msg)
    BY <1>4, <2>2 DEF Kept, Seated, Left, Guessed, Update, Founded, IInv
  <2>4. PICK n \in Nat \ {0}, s \in Secret : games'[g] = addPlayer(NewGame(n), msg.client_pid, s)
    BY <1>4, <2>3 DEF Created, createGame, Founded
  <2>5. /\ NewGame(n).players = {} /\ Cardinality({}) = 0
        /\ NewGame(n).max_players = n /\ NewGame(n).state = "WAITING_FOR_PLAYERS"
        /\ winnersOf(NewGame(n)) = <<>>
        /\ NewGame(n) \in GameRecord /\ LogRounds(NewGame(n))
    BY NewGameLemma, FS_EmptySet DEF NewGame, winnersOf
  <2> PICK new : new = games'[g]
    OBVIOUS
  <2>6. /\ new.max_players = n
        /\ new.players = {} \cup {msg.client_pid}
        /\ IF Cardinality(new.players) = n
           THEN winnersOf(new) = Append(<<>>, {}) /\ new.state = "IN_PROGRESS"
           ELSE winnersOf(new) = <<>> /\ new.state = "WAITING_FOR_PLAYERS"
    BY <2>2, <2>4, FoundShape
  <2>7. Abstract(g)!Take(msg.client_pid)
    <3>1. /\ Abstract(g)!Cardinality({}) = 0
          /\ Abstract(g)!Cardinality(new.players) = Cardinality(new.players)
      BY <2>5, SameCardinality
    <3> QED
      BY <1>4, <2>5, <2>6, <3>1 DEF Abstract!Take
  <2> QED
    BY <2>2, <2>7 DEF Abstract!Next
<1>5. CASE Next /\ Founded(g)
  <2>1. g \in DOMAIN games /\ Founded(g)' /\ GameInv(games[g])
    <3>1. PICK msg \in Inbox : processMessage(msg)
      BY <1>5 DEF Next
    <3>2. Kept(msg) \/ Created(msg) \/ Seated(msg) \/ Left(msg) \/ Guessed(msg)
      BY <3>1, ServerAssumption, StepShape DEF IInv
    <3>3. DOMAIN games \subseteq DOMAIN games'
      BY <3>2 DEF Kept, Created, createGame, Seated, Left, Guessed, Update, IInv
    <3> QED
      BY <1>5, <3>3 DEF Founded, IInv
  <2> PICK game, new : game = games[g] /\ new = games'[g]
    OBVIOUS
  <2>2. /\ Founded(g) /\ Founded(g)' /\ GameInv(game) /\ game \in GameRecord
        /\ games[g] = game /\ games'[g] = new
    BY <2>1, <1>5 DEF GameInv
  <2>3. PICK pid \in Pid :
          \/ new = game
          \/ \E s \in Secret : ~isFull(game) /\ new = addPlayer(game, pid, s)
          \/ pid \in game.players /\ new = removePlayer(game, pid)
          \/ pid \in game.players /\ \E w \in Word : new = guess(game, pid, w)
    <3>1. CASE Pid # {}
      BY <2>1, <2>2, <3>1, OneMethod
    <3>2. CASE Pid = {}
      BY <1>5, <3>2, ServerAssumption DEF Next, Message
    <3> QED
      BY <3>1, <3>2
  <2>4. CASE new = game
    BY <1>1, <2>2, <2>4
  <2>5. ASSUME NEW s \in Secret, ~isFull(game), new = addPlayer(game, pid, s), new # game
        PROVE  Abstract(g)!Take(pid)
    <3>1. /\ IsFiniteSet(game.players) /\ LogRounds(game)
          /\ Cardinality(game.players) < game.max_players
          /\ game.max_players \in Nat \ {0}
      <4>1. /\ Cardinality(game.players) \in Nat
            /\ Cardinality(game.players) <= game.max_players
        BY <2>2, FS_CardinalityType DEF GameInv, StateMatchesSeats
      <4> QED
        BY <2>2, <2>5, <4>1 DEF isFull, GameInv, StateMatchesSeats, GameRecord
    <3>2. /\ new.max_players = game.max_players
          /\ new.players = game.players \cup {pid}
          /\ IF Cardinality(new.players) = new.max_players
             THEN /\ winnersOf(new) = Append(winnersOf(game), {})
                  /\ new.state = "IN_PROGRESS"
             ELSE winnersOf(new) = winnersOf(game) /\ new.state = game.state
          /\ pid \notin game.players
      BY <2>2, <2>5, <3>1, SeatShape
    <3>3. /\ Abstract(g)!Cardinality(game.players) = Cardinality(game.players)
          /\ Abstract(g)!Cardinality(new.players) = Cardinality(new.players)
      BY SameCardinality
    <3> QED
      BY <2>2, <3>1, <3>2, <3>3 DEF Abstract!Take
  <2>6. ASSUME pid \in game.players, new = removePlayer(game, pid)
        PROVE  Abstract(g)!Leave(pid)
    <3>1. /\ new.players = game.players \ {pid} /\ new.max_players = game.max_players
          /\ new.log = game.log /\ new.round = game.round
          /\ new.state = IF new.players = {} THEN "GAME_OVER" ELSE game.state
      BY <2>2, <2>6 DEF removePlayer, GameRecord
    <3>2. winnersOf(new) = winnersOf(game)
      BY <3>1, WinnersKept
    <3> QED
      BY <2>2, <2>6, <3>1, <3>2 DEF Abstract!Leave
  <2>7. ASSUME pid \in game.players, NEW w \in Word, new = guess(game, pid, w), new # game
        PROVE  Abstract(g)!Win(pid) \/ UNCHANGED Abstract(g)!vars
    <3>1. /\ game.round \in 1 .. game.round
          /\ game.state = "IN_PROGRESS" /\ winnersOf(game)[game.round] = {}
          /\ \/ /\ winnersOf(new) = [winnersOf(game) EXCEPT ![game.round] = {pid}]
                /\ new.state = "GAME_OVER"
             \/ winnersOf(new) = winnersOf(game) /\ new.state = game.state
      BY <2>2, <2>7, GuessShape
    <3>2. new.players = game.players /\ new.max_players = game.max_players
      BY <2>2, <2>7 DEF guess, GameRecord
    <3>3. Len(winnersOf(game)) = game.round
      BY <2>2, WinnersShape
    <3>4. CASE new.state = "GAME_OVER" /\ winnersOf(new) =
                 [winnersOf(game) EXCEPT ![game.round] = {pid}]
      BY <2>2, <2>7, <3>1, <3>2, <3>3, <3>4 DEF Abstract!Win
    <3>5. CASE winnersOf(new) = winnersOf(game) /\ new.state = game.state
      BY <2>2, <3>2, <3>5 DEF Abstract!vars
    <3> QED
      BY <3>1, <3>4, <3>5
  <2> QED
    BY <2>3, <2>4, <2>5, <2>6, <2>7 DEF Abstract!Next
<1> QED
  BY <1>2, <1>3, <1>4, <1>5

\* Each game goes through its rounds as module Rounds says, for any number of players, games
\* and rounds: stated as the run checks it and as the implementation that it amounts to.
THEOREM RoundsRefined == Spec => RefinesRounds /\ \A g \in Word : Abstract(g)!Spec
<1>1. ASSUME Init, NEW g \in Word PROVE Abstract(g)!Init
  BY <1>1 DEF Init, Abstract!Init, Founded
<1>2. Spec => RefinesRounds
  <2>1. Init => \A g \in Word : Abstract(g)!Init
    BY <1>1
  <2>2. ASSUME IInv, [Next]_vars
        PROVE  [RoundsStep]_vars
    <3>1. \A g \in Word : [Abstract(g)!Next]_(Abstract(g)!vars)
      BY <2>2, RoundsNext
    <3>2. DOMAIN games \cup DOMAIN games' \subseteq Word
      BY <2>2, NextIInv DEF IInv
    <3> QED
      BY <3>1, <3>2 DEF RoundsStep
  <2> QED
    BY <2>1, <2>2, Invariance, PTL DEF Spec, RefinesRounds
<1>3. ASSUME NEW CONSTANT g \in Word
      PROVE  Spec => Abstract(g)!Spec
  <2>1. Init => Abstract(g)!Init
    BY <1>1
  <2>2. ASSUME IInv, [Next]_vars
        PROVE  [Abstract(g)!Next]_(Abstract(g)!vars)
    BY <2>2, RoundsNext
  <2> QED
    BY <2>1, <2>2, Invariance, PTL DEF Spec, Abstract!Spec
<1> QED
  BY <1>2, <1>3
=============================================================================
