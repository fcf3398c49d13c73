---------------------------- MODULE SystemProofs ----------------------------
(***************************************************************************)
(* Theorems about System, for every set of clients and of commands.  Its   *)
(* steps are steps of Server or leave the games alone, so that the         *)
(* theorems of ServerProofs hold in it; the prompt of a client is true, by *)
(* an invariant about the answers that are still in its FIFO.              *)
(***************************************************************************)
EXTENDS System, ServerProofs

\* The messages that clients write.
Wire ==
  [type : {cmd.type : cmd \in Command}, client_pid : Pid,
   payload : {cmd.payload : cmd \in Command}]

\* A message in the FIFO was sent by its sender.
Queue ==
  /\ toServer \in Seq(Wire)
  /\ \A k \in DOMAIN toServer :
       \E cmd \in asked[toServer[k].client_pid] : cmd.type = toServer[k].type

\* The shape of the state of the clients.
Clients ==
  /\ toClient \in [Pid -> Seq([type : ReplyType, about : SUBSET DOMAIN games])]
  /\ phase \in [Pid -> {"off", "prompt", "sleep", "closing", "gone"}]
  /\ reader \in [Pid -> {"off", "opening", "reading", "closed"}]
  /\ running \in [Pid -> BOOLEAN]
  /\ current_game_name \in [Pid -> Word \cup {NoName, Jumble}]
  /\ sent \in [Pid -> Nat]
  /\ asked \in [Pid -> SUBSET Command]
  /\ garbled \in [Pid -> BOOLEAN]

\* Nothing is told to a client that does not listen yet, or no more.
Unheard ==
  \A c \in Pid :
    /\ toClient[c] # <<>> => reader[c] = "reading"
    /\ reader[c] \in {"off", "opening"} => current_game_name[c] = NoName
    /\ phase[c] = "off" => reader[c] = "off"

HasSeat(c, g) == g \in DOMAIN games /\ c \in games[g].players

ShowsSeat(c, name) == \E g \in Word : HasSeat(c, g) /\ Shown[g] = name

\* A seat that a client was told of, in its prompt or in an answer it has not read,
\* is there, unless a later answer says that it left a game.
Told ==
  \A c \in Pid :
    /\ \A k \in DOMAIN toClient[c] :
         /\ toClient[c][k].type \in {"GAME_CREATED", "GAME_JOINED"}
         /\ \A m \in DOMAIN toClient[c] : m > k => toClient[c][m].type # "LEFT"
         => \A g \in toClient[c][k].about : HasSeat(c, g)
    /\ /\ reader[c] = "reading"
       /\ ~garbled[c]
       /\ current_game_name[c] # NoName
       /\ \A m \in DOMAIN toClient[c] : toClient[c][m].type # "LEFT"
       => ShowsSeat(c, current_game_name[c])

SysInv == IInv /\ Queue /\ Clients /\ Unheard /\ Told

-----------------------------------------------------------------------------
\* The read of a FIFO that holds messages of clients is taken for one that the
\* server's handlers expect, of the type and the sender of the first message.
LEMMA ParsedLemma ==
  ASSUME toServer \in Seq(Wire), toServer # <<>>, NEW msg \in fromString(toServer)
  PROVE  /\ msg \in Inbox /\ msg \in Message
         /\ msg.type = toServer[1].type
         /\ msg.client_pid = toServer[1].client_pid
<1>1. /\ 1 \in DOMAIN toServer
      /\ toServer[1] \in Wire
      /\ toServer[Len(toServer)] \in Wire
  <2>1. Len(toServer) \in Nat /\ Len(toServer) >= 1 /\ DOMAIN toServer = 1 .. Len(toServer)
    OBVIOUS
  <2> QED
    BY <2>1
<1> DEFINE first == toServer[1]
           last == toServer[Len(toServer)]
<1>2. PICK p \in IF first.payload = <<>> THEN {<<>>}
                 ELSE IF Size[first.payload] = Size[last.payload] THEN {last.payload}
                 ELSE Scrap[<<first.payload, last.payload>>] :
           msg = [first EXCEPT !.payload = p]
  BY DEF fromString
<1> DEFINE Payload == {cmd.payload : cmd \in Command}
<1>3. p \in Payload \cup UNION {Scrap[pair] : pair \in Payload \X Payload}
  <2>1. first.payload \in Payload /\ last.payload \in Payload
    BY <1>1 DEF Wire
  <2>2. first.payload = <<>> => <<>> \in Payload
    BY <2>1
  <2> HIDE DEF Payload, first, last
  <2> QED
    BY <1>2, <2>1, <2>2
<1>4. /\ msg = [type |-> first.type, client_pid |-> first.client_pid, payload |-> p]
      /\ first.type \in {cmd.type : cmd \in Command}
      /\ first.client_pid \in Pid
  <2> HIDE DEF first
  <2>1. first \in Wire
    BY <1>1 DEF first
  <2> QED
    BY <1>2, <2>1 DEF Wire
<1>5. msg \in Parsed
  BY <1>3, <1>4 DEF Parsed
<1> QED
  BY <1>4, <1>5, SystemAssumption, ServerAssumption

\* A step of the server is a step of module Server.
LEMMA ServerReadIsNext ==
  ASSUME toServer \in Seq(Wire), ServerRead
  PROVE  Next
<1>1. PICK msg \in fromString(toServer) : processMessage(msg)
  BY DEF ServerRead
<1>2. msg \in Inbox
  BY <1>1, ParsedLemma DEF ServerRead
<1> QED
  BY <1>1, <1>2 DEF Next, ServerRead

\* A seat is lost only by its owner's LEAVE_GAME, which is answered as such, and
\* gained only by a command for it.
LEMMA SeatChange ==
  ASSUME IInv, NEW msg \in Message, processMessage(msg), NEW c \in Pid, NEW g
  PROVE  /\ HasSeat(c, g) =>
              \/ HasSeat(c, g)'
              \/ /\ c = msg.client_pid
                 /\ msg.type = "LEAVE_GAME"
                 /\ response'.type = "LEFT"
         /\ HasSeat(c, g)' =>
              \/ HasSeat(c, g)
              \/ /\ c = msg.client_pid
                 /\ msg.type \in {"CREATE_GAME", "JOIN_GAME", "FIND_GAME"}
         /\ DOMAIN games \subseteq DOMAIN games'
<1>1. /\ Kept(msg) \/ Created(msg) \/ Seated(msg) \/ Left(msg) \/ Guessed(msg)
      /\ msg.client_pid \in Pid
      /\ \A k \in DOMAIN games : GameInv(games[k])
  BY StepShape DEF IInv, Message
<1>2. CASE Kept(msg)
  BY <1>2 DEF Kept, HasSeat
<1>3. CASE Created(msg)
  <2>1. PICK name \in Word \ DOMAIN games, n \in Nat \ {0}, s \in Secret :
          games' = [createGame(name, n) EXCEPT ![name] = addPlayer(@, msg.client_pid, s)]
    BY <1>3 DEF Created
  <2>2. /\ DOMAIN games' = DOMAIN games \cup {name}
        /\ games'[name] = addPlayer(NewGame(n), msg.client_pid, s)
        /\ \A k \in DOMAIN games : games'[k] = games[k]
    BY <2>1 DEF createGame
  <2>3. games'[name].players \subseteq {msg.client_pid}
    BY <2>2 DEF addPlayer, startGame, NewGame
  <2> QED
    BY <1>3, <2>2, <2>3 DEF HasSeat, Created
<1>4. CASE Seated(msg)
  <2>1. PICK k \in DOMAIN games, s \in Secret :
          ~isFull(games[k]) /\ games' = Update(k, addPlayer(games[k], msg.client_pid, s))
    BY <1>4 DEF Seated
  <2>2. /\ DOMAIN games' = DOMAIN games
        /\ games'[k] = addPlayer(games[k], msg.client_pid, s)
        /\ \A h \in DOMAIN games \ {k} : games'[h] = games[h]
    BY <2>1 DEF Update
  <2>3. games'[k].players = games[k].players \cup {msg.client_pid}
    BY <1>1, <2>1, <2>2, AddPlayerStep
  <2> QED
    BY <1>4, <2>2, <2>3 DEF HasSeat, Seated
<1>5. CASE Left(msg)
  <2>1. PICK k \in DOMAIN games :
          games' = Update(k, removePlayer(games[k], msg.client_pid))
    BY <1>5 DEF Left
  <2>2. /\ DOMAIN games' = DOMAIN games
        /\ games'[k] = removePlayer(games[k], msg.client_pid)
        /\ \A h \in DOMAIN games \ {k} : games'[h] = games[h]
    BY <2>1 DEF Update
  <2>3. /\ games'[k].players \subseteq games[k].players
        /\ games[k].players \subseteq games'[k].players \cup {msg.client_pid}
    BY <1>1, <2>2 DEF removePlayer, GameInv, GameRecord
  <2> QED
    BY <1>5, <2>2, <2>3 DEF HasSeat, Left
<1>6. CASE Guessed(msg)
  <2>1. PICK k \in DOMAIN games, w \in Word :
          games' = Update(k, guess(games[k], msg.client_pid, w))
    BY <1>6 DEF Guessed
  <2>2. /\ DOMAIN games' = DOMAIN games
        /\ games'[k] = guess(games[k], msg.client_pid, w)
        /\ \A h \in DOMAIN games \ {k} : games'[h] = games[h]
    BY <2>1 DEF Update
  <2>3. games'[k].players = games[k].players
    BY <1>1, <2>2 DEF guess, GameInv, GameRecord
  <2> QED
    BY <2>2, <2>3 DEF HasSeat
<1> QED
  BY <1>1, <1>2, <1>3, <1>4, <1>5, <1>6

-----------------------------------------------------------------------------
(***************************************************************************)
(* The induction, one lemma for the server and one for the clients.        *)
(***************************************************************************)

LEMMA SysInitInv == SysInit => SysInv
<1> SUFFICES ASSUME SysInit PROVE SysInv
  OBVIOUS
<1>1. IInv
  BY InitIInv DEF SysInit
<1>2. Queue
  BY DEF SysInit, Queue
<1>3. Clients
  BY DEF SysInit, Clients
<1>4. Unheard /\ Told
  BY DEF SysInit, Unheard, Told
<1> QED
  BY <1>1, <1>2, <1>3, <1>4 DEF SysInv

\* What a turn of the server does, in terms of the message it took.
LEMMA ServerReadShape ==
  ASSUME SysInv, ServerRead
  PROVE  \E msg \in Message :
           /\ processMessage(msg)
           /\ response'.request = msg
           /\ \E cmd \in asked[msg.client_pid] : cmd.type = msg.type
           /\ msg.client_pid \in Pid
           /\ IInv'
           /\ DOMAIN games \subseteq DOMAIN games'
           /\ toClient' = IF reader[msg.client_pid] = "reading"
                          THEN [toClient EXCEPT ![msg.client_pid] =
                                  Append(@, [type |-> response'.type,
                                             about |-> response'.about])]
                          ELSE toClient
<1>1. IInv /\ Queue
  BY DEF SysInv
<1>2. toServer \in Seq(Wire) /\ toServer # <<>>
  BY <1>1 DEF Queue, ServerRead
<1>3. IInv'
  BY <1>1, <1>2, ServerReadIsNext, NextIInv
<1>4. PICK msg \in fromString(toServer) : processMessage(msg)
  BY DEF ServerRead
<1>5. /\ msg \in Message
      /\ msg.type = toServer[1].type
      /\ msg.client_pid = toServer[1].client_pid
  BY <1>2, <1>4, ParsedLemma
<1>6. response'.request = msg
  BY <1>1, <1>4, <1>5, StepShape DEF IInv
<1>7. \E cmd \in asked[msg.client_pid] : cmd.type = msg.type
  <2>1. 1 \in DOMAIN toServer
    BY <1>2
  <2> QED
    BY <1>1, <1>5, <2>1 DEF Queue
<1>8. DOMAIN games \subseteq DOMAIN games'
  <2>1. CASE Pid = {}
    BY <1>5, <2>1 DEF Message
  <2>2. CASE Pid # {}
    BY <1>1, <1>4, <1>5, <2>2, SeatChange
  <2> QED
    BY <2>1, <2>2
<1>9. msg.client_pid \in Pid
  BY <1>5 DEF Message
<1> QED
  BY <1>3, <1>4, <1>5, <1>6, <1>7, <1>8, <1>9 DEF ServerRead, sendResponse

LEMMA ServerReadInv ==
  ASSUME SysInv, ServerRead
  PROVE  SysInv'
<1>1. PICK msg \in Message :
        /\ processMessage(msg)
        /\ response'.request = msg
        /\ msg.client_pid \in Pid
        /\ IInv'
        /\ DOMAIN games \subseteq DOMAIN games'
        /\ toClient' = IF reader[msg.client_pid] = "reading"
                       THEN [toClient EXCEPT ![msg.client_pid] =
                               Append(@, [type |-> response'.type,
                                          about |-> response'.about])]
                       ELSE toClient
  BY ServerReadShape
<1> DEFINE p == msg.client_pid
           answer == [type |-> response'.type, about |-> response'.about]
           Reply == [type : ReplyType, about : SUBSET DOMAIN games]
<1>2. /\ IInv /\ Queue /\ Clients /\ Unheard /\ Told
      /\ UNCHANGED client
      /\ toServer' = <<>>
  BY DEF SysInv, ServerRead
<1>3. answer \in Reply'
  BY <1>1 DEF IInv
<1>4. \A c \in Pid : toClient[c] \in Seq(Reply')
  <2>1. \A c \in Pid : toClient[c] \in Seq(Reply)
    BY <1>2 DEF Clients
  <2>2. Reply \subseteq Reply'
    BY <1>1
  <2> HIDE DEF Reply
  <2> QED
    BY <2>1, <2>2
<1>5. \A c \in Pid :
        /\ c # p \/ reader[p] # "reading" => toClient'[c] = toClient[c]
        /\ c = p /\ reader[p] = "reading" => toClient'[c] = Append(toClient[c], answer)
  BY <1>1, <1>2 DEF Clients
<1> HIDE DEF answer, Reply
<1>6. Clients'
  <2>1. \A c \in Pid : toClient'[c] \in Seq(Reply')
    BY <1>3, <1>4, <1>5
  <2>2. toClient' \in [Pid -> Seq(Reply')]
    <3>1. toClient' = [c \in Pid |-> toClient'[c]]
      BY <1>1, <1>2 DEF Clients
    <3> QED
      BY <2>1, <3>1
  <2> QED
    BY <1>2, <2>2 DEF Clients, client, Reply
<1>7. Queue'
  BY <1>2 DEF Queue
<1>8. Unheard'
  BY <1>2, <1>5 DEF Unheard, client
<1>9. \A c \in Pid, g \in Word :
        /\ HasSeat(c, g) =>
             HasSeat(c, g)' \/ (c = p /\ response'.type = "LEFT")
        /\ response'.type \in {"GAME_CREATED", "GAME_JOINED"} /\ g \in response'.about
             => HasSeat(p, g)'
  <2>1. \A c \in Pid, g \in Word :
          HasSeat(c, g) => HasSeat(c, g)' \/ (c = p /\ response'.type = "LEFT")
    BY <1>1, <1>2, SeatChange
  <2> QED
    BY <1>1, <2>1 DEF IInv, JoinedMeansSeated, HasSeat
<1>10. Told'
  <2> SUFFICES ASSUME NEW c \in Pid
               PROVE  /\ \A k \in DOMAIN toClient'[c] :
                           /\ toClient'[c][k].type \in {"GAME_CREATED", "GAME_JOINED"}
                           /\ \A m \in DOMAIN toClient'[c] :
                                m > k => toClient'[c][m].type # "LEFT"
                           => \A g \in toClient'[c][k].about : HasSeat(c, g)'
                      /\ /\ reader[c] = "reading"
                         /\ ~garbled[c]
                         /\ current_game_name[c] # NoName
                         /\ \A m \in DOMAIN toClient'[c] : toClient'[c][m].type # "LEFT"
                         => ShowsSeat(c, current_game_name[c])'
    BY <1>2 DEF Told, client
  <2>1. /\ \A k \in DOMAIN toClient[c] :
             /\ toClient[c][k].type \in {"GAME_CREATED", "GAME_JOINED"}
             /\ \A m \in DOMAIN toClient[c] : m > k => toClient[c][m].type # "LEFT"
             => \A g \in toClient[c][k].about : HasSeat(c, g)
        /\ /\ reader[c] = "reading"
           /\ ~garbled[c]
           /\ current_game_name[c] # NoName
           /\ \A m \in DOMAIN toClient[c] : toClient[c][m].type # "LEFT"
           => ShowsSeat(c, current_game_name[c])
    BY <1>2 DEF Told
  <2>2. /\ current_game_name'[c] = current_game_name[c]
        /\ \A k \in DOMAIN toClient[c] : toClient[c][k].about \subseteq Word
        /\ Len(toClient[c]) \in Nat
        /\ DOMAIN toClient[c] = 1 .. Len(toClient[c])
    <3>1. toClient[c] \in Seq(Reply)
      BY <1>2 DEF Clients, Reply
    <3>2. /\ Len(toClient[c]) \in Nat
          /\ DOMAIN toClient[c] = 1 .. Len(toClient[c])
          /\ \A k \in DOMAIN toClient[c] : toClient[c][k] \in Reply
      BY <3>1
    <3> QED
      BY <1>2, <3>2 DEF Reply, client, IInv
  <2>3. CASE c # p \/ reader[p] # "reading"
    <3>1. toClient'[c] = toClient[c]
      BY <1>5, <2>3
    <3>2. CASE c # p
      <4>1. \A g \in Word : HasSeat(c, g) => HasSeat(c, g)'
        BY <1>9, <3>2
      <4>2. ShowsSeat(c, current_game_name[c]) => ShowsSeat(c, current_game_name[c])'
        BY <2>2, <4>1 DEF ShowsSeat
      <4> QED
        BY <2>1, <2>2, <3>1, <4>1, <4>2
    <3>3. CASE reader[c] # "reading"
      <4>1. toClient[c] = <<>>
        BY <1>2, <3>3 DEF Unheard
      <4> QED
        BY <3>1, <3>3, <4>1
    <3> QED
      BY <2>3, <3>2, <3>3
  <2>4. CASE c = p /\ reader[p] = "reading"
    <3> DEFINE last == Len(toClient[c]) + 1
    <3>1. /\ DOMAIN toClient'[c] = 1 .. last
          /\ toClient'[c][last] = answer
          /\ \A k \in DOMAIN toClient[c] : toClient'[c][k] = toClient[c][k]
          /\ \A k \in DOMAIN toClient[c] : k \in 1 .. last /\ last > k
          /\ \A k \in 1 .. last : k = last \/ k \in DOMAIN toClient[c]
          /\ last \in 1 .. last
      BY <1>3, <1>4, <1>5, <2>2, <2>4
    <3>2. answer.type = response'.type /\ answer.about = response'.about
      BY DEF answer
    <3> HIDE DEF last
    <3>3. CASE response'.type = "LEFT"
      BY <3>1, <3>2, <3>3
    <3>4. CASE response'.type # "LEFT"
      <4>1. \A g \in Word : HasSeat(c, g) => HasSeat(c, g)'
        BY <1>9, <3>4
      <4>2. ASSUME NEW k \in 1 .. last,
                   toClient'[c][k].type \in {"GAME_CREATED", "GAME_JOINED"},
                   \A m \in 1 .. last : m > k => toClient'[c][m].type # "LEFT",
                   NEW g \in toClient'[c][k].about
            PROVE  HasSeat(c, g)'
        <5>1. CASE k = last
          <6>1. response'.about \subseteq Word
            BY <1>1 DEF IInv
          <6> QED
            BY <1>9, <2>4, <3>1, <3>2, <4>2, <5>1, <6>1
        <5>2. CASE k # last
          <6>1. k \in DOMAIN toClient[c] /\ toClient'[c][k] = toClient[c][k]
            BY <3>1, <5>2
          <6>2. HasSeat(c, g)
            BY <2>1, <3>1, <4>2, <6>1
          <6> QED
            BY <2>2, <4>1, <4>2, <6>1, <6>2
        <5> QED
          BY <5>1, <5>2
      <4>3. ASSUME reader[c] = "reading", ~garbled[c], current_game_name[c] # NoName,
                   \A m \in 1 .. last : toClient'[c][m].type # "LEFT"
            PROVE  ShowsSeat(c, current_game_name[c])'
        <5>1. ShowsSeat(c, current_game_name[c])
          BY <2>1, <3>1, <4>3
        <5> QED
          BY <2>2, <4>1, <5>1 DEF ShowsSeat
      <4> QED
        BY <3>1, <4>2, <4>3
    <3> QED
      BY <3>3, <3>4
  <2> QED
    BY <2>3, <2>4
<1> QED
  BY <1>1, <1>6, <1>7, <1>8, <1>10 DEF SysInv

LEMMA NonEmptySeq ==
  ASSUME NEW S, NEW s \in Seq(S), s # <<>>
  PROVE  /\ Len(s) \in Nat /\ Len(s) >= 1
         /\ DOMAIN s = 1 .. Len(s)
         /\ s[1] \in S
  OBVIOUS

LEMMA EmptiedSeq ==
  ASSUME NEW S, NEW f \in [Pid -> Seq(S)], NEW c \in Pid
  PROVE  [f EXCEPT ![c] = <<>>] \in [Pid -> Seq(S)]
  OBVIOUS

\* The clients leave the games alone; what they do to their own state keeps it true.
LEMMA ClientInv ==
  ASSUME SysInv, UNCHANGED vars, NEW c \in Pid,
         User(c) \/ Loop(c) \/ Close(c) \/ ReaderOpen(c) \/ ReaderRead(c) \/ ReaderStop(c)
  PROVE  SysInv'
<1>1. /\ IInv /\ Queue /\ Clients /\ Unheard /\ Told
      /\ UNCHANGED games
      /\ IInv'
  BY NextIInv DEF SysInv, vars
<1>2. \A d \in Pid : \A g : HasSeat(d, g)' <=> HasSeat(d, g)
  BY <1>1 DEF HasSeat
<1>3. ASSUME \A d \in Pid : toClient'[d] = toClient[d] \/ toClient'[d] = <<>>,
             \A d \in Pid : reader'[d] = "reading" /\ ~garbled'[d] =>
               \/ /\ toClient'[d] = toClient[d]
                  /\ reader[d] = "reading"
                  /\ garbled'[d] = garbled[d]
                  /\ current_game_name'[d] = current_game_name[d]
               \/ current_game_name'[d] = NoName
               \/ ShowsSeat(d, current_game_name'[d])
      PROVE  Told'
  <2>1. \A d \in Pid : \A g : ShowsSeat(d, g)' <=> ShowsSeat(d, g)
    BY <1>2 DEF ShowsSeat
  <2> QED
    BY <1>1, <1>2, <1>3, <2>1 DEF Told
<1>4. ASSUME UNCHANGED <<toServer, toClient, current_game_name, sent, asked, garbled>>,
             \/ UNCHANGED reader
             \/ reader[c] = "off" /\ reader' = [reader EXCEPT ![c] = "opening"],
             phase' \in [Pid -> {"off", "prompt", "sleep", "closing", "gone"}],
             running' \in [Pid -> BOOLEAN],
             \A d \in Pid : phase'[d] = "off" => phase[d] = "off" /\ reader'[d] = reader[d]
      PROVE  SysInv'
  <2>1. Queue'
    BY <1>1, <1>4 DEF Queue
  <2>2. Clients'
    BY <1>1, <1>4 DEF Clients
  <2>3. \A d \in Pid : \/ reader'[d] = reader[d]
                       \/ reader[d] = "off" /\ reader'[d] = "opening"
    BY <1>1, <1>4 DEF Clients
  <2>4. Unheard'
    BY <1>1, <1>4, <2>3 DEF Unheard
  <2>5. Told'
    BY <1>4, <2>3, <1>3
  <2> QED
    BY <1>1, <2>1, <2>2, <2>4, <2>5 DEF SysInv
<1>5. CASE Start(c)
  BY <1>1, <1>4, <1>5 DEF Start, Clients, Unheard
<1>6. CASE EmptyLine(c) \/ Loop(c) \/ Close(c)
  BY <1>1, <1>4, <1>6 DEF EmptyLine, Loop, Close, Clients
<1>7. CASE Interrupt(c)
  BY <1>1, <1>4, <1>7 DEF Interrupt, Clients
<1>8. ASSUME NEW cmd \in Command, Enter(c, cmd)
      PROVE  SysInv'
  <2> DEFINE msg == [type |-> cmd.type, client_pid |-> c, payload |-> cmd.payload]
  <2>1. /\ toServer' = Append(toServer, msg)
        /\ asked' = [asked EXCEPT ![c] = @ \cup {cmd}]
        /\ UNCHANGED <<toClient, reader, current_game_name, garbled>>
        /\ phase[c] = "prompt"
        /\ phase' = [phase EXCEPT ![c] = "sleep"]
        /\ running' = [running EXCEPT ![c] = @ /\ cmd.type # "QUIT"]
        /\ sent' = [sent EXCEPT ![c] = @ + 1]
    BY <1>8 DEF Enter
  <2>2. Clients'
    <3>1. running' \in [Pid -> BOOLEAN]
      BY <1>1, <2>1, Zenon DEF Clients
    <3>2. asked' \in [Pid -> SUBSET Command]
      BY <1>1, <2>1 DEF Clients
    <3>3. /\ sent' \in [Pid -> Nat]
          /\ phase' \in [Pid -> {"off", "prompt", "sleep", "closing", "gone"}]
      BY <1>1, <2>1 DEF Clients
    <3> QED
      BY <1>1, <2>1, <3>1, <3>2, <3>3 DEF Clients
  <2>3. msg \in Wire
    BY DEF Wire
  <2>4. /\ \A d \in Pid : asked[d] \subseteq asked'[d]
        /\ cmd \in asked'[c]
    BY <1>1, <2>1 DEF Clients
  <2>5. Queue'
    <3>1. msg.type = cmd.type /\ msg.client_pid = c
      OBVIOUS
    <3> HIDE DEF msg
    <3>2. toServer \in Seq(Wire) /\ Len(toServer) \in Nat
      BY <1>1 DEF Queue
    <3>3. toServer' \in Seq(Wire)
      BY <2>1, <2>3, <3>2
    <3>4. \A k \in DOMAIN toServer' :
            \/ k \in DOMAIN toServer /\ toServer'[k] = toServer[k]
            \/ toServer'[k] = msg
      BY <2>1, <2>3, <3>2
    <3>5. \A k \in DOMAIN toServer : toServer[k].client_pid \in Pid
      <4>1. \A k \in DOMAIN toServer : toServer[k] \in Wire
        BY <3>2
      <4> QED
        BY <4>1 DEF Wire
    <3> QED
      BY <1>1, <2>4, <3>1, <3>3, <3>4, <3>5 DEF Queue
  <2>6. Unheard'
    BY <1>1, <2>1 DEF Unheard, Clients
  <2>7. Told'
    BY <2>1, <1>3
  <2> QED
    BY <1>1, <2>2, <2>5, <2>6, <2>7 DEF SysInv
<1>9. CASE ReaderOpen(c)
  <2>1. /\ UNCHANGED <<toServer, toClient, phase, running, current_game_name, sent, asked,
                       garbled>>
        /\ reader[c] = "opening"
        /\ reader' = [reader EXCEPT ![c] = "reading"]
    BY <1>9 DEF ReaderOpen
  <2>2. \A d \in Pid : reader'[d] = IF d = c THEN "reading" ELSE reader[d]
    BY <1>1, <2>1 DEF Clients
  <2>3. Clients' /\ Queue'
    BY <1>1, <2>1 DEF Clients, Queue
  <2>4. Unheard'
    BY <1>1, <2>1, <2>2 DEF Unheard
  <2>5. Told'
    BY <1>1, <2>1, <2>2, <1>3 DEF Unheard
  <2> QED
    BY <1>1, <2>3, <2>4, <2>5 DEF SysInv
<1>10. CASE ReaderRead(c)
  <2>1. /\ UNCHANGED <<toServer, phase, running, sent, asked>>
        /\ reader[c] = "reading"
        /\ reader' = [reader EXCEPT ![c] = IF running[c] THEN "reading" ELSE "closed"]
        /\ toClient[c] # <<>>
        /\ toClient' = [toClient EXCEPT ![c] = <<>>]
        /\ garbled' = [garbled EXCEPT ![c] =
                         Len(toClient[c]) > 1
                           \/ (@ /\ toClient[c][1].type \notin Naming)]
    BY <1>10 DEF ReaderRead
  <2>2. PICK name \in IF Len(toClient[c]) = 1
                      THEN nameAfter(toClient[c][1], current_game_name[c])
                      ELSE nameAfterSeveral(toClient[c][1], current_game_name[c]) :
          current_game_name' = [current_game_name EXCEPT ![c] = name]
    BY <1>10 DEF ReaderRead
  <2>3. /\ Len(toClient[c]) \in Nat /\ Len(toClient[c]) >= 1
        /\ DOMAIN toClient[c] = 1 .. Len(toClient[c])
        /\ toClient[c][1].about \subseteq Word
        /\ current_game_name[c] \in Word \cup {NoName, Jumble}
    <3>1. toClient[c] \in Seq([type : ReplyType, about : SUBSET DOMAIN games])
      BY <1>1 DEF Clients
    <3>2. /\ Len(toClient[c]) \in Nat /\ Len(toClient[c]) >= 1
          /\ DOMAIN toClient[c] = 1 .. Len(toClient[c])
          /\ toClient[c][1] \in [type : ReplyType, about : SUBSET DOMAIN games]
      BY <2>1, <3>1, NonEmptySeq
    <3> QED
      BY <1>1, <3>2 DEF Clients, IInv
  <2>4. name \in Word \cup {NoName, Jumble}
    <3>1. \A g \in toClient[c][1].about : Shown[g] \in Word \cup {NoName}
      BY <2>3, SystemAssumption
    <3> QED
      BY <2>2, <2>3, <3>1 DEF nameAfter, nameAfterSeveral
  <2>5. \A d \in Pid :
          /\ toClient'[d] = IF d = c THEN <<>> ELSE toClient[d]
          /\ current_game_name'[d] = IF d = c THEN name ELSE current_game_name[d]
          /\ reader'[d] = "reading" => reader[d] = "reading"
          /\ d # c => reader'[d] = reader[d]
          /\ d # c => garbled'[d] = garbled[d]
          /\ ~garbled'[c] =>
               /\ Len(toClient[c]) = 1
               /\ garbled[c] => toClient[c][1].type \in Naming
    <3>1. garbled'[c] <=>
            \/ Len(toClient[c]) > 1
            \/ garbled[c] /\ toClient[c][1].type \notin Naming
      BY <1>1, <2>1, Zenon DEF Clients
    <3>2. \A d \in Pid : d # c => garbled'[d] = garbled[d]
      BY <1>1, <2>1 DEF Clients
    <3> QED
      BY <1>1, <2>1, <2>2, <2>3, <3>1, <3>2 DEF Clients
  <2>6. Clients'
    <3>1. garbled' \in [Pid -> BOOLEAN]
      BY <1>1, <2>1, Zenon DEF Clients
    <3>2. toClient' \in [Pid -> Seq([type : ReplyType, about : SUBSET DOMAIN games])]
      BY <1>1, <2>1, EmptiedSeq DEF Clients
    <3> QED
      BY <1>1, <2>1, <2>2, <2>4, <3>1, <3>2 DEF Clients
  <2>7. Queue'
    BY <1>1, <2>1 DEF Queue
  <2>8. Unheard'
    BY <1>1, <2>1, <2>5 DEF Unheard
  <2>9. ASSUME ~garbled'[c] PROVE name = NoName \/ ShowsSeat(c, name)
    <3>1. Len(toClient[c]) = 1 /\ (garbled[c] => toClient[c][1].type \in Naming)
      BY <2>5, <2>9
    <3>2. DOMAIN toClient[c] = {1}
      BY <2>3, <3>1
    <3>3. CASE toClient[c][1].type \in {"GAME_CREATED", "GAME_JOINED"}
      <4>1. \A m \in DOMAIN toClient[c] : ~(m > 1)
        BY <3>2
      <4>2. \A g \in toClient[c][1].about : HasSeat(c, g)
        BY <1>1, <3>2, <3>3, <4>1 DEF Told
      <4>3. name \in {Shown[g] : g \in toClient[c][1].about}
        BY <2>2, <3>1, <3>3 DEF nameAfter
      <4> QED
        BY <2>3, <4>2, <4>3 DEF ShowsSeat
    <3>4. CASE toClient[c][1].type = "LEFT"
      BY <2>2, <3>1, <3>4 DEF nameAfter
    <3>5. CASE toClient[c][1].type \notin {"GAME_CREATED", "GAME_JOINED", "LEFT"}
      <4>1. name = current_game_name[c]
        BY <2>2, <3>1, <3>5 DEF nameAfter
      <4> QED
        BY <1>1, <2>1, <3>1, <3>2, <3>5, <4>1 DEF Told, Naming
    <3> QED
      BY <3>3, <3>4, <3>5
  <2>10. Told'
    BY <1>3, <2>1, <2>5, <2>9
  <2> QED
    BY <1>1, <2>6, <2>7, <2>8, <2>10 DEF SysInv
<1>11. CASE ReaderStop(c)
  <2>1. /\ UNCHANGED <<toServer, phase, running, current_game_name, sent, asked, garbled>>
        /\ reader[c] = "reading"
        /\ reader' = [reader EXCEPT ![c] = "closed"]
        /\ toClient' = [toClient EXCEPT ![c] = <<>>]
    BY <1>11 DEF ReaderStop
  <2>2. \A d \in Pid : /\ reader'[d] = IF d = c THEN "closed" ELSE reader[d]
                       /\ toClient'[d] = IF d = c THEN <<>> ELSE toClient[d]
    BY <1>1, <2>1 DEF Clients
  <2>3. Clients'
    <3>1. toClient' \in [Pid -> Seq([type : ReplyType, about : SUBSET DOMAIN games])]
      BY <1>1, <2>1, EmptiedSeq DEF Clients
    <3> QED
      BY <1>1, <2>1, <3>1 DEF Clients
  <2>4. Unheard' /\ Queue'
    BY <1>1, <2>1, <2>2 DEF Unheard, Queue
  <2>5. Told'
    BY <2>1, <2>2, <1>3
  <2> QED
    BY <1>1, <2>3, <2>4, <2>5 DEF SysInv
<1> QED
  BY <1>5, <1>6, <1>7, <1>8, <1>9, <1>10, <1>11 DEF User

\* A step is the server's, or it leaves the games, the answer and what was told alone.
LEMMA SysStep ==
  ASSUME [SysNext]_sysvars
  PROVE  \/ ServerRead
         \/ UNCHANGED sysvars
         \/ \E c \in Pid :
              /\ UNCHANGED vars
              /\ \/ User(c) \/ Loop(c) \/ Close(c)
                 \/ ReaderOpen(c) \/ ReaderRead(c) \/ ReaderStop(c)
<1>1. ASSUME NEW c \in Pid,
             \/ User(c) \/ Loop(c) \/ Close(c)
             \/ ReaderOpen(c) \/ ReaderRead(c) \/ ReaderStop(c)
      PROVE  UNCHANGED vars
  BY <1>1 DEF User, Start, Enter, EmptyLine, Interrupt, Loop, Close, ReaderOpen,
              ReaderRead, ReaderStop
<1> QED
  BY <1>1 DEF SysNext, Idle

LEMMA SysNextInv ==
  ASSUME SysInv, [SysNext]_sysvars
  PROVE  SysInv'
<1>1. CASE ServerRead
  BY <1>1, ServerReadInv
<1>2. CASE UNCHANGED sysvars
  <2>1. IInv'
    BY <1>2, NextIInv DEF SysInv, sysvars
  <2>2. UNCHANGED <<games, toServer, toClient, client>>
    BY <1>2 DEF sysvars, vars
  <2> QED
    BY <2>1, <2>2 DEF SysInv, Queue, Clients, Unheard, Told, HasSeat, ShowsSeat, client
<1>3. ASSUME NEW c \in Pid, UNCHANGED vars,
             \/ User(c) \/ Loop(c) \/ Close(c)
             \/ ReaderOpen(c) \/ ReaderRead(c) \/ ReaderStop(c)
      PROVE  SysInv'
  BY <1>3, ClientInv
<1> QED
  BY <1>1, <1>2, <1>3, SysStep

LEMMA SysInvariance == SysSpec => []SysInv
  BY SysInitInv, SysNextInv, PTL DEF SysSpec

-----------------------------------------------------------------------------
(***************************************************************************)
(* The theorems.                                                           *)
(***************************************************************************)

\* The clients and the FIFOs keep their shape.
THEOREM SysTypeCorrect == SysSpec => []SysTypeOK
<1>1. SysInv => SysTypeOK
  <2> SUFFICES ASSUME SysInv PROVE SysTypeOK
    OBVIOUS
  <2>1. TypeOK
    BY DEF SysInv, IInv, TypeOK, GameInv, RevealedPast
  <2>2. Wire \subseteq Message
    BY SystemAssumption DEF Wire, Message
  <2>3. toServer \in Seq(Message)
    BY <2>2 DEF SysInv, Queue
  <2> QED
    BY <2>1, <2>3 DEF SysInv, Clients, Unheard, SysTypeOK
<1> QED
  BY <1>1, SysInvariance, PTL

\* What the games go through in the system they go through in module Server: a read that
\* mixes up messages is taken for one that Server's Inbox allows.
LEMMA ServerSteps == SysSpec => Spec
<1>1. SysInit => Init
  BY DEF SysInit
<1>2. ASSUME SysInv, [SysNext]_sysvars
      PROVE  [Next]_vars
  <2>1. CASE ServerRead
    BY <1>2, <2>1, ServerReadIsNext DEF SysInv, Queue
  <2>2. CASE UNCHANGED vars
    BY <2>2
  <2> QED
    BY <1>2, <2>1, <2>2, SysStep DEF sysvars
<1> QED
  BY <1>1, <1>2, SysInvariance, PTL DEF SysSpec, Spec

\* So what was proved of the server holds in the whole system, however the clients send and
\* read: seats and states of the games agree, no round goes on after its win nor is won twice,
\* the winner is the one on record, no secret is told before its time, and who is told that it
\* joined has a seat.
COROLLARY SystemGames ==
  SysSpec => [](Seating /\ Unguessed /\ SingleWin /\ Winner /\ SecretKept /\ JoinedMeansSeated)
  BY ServerSteps, SeatingHolds, UnguessedHolds, SingleWinHolds, WinnerHolds,
     SecretKeptHolds, JoinedMeansSeatedHolds, PTL

\* Its steps do what the server's may: games start and end as they should and go through rounds
\* as module Rounds says, logs only grow, and only FIND_GAME gives a second seat.
COROLLARY SystemSteps ==
  SysSpec => GameLifecycle /\ RefinesRounds /\ LogsOnlyGrow /\ SecondSeatOnlyByFind
  BY ServerSteps, GameLifecycleHolds, RoundsRefined, LogsOnlyGrowHolds,
     SecondSeatOnlyByFindHolds

\* A client that is up to date shows a name only if it has a seat in a game shown so, whatever
\* the names hold, apostrophes included, and also after answers that were read as one, once an
\* answer has set the name.
THEOREM PromptTrueHolds == SysSpec => []PromptTrue
<1>1. SysInv => PromptTrue
  <2>1. ASSUME SysInv, NEW c \in Pid, reader[c] = "reading", toClient[c] = <<>>,
               ~garbled[c], current_game_name[c] # NoName
        PROVE  ShowsSeat(c, current_game_name[c])
    BY <2>1 DEF SysInv, Told
  <2> QED
    BY <2>1 DEF PromptTrue, ShowsSeat, HasSeat
<1> QED
  BY <1>1, SysInvariance, PTL

\* Nobody's seats change but by a command of that kind that it has sent.
THEOREM SeatsOnlyOnRequestHolds == SysSpec => SeatsOnlyOnRequest
<1>1. ASSUME SysInv, [SysNext]_sysvars
      PROVE  [SeatsStep]_sysvars
  <2>1. CASE UNCHANGED vars
    BY <2>1 DEF SeatsStep, vars
  <2>2. CASE ServerRead
    <3>1. PICK msg \in Message :
            /\ processMessage(msg)
            /\ response'.request = msg
            /\ \E cmd \in asked[msg.client_pid] : cmd.type = msg.type
      BY <1>1, <2>2, ServerReadShape
    <3>2. ASSUME NEW c \in Pid, NEW g \in DOMAIN games',
                 c \in games'[g].players
                   <=> ~(g \in DOMAIN games /\ c \in games[g].players)
          PROVE  /\ c = msg.client_pid
                 /\ msg.type \in {"CREATE_GAME", "JOIN_GAME", "FIND_GAME", "LEAVE_GAME"}
      <4>1. /\ HasSeat(c, g) =>
                 HasSeat(c, g)' \/ (c = msg.client_pid /\ msg.type = "LEAVE_GAME")
            /\ HasSeat(c, g)' =>
                 \/ HasSeat(c, g)
                 \/ /\ c = msg.client_pid
                    /\ msg.type \in {"CREATE_GAME", "JOIN_GAME", "FIND_GAME"}
        BY <1>1, <3>1, SeatChange DEF SysInv
      <4>2. HasSeat(c, g)' <=> ~HasSeat(c, g)
        BY <3>2 DEF HasSeat
      <4> QED
        BY <4>1, <4>2
    <3> QED
      BY <3>1, <3>2 DEF SeatsStep
  <2> QED
    BY <1>1, <2>1, <2>2, SysStep DEF sysvars
<1> QED
  BY <1>1, SysInvariance, PTL DEF SysSpec, SeatsOnlyOnRequest
=============================================================================
