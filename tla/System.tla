-------------------------------- MODULE System --------------------------------
(***************************************************************************)
(* KP as a whole: the server's handlers, the client processes with their   *)
(* two threads, and the FIFOs between them.  A FIFO carries bytes: a read  *)
(* returns everything that was written since the last one, and             *)
(* Message::fromString takes all of it for one message.                    *)
(*                                                                         *)
(* The server runs before the first client starts and is not stopped, and  *)
(* a client's pid is used once.  Reads are shorter than the 4095 bytes of  *)
(* the buffers, and no text holds a NUL (module GuessText has those).      *)
(***************************************************************************)
EXTENDS Server

CONSTANTS
  Command,   \* what a user may type: [type, payload], as parse_command reads it
  Size,      \* the length of each payload in characters
  Scrap,     \* for the payloads of a read's first and last message, when they differ in
             \* length: what the end of the text may be, as long as the first one
  NoName,    \* the empty current_game_name_
  Jumble,    \* a current_game_name_ that is any other text
  Shown,     \* what an answer with a game's name between quotes has between its first two
  Signalled, \* the clients that a signal may be sent to
  MaxSent,   \* bound: how many commands each client sends
  MaxQueued  \* bound: how many messages the server finds in one read

\* The messages that a read of the server's FIFO may be taken for.
Parsed ==
  [type : {cmd.type : cmd \in Command}, client_pid : Pid,
   payload : LET Payload == {cmd.payload : cmd \in Command}
             IN  Payload \cup UNION {Scrap[pair] : pair \in Payload \X Payload}]

\* A name without an apostrophe is shown as it is; one with an apostrophe is cut there.
ASSUME SystemAssumption ==
  /\ Command \subseteq [type : RequestType, payload : Seq(Word)]
  /\ \A first, last \in {cmd.payload : cmd \in Command} :
       /\ Scrap[<<first, last>>] \subseteq Seq(Word)
       /\ first # <<>> /\ Size[first] # Size[last] => Scrap[<<first, last>>] # {}
  /\ Parsed \subseteq Inbox
  /\ NoName \notin Word /\ Jumble \notin Word \cup {NoName}
  /\ Shown \in [Word -> Word \cup {NoName}]
  /\ Signalled \subseteq Pid
  /\ MaxSent \in [Pid -> Nat]
  /\ MaxQueued \in Nat

VARIABLES
  toServer,           \* the messages written to the server's FIFO and not yet read
  toClient,           \* the answers in each client's FIFO
  phase,              \* where each client's main thread is
  reader,             \* where each client's reader thread is
  running,            \* running_ of each client
  current_game_name,  \* current_game_name_ of each client
  sent, asked,        \* history: how many commands each client sent, and which
  garbled             \* history: whether a client has read several answers as one, and
                      \* none by itself since then that sets its name

client == <<phase, reader, running, current_game_name, sent, asked, garbled>>
sysvars == <<vars, toServer, toClient, client>>

SysInit ==
  /\ Init
  /\ toServer = <<>>
  /\ toClient = [c \in Pid |-> <<>>]
  /\ phase = [c \in Pid |-> "off"]
  /\ reader = [c \in Pid |-> "off"]
  /\ running = [c \in Pid |-> TRUE]
  /\ current_game_name = [c \in Pid |-> NoName]
  /\ sent = [c \in Pid |-> 0]
  /\ asked = [c \in Pid |-> {}]
  /\ garbled = [c \in Pid |-> FALSE]
-----------------------------------------------------------------------------
\* Seeded fault: the sender is taken from the last message of the read.
fromString_LastSender(texts) ==
  {[texts[1] EXCEPT !.client_pid = texts[Len(texts)].client_pid]}

\* fromString: the type and the sender are those of the first message.  Its length
\* is applied to the end of the text, which is the payload of the last message if
\* that has the same length, and else some other piece of the text.
fromString(texts) ==
  LET first == texts[1]
      last  == texts[Len(texts)]
  IN  {[first EXCEPT !.payload = p] :
         p \in IF first.payload = <<>> THEN {<<>>}
               ELSE IF Size[first.payload] = Size[last.payload] THEN {last.payload}
               ELSE Scrap[<<first.payload, last.payload>>]}

\* Seeded fault: an answer waits for a reader that is not there.
sendResponse_Kept(answer) ==
  toClient' = [toClient EXCEPT
                 ![answer.request.client_pid] =
                    Append(@, [type |-> answer.type, about |-> answer.about])]

\* write_to_FIFO of an answer: it is dropped if the client's reader is not there.
sendResponse(answer) ==
  LET c == answer.request.client_pid
  IN  toClient' = IF reader[c] = "reading"
                  THEN [toClient EXCEPT
                          ![c] = Append(@, [type |-> answer.type, about |-> answer.about])]
                  ELSE toClient

\* One turn of Server::run: whatever is in the FIFO is one message.
ServerRead ==
  /\ toServer # <<>>
  /\ toServer' = <<>>
  /\ \E msg \in fromString(toServer) : processMessage(msg)
  /\ sendResponse(response')
  /\ WithinBounds'
  /\ UNCHANGED client
-----------------------------------------------------------------------------
\* The constructor: the FIFO and the reader thread.
Start(c) ==
  /\ phase[c] = "off"
  /\ phase' = [phase EXCEPT ![c] = "prompt"]
  /\ reader' = [reader EXCEPT ![c] = "opening"]
  /\ UNCHANGED <<vars, toServer, toClient, running, current_game_name,
                 sent, asked, garbled>>

\* Seeded fault: QUIT is only sent.
Enter_QuitGoesOn(c, cmd) ==
  /\ phase[c] = "prompt"
  /\ sent[c] < MaxSent[c] /\ Len(toServer) < MaxQueued
  /\ toServer' = Append(toServer, [type |-> cmd.type, client_pid |-> c,
                                   payload |-> cmd.payload])
  /\ sent' = [sent EXCEPT ![c] = @ + 1]
  /\ asked' = [asked EXCEPT ![c] = @ \cup {cmd}]
  /\ phase' = [phase EXCEPT ![c] = "sleep"]
  /\ UNCHANGED <<vars, toClient, reader, running, current_game_name, garbled>>

\* A line is read, parsed and sent; QUIT ends the client.
Enter(c, cmd) ==
  /\ phase[c] = "prompt"
  /\ sent[c] < MaxSent[c] /\ Len(toServer) < MaxQueued
  /\ toServer' = Append(toServer, [type |-> cmd.type, client_pid |-> c,
                                   payload |-> cmd.payload])
  /\ sent' = [sent EXCEPT ![c] = @ + 1]
  /\ asked' = [asked EXCEPT ![c] = @ \cup {cmd}]
  /\ running' = [running EXCEPT ![c] = @ /\ cmd.type # "QUIT"]
  /\ phase' = [phase EXCEPT ![c] = "sleep"]
  /\ UNCHANGED <<vars, toClient, reader, current_game_name, garbled>>

\* The loop is tested after the sleep, and after an empty line or the end of the
\* input; while the client runs, these lead back to the prompt.
Loop(c) ==
  /\ phase[c] = "sleep"
  /\ phase' = [phase EXCEPT ![c] = IF running[c] THEN "prompt" ELSE "closing"]
  /\ UNCHANGED <<vars, toServer, toClient, reader, running, current_game_name,
                 sent, asked, garbled>>

EmptyLine(c) ==
  /\ phase[c] = "prompt"
  /\ ~running[c]
  /\ phase' = [phase EXCEPT ![c] = "closing"]
  /\ UNCHANGED <<vars, toServer, toClient, reader, running, current_game_name,
                 sent, asked, garbled>>

\* SIGINT or SIGTERM.  signal() restarts the read that getline waits in: a client
\* at its prompt stays there.
Interrupt(c) ==
  /\ c \in Signalled
  /\ phase[c] \in {"prompt", "sleep"}
  /\ running[c]
  /\ running' = [running EXCEPT ![c] = FALSE]
  /\ UNCHANGED <<vars, toServer, toClient, phase, reader, current_game_name,
                 sent, asked, garbled>>

\* The destructor: the reader is joined, the FIFO removed.
Close(c) ==
  /\ phase[c] = "closing"
  /\ reader[c] = "closed"
  /\ phase' = [phase EXCEPT ![c] = "gone"]
  /\ UNCHANGED <<vars, toServer, toClient, reader, running, current_game_name,
                 sent, asked, garbled>>
-----------------------------------------------------------------------------
ReaderOpen(c) ==
  /\ reader[c] = "opening"
  /\ reader' = [reader EXCEPT ![c] = "reading"]
  /\ UNCHANGED <<vars, toServer, toClient, phase, running, current_game_name,
                 sent, asked, garbled>>

\* Seeded fault: leaving a game does not clear the prompt.
nameAfter_Kept(answer, name) ==
  IF answer.type \in {"GAME_CREATED", "GAME_JOINED"} THEN {Shown[g] : g \in answer.about}
  ELSE {name}

\* The answers that set current_game_name_.
Naming == {"GAME_CREATED", "GAME_JOINED", "LEFT"}

\* What an answer makes of current_game_name_: what it has between its first two
\* apostrophes, nothing when it says that a game was left.
nameAfter(answer, name) ==
  IF answer.type \in {"GAME_CREATED", "GAME_JOINED"} THEN {Shown[g] : g \in answer.about}
  ELSE IF answer.type = "LEFT" THEN {NoName}
  ELSE {name}

\* Several answers in one read have the type of the first and the end of the text: it may
\* have anything between its quotes, or none, and an OK's may be a "Left game".
nameAfterSeveral(answer, name) ==
  {name} \cup (IF answer.type \in {"GAME_CREATED", "GAME_JOINED"}
               THEN Word \cup {NoName, Jumble}
               ELSE IF answer.type \in {"OK", "LEFT"} THEN {NoName} ELSE {})

\* One turn of read_responses: the last one, if running_ was cleared after its test.
ReaderRead(c) ==
  /\ reader[c] = "reading"
  /\ toClient[c] # <<>>
  /\ reader' = [reader EXCEPT ![c] = IF running[c] THEN "reading" ELSE "closed"]
  /\ toClient' = [toClient EXCEPT ![c] = <<>>]
  /\ \E name \in IF Len(toClient[c]) = 1
                 THEN nameAfter(toClient[c][1], current_game_name[c])
                 ELSE nameAfterSeveral(toClient[c][1], current_game_name[c]) :
       current_game_name' = [current_game_name EXCEPT ![c] = name]
  /\ garbled' = [garbled EXCEPT ![c] =
                   Len(toClient[c]) > 1 \/ (@ /\ toClient[c][1].type \notin Naming)]
  /\ UNCHANGED <<vars, toServer, phase, running, sent, asked>>

\* The reader's loop ends; what is in the FIFO is lost.
ReaderStop(c) ==
  /\ reader[c] = "reading"
  /\ ~running[c]
  /\ reader' = [reader EXCEPT ![c] = "closed"]
  /\ toClient' = [toClient EXCEPT ![c] = <<>>]
  /\ UNCHANGED <<vars, toServer, phase, running, current_game_name,
                 sent, asked, garbled>>
-----------------------------------------------------------------------------
User(c) ==
  \/ Start(c)
  \/ \E cmd \in Command : Enter(c, cmd)
  \/ EmptyLine(c)
  \/ Interrupt(c)

\* The users may stop typing: everything is read, and the programs only poll.
Idle ==
  /\ toServer = <<>>
  /\ \A c \in Pid : toClient[c] = <<>> /\ phase[c] \in {"prompt", "gone"}
  /\ UNCHANGED sysvars

SysNext ==
  \/ ServerRead
  \/ \E c \in Pid : \/ User(c) \/ Loop(c) \/ Close(c)
                    \/ ReaderOpen(c) \/ ReaderRead(c) \/ ReaderStop(c)
  \/ Idle

\* The threads of the programs are scheduled; nobody has to type anything.
SysFairness ==
  /\ WF_sysvars(ServerRead)
  /\ \A c \in Pid : /\ WF_sysvars(Loop(c)) /\ WF_sysvars(Close(c))
                    /\ WF_sysvars(ReaderOpen(c)) /\ WF_sysvars(ReaderRead(c))
                    /\ WF_sysvars(ReaderStop(c))

SysSpec == SysInit /\ [][SysNext]_sysvars /\ SysFairness
-----------------------------------------------------------------------------
(***************************************************************************)
(* Properties.                                                             *)
(***************************************************************************)

\* The shape of the state of the clients and the FIFOs; a FIFO holds answers only
\* while its reader is there.
SysTypeOK ==
  /\ TypeOK
  /\ toServer \in Seq(Message)
  /\ toClient \in [Pid -> Seq([type : ReplyType, about : SUBSET DOMAIN games])]
  /\ \A c \in Pid : toClient[c] # <<>> => reader[c] = "reading"
  /\ phase \in [Pid -> {"off", "prompt", "sleep", "closing", "gone"}]
  /\ reader \in [Pid -> {"off", "opening", "reading", "closed"}]
  /\ running \in [Pid -> BOOLEAN]
  /\ current_game_name \in [Pid -> Word \cup {NoName, Jumble}]
  /\ sent \in [Pid -> Nat]
  /\ asked \in [Pid -> SUBSET Command]
  /\ garbled \in [Pid -> BOOLEAN]

\* A client that has read all its answers shows a name only if it has a seat in a game that
\* is shown so: joins, leaves, second seats, answers lost while the reader was not there and
\* requests mixed up in the server's FIFO included.  After answers that it read as one this
\* may fail, until an answer comes by itself that sets the name.
PromptTrue ==
  \A c \in Pid :
    /\ reader[c] = "reading"
    /\ toClient[c] = <<>>
    /\ ~garbled[c]
    /\ current_game_name[c] # NoName
    => \E g \in DOMAIN games :
         Shown[g] = current_game_name[c] /\ c \in games[g].players

\* The server changes a player's seats only for a player who has sent it a command of
\* that kind, even when it takes the messages of several clients for one.
SeatsStep ==
  \A c \in Pid :
    (\E g \in DOMAIN games' :
       c \in games'[g].players <=> ~(g \in DOMAIN games /\ c \in games[g].players))
    => \E cmd \in asked[c] :
         /\ cmd.type \in {"CREATE_GAME", "JOIN_GAME", "FIND_GAME", "LEAVE_GAME"}
         /\ cmd.type = response'.request.type

SeatsOnlyOnRequest == [][SeatsStep]_sysvars

\* A client whose user has typed QUIT joins its reader, removes its FIFO and ends,
\* whatever the server and the other clients do.
QuitEnds ==
  \A c \in Pid : (\E cmd \in asked[c] : cmd.type = "QUIT") ~> phase[c] = "gone"
-----------------------------------------------------------------------------
(***************************************************************************)
(* What the texts of the program say, and its code does not do.            *)
(***************************************************************************)

\* "JOIN_GAME <game_name> - Join an existing game": a player who is told that it
\* joined a game on its JOIN_GAME has asked for that game.
JoinedWhatItAsked ==
  response.request.type = "JOIN_GAME" /\ response.type = "GAME_JOINED" =>
    [type |-> "JOIN_GAME", payload |-> response.request.payload]
      \in asked[response.request.client_pid]
=============================================================================
