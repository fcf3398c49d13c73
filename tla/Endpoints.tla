------------------------------ MODULE Endpoints ------------------------------
(***************************************************************************)
(* KP: the named pipes through which the clients and the server find each  *)
(* other, from the start of a process to its end.  Every process removes   *)
(* what is at its path, makes a FIFO there and opens it; a message is      *)
(* opened for, written and closed.  A FIFO that lost its name lives on for *)
(* those who have it open; a write that nobody can read any more kills the *)
(* writer, which then leaves its FIFO behind.                              *)
(*                                                                         *)
(* A process lives once, so that the FIFO it makes is named after it; a    *)
(* pid that is used again is two clients of one path.  What the messages   *)
(* say is System's: a message is here the path of its client, and what a   *)
(* server reads at once is answered once.  FIFOs never fill up.            *)
(***************************************************************************)
EXTENDS Naturals, Sequences, FiniteSets

CONSTANTS
  Server, Client,      \* the processes
  SERVER_FIFO_PATH,
  ClientPath(_),       \* client_fifo_path_, from the pid of a client
  None,                \* no FIFO
  MaxSent              \* bound: how many commands each client sends

Process == Server \cup Client
PathOf(p) == IF p \in Server THEN SERVER_FIFO_PATH ELSE ClientPath(p)
Path == {PathOf(p) : p \in Process} \cup {SERVER_FIFO_PATH}

ASSUME EndpointsAssumption ==
  /\ Server \cap Client = {}
  /\ None \notin Process
  /\ \A c \in Client : ClientPath(c) # SERVER_FIFO_PATH
  /\ MaxSent \in Nat

VARIABLES
  at,       \* the FIFO at each path
  fd,       \* the FIFO that each process has open for reading
  wfd,      \* the FIFO that each process has open for writing
  buffer,   \* the messages in each FIFO
  pc,       \* where each process is: for a client, its main thread
  reader,   \* where each client's reader thread is
  running,  \* running_ of each process
  msg,      \* the path to which a server answers
  sent,     \* how many commands each client has sent
  met       \* history: the servers that ran at the same time as another one

files == <<at, fd, wfd, buffer>>
vars == <<files, pc, reader, running, msg, sent, met>>

Init ==
  /\ at = [path \in Path |-> None]
  /\ fd = [p \in Process |-> None]
  /\ wfd = [p \in Process |-> None]
  /\ buffer = [p \in Process |-> <<>>]
  /\ pc = [p \in Process |-> "off"]
  /\ reader = [p \in Process |-> "off"]
  /\ running = [p \in Process |-> TRUE]
  /\ msg = [p \in Process |-> None]
  /\ sent = [p \in Process |-> 0]
  /\ met = {}
-----------------------------------------------------------------------------
Goes(p, from, to) == pc[p] = from /\ pc' = [pc EXCEPT ![p] = to]

alive(p) == pc[p] \notin {"off", "ended", "killed"}

hasReader(fifo) == \E p \in Process : fd[p] = fifo

\* A FIFO that nobody has open any more is empty.
CloseFIFOs(fds, wfds) ==
  /\ fd' = fds
  /\ wfd' = wfds
  /\ buffer' = [f \in Process |->
                  IF \E p \in Process : f \in {fds[p], wfds[p]} THEN buffer[f] ELSE <<>>]

\* A process begins; a pid is not used again while its process lives.
Start(p) ==
  /\ p \in Client => \A q \in Process : PathOf(q) = PathOf(p) => ~alive(q)
  /\ Goes(p, "off", "unlink")
  /\ LET others == {s \in Server : p \in Server /\ alive(s)}
     IN  met' = IF others = {} THEN met ELSE met \cup others \cup {p}
  /\ UNCHANGED <<files, reader, running, msg, sent>>

Unlink(p) ==
  /\ Goes(p, "unlink", "mkfifo")
  /\ at' = [at EXCEPT ![PathOf(p)] = None]
  /\ UNCHANGED <<fd, wfd, buffer, reader, running, msg, sent, met>>

\* Seeded fault: the FIFO is made first, what is at the path is removed then.
Mkfifo_Unlinked(p) ==
  /\ Goes(p, "mkfifo", IF p \in Server THEN "open" ELSE "loop")
  /\ at' = [at EXCEPT ![PathOf(p)] = None]
  /\ reader' = [reader EXCEPT ![p] = IF p \in Client THEN "open" ELSE @]
  /\ UNCHANGED <<fd, wfd, buffer, running, msg, sent, met>>

\* mkfifo fails, with a message, if there is something at the path.  A client starts
\* its reader thread.
Mkfifo(p) ==
  /\ Goes(p, "mkfifo", IF p \in Server THEN "open" ELSE "loop")
  /\ at' = [at EXCEPT ![PathOf(p)] = IF @ = None THEN p ELSE @]
  /\ reader' = [reader EXCEPT ![p] = IF p \in Client THEN "open" ELSE @]
  /\ UNCHANGED <<fd, wfd, buffer, running, msg, sent, met>>

\* SIGINT or SIGTERM, whose handlers only clear running_; for a client QUIT as well,
\* which clears it when it is sent.
Signal(p) ==
  /\ alive(p)
  /\ running' = [running EXCEPT ![p] = FALSE]
  /\ UNCHANGED <<files, pc, reader, msg, sent, met>>
-----------------------------------------------------------------------------
(***************************************************************************)
(* write_to_FIFO: without a reader nothing is sent, and the writer goes on *)
(* (to "next"); with one the FIFO is open until it is written.             *)
(***************************************************************************)
OpenFIFO(p, path, from, next) ==
  LET found == at[path] # None /\ hasReader(at[path])
  IN  /\ Goes(p, from, IF found THEN "write" ELSE next)
      /\ wfd' = [wfd EXCEPT ![p] = IF found THEN at[path] ELSE @]
      /\ msg' = [msg EXCEPT ![p] = IF found THEN @ ELSE None]
      /\ UNCHANGED <<at, fd, buffer, reader, running, sent, met>>

WriteFIFO(p, m, next) ==
  /\ hasReader(wfd[p])
  /\ Goes(p, "write", next)
  /\ buffer' = [buffer EXCEPT ![wfd[p]] = Append(@, m)]
  /\ wfd' = [wfd EXCEPT ![p] = None]
  /\ msg' = [msg EXCEPT ![p] = None]
  /\ UNCHANGED <<at, fd, reader, sent, met>>

\* The last reader closed the FIFO after it was opened for the write: SIGPIPE.
Killed(p) ==
  /\ ~hasReader(wfd[p])
  /\ Goes(p, "write", "killed")
  /\ CloseFIFOs([fd EXCEPT ![p] = None], [wfd EXCEPT ![p] = None])
  /\ reader' = [reader EXCEPT ![p] = "off"]
  /\ msg' = [msg EXCEPT ![p] = None]
  /\ UNCHANGED <<at, running, sent, met>>
-----------------------------------------------------------------------------
\* open fails if the path is gone: server_fd_ stays -1.
OpenServer(s) ==
  /\ Goes(s, "open", "run")
  /\ fd' = [fd EXCEPT ![s] = at[PathOf(s)]]
  /\ UNCHANGED <<at, wfd, buffer, reader, running, msg, sent, met>>

\* One read takes all that is there, and the first message is answered.
Serve(s) ==
  /\ running[s] /\ fd[s] # None
  /\ buffer[fd[s]] # <<>>
  /\ Goes(s, "run", "respond")
  /\ msg' = [msg EXCEPT ![s] = Head(buffer[fd[s]])]
  /\ buffer' = [buffer EXCEPT ![fd[s]] = <<>>]
  /\ UNCHANGED <<at, fd, wfd, reader, running, sent, met>>

Respond(s) == OpenFIFO(s, msg[s], "respond", "run")

Answer(s) == WriteFIFO(s, msg[s], "run") /\ UNCHANGED running

\* Seeded fault: the read waits for a message.
EndLoop_Blocking(s) ==
  /\ ~running[s] \/ fd[s] = None
  /\ fd[s] # None => buffer[fd[s]] # <<>>
  /\ Goes(s, "run", "remove")
  /\ running' = [running EXCEPT ![s] = FALSE]
  /\ CloseFIFOs([fd EXCEPT ![s] = None], wfd)
  /\ UNCHANGED <<at, reader, msg, sent, met>>

\* The loop ends when it is told to, or with EBADF when there is no FIFO to read;
\* shutdown clears running_ and closes the FIFO.
EndLoop(s) ==
  /\ ~running[s] \/ fd[s] = None
  /\ Goes(s, "run", "remove")
  /\ running' = [running EXCEPT ![s] = FALSE]
  /\ CloseFIFOs([fd EXCEPT ![s] = None], wfd)
  /\ UNCHANGED <<at, reader, msg, sent, met>>

\* Seeded fault: the FIFO is left where it is.
Remove_Kept(p, from, to) ==
  /\ Goes(p, from, to)
  /\ UNCHANGED <<files, reader, running, msg, sent, met>>

\* Whatever is at the path is removed.
Remove(p, from, to) ==
  /\ Goes(p, from, to)
  /\ at' = [at EXCEPT ![PathOf(p)] = None]
  /\ UNCHANGED <<fd, wfd, buffer, reader, running, msg, sent, met>>

\* main calls shutdown, and the destructor calls it again.
ServerStep(s) ==
  \/ Unlink(s) \/ Mkfifo(s) \/ OpenServer(s)
  \/ Serve(s) \/ Respond(s) \/ Answer(s) \/ Killed(s)
  \/ EndLoop(s) \/ Remove(s, "remove", "destroy") \/ Remove(s, "destroy", "ended")
-----------------------------------------------------------------------------
Loop(c) ==
  /\ running[c]
  /\ Goes(c, "loop", "prompt")
  /\ UNCHANGED <<files, reader, running, msg, sent, met>>

\* A line is typed, an empty one or a command.
Type(c) ==
  \/ /\ Goes(c, "prompt", "loop")
     /\ UNCHANGED <<files, reader, running, msg, sent, met>>
  \/ /\ sent[c] < MaxSent
     /\ Goes(c, "prompt", "send")
     /\ sent' = [sent EXCEPT ![c] = @ + 1]
     /\ UNCHANGED <<files, reader, running, msg, met>>

Send(c) == OpenFIFO(c, SERVER_FIFO_PATH, "send", "loop")

SendWrite(c) == WriteFIFO(c, PathOf(c), "loop") /\ UNCHANGED running

\* The loop has ended, and the destructor waits for the reader thread.
Join(c) ==
  /\ ~running[c] /\ reader[c] = "ended"
  /\ Goes(c, "loop", "remove")
  /\ UNCHANGED <<files, reader, running, msg, sent, met>>

ClientStep(c) ==
  \/ Unlink(c) \/ Mkfifo(c)
  \/ Loop(c) \/ Send(c) \/ SendWrite(c) \/ Killed(c)
  \/ Join(c) \/ Remove(c, "remove", "ended")

ReaderGoes(c, from, to) == reader[c] = from /\ reader' = [reader EXCEPT ![c] = to]

\* The reader thread ends at once if there is no FIFO to open.
OpenClient(c) ==
  /\ ReaderGoes(c, "open", IF at[PathOf(c)] = None THEN "ended" ELSE "read")
  /\ fd' = [fd EXCEPT ![c] = at[PathOf(c)]]
  /\ UNCHANGED <<at, wfd, buffer, pc, running, msg, sent, met>>

\* Seeded fault: the FIFO is opened for every read, as read_from_FIFO does.
Read_Reopens(c) ==
  /\ running[c]
  /\ ReaderGoes(c, "read", "open")
  /\ CloseFIFOs([fd EXCEPT ![c] = None], wfd)
  /\ UNCHANGED <<at, pc, running, msg, sent, met>>

Read(c) ==
  /\ running[c] /\ reader[c] = "read"
  /\ buffer[fd[c]] # <<>>
  /\ buffer' = [buffer EXCEPT ![fd[c]] = <<>>]
  /\ UNCHANGED <<at, fd, wfd, pc, reader, running, msg, sent, met>>

EndReader(c) ==
  /\ ~running[c]
  /\ ReaderGoes(c, "read", "ended")
  /\ CloseFIFOs([fd EXCEPT ![c] = None], wfd)
  /\ UNCHANGED <<at, pc, running, msg, sent, met>>

ReaderStep(c) == OpenClient(c) \/ Read(c) \/ EndReader(c)
-----------------------------------------------------------------------------
\* No process runs any more, and none is left to be started.
Over == (\A p \in Process : pc[p] \in {"ended", "killed"}) /\ UNCHANGED vars

Next ==
  \/ \E p \in Process : Start(p) \/ Signal(p)
  \/ \E s \in Server : ServerStep(s)
  \/ \E c \in Client : ClientStep(c) \/ ReaderStep(c) \/ Type(c)
  \/ Over

\* The processes and their threads run; nobody has to start one, to stop it or to type.
Fairness ==
  /\ \A s \in Server : WF_vars(ServerStep(s))
  /\ \A c \in Client : WF_vars(ClientStep(c)) /\ WF_vars(ReaderStep(c))

Spec == Init /\ [][Next]_vars /\ Fairness
-----------------------------------------------------------------------------
(***************************************************************************)
(* Properties.                                                             *)
(***************************************************************************)

\* The shape of the state; a process has a FIFO open for writing only while it writes,
\* and a FIFO that nobody has open holds no messages.
TypeOK ==
  /\ at \in [Path -> Process \cup {None}]
  /\ fd \in [Process -> Process \cup {None}] /\ wfd \in [Process -> Process \cup {None}]
  /\ buffer \in [Process -> Seq(Path)]
  /\ pc \in [Process -> {"off", "unlink", "mkfifo", "open", "run", "respond",
                        "destroy", "loop", "prompt", "send",
                        "write", "remove", "ended", "killed"}]
  /\ reader \in [Process -> {"off", "open", "read", "ended"}]
  /\ running \in [Process -> BOOLEAN]
  /\ msg \in [Process -> Path \cup {None}]
  /\ sent \in [Process -> Nat] /\ met \subseteq Server
  /\ \A p \in Process : wfd[p] # None <=> pc[p] = "write"
  /\ \A f \in Process : buffer[f] # <<>> => \E p \in Process : f \in {fd[p], wfd[p]}

serves(p) == pc[p] \in {"run", "respond"} \/ reader[p] = "read"

\* What a process reads is what is found at its path: for a server that no other one ran
\* beside, and for every client.  A FIFO that a killed process left there, or one that
\* an earlier process of the same pid had, does not come between.
Reached ==
  \A p \in Process \ met : serves(p) => fd[p] # None /\ fd[p] = at[PathOf(p)]

\* A FIFO is left at a path only by a process that was killed: whatever servers did to
\* each other's path, the last one to end removes what is there.
NoneLeft == \A path \in Path : at[path] # None => pc[at[path]] # "ended"

\* SIGPIPE strikes only when somebody stops: while every process that was started goes on,
\* each FIFO that was opened for a message is still read when the message is written.
KilledByAStop ==
  (\E p \in Process : pc[p] = "killed") => (\E p \in Process : ~running[p])

\* A server that is told to stop ends, unless it was killed before.
ServerEnds == \A s \in Server : alive(s) /\ ~running[s] ~> pc[s] \in {"ended", "killed"}
=============================================================================
