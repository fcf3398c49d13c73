# Verification of MAI_OS_Course

The repository holds a course project, **KP** (a Bulls and Cows server and its
clients, which talk through named pipes), and four exercises in processes, threads
and shared memory, **Lab1** to **Lab4**.  This directory models them in TLA+, checks
small instances with TLC and proves the central properties with TLAPS for every
instance.  Line numbers below are those of the files under `src/`.

## Inventory

| Part | State | Operations | What makes it hard |
|---|---|---|---|
| `KP/server/src/Game.cpp` | players, state, secret, guesses and results, winner | `addPlayer`, `removePlayer`, `startGame`, `guess`, statistics, log | games that finish, empty, fill up again and restart; nothing is cleared at a restart |
| `KP/server/src/GameManager.cpp` | the map of the games | `createGame`, `getGame`, `getPlayerCurrentGame`, `findAvailableGame`, `listGames` (`removeGame`, `gameExists`: no caller) | "current game" is the first by name in which the player has a seat |
| `KP/server/src/Server.cpp` | FIFO, `running_`, the manager | one handler per command, `processMessage`, `run`, start, shutdown | an uninitialised local, ignored results, optional first words, shutdown twice |
| `KP/client/src/Client.cpp` | `running_`, `current_game_name_`, the reader thread | prompt loop, `parse_command`, `read_responses`, signals, destructor | two threads without a lock; the prompt is a guess from old answers |
| `KP/common.cpp` | the FIFOs of the server and of each client | `toString`, `fromString`, `write_to_FIFO` | no message boundaries: a read returns several messages; answers are dropped without a reader |
| `Lab1/lab_files` | two pipes, two children, two files | parent forks, `exec`s and writes; child filters | pipe ends inherited by the wrong process, no boundaries |
| `Lab2/lab_files/src/main.cpp` | a file, one buffer, one sum, three mutexes | `worker_func`, creation and joining of threads | three mutexes taken in overlapping sections; short files |
| `Lab3/main.cpp` | two mapped `SharedData` (`ready`, `done`, `data`) | parent copies lines, children write them | both sides spin on flags; children that fail; termination |
| `Lab4/src/program2.cpp` | two library handles, two function pointers, the current library | `switchToLib`, `callPi`, `callE`, constructor, destructor | look-ups that fail half-way; an exception in the constructor |
| `Lab4/src/program1.cpp`, `lib*_impl.cpp` | none | two series | floating point only |

How they interact: a **client**'s main thread writes a command to the server's FIFO
and sleeps; the **server**, one thread, reads the FIFO every 100 ms, runs one
handler over the **games** and writes one answer to the FIFO of the client named by
the message's pid; the client's **reader thread** reads that FIFO and keeps the name
shown in the prompt.  Nothing acknowledges a message.  In **Lab2** threads share
globals under mutexes.  In **Lab3** processes share memory under flags.  In **Lab1**
they share pipes.

What must be right: in KP, that seats, states, secrets and winners agree however
players come and go, that each round is won once and its secret not told before it
ends, that clients are not shown games in which they have no seat, that only a player's own
commands move it, and that clients that quit end.  In Lab2, that every number is
added once and the program ends.  In Lab3, that every line reaches its file once and
in order and that everybody ends.  In Lab1, that no byte is lost or moved, and who ever
sees the end of its input.  In Lab4, that an answer comes from the library the user
believes in use.  The hazards are listed with their lines in
`PROJECT.json`.

## Modules

| Module | Models | Role |
|---|---|---|
| `Game` | class `Game`: one operator per method, from the record before to the record after | data and methods |
| `Rounds` | what a game promises its players | abstract |
| `GameManager` | class `GameManager`, variable `games` | lookups, EXTENDS `Game` |
| `Server` | the handlers and `processMessage`; its `Next` takes any message of `Inbox` | detailed, each game implements `Rounds` |
| `System` | the server's loop, the clients with two threads each, the FIFOs and coalesced reads | composes `Server` with its clients |
| `CommandLine` | `parse_command` | pure; gives the `MC` modules of `System` their commands |
| `Endpoints` | the paths of the FIFOs and the FIFOs behind them: start, loop, stop, double shutdown, `write_to_FIFO` cut between open and write, `SIGPIPE`, pids used again | detailed specification of the life of the processes |
| `Wire` | `toString`, `fromString` on bytes | pure |
| `Scoring` | secret, validation and score on digits | pure |
| `GuessText` | a guess as bytes, from a client through the FIFO to its score | composes `Wire` and `Scoring` |
| `SumOnce` | what Lab2 promises | abstract |
| `BatchSum` | `worker_func` cut at every lock, number, load and store; `main`, with the mean it prints | detailed, implements `SumOnce` |
| `LineFilter` | what Lab3 promises | abstract |
| `Handshake` | the parent and the two children, cut at every access to a flag | detailed, implements `LineFilter` |
| `StreamFilter` | what Lab1 promises | abstract |
| `Pipes` | the parent and the two children, with the pipe ends that each holds | detailed, implements `StreamFilter` |
| `Libraries` | `DynamicLibraryManager` and its prompt | the whole of Lab4's program 2 |
| `ServerProofs`, `SystemProofs`, `EndpointsProofs`, `GuessTextProofs`, `BatchSumProofs`, `HandshakeProofs`, `PipesProofs`, `LibrariesProofs` | | theorems about the modules they are named after |
| `MCServer`, `MCSystem`, `MCEndpoints`, `MCGuessText`, `MCBatchSum`, `MCHandshake`, `MCPipes`, `MCLibraries` | | small instances |

Definitions have the names of the functions they model; the `map` of `PROJECT.json`
gives their lines.  An operator whose name ends in `_Something` and whose comment
begins with "Seeded fault" or "Plausible bug" is a deliberately wrong variant that shows that a property
can fail; no specification uses it.

### The server (`Game`, `GameManager`, `Server`)

The server is single-threaded, so a handler is one step.  A `Game` is a record with
the fields of the class.  Guesses and results are pushed together and are one log.  Of
the result of `calculateBullsCows` the code branches on "four bulls" only, and so does
the model; the digits are in `Scoring`.  `round` and `revealed` are history: how often a secret was drawn, and for
which rounds the statistics told it.

Data that the code reads as text is abstract: a payload is the sequence of its words,
`IntOf` is what `>>` into an `int` makes of a word, `FourDigits` and `Code` are the
words of four digits and of four different digits, `Rank` orders names as the map
does.  `Garbage` holds the values `num_players` may have when the payload ends before
it (`Server.cpp:148`).  Leading and trailing blanks of a payload are left out.

`Rounds` is what a game promises, without messages, codes, guesses or other games: seats
are taken and given up; who takes the last free one opens a round; a round is won once at
most, by somebody with a seat, and is closed by the win or by the last player to leave.
`Abstract(g)` reads it off the game `g`: `places` and `seated` are `max_players_` and
`players_`, `open` is the state `IN_PROGRESS`, and `winners`, the winner of every round, is
computed from the players' logs, which no step of `Rounds` knows.  `RefinesRounds` is
stated for all games at once, by the initial condition and the steps of `Rounds`, since TLC
takes `[][A]_v` as a conjunct of a property and not under a quantifier; the theorem
`RoundsRefined` has that form and `Abstract(g)!Spec` for every `g`.

### The whole (`System`)

`toServer` is the sequence of the messages in the server's FIFO.  `ServerRead` takes
all of it and hands `processMessage` what `fromString` makes of it: type and pid of
the first message and, cut from the end of the text, the payload of the last one if it
is as long as the first one's, else some `Scrap`: what the end of the text may be, given
the payloads of the first and of the last message (the instance computes it from their
lengths).  An answer is dropped when its
client's reader is not there (`common.cpp:46-53`).  Each client has a main thread
(`phase`: prompt, sleep, closing, gone) and a reader (`reader`: opening, reading,
closed).  A signal only clears `running_`: `signal()` restarts the read that `getline`
waits in.  `asked`, `sent` and `garbled` are history.

The client takes the name in its prompt from between the first two apostrophes of an
answer (`Client.cpp:195-205`).  `Shown` says what that is for each name: the name itself,
or, of a name with an apostrophe, the part before it, which may be the name of another game
or of none, or be empty (`NoName`).  Of several answers in one read the type is the first
one's and the text is the end of the read, so that the name may be any name, none or
another text (`Jumble`), and an OK may be taken for a "Left game" (`nameAfterSeveral`).
`garbled` is set by such a read and cleared by an answer that is read by itself and sets the
name.

What a user types are lines; `CommandLine` makes commands of them.  A line that is no
command is sent as `INVALID_COMMAND`, whole.

Not in it: the start, stop and restart of processes and `SIGPIPE` (`Endpoints`); bytes
cut reads and NULs (`GuessText`); the race on the bytes of `current_game_name_`.

### The life of the processes (`Endpoints`)

`at` is what is at each path, a FIFO named after the process that made it; `fd` and
`wfd` are the FIFOs that a process has open to read and to write.  A process removes
what is at its path, makes a FIFO there (`mkfifo` fails if another one got in between)
and opens it.  `write_to_FIFO` is two steps, `OpenFIFO` and `WriteFIFO`: without a
reader at the first nothing is sent; without one at the second the process is killed
(`Killed`) and leaves its FIFO behind.  Of several FIFOs at a time only those that
somebody has open hold bytes (`CloseFIFOs`).  A server removes the path twice at its
end, from `main` and from the destructor.  Two servers may overlap, `met` remembers
which did; two clients may have the same path, one after the other (`Start`).  Messages
are only the path to answer to, since `System` has the rest.

### The texts (`Wire`, `Scoring`, `GuessText`)

A text is a sequence of one-character strings.  `extract` is `>>` into a number,
`decimal` is `<<`.  `fromString` has three outcomes: a message; `Threw`, when the length
is larger than the text (`common.cpp:30`); `Garbage`, when the header itself is cut, so
that variables without a value decide.  `GuessText` lets clients write messages while
the server reads up to `ReadSize` bytes, so that reads are whole, coalesced or cut.
`value`, `number`, `skipSpaces` and `leadingDigits` are the parts of `extract`; `Byte` is
the set of the bytes, any set that has the digits and the space.  It may have `Nul`, the
byte 0: a client sends a payload with one whole (`common.cpp:56`), but the server makes a
string of its buffer up to the first (`Server.cpp:130`), which is `cString`.  The loops of the
code (over the digits of a number, and over the secret with `addPlace`) are recursive
functions; the score is compared with a definition by cardinalities (`reference`).

### Lab1 (`Pipes`) and Lab4 (`Libraries`)

In `Pipes` every process holds a set of pipe ends, which `fork` copies; `read` returns 0
when the pipe is empty and nobody holds its write end, a write without a read end left
is `SIGPIPE`.  `works` and `forks` are chosen in `Init`: which children get through
`exec` and `dup2` (`execl` is called without its final null, the files are opened
without a test) and how many forks succeed.  `main.c:44` hands the first child the write
end of the second pipe, and `CloseWriteEnd` closes just that.

In `Libraries` the libraries that can be loaded and the functions they export are chosen
in `Init`, a function pointer is the library it points into, and `told` is the library
that the program's last line on the subject named.

### Lab2 (`BatchSum`) and Lab3 (`Handshake`)

In `BatchSum` a number is its position in the file and a sum is the set of the numbers
added; `Value` has the numbers themselves, for the mean that `main` computes when it prints
(`sumOf`, `averageOf`; nothing is divided when the sum is zero).  Overflow of the sum, an
integer of 1024 bits, is left out.  `memset(memory, 0, batch_size)` clears bytes, not numbers: `clearedMemory`
clears the slots that these bytes reach.  The file may be shorter than it declares.
`MEM_PER_THREAD` is not defined, as in the repository.  Every word of the file is a
number (a word that is none would throw).

In `Handshake` the flags are read and written one at a time.  `opens` and `forks` are
chosen in `Init`: which child can open its file and how many forks succeed.  The
stores to `data` come before the store to `ready`: `strncpy` is a call, and the zero
stored after it is already there since the `memset` at the start, so that no order a
compiler may choose can be told apart.

## Runs

All bounds are constants of the modules or of the `MC` module.

| Run | Instance | Checks |
|---|---|---|
| `play` | 3 clients, one game of 2 seats, 2 rounds, 3 guesses, 2 possible secrets | `TypeOK`, `Seating`, `Unguessed`, `SingleWin`, `Winner`, `SecretKept`, `GameLifecycle`, `RefinesRounds` |
| `lobby` | 3 clients, games of 1 and 2 seats, every command with every shape of payload, 1 round, no accepted guess | `Seating`, `JoinedMeansSeated`, `SecondSeatOnlyByFind` |
| `seats` | 2 clients, 3 commands and 1 command of CREATE, FIND, LEAVE; a game named `a's` and one named `b`; 2 messages per read | `SysTypeOK`, `PromptTrue`, `SeatsOnlyOnRequest` |
| `quit` | 2 clients, 2 lines each of LIST, QUIT and one that is no command, signals | `QuitEnds` |
| `endpoints` | 2 servers, 2 clients with one pid, 1 command each, signals at any time | `Reached`, `NoneLeft`, `KilledByAStop`, `ServerEnds` |
| `texts` | guesses, other payloads, two of them with a NUL, 3 messages, reads of 26 bytes, every shuffle of 5 digits | `TypeOK`, `ScoresRight`, `WholeTextsDecode`, `ThrowsOnlyOnCutOrNul` |
| `batch` | 3 threads, batches of 2, 6 numbers declared and 0, 1, 5, 6 or 7 present | `EachNumberOnce`, `NoLostUpdate`, `RefinesSumOnce`, `Terminates` |
| `handshake` | 3 lines out of 6 (both parities, with and without vowels, longer than the buffer of 4), all failures | `TypeOK`, `OutputsRight`, `LineHandled`, `QuitEnds`, `RefinesLineFilter` |
| `pipes` | 4 words of 1 to 3 bytes, pipes of 3 bytes, reads of 2, all failures | `FirstChildWaits`, `KilledOnlyAlone`, `RefinesStreamFilter`, `SecondChildEnds`, `AllWritten`, `WordTaken` |
| `libraries` | every combination of missing libraries and functions; arguments -1, 0, 1 | `AnswersFromTold`, `WorkingStays` |
| `join`, `mean` | | one property each, violated: see below |

Why the bounds are enough to be of use.  In `play` three clients on two seats are the
least with which somebody joins a finished game in the place of somebody else; the
second round is where a secret, a winner or a log of the first could be taken for a
current one.  In `lobby` a game named by four digits and one created without a number stand
side by side, both waiting, both full or one of each; accepted guesses are the
subject of `play`.  In `seats` two messages in one
read are the least that can be mixed up; three commands of one client allow a seat, a
second seat and a leave while the other client's answers are under way; with the name
`a's` the prompt shows `a`, which is no game.  JOIN_GAME commands that are mixed up are the
subject of `join`; a restart of a game needs a second round, which `play` has, and the proofs
carry it over to `System`.  In `endpoints` two servers
are the least that can take the path from each other, or follow a killed one, and two
clients of one pid the least with which a FIFO is found that an earlier process left.
In `texts` two messages fill the buffer and a third is cut; of the payloads with a NUL one
is so long that the text throws, the other is not.  In `batch` two
threads can wait for the buffer while a third sums it, and a short last batch follows a
full one in the same slots.  In `handshake` the third line can go to the child that got
the first.  In `pipes` a second word does not fit beside one of three bytes, and a word
takes two reads.  The proofs have no bounds at all: `MaxRounds`, `MaxGuesses`, `MaxSent`,
`MaxQueued` and `MaxWords`, the numbers of processes, threads and numbers, the lines and
the sizes of buffers and pipes are arbitrary there.

`texts` and no other run is without a deadlock check: the server stops after a text that
throws, and the writers at their bound.

Symmetry under permutations of clients is used for the runs of `MCServer`, which check
no liveness; the clients of `MCSystem` differ in how much they send.

### What the program's own texts say and the code does not do

* `join`: of two JOIN_GAME commands in one read, the first sender gets the second one's
  game (`common.cpp:30`).
* `mean`: a short file's sum is divided by the declared count (`main.cpp:196`), and what is
  printed as the arithmetic mean (`main.cpp:199`) is not that of the numbers read.  In the
  run the numbers are 10, 20, ...: of five of them with six declared 25 is printed and 30 is
  the mean; for the file with all six the property holds.

The models show three more, which no run of their own repeats:

* "You are already in game ... Leave it first." holds for CREATE_GAME and JOIN_GAME, not
  for FIND_GAME: a player gets several seats (`Server.cpp:219`, `handleFindGame`);
  `SecondSeatOnlyByFind` says that nothing else gives a second one.
* "Invalid guess format" is also what a well-formed guess is told when the game is not
  in progress (`Server.cpp:280`, `Game.cpp:70`, `handleGuessNumber`).
* `GUESS_NUMBER 1234 5678` is the guess 1234 in the current game, even when there is a
  game named 1234 (`Server.cpp:256`, `BareGuess`).

Also seen while modelling, without a text that says otherwise: QUIT keeps the seat;
joining a running game after somebody left redraws the secret under the other players;
a restarted game goes on naming the old winner until there is a new one; a game with an
apostrophe in its name is shown by another name in the prompt, and after answers that were
read as one the prompt may be wrong until the next answer that sets it; a NUL in a long
payload ends the server (`ThrowsOnlyOnCutOrNul` has it as one of two reasons); after SIGINT
at its prompt a client waits for one more line; a client that closes its FIFO between
the server's open and write kills the server; a second server cuts off the first; the
second `fork` of Lab3 failing leaves its first child polling; Lab1's first child never
ends (`FirstChildWaits`), and its Cyrillic vowels, which are not single bytes, are never
found; Lab4's program 2 greets with library 1 also when it could not be used.

## Fairness

`Server` has none: its properties are safety.  `SysFairness` asks that the server's
loop and the clients' threads are scheduled, which polling loops with sleeps justify;
nobody has to type anything, and signals need not come.  `BatchSum` asks weak fairness
of each thread and of `main`; mutexes need not be fair, since a thread stays in the
race only while numbers are left.  `Handshake` asks weak fairness of the parent
(outside the prompt) and of each child: they yield with `sleep(0)`.  `Pipes` asks weak fairness of the parent outside its prompt and of each child, which
block in system calls or go on; a process that blocks is not enabled.  `Endpoints` asks
it of each server, and of each client's main thread (outside the prompt) and reader;
nobody has to start a process or to send a signal.  `LineHandled` is
stated for lines whose child could open its file; for the others the parent spins for
ever, and `Spin` is that loop.

## Proofs

`ServerProofs` shows that

    IInv == /\ for each game: its type, StateMatchesSeats, LogRounds,
               RunningSecretUnguessed, OneWinPerRound, WinnerIsLatest
            /\ the answer is about games that exist
            /\ RevealedPast: a secret was told only for a round that is over
            /\ JoinedMeansSeated

is inductive.  The properties alone are not: that a new round is unguessed, unwon and
untold needs `LogRounds` (no entry and no disclosure is of a later round than the
game's), and that a guess cannot win a round twice needs `RunningSecretUnguessed`.
There is a lemma for each method of `Game` (what it keeps), one for each kind of
handler step (a game created, a player seated, a player left, a guess made, an answer
only), and the theorems combine them.  For `RefinesRounds` the lemmas say what each kind of
step does to `winnersOf`: a round that opens adds an empty set (`LogRounds`: no entry is of
that round yet), a winning guess puts its player into the last one, which was empty
(`RunningSecretUnguessed`), and nothing else changes it.  Proved: `TypeOK`, `Seating`,
`Unguessed`, `SingleWin`, `Winner`, `SecretKept`, `JoinedMeansSeated`, `GameLifecycle`,
`RefinesRounds`, `LogsOnlyGrow`, `SecondSeatOnlyByFind`.

`SystemProofs` adds `Queue` (a message in the FIFO was sent by its sender), `Clients`
(types), `Unheard` (nothing waits for a reader that is not there) and `Told` (a seat
that a client was told of, in its prompt or in an answer it has not read yet, is there
unless a later answer says that it left; for the prompt, a seat in some game that is shown
so).  `Told` is what makes `PromptTrue` inductive.  Proved: `SysTypeOK`, `PromptTrue`,
`SeatsOnlyOnRequest`, and all that was proved of `Server` (`SystemGames`, `SystemSteps`).
That it carries over is no surprise: the steps of `System` that touch the games are those of
`Server` (the lemma `ServerSteps`), for messages that `ParsedLemma` shows to be in `Inbox`.

`BatchSumProofs` shows that `IInv == TypeOK /\ Locks /\ Life /\ Progress /\ Buffer /\
NoLostUpdate /\ Placed` is inductive.  `Locks` says at which points of `worker_func`
each mutex is held, and so that one thread reads, one thread uses the buffer and one
thread is between the load and the store of the sum.  `Progress` relates the count of
the numbers processed to the numbers read, also after an early end of the file: it
bounds what is read by the declared count.  `Buffer` says that the slots in use hold
the numbers read last, so that a batch is new and free of zeros when it is summed.
`Placed` is `EachNumberOnce` number by number.  `Life` orders the threads as `main`
creates and joins them: with `Progress` it gives that the sum is complete when `main`
prints it.  Proved: `TypeOK`, `NoLostUpdate`, `EachNumberOnce`, `RefinesSumOnce`; and what
of termination is safety: `NeverStuck` (while a thread is at work, one can go on: the mutexes
make no circle) and `RoundsCount` (every round of a thread brings the count on or it is at
the declared count, at which threads leave).

`HandshakeProofs` shows that `HInv == Hand /\ Flags /\ Hands` is inductive: where
parent and child are tells the values of `ready` and `done`, and that a line is in the
child's memory until it is written.  `Shape` adds the rest of the types, with the length
of the text in the buffer.  `Filed` says that each file holds what is kept of the lines
for it among the first `handled`, which are all that were typed, or all but the last while
it is `pending`; it is kept by the steps of `LineFilter` (`WriteFiled`, `StillFiled`), and at the
prompt and at the end nothing is pending.  The lines of a child are told by their numbers
(`Own`), so that the proof counts a finite set and needs no induction over the sequence.
`Lives` says who is born, and that a child exits only for want of its file or when it is
told.  Proved: `TypeOK`, `RefinesLineFilter`, `OutputsRight`, and `WaitsForTheLiving` (the
parent waits only for children that are there to answer, or that had no file).

`PipesProofs` shows that `IInv` is inductive: `TypeOK`, `ParentHeld` and, for each child,
`ChildInv` say which pipe ends every process holds at every point of its program, `Born`
that the children are born one after another, and that a working child ends only after
the parent gave up the write end of its pipe; the first child keeps one itself, so that
it never ends.  The properties alone are not inductive: whether a `read` returns 0 or a
write is killed depends on everybody's ends.  Proved: `TypeOK`, `FirstChildWaits`,
`KilledOnlyAlone`, `RefinesStreamFilter`, `WordIsAwaited` (the child for which a word waits
has something to do that makes room) and, with `Gone` (who is gone holds no end),
`SecondSeesTheEnd` (the first child holds no write end of the second pipe).  The refinement counts bytes (`ReadLemma`: what is
read and what stays in the pipe are what was there, in order); that the filter keeps the
order is by definition of `SelectSeq` and is not looked into.

`EndpointsProofs` shows that `TypeOK`, `Kinds`, `Alone`, `Owns`, `AtOwn`, `NoneLeft`,
`Writers` and `KilledByAStop` are inductive together: a process that met no other at its path
has the path for itself (`Alone`); what is there is then its own FIFO and the one it
reads (`Owns`, `AtOwn`); and while nobody stopped, a FIFO that is open to be written has
a reader (`Writers`).  Proved: `TypeOK`, `Reached`, `NoneLeft`, `KilledByAStop`.

`GuessTextProofs` is about loops over data.  The provers cannot apply the library's
induction theorems, whose parameter is an operator; but the natural numbers are well-founded,
and that is a statement about sets: from `NatLessThanWellFounded` and `WFMin`, `Least` gives
the smallest element of a set of numbers and `Induction` that a set with 0 and with the
successors of its elements has them all.  A recursive function is a `CHOOSE`, so that its
equation holds if some function satisfies it: `LoopRuns` makes one, round by round, for any
loop that starts at a value and goes on by a step function, and `DecimalIs` puts together the
one of `decimal`.  On these rest `ScoreIs` and `CodeScores` (the loop over the secret counts
what `reference` defines), `NumberLoop`, `NumberStep`, `DecimalIs` and `DecimalReads` (`>>`
reads back the number that `<<` wrote, for every number) and `Extracts` (and leaves
what follows it).  So `fromString` finds the head of the first message, whatever comes
after it (`FirstIsRead`), and the last bytes are the last payload (`PayloadIsLast`).
A header holds no NUL, so that the first one is in a payload: the text that `cString`
leaves still has the whole header of the first message (`HeadersStay`, `ReadToNul`), and it is
shorter than the first payload only if that NUL comes early (`ShortenedByNul`).
The inductive invariant `Inv` adds to the types `Whole` (the FIFO, unless a read has been
cut, begins with the first message written and ends with the last payload).  Proved:
`TypeOK`, `ScoresRight`, `WholeTextsDecode`, `ThrowsOnlyOnCutOrNul`, for every set of payloads
of any bytes, NULs included.

`LibrariesProofs` shows that `IInv == TypeOK /\ OpenSoFar /\ OneLibrary /\ AnswerKnown` is
inductive: which libraries are open follows from where the program is, and both
functions point into the library that was named last, or nowhere.  Proved:
`AnswersFromTold`, `WorkingStays`, and that every end of the program leaves both
libraries closed (`AllClosed`), also the exceptions of the constructor.

The assumptions are those of the modules (`GameAssumption`, `WordAssumption`,
`ServerAssumption`, `SystemAssumption`, `EndpointsAssumption`, `WireAssumption`,
`GuessTextAssumption`, `BatchSumAssumption`, `HandshakeAssumption`, `PipesAssumption`,
`LibrariesAssumption`): the sorts of the constants, that the digits and the space are bytes,
that a shuffle loses and doubles no digit, that what is shown of a name is a name or nothing,
that texts of different lengths leave some scrap, that the numbers of Lab2's file are
natural numbers, that secrets are well-formed guesses, that the order of names is injective,
and that the inbox of the server covers what reads may be taken for.  TLC evaluates them
in every run of a module that extends theirs.  `TypeOK` of `BatchSum`, `Pipes`,
`Endpoints` and `Libraries`, `LogsOnlyGrow`, `AllClosed` and the five properties that the
proof modules define themselves are proved, and are in no run; the deadlock check
of `batch`, `handshake` and `pipes` is the small instance of what they say.

Only model-checked: the liveness properties (`QuitEnds` of `System` and of `Handshake`,
`LineHandled`, `Terminates`, `ServerEnds`, `SecondChildEnds`, `AllWritten`, `WordTaken`),
which rest on fairness, and so on `ENABLED`, and are out of the prover's reach.  Every
invariant, action property and refinement that a passing run checks is proved.  Of the
liveness properties the proofs have what is safety in them, that nobody waits for something
that cannot come: `NeverStuck`, `RoundsCount`, `WaitsForTheLiving`, `WordIsAwaited`,
`SecondSeesTheEnd`.  They say which step is possible, by the guards of the actions; that it is taken
is for fairness and TLC.

## Plan

All of the modules that were planned exist: `Game`, `GameManager`, `Server`, `System`,
`SumOnce`, `BatchSum`, `LineFilter`, `Handshake`; then, in this order, `Endpoints` (which
server is at the path, double shutdown, `SIGPIPE`), `Pipes` with `StreamFilter` (Lab1),
`Wire`, `Scoring` and `GuessText` (bytes and digits), `CommandLine`, `Libraries` (Lab4) and
`Rounds`.

The abstract specifications are `Rounds` for each game of `Server` (and so of `System`),
`SumOnce` for `BatchSum`, `LineFilter` for `Handshake` and `StreamFilter` for `Pipes`.

What could still be added, of little weight: the length of the name in a command line,
which `Wire` has and `System` does not; a third client in `System`; a restarted server in
the same model as the games, all of which it forgets.

## Not modelled

* `Lab2/lab_files/generator.py`, the build files and `test.sh`: output and compilation
  only, no behaviour of the program.
* The series of `Lab4` (`lib*_impl.cpp`) and `program1.cpp`: floating point; nothing in
  them has a state or more than one outcome.
* `removeGame` and `gameExists` of `GameManager`, `read_from_FIFO` of `common.cpp`: no
  caller.
* The data race on the bytes of `current_game_name_` (`Client.cpp:32`): the standard gives
  it no outcome to choose from.  `System` reads and writes the name in one step.
* Errors of system calls that the code only reports (`perror`) before it exits, unless
  other processes are left behind by it: those are `forks`, `opens` and `works`.
