----------------------------- MODULE Handshake -----------------------------
(***************************************************************************)
(* Lab3: a parent process hands the lines it reads to two child processes  *)
(* through one memory-mapped SharedData each, guarded by the flags ready   *)
(* and done, on which both sides spin.  Every access to a flag is a step.  *)
(*                                                                         *)
(* opens and forks are what the system calls will answer: which children   *)
(* can open their output file, and how many of the two forks succeed.      *)
(***************************************************************************)
EXTENDS Naturals, Sequences, FiniteSets

CONSTANTS
  Letter, Vowel,   \* the characters of a line, and those that removeLetters drops
  Line,            \* the lines that may be typed, neither empty nor "~quit"
  BufferSize,      \* BUFFER_SIZE
  MaxLines         \* bound: how many lines are typed

ASSUME HandshakeAssumption ==
  /\ Line \subseteq Seq(Letter) \ {<<>>}
  /\ BufferSize \in Nat \ {0}
  /\ MaxLines \in Nat

VARIABLES
  opens, forks,
  parent,              \* where the parent is
  child,               \* where each child is
  ready, done, data,   \* the two SharedData
  out,                 \* the lines in each output file
  typed                \* history: the lines the parent has taken, oldest first

env == <<opens, forks>>
vars == <<env, parent, child, ready, done, data, out, typed>>

Children == {1, 2}

Init ==
  /\ opens \in SUBSET Children
  /\ forks \in 0 .. 2
  /\ parent = "fork1"
  /\ child = [c \in Children |-> "absent"]
  /\ ready = [c \in Children |-> FALSE]
  /\ done = [c \in Children |-> FALSE]
  /\ data = [c \in Children |-> <<>>]
  /\ out = [c \in Children |-> <<>>]
  /\ typed = <<>>
-----------------------------------------------------------------------------
\* The lines of odd length are the first child's.
sideOf(line) == IF Len(line) % 2 = 1 THEN 1 ELSE 2

\* Seeded fault: the terminating zero is left out of account.
cut_NoZero(line) ==
  SubSeq(line, 1, IF Len(line) < BufferSize THEN Len(line) ELSE BufferSize)

\* strncpy into data, whose last character is then set to zero.
cut(line) ==
  SubSeq(line, 1, IF Len(line) < BufferSize - 1 THEN Len(line) ELSE BufferSize - 1)

removeLetters(line) == SelectSeq(line, LAMBDA x : x \notin Vowel)
-----------------------------------------------------------------------------
(***************************************************************************)
(* The parent.  current is the line it is handing over, the last one typed.*)
(***************************************************************************)
ParentGoes(from, to) == parent = from /\ parent' = to

current == typed[Len(typed)]

\* A failed fork ends the parent; a child forked before it is not told.
Fork(c, from, to) ==
  \/ /\ forks >= c
     /\ ParentGoes(from, to)
     /\ child' = [child EXCEPT ![c] = "opening"]
     /\ UNCHANGED <<env, ready, done, data, out, typed>>
  \/ /\ forks < c
     /\ ParentGoes(from, "failed")
     /\ UNCHANGED <<env, child, ready, done, data, out, typed>>

\* A line is read and copied.
TakeLine(line) ==
  /\ Len(typed) < MaxLines
  /\ ParentGoes("prompt", "set_ready")
  /\ typed' = Append(typed, line)
  /\ data' = [data EXCEPT ![sideOf(line)] = cut(line)]
  /\ UNCHANGED <<env, child, ready, done, out>>

SetReady ==
  /\ ParentGoes("set_ready", "waiting")
  /\ ready' = [ready EXCEPT ![sideOf(current)] = TRUE]
  /\ UNCHANGED <<env, child, done, data, out, typed>>

\* Seeded fault: the parent does not wait.
Handed_AtOnce ==
  /\ ParentGoes("waiting", "prompt")
  /\ UNCHANGED <<env, child, ready, done, data, out, typed>>

\* The loop on ready ends.
Handed ==
  /\ ParentGoes("waiting", "prompt")
  /\ ~ready[sideOf(current)]
  /\ UNCHANGED <<env, child, ready, done, data, out, typed>>

\* sleep(0): for ever, if the child has exited.
Spin ==
  /\ parent = "waiting"
  /\ ready[sideOf(current)]
  /\ UNCHANGED vars

\* "~quit" or the end of the input.
Quit ==
  /\ ParentGoes("prompt", "done1")
  /\ UNCHANGED <<env, child, ready, done, data, out, typed>>

\* Seeded fault: a child is told only if it has been handed a line.
SetDone_IfUsed(c, from, to) ==
  /\ ParentGoes(from, to)
  /\ done' = [done EXCEPT ![c] = data[c] # <<>>]
  /\ UNCHANGED <<env, child, ready, data, out, typed>>

SetDone(c, from, to) ==
  /\ ParentGoes(from, to)
  /\ done' = [done EXCEPT ![c] = TRUE]
  /\ UNCHANGED <<env, child, ready, data, out, typed>>

\* waitpid
Wait(c, from, to) ==
  /\ child[c] = "exited"
  /\ ParentGoes(from, to)
  /\ UNCHANGED <<env, child, ready, done, data, out, typed>>

Parent ==
  \/ Fork(1, "fork1", "fork2") \/ Fork(2, "fork2", "prompt")
  \/ SetReady \/ Handed \/ Spin
  \/ SetDone(1, "done1", "done2") \/ SetDone(2, "done2", "wait1")
  \/ Wait(1, "wait1", "wait2") \/ Wait(2, "wait2", "returned")

User == Quit \/ \E line \in Line : TakeLine(line)
-----------------------------------------------------------------------------
(***************************************************************************)
(* A child: childProcess.                                                  *)
(***************************************************************************)
ChildGoes(c, from, to) == child[c] = from /\ child' = [child EXCEPT ![c] = to]

\* A child that cannot open its output file exits.
Open(c) ==
  /\ ChildGoes(c, "opening", IF c \in opens THEN "ready?" ELSE "exited")
  /\ UNCHANGED <<env, parent, ready, done, data, out, typed>>

\* while (!ready && !done): two reads.
PollReady(c) ==
  /\ ChildGoes(c, "ready?", IF ready[c] THEN "check" ELSE "done?")
  /\ UNCHANGED <<env, parent, ready, done, data, out, typed>>

PollDone(c) ==
  /\ ChildGoes(c, "done?", IF done[c] THEN "check" ELSE "ready?")
  /\ UNCHANGED <<env, parent, ready, done, data, out, typed>>

\* done goes first: a line that were ready with it would be lost.
Check(c) ==
  /\ ChildGoes(c, "check", IF done[c] THEN "exited" ELSE "write")
  /\ UNCHANGED <<env, parent, ready, done, data, out, typed>>

\* Seeded fault: the parent is let go and the line is not written.
Write_ClearsFirst(c) ==
  /\ ChildGoes(c, "write", "clear")
  /\ ready' = [ready EXCEPT ![c] = FALSE]
  /\ UNCHANGED <<env, parent, done, data, out, typed>>

Write(c) ==
  /\ ChildGoes(c, "write", "clear")
  /\ out' = [out EXCEPT ![c] = Append(@, removeLetters(data[c]))]
  /\ UNCHANGED <<env, parent, ready, done, data, typed>>

\* Seeded fault: the child handles a single line.
Clear_Leaves(c) ==
  /\ ChildGoes(c, "clear", "exited")
  /\ ready' = [ready EXCEPT ![c] = FALSE]
  /\ UNCHANGED <<env, parent, done, data, out, typed>>

Clear(c) ==
  /\ ChildGoes(c, "clear", "ready?")
  /\ ready' = [ready EXCEPT ![c] = FALSE]
  /\ UNCHANGED <<env, parent, done, data, out, typed>>

Child(c) ==
  Open(c) \/ PollReady(c) \/ PollDone(c) \/ Check(c) \/ Write(c) \/ Clear(c)
-----------------------------------------------------------------------------
\* The parent has ended, and no child runs.
Ended ==
  /\ parent \in {"returned", "failed"}
  /\ \A c \in Children : child[c] \in {"absent", "exited"}
  /\ UNCHANGED vars

Next == Parent \/ User \/ (\E c \in Children : Child(c)) \/ Ended

\* The processes run; nobody has to type anything.
Fairness == WF_vars(Parent) /\ \A c \in Children : WF_vars(Child(c))

Spec == Init /\ [][Next]_vars /\ Fairness
-----------------------------------------------------------------------------
(***************************************************************************)
(* Properties.                                                             *)
(***************************************************************************)

\* The shape of the state: data holds a terminated string.  What the files hold is for
\* LineFilter to say.
TypeOK ==
  /\ opens \subseteq Children /\ forks \in 0 .. 2
  /\ parent \in {"fork1", "fork2", "failed", "prompt", "set_ready", "waiting",
                 "done1", "done2", "wait1", "wait2", "returned"}
  /\ child \in [Children -> {"absent", "opening", "ready?", "done?", "check", "write",
                             "clear", "exited"}]
  /\ ready \in [Children -> BOOLEAN] /\ done \in [Children -> BOOLEAN]
  /\ data \in [Children -> Seq(Letter)]
  /\ \A c \in Children : Len(data[c]) < BufferSize
  /\ DOMAIN out = Children
  /\ typed \in Seq(Line)

\* What a line leaves in a file.
kept(line) == removeLetters(cut(line))

\* Which of the first n lines typed are for a child's file.
Own(c, n) == {k \in 1 .. n : sideOf(typed[k]) = c}

\* A file holds what the lines for it among the first n have left, one after another.
Holds(c, n) ==
  /\ Len(out[c]) = Cardinality(Own(c, n))
  /\ \A k \in Own(c, n) : out[c][Cardinality(Own(c, k))] = kept(typed[k])

\* At the prompt, and after the children have ended, each file holds what the lines of
\* its length have left, in the order in which they were typed: none is lost, written
\* twice, or written to the other file.
OutputsRight ==
  parent \in {"prompt", "done1", "done2", "wait1", "wait2", "returned"} =>
    \A c \in Children : Holds(c, Len(typed))

\* The parent waits on: a line that was given to a child which could open its file
\* is handled, and the parent comes back to its prompt.
LineHandled ==
  \A c \in Children :
    parent = "waiting" /\ sideOf(current) = c /\ c \in opens ~> parent = "prompt"

\* After "~quit" both children end, those that did not get a single line included,
\* and the parent returns.
QuitEnds ==
  parent = "done1" ~> parent = "returned" /\ \A c \in Children : child[c] = "exited"

\* The line in the hands of a child, from the moment it is ready.
pending ==
  IF parent = "waiting" /\ ready[sideOf(current)] /\ child[sideOf(current)] # "clear"
  THEN <<current>> ELSE <<>>

\* The three processes together do what LineFilter says.
Abstract == INSTANCE LineFilter WITH Side <- Children, SideOf <- sideOf, Kept <- kept
RefinesLineFilter == Abstract!Spec
=============================================================================
