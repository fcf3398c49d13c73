-------------------------------- MODULE Pipes --------------------------------
(***************************************************************************)
(* Lab1: a parent sends the words that are typed through two pipes to two  *)
(* child processes, which write them to their files without the vowels.    *)
(* A pipe carries bytes: a read returns what is there, however many words. *)
(* The end of the input is seen by a reader when nobody holds a write end, *)
(* so the model keeps the ends that each process holds from the fork on.   *)
(*                                                                         *)
(* A child works if its exec and its dup2 succeed: execl is called without *)
(* its final null, and the file is opened without a test.  Prompts and the *)
(* text that a file already had are left out.                              *)
(***************************************************************************)
EXTENDS Naturals, Sequences

CONSTANTS
  Letter, Vowel,   \* the bytes of a word, and those that a child drops
  Word,            \* the words that may be typed
  ReadSize,        \* sizeof(data) - 1 in the child
  Capacity,        \* how many bytes a pipe holds
  MaxWords         \* bound: how many words are typed

ASSUME PipesAssumption ==
  /\ Word \subseteq Seq(Letter) \ {<<>>}
  /\ ReadSize \in Nat \ {0}
  /\ Capacity \in Nat
  /\ \A text \in Word : Len(text) <= Capacity
  /\ MaxWords \in Nat

VARIABLES
  works, forks,   \* the children that work, and how many forks succeed
  parent, child,  \* where the processes are
  held,           \* the ends of the pipes that each process holds
  pipe,           \* the bytes in each pipe
  word,           \* the word that the parent has read
  data,           \* the bytes that each child has read and not yet written
  out,            \* the lines in each file
  typed           \* how many words were typed

env == <<works, forks>>
vars == <<env, parent, child, held, pipe, word, data, out, typed>>

Parent == 0
Children == {1, 2}
Process == {Parent} \cup Children

\* The read end and the write end of a pipe; each child reads the pipe of its number.
readEnd(c) == <<c, "r">>
writeEnd(c) == <<c, "w">>
Ends == Children \X {"r", "w"}

Init ==
  /\ works \in SUBSET Children
  /\ forks \in 0 .. 2
  /\ parent = "names"
  /\ child = [c \in Children |-> "absent"]
  /\ held = [p \in Process |-> IF p = Parent THEN Ends ELSE {}]
  /\ pipe = [c \in Children |-> <<>>]
  /\ word = <<>>
  /\ data = [c \in Children |-> <<>>]
  /\ out = [c \in Children |-> <<>>]
  /\ typed = 0
-----------------------------------------------------------------------------
open(end) == \E p \in Process : end \in held[p]

\* A process gives up the ends in a set: all of them when it ends.
Release(p, ends) == held' = [held EXCEPT ![p] = @ \ ends]

ParentGoes(from, to) == parent = from /\ parent' = to

\* The names are compared before the first fork.
Names ==
  \/ /\ ParentGoes("names", "fork1")
     /\ UNCHANGED <<env, child, held, pipe, word, data, out, typed>>
  \/ /\ ParentGoes("names", "failed")
     /\ Release(Parent, Ends)
     /\ UNCHANGED <<env, child, pipe, word, data, out, typed>>

\* A child is born with every end that its parent holds.
Fork(c, from, to) ==
  \/ /\ forks >= c
     /\ ParentGoes(from, to)
     /\ child' = [child EXCEPT ![c] = "forked"]
     /\ held' = [held EXCEPT ![c] = held[Parent]]
     /\ UNCHANGED <<env, pipe, word, data, out, typed>>
  \/ /\ forks < c
     /\ ParentGoes(from, "failed")
     /\ Release(Parent, Ends)
     /\ UNCHANGED <<env, child, pipe, word, data, out, typed>>

Close(end, from, to) ==
  /\ ParentGoes(from, to)
  /\ Release(Parent, {end})
  /\ UNCHANGED <<env, child, pipe, word, data, out, typed>>

\* scanf returns a word; or the end of the input, which ends the loop.
Type(new) ==
  /\ typed < MaxWords
  /\ ParentGoes("prompt", "write")
  /\ word' = new
  /\ typed' = typed + 1
  /\ UNCHANGED <<env, child, held, pipe, data, out>>

EndOfInput ==
  /\ ParentGoes("prompt", "close_w1")
  /\ UNCHANGED <<env, child, held, pipe, word, data, out, typed>>

\* The words of odd length are the first child's.
sideOf(text) == IF Len(text) % 2 # 0 THEN 1 ELSE 2

fits(text) == Len(pipe[sideOf(text)]) + Len(text) <= Capacity

\* A write of less than PIPE_BUF bytes is never split; it waits for room.
Write ==
  /\ open(readEnd(sideOf(word)))
  /\ fits(word)
  /\ ParentGoes("write", "prompt")
  /\ pipe' = [pipe EXCEPT ![sideOf(word)] = @ \o word]
  /\ UNCHANGED <<env, child, held, word, data, out, typed>>

\* Nobody could read what is written: SIGPIPE.
Killed ==
  /\ ~open(readEnd(sideOf(word)))
  /\ ParentGoes("write", "killed")
  /\ Release(Parent, Ends)
  /\ UNCHANGED <<env, child, pipe, word, data, out, typed>>

ParentStep ==
  \/ Names
  \/ Fork(1, "fork1", "fork2") \/ Fork(2, "fork2", "close_r1")
  \/ Close(readEnd(1), "close_r1", "close_r2") \/ Close(readEnd(2), "close_r2", "prompt")
  \/ Write \/ Killed
  \/ Close(writeEnd(1), "close_w1", "close_w2") \/ Close(writeEnd(2), "close_w2", "ended")

User == EndOfInput \/ \E new \in Word : Type(new)
-----------------------------------------------------------------------------
ChildGoes(c, from, to) == child[c] = from /\ child' = [child EXCEPT ![c] = to]

\* exec, and dup2 of the file over the standard output.
Exec(c) ==
  \/ /\ c \in works
     /\ ChildGoes(c, "forked", "close")
     /\ UNCHANGED <<env, parent, held, pipe, word, data, out, typed>>
  \/ /\ c \notin works
     /\ ChildGoes(c, "forked", "ended")
     /\ Release(c, Ends)
     /\ UNCHANGED <<env, parent, pipe, word, data, out, typed>>

\* Seeded faults: each child closes the write end of its own pipe; each child
\* closes everything but the end it reads.
CloseWriteEnd_Own(c) ==
  /\ ChildGoes(c, "close", "read")
  /\ Release(c, {writeEnd(c)})
  /\ UNCHANGED <<env, parent, pipe, word, data, out, typed>>

CloseWriteEnd_All(c) ==
  /\ ChildGoes(c, "close", "read")
  /\ Release(c, Ends \ {readEnd(c)})
  /\ UNCHANGED <<env, parent, pipe, word, data, out, typed>>

\* Both children are given the write end of the second pipe to close.
CloseWriteEnd(c) ==
  /\ ChildGoes(c, "close", "read")
  /\ Release(c, {writeEnd(2)})
  /\ UNCHANGED <<env, parent, pipe, word, data, out, typed>>

\* How much a read returns.
available(c) == IF Len(pipe[c]) < ReadSize THEN Len(pipe[c]) ELSE ReadSize

\* Seeded fault: what does not fit is thrown away.
Read_Drops(c) ==
  /\ pipe[c] # <<>>
  /\ ChildGoes(c, "read", "write")
  /\ data' = [data EXCEPT ![c] = SubSeq(pipe[c], 1, available(c))]
  /\ pipe' = [pipe EXCEPT ![c] = <<>>]
  /\ UNCHANGED <<env, parent, held, word, out, typed>>

Read(c) ==
  /\ pipe[c] # <<>>
  /\ ChildGoes(c, "read", "write")
  /\ data' = [data EXCEPT ![c] = SubSeq(pipe[c], 1, available(c))]
  /\ pipe' = [pipe EXCEPT ![c] = SubSeq(@, available(c) + 1, Len(@))]
  /\ UNCHANGED <<env, parent, held, word, out, typed>>

\* read returns 0: no bytes and no writer.
EndOfPipe(c) ==
  /\ pipe[c] = <<>>
  /\ ~open(writeEnd(c))
  /\ ChildGoes(c, "read", "ended")
  /\ Release(c, Ends)
  /\ UNCHANGED <<env, parent, pipe, word, data, out, typed>>

withoutVowels(bytes) == SelectSeq(bytes, LAMBDA x : x \notin Vowel)

\* Seeded fault: one read, one line, and the child is done.
WriteLine_Once(c) ==
  /\ ChildGoes(c, "write", "ended")
  /\ Release(c, Ends)
  /\ out' = [out EXCEPT ![c] = Append(@, withoutVowels(data[c]))]
  /\ data' = [data EXCEPT ![c] = <<>>]
  /\ UNCHANGED <<env, parent, pipe, word, typed>>

\* What was read becomes a line of the file; data is cleared.
WriteLine(c) ==
  /\ ChildGoes(c, "write", "read")
  /\ out' = [out EXCEPT ![c] = Append(@, withoutVowels(data[c]))]
  /\ data' = [data EXCEPT ![c] = <<>>]
  /\ UNCHANGED <<env, parent, held, pipe, word, typed>>

Child(c) == Exec(c) \/ CloseWriteEnd(c) \/ Read(c) \/ EndOfPipe(c) \/ WriteLine(c)
-----------------------------------------------------------------------------
\* Nothing happens any more: a process has ended or waits in vain, the parent for
\* room in a pipe that nobody reads, a child for bytes that nobody will write.
Stalled ==
  /\ \/ parent \in {"ended", "failed", "killed"}
     \/ parent = "write" /\ open(readEnd(sideOf(word))) /\ ~fits(word)
  /\ \A c \in Children :
       \/ child[c] \in {"absent", "ended"}
       \/ child[c] = "read" /\ pipe[c] = <<>> /\ open(writeEnd(c))
  /\ UNCHANGED vars

Next == ParentStep \/ User \/ (\E c \in Children : Child(c)) \/ Stalled

\* The processes run; nobody has to type anything.
Fairness == WF_vars(ParentStep) /\ \A c \in Children : WF_vars(Child(c))

Spec == Init /\ [][Next]_vars /\ Fairness
-----------------------------------------------------------------------------
(***************************************************************************)
(* Properties.                                                             *)
(***************************************************************************)

\* The shape of the state: neither a pipe nor a child's buffer overflows.
TypeOK ==
  /\ works \subseteq Children /\ forks \in 0 .. 2
  /\ parent \in {"names", "fork1", "fork2", "failed", "close_r1", "close_r2", "prompt",
                 "write", "killed", "close_w1", "close_w2", "ended"}
  /\ child \in [Children -> {"absent", "forked", "close", "read", "write", "ended"}]
  /\ held \in [Process -> SUBSET Ends]
  /\ pipe \in [Children -> Seq(Letter)] /\ data \in [Children -> Seq(Letter)]
  /\ \A c \in Children : Len(pipe[c]) <= Capacity /\ Len(data[c]) <= ReadSize
  /\ word \in Word \cup {<<>>}
  /\ DOMAIN out = Children
  /\ typed \in Nat

\* A first child that works never ends: it is given the write end of the other pipe to
\* close, and goes on holding that of its own, so that it never sees the end of its
\* input, whatever becomes of the others.
FirstChildWaits == child[1] = "ended" => 1 \notin works

\* A child that works holds the read ends of both pipes: one that fails does not take
\* the parent with it.  The parent is killed by SIGPIPE only if neither works.
KilledOnlyAlone == parent = "killed" => works = {}

\* The second child ends after the parent has closed its pipes, although the first one
\* inherited the write end of its pipe and never ends.
SecondChildEnds == parent = "close_w1" ~> child[2] = "ended"

\* A child that works writes everything that was sent to it, the end of its input seen
\* or not.
AllWritten ==
  \A c \in Children :
    parent = "ended" /\ c \in works ~> pipe[c] = <<>> /\ data[c] = <<>>

\* A word for a child that works is taken, when the pipe is full too: the parent gets
\* back to its prompt.
WordTaken ==
  \A c \in Children :
    parent = "write" /\ sideOf(word) = c /\ c \in works ~> parent = "prompt"

\* The bytes of a pipe that are not written yet.
pending == [c \in Children |-> data[c] \o pipe[c]]

\* The three processes together do what StreamFilter says: no byte is lost, written
\* twice or out of order on its way through the pipe, the reads and the lines.
Abstract == INSTANCE StreamFilter WITH Side <- Children, SideOf <- sideOf,
                                       Kept <- withoutVowels
RefinesStreamFilter == Abstract!Spec
=============================================================================
