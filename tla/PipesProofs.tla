----------------------------- MODULE PipesProofs -----------------------------
(***************************************************************************)
(* Theorems about Pipes, for every set of words, every size of the pipes   *)
(* and of the reads.  The inductive invariant says which ends of the pipes *)
(* each process holds at each of its points, and which children live.      *)
(***************************************************************************)
EXTENDS Pipes, TLAPS, SequenceTheorems

\* The points of the parent between the second fork and the close of its last end.
Between == {"close_r1", "close_r2", "prompt", "write", "close_w1", "close_w2"}

ParentHeld ==
  /\ parent \in {"names", "fork1", "fork2"} => held[Parent] = Ends
  /\ parent \in Between => writeEnd(2) \in held[Parent]

\* A child holds everything until it has closed what it was told to close.
HeldOf(c) ==
  /\ child[c] \in {"forked", "close"} => held[c] = Ends
  /\ child[c] \in {"read", "write"} => held[c] = Ends \ {writeEnd(2)}

\* The children are born one after the other.
Born ==
  /\ parent \in {"names", "fork1"} => child[1] = "absent"
  /\ parent \in {"names", "fork1", "fork2"} => child[2] = "absent"
  /\ parent = "fork2" => child[1] # "absent"
  /\ parent \in Between => child[1] # "absent" /\ child[2] # "absent"

\* A child that works ends only after the parent has given up its ends, and the first
\* one never does.
WorksOf(c) ==
  /\ child[c] \in {"close", "read", "write"} => c \in works
  /\ child[c] = "ended" /\ c \in works =>
       c = 2 /\ parent \in {"ended", "failed", "killed"}

\* A child has data from its read to its write.
DataOf(c) == child[c] = "write" <=> data[c] # <<>>

ChildInv(c) == HeldOf(c) /\ WorksOf(c) /\ DataOf(c)

IInv ==
  /\ TypeOK
  /\ ParentHeld
  /\ Born
  /\ \A c \in Children : ChildInv(c)
  /\ parent = "write" => word \in Word
  /\ KilledOnlyAlone
-----------------------------------------------------------------------------
\* The ends of the pipes are different things.
LEMMA EndsLemma ==
  /\ \A c \in Children : readEnd(c) \in Ends /\ writeEnd(c) \in Ends
  /\ \A c, d \in Children : readEnd(c) # writeEnd(d)
  /\ writeEnd(1) # writeEnd(2)
  BY DEF Ends, readEnd, writeEnd, Children

LEMMA SidesLemma ==
  /\ 1 \in Children /\ 2 \in Children /\ Parent \in Process
  /\ \A c \in Children : c \in Process /\ c # Parent /\ (c = 1 \/ c = 2)
  /\ \A text : sideOf(text) \in Children
  BY DEF Children, Process, Parent, sideOf

\* What a read returns, and what it leaves.
LEMMA ReadLemma ==
  ASSUME NEW c \in Children, TypeOK, pipe[c] # <<>>
  PROVE  /\ available(c) \in 1 .. Len(pipe[c])
         /\ available(c) <= ReadSize
         /\ SubSeq(pipe[c], 1, available(c)) \in Seq(Letter)
         /\ Len(SubSeq(pipe[c], 1, available(c))) = available(c)
         /\ SubSeq(pipe[c], available(c) + 1, Len(pipe[c])) \in Seq(Letter)
         /\ Len(SubSeq(pipe[c], available(c) + 1, Len(pipe[c]))) <= Len(pipe[c])
         /\ SubSeq(pipe[c], 1, available(c))
              \o SubSeq(pipe[c], available(c) + 1, Len(pipe[c])) = pipe[c]
<1>1. pipe[c] \in Seq(Letter) /\ Len(pipe[c]) \in Nat /\ Len(pipe[c]) > 0
  BY DEF TypeOK
<1>2. ReadSize \in Nat /\ ReadSize > 0
  BY PipesAssumption
<1>3. available(c) \in 1 .. Len(pipe[c]) /\ available(c) <= ReadSize
  BY <1>1, <1>2 DEF available
<1> DEFINE n == available(c)
           s == pipe[c]
<1> HIDE DEF n, s
<1>4. s \in Seq(Letter) /\ n \in 1 .. Len(s) /\ n <= ReadSize /\ Len(s) \in Nat
  BY <1>1, <1>3 DEF n, s
<1>5. /\ SubSeq(s, 1, n) \in Seq(Letter)
      /\ Len(SubSeq(s, 1, n)) = n
  BY <1>4
<1>6. /\ SubSeq(s, n + 1, Len(s)) \in Seq(Letter)
      /\ Len(SubSeq(s, n + 1, Len(s))) <= Len(s)
  BY <1>4
<1>7. SubSeq(s, 1, n) \o SubSeq(s, n + 1, Len(s)) = s
  BY <1>4, <1>5, <1>6
<1> QED
  BY <1>4, <1>5, <1>6, <1>7 DEF n, s

LEMMA InitIInv == Init => IInv
  BY PipesAssumption
  DEF Init, IInv, TypeOK, ParentHeld, Born, ChildInv, HeldOf, WorksOf, DataOf, Between,
      KilledOnlyAlone, Children, Process, Parent, Ends
-----------------------------------------------------------------------------
\* What a step of the parent has to show: the children's part of the invariant can
\* only be disturbed where a child that works has ended.
LEMMA ParentKeepsChildren ==
  ASSUME IInv, works' = works, child' = child, data' = data,
         \A c \in Children : held'[c] = held[c],
         parent \in {"ended", "failed", "killed"} => parent' = parent
  PROVE  \A c \in Children : ChildInv(c)'
<1> SUFFICES ASSUME NEW c \in Children PROVE ChildInv(c)'
  OBVIOUS
<1>1. ChildInv(c) /\ held'[c] = held[c]
  BY DEF IInv
<1>2. HeldOf(c)' /\ DataOf(c)'
  BY <1>1 DEF ChildInv, HeldOf, DataOf
<1>3. WorksOf(c)'
  BY <1>1 DEF ChildInv, WorksOf
<1> QED
  BY <1>2, <1>3 DEF ChildInv

\* What is released is released by one process only.
LEMMA ReleaseLemma ==
  ASSUME TypeOK, NEW p \in Process, NEW ends \in SUBSET Ends, Release(p, ends)
  PROVE  /\ held' \in [Process -> SUBSET Ends]
         /\ held'[p] = held[p] \ ends
         /\ \A q \in Process : q # p => held'[q] = held[q]
  BY DEF TypeOK, Release

LEMMA NamesIInv == IInv /\ Names => IInv'
<1> SUFFICES ASSUME IInv, Names PROVE IInv'
  OBVIOUS
<1> USE SidesLemma
<1>1. CASE parent' = "fork1" /\ held' = held
  <2>1. parent = "names" /\ UNCHANGED <<env, child, held, pipe, word, data, out, typed>>
    BY <1>1 DEF Names, ParentGoes
  <2>2. \A c \in Children : ChildInv(c)'
    BY <2>1, <1>1, ParentKeepsChildren DEF env
  <2> QED
    BY <2>1, <2>2, <1>1 DEF IInv, TypeOK, ParentHeld, Born, KilledOnlyAlone, Between, env
<1>2. CASE parent' = "failed" /\ Release(Parent, Ends)
  <2>1. parent = "names" /\ UNCHANGED <<env, child, pipe, word, data, out, typed>>
    BY <1>2 DEF Names, ParentGoes
  <2>2. /\ held' \in [Process -> SUBSET Ends]
        /\ \A c \in Children : held'[c] = held[c]
    BY <1>2, ReleaseLemma DEF IInv
  <2>3. \A c \in Children : ChildInv(c)'
    BY <2>1, <2>2, ParentKeepsChildren DEF env
  <2> QED
    BY <2>1, <2>2, <2>3, <1>2
    DEF IInv, TypeOK, ParentHeld, Born, KilledOnlyAlone, Between, env
<1> QED
  BY <1>1, <1>2 DEF Names, ParentGoes

LEMMA ForkIInv ==
  ASSUME IInv, NEW c \in Children, NEW from, NEW to, Fork(c, from, to),
         \/ c = 1 /\ from = "fork1" /\ to = "fork2"
         \/ c = 2 /\ from = "fork2" /\ to = "close_r1"
  PROVE  IInv'
<1> USE SidesLemma
<1>1. CASE forks < c
  <2>1. /\ parent' = "failed" /\ parent = from /\ Release(Parent, Ends)
        /\ UNCHANGED <<env, child, pipe, word, data, out, typed>>
    BY <1>1 DEF Fork, ParentGoes, IInv, TypeOK, Children
  <2>2. /\ held' \in [Process -> SUBSET Ends]
        /\ \A d \in Children : held'[d] = held[d]
    BY <2>1, ReleaseLemma DEF IInv
  <2>3. \A d \in Children : ChildInv(d)'
    BY <2>1, <2>2, ParentKeepsChildren DEF env
  <2> QED
    BY <2>1, <2>2, <2>3
    DEF IInv, TypeOK, ParentHeld, Born, KilledOnlyAlone, Between, env
<1>2. CASE forks >= c
  <2>1. /\ parent = from /\ parent' = to
        /\ child' = [child EXCEPT ![c] = "forked"]
        /\ held' = [held EXCEPT ![c] = held[Parent]]
        /\ UNCHANGED <<env, pipe, word, data, out, typed>>
    BY <1>2 DEF Fork, ParentGoes, IInv, TypeOK, Children
  <2>2. held[Parent] = Ends
    BY <2>1 DEF IInv, ParentHeld
  <2>3. /\ held' \in [Process -> SUBSET Ends]
        /\ held'[c] = Ends /\ held'[Parent] = Ends
        /\ \A d \in Children : d # c => held'[d] = held[d]
    BY <2>1, <2>2 DEF IInv, TypeOK
  <2>4. /\ child' \in [Children -> {"absent", "forked", "close", "read", "write", "ended"}]
        /\ child'[c] = "forked"
        /\ \A d \in Children : d # c => child'[d] = child[d]
    BY <2>1 DEF IInv, TypeOK
  <2>5. TypeOK'
    BY <2>1, <2>3, <2>4 DEF IInv, TypeOK, env
  <2>6. child[c] = "absent"
    BY <2>1 DEF IInv, Born
  <2>7. ParentHeld'
    BY <2>1, <2>2, <2>3 DEF IInv, ParentHeld, Between, writeEnd, Ends
  <2>8. Born'
    BY <2>1, <2>4 DEF IInv, Born, Between
  <2>9. ChildInv(c)'
    BY <2>1, <2>3, <2>4, <2>6 DEF IInv, ChildInv, HeldOf, WorksOf, DataOf
  <2>10. ASSUME NEW d \in Children, d # c PROVE ChildInv(d)'
    <3>1. ChildInv(d) /\ child'[d] = child[d] /\ held'[d] = held[d]
      BY <2>3, <2>4, <2>10 DEF IInv
    <3> QED
      BY <3>1, <2>1 DEF ChildInv, HeldOf, WorksOf, DataOf, env
  <2> QED
    BY <2>1, <2>5, <2>7, <2>8, <2>9, <2>10 DEF IInv, KilledOnlyAlone
<1> QED
  BY <1>1, <1>2, PipesAssumption DEF IInv, TypeOK, Children

\* A step of the parent after the forks, which may release an end other than writeEnd(2).
LEMMA ParentStepIInv ==
  ASSUME IInv, TypeOK', KilledOnlyAlone',
         UNCHANGED <<works, child, data>>,
         \A c \in Children : held'[c] = held[c],
         parent \in Between,
         parent' \in Between => writeEnd(2) \in held'[Parent],
         parent' \in Between \cup {"ended", "killed"},
         parent' = "write" => word' \in Word
  PROVE  IInv'
<1>1. \A c \in Children : ChildInv(c)'
  BY ParentKeepsChildren DEF Between
<1>2. ParentHeld'
  BY DEF ParentHeld, Between
<1>3. Born'
  BY DEF IInv, Born, Between
<1> QED
  BY <1>1, <1>2, <1>3 DEF IInv

LEMMA CloseIInv ==
  ASSUME IInv, NEW end \in Ends, NEW from, NEW to, Close(end, from, to),
         from \in Between, to \in (Between \ {"write"}) \cup {"ended"},
         to \in Between => end # writeEnd(2)
  PROVE  IInv'
<1> USE SidesLemma
<1>1. /\ parent = from /\ parent' = to /\ Release(Parent, {end})
      /\ UNCHANGED <<env, child, pipe, word, data, out, typed>>
  BY DEF Close, ParentGoes
<1>2. /\ held' \in [Process -> SUBSET Ends]
      /\ held'[Parent] = held[Parent] \ {end}
      /\ \A c \in Children : held'[c] = held[c]
  BY <1>1, ReleaseLemma DEF IInv
<1>3. TypeOK' /\ KilledOnlyAlone'
  BY <1>1, <1>2 DEF IInv, TypeOK, Between, KilledOnlyAlone, env
<1>4. parent' \in Between => writeEnd(2) \in held'[Parent]
  BY <1>1, <1>2 DEF IInv, ParentHeld
<1> QED
  BY <1>1, <1>2, <1>3, <1>4, ParentStepIInv DEF env, Between

LEMMA UserIInv == IInv /\ User => IInv'
<1> SUFFICES ASSUME IInv, User PROVE IInv'
  OBVIOUS
<1> USE SidesLemma
<1>1. CASE EndOfInput
  BY <1>1, ParentStepIInv
  DEF EndOfInput, ParentGoes, IInv, TypeOK, KilledOnlyAlone, ParentHeld, Between, env
<1>2. ASSUME NEW new \in Word, Type(new) PROVE IInv'
  BY <1>2, ParentStepIInv
  DEF Type, ParentGoes, IInv, TypeOK, KilledOnlyAlone, ParentHeld, Between, env
<1> QED
  BY <1>1, <1>2 DEF User

LEMMA WriteIInv == IInv /\ Write => IInv'
<1> SUFFICES ASSUME IInv, Write PROVE IInv'
  OBVIOUS
<1> USE SidesLemma
<1>1. /\ parent = "write" /\ parent' = "prompt" /\ fits(word)
      /\ pipe' = [pipe EXCEPT ![sideOf(word)] = @ \o word]
      /\ UNCHANGED <<env, child, held, word, data, out, typed>>
  BY DEF Write, ParentGoes
<1>2. word \in Seq(Letter)
  BY <1>1, PipesAssumption DEF IInv
<1>3. /\ pipe' \in [Children -> Seq(Letter)]
      /\ \A c \in Children : Len(pipe'[c]) <= Capacity
  BY <1>1, <1>2 DEF IInv, TypeOK, fits
<1>4. TypeOK' /\ KilledOnlyAlone'
  BY <1>1, <1>3 DEF IInv, TypeOK, KilledOnlyAlone, env
<1> QED
  BY <1>1, <1>4, ParentStepIInv DEF IInv, ParentHeld, Between, env

\* Nobody holds the read end of the pipe: no child is alive, and none of them worked.
LEMMA KilledIInv == IInv /\ Killed => IInv'
<1> SUFFICES ASSUME IInv, Killed PROVE IInv'
  OBVIOUS
<1> USE SidesLemma
<1> DEFINE r == readEnd(sideOf(word))
<1>1. /\ parent = "write" /\ parent' = "killed" /\ Release(Parent, Ends)
      /\ UNCHANGED <<env, child, pipe, word, data, out, typed>>
      /\ \A p \in Process : r \notin held[p]
  BY DEF Killed, ParentGoes, open
<1>2. /\ held' \in [Process -> SUBSET Ends]
      /\ \A c \in Children : held'[c] = held[c]
  BY <1>1, ReleaseLemma DEF IInv
<1>3. r \in Ends /\ r # writeEnd(2)
  BY EndsLemma
<1>4. ASSUME NEW c \in Children PROVE c \notin works
  <2>1. r \notin held[c] /\ ChildInv(c)
    BY <1>1 DEF IInv
  <2>2. child[c] \notin {"forked", "close", "read", "write"}
    BY <2>1, <1>3 DEF ChildInv, HeldOf
  <2>3. child[c] # "absent"
    BY <1>1 DEF IInv, Born, Between
  <2>4. child[c] = "ended"
    BY <2>2, <2>3 DEF IInv, TypeOK
  <2> QED
    BY <2>1, <2>4, <1>1 DEF ChildInv, WorksOf
<1>5. TypeOK' /\ KilledOnlyAlone'
  BY <1>1, <1>2, <1>4 DEF IInv, TypeOK, KilledOnlyAlone, env
<1> QED
  BY <1>1, <1>2, <1>5, ParentStepIInv DEF Between, env

LEMMA ParentIInv == IInv /\ ParentStep => IInv'
<1> SUFFICES ASSUME IInv, ParentStep PROVE IInv'
  OBVIOUS
<1> USE SidesLemma
<1>1. CASE Fork(1, "fork1", "fork2") \/ Fork(2, "fork2", "close_r1")
  BY <1>1, ForkIInv
<1>2. CASE \/ Close(readEnd(1), "close_r1", "close_r2")
           \/ Close(readEnd(2), "close_r2", "prompt")
  BY <1>2, CloseIInv, EndsLemma DEF Between
<1>3. CASE \/ Close(writeEnd(1), "close_w1", "close_w2")
           \/ Close(writeEnd(2), "close_w2", "ended")
  BY <1>3, CloseIInv, EndsLemma DEF Between
<1>4. CASE Names \/ Write \/ Killed
  BY <1>4, NamesIInv, WriteIInv, KilledIInv
<1> QED
  BY ONLY ParentStep, <1>1, <1>2, <1>3, <1>4 DEF ParentStep
-----------------------------------------------------------------------------
\* What a step of a child that works has to show.
LEMMA ChildStepIInv ==
  ASSUME IInv, NEW c \in Children, TypeOK', ChildInv(c)',
         UNCHANGED <<works, parent, word>>,
         child[c] # "absent", child'[c] # "absent",
         \A p \in Process : p # c => held'[p] = held[p],
         \A d \in Children : d # c => child'[d] = child[d] /\ data'[d] = data[d]
  PROVE  IInv'
<1> USE SidesLemma
<1>1. ASSUME NEW d \in Children, d # c PROVE ChildInv(d)'
  <2>1. ChildInv(d) /\ held'[d] = held[d] /\ child'[d] = child[d] /\ data'[d] = data[d]
    BY <1>1 DEF IInv
  <2> QED
    BY <2>1 DEF ChildInv, HeldOf, WorksOf, DataOf
<1>2. ParentHeld'
  BY DEF IInv, ParentHeld
<1>3. Born'
  <2>1. \A d \in Children : (child'[d] = "absent") = (child[d] = "absent")
    OBVIOUS
  <2>2. /\ (child'[1] = "absent") = (child[1] = "absent")
        /\ (child'[2] = "absent") = (child[2] = "absent")
    BY <2>1
  <2> QED
    BY <2>2 DEF IInv, Born
<1> QED
  BY <1>1, <1>2, <1>3 DEF IInv, KilledOnlyAlone

\* ChildGoes, one child at a time.
LEMMA ChildGoesLemma ==
  ASSUME TypeOK, NEW c \in Children, NEW from,
         NEW to \in {"forked", "close", "read", "write", "ended"},
         ChildGoes(c, from, to)
  PROVE  /\ child' \in [Children -> {"absent", "forked", "close", "read", "write", "ended"}]
         /\ child[c] = from /\ child'[c] = to
         /\ \A d \in Children : d # c => child'[d] = child[d]
  BY DEF TypeOK, ChildGoes

LEMMA ExecIInv == ASSUME IInv, NEW c \in Children, Exec(c) PROVE IInv'
<1> USE SidesLemma
<1>0. TypeOK /\ ChildInv(c)
  BY DEF IInv
<1>1. CASE c \in works /\ ChildGoes(c, "forked", "close")
  <2>1. UNCHANGED <<env, parent, held, pipe, word, data, out, typed>>
    BY <1>1 DEF Exec, ChildGoes
  <2>2. /\ child' \in [Children -> {"absent", "forked", "close", "read", "write", "ended"}]
        /\ child[c] = "forked" /\ child'[c] = "close"
        /\ \A d \in Children : d # c => child'[d] = child[d]
    BY <1>0, <1>1, ChildGoesLemma
  <2>3. TypeOK'
    BY <1>0, <2>1, <2>2 DEF TypeOK, env
  <2>4. ChildInv(c)'
    BY <1>0, <1>1, <2>1, <2>2 DEF ChildInv, HeldOf, WorksOf, DataOf, env
  <2> QED
    BY <2>1, <2>2, <2>3, <2>4, ChildStepIInv DEF env
<1>2. CASE c \notin works /\ ChildGoes(c, "forked", "ended")
  <2>1. Release(c, Ends) /\ UNCHANGED <<env, parent, pipe, word, data, out, typed>>
    BY <1>2 DEF Exec, ChildGoes
  <2>2. /\ child' \in [Children -> {"absent", "forked", "close", "read", "write", "ended"}]
        /\ child[c] = "forked" /\ child'[c] = "ended"
        /\ \A d \in Children : d # c => child'[d] = child[d]
    BY <1>0, <1>2, ChildGoesLemma
  <2>3. /\ held' \in [Process -> SUBSET Ends]
        /\ \A p \in Process : p # c => held'[p] = held[p]
    BY <1>0, <2>1, ReleaseLemma
  <2>4. TypeOK'
    BY <1>0, <2>1, <2>2, <2>3 DEF TypeOK, env
  <2>5. ChildInv(c)'
    BY <1>0, <1>2, <2>1, <2>2 DEF ChildInv, HeldOf, WorksOf, DataOf, env
  <2> QED
    BY <2>1, <2>2, <2>3, <2>4, <2>5, ChildStepIInv DEF env
<1> QED
  BY ONLY Exec(c), <1>1, <1>2 DEF Exec

LEMMA CloseWriteEndIInv == ASSUME IInv, NEW c \in Children, CloseWriteEnd(c) PROVE IInv'
<1> USE SidesLemma
<1>0. TypeOK /\ ChildInv(c)
  BY DEF IInv
<1>1. /\ ChildGoes(c, "close", "read") /\ Release(c, {writeEnd(2)})
      /\ UNCHANGED <<env, parent, pipe, word, data, out, typed>>
  BY DEF CloseWriteEnd
<1>2. /\ child' \in [Children -> {"absent", "forked", "close", "read", "write", "ended"}]
      /\ child[c] = "close" /\ child'[c] = "read"
      /\ \A d \in Children : d # c => child'[d] = child[d]
  BY <1>0, <1>1, ChildGoesLemma
<1>3. /\ held' \in [Process -> SUBSET Ends]
      /\ held'[c] = held[c] \ {writeEnd(2)}
      /\ \A p \in Process : p # c => held'[p] = held[p]
  BY <1>0, <1>1, ReleaseLemma, EndsLemma
<1>4. TypeOK'
  BY <1>0, <1>1, <1>2, <1>3 DEF TypeOK, env
<1>5. ChildInv(c)'
  BY <1>0, <1>1, <1>2, <1>3 DEF ChildInv, HeldOf, WorksOf, DataOf, env
<1> QED
  BY <1>1, <1>2, <1>3, <1>4, <1>5, ChildStepIInv DEF env

LEMMA ReadIInv == ASSUME IInv, NEW c \in Children, Read(c) PROVE IInv'
<1> USE SidesLemma
<1>0. TypeOK /\ ChildInv(c)
  BY DEF IInv
<1> DEFINE got == SubSeq(pipe[c], 1, available(c))
           left == SubSeq(pipe[c], available(c) + 1, Len(pipe[c]))
<1>1. /\ ChildGoes(c, "read", "write") /\ pipe[c] # <<>>
      /\ data' = [data EXCEPT ![c] = got] /\ pipe' = [pipe EXCEPT ![c] = left]
      /\ UNCHANGED <<env, parent, held, word, out, typed>>
  BY DEF Read
<1>2. /\ child' \in [Children -> {"absent", "forked", "close", "read", "write", "ended"}]
      /\ child[c] = "read" /\ child'[c] = "write"
      /\ \A d \in Children : d # c => child'[d] = child[d]
  BY <1>0, <1>1, ChildGoesLemma
<1>3. /\ got \in Seq(Letter) /\ Len(got) \in 1 .. ReadSize
      /\ left \in Seq(Letter) /\ Len(left) <= Capacity
  <2>1. /\ available(c) \in 1 .. ReadSize
        /\ got \in Seq(Letter) /\ Len(got) = available(c)
        /\ left \in Seq(Letter) /\ Len(left) <= Len(pipe[c])
    BY <1>0, <1>1, ReadLemma, PipesAssumption
  <2>2. Len(pipe[c]) \in Nat /\ Len(pipe[c]) <= Capacity
    BY <1>0 DEF TypeOK
  <2> HIDE DEF got, left
  <2>3. Len(left) \in Nat
    BY <2>1
  <2> QED
    BY <2>1, <2>2, <2>3, PipesAssumption
<1> HIDE DEF got, left
<1>4. /\ data' \in [Children -> Seq(Letter)] /\ data'[c] = got
      /\ \A d \in Children : d # c => data'[d] = data[d]
  BY <1>0, <1>1, <1>3 DEF TypeOK
<1>5. /\ pipe' \in [Children -> Seq(Letter)] /\ pipe'[c] = left
      /\ \A d \in Children : d # c => pipe'[d] = pipe[d]
  BY <1>0, <1>1, <1>3 DEF TypeOK
<1>6. \A d \in Children : Len(pipe'[d]) <= Capacity /\ Len(data'[d]) <= ReadSize
  <2> SUFFICES ASSUME NEW d \in Children
               PROVE  Len(pipe'[d]) <= Capacity /\ Len(data'[d]) <= ReadSize
    OBVIOUS
  <2>1. CASE d = c
    BY <2>1, <1>3, <1>4, <1>5
  <2>2. CASE d # c
    BY <2>2, <1>0, <1>4, <1>5 DEF TypeOK
  <2> QED
    BY <2>1, <2>2
<1>7. TypeOK'
  BY <1>0, <1>1, <1>2, <1>4, <1>5, <1>6 DEF TypeOK, env
<1>8. got # <<>>
  BY <1>3
<1>9. ChildInv(c)'
  BY <1>0, <1>1, <1>2, <1>4, <1>8 DEF ChildInv, HeldOf, WorksOf, DataOf, env
<1> QED
  BY <1>1, <1>2, <1>4, <1>7, <1>9, ChildStepIInv DEF env

\* A child sees the end of its pipe only when the parent holds nothing any more, and
\* that cannot be the first one: it holds the write end of its own pipe.
LEMMA EndOfPipeIInv == ASSUME IInv, NEW c \in Children, EndOfPipe(c) PROVE IInv'
<1> USE SidesLemma
<1>0. TypeOK /\ ChildInv(c)
  BY DEF IInv
<1>1. /\ ChildGoes(c, "read", "ended") /\ Release(c, Ends)
      /\ \A p \in Process : writeEnd(c) \notin held[p]
      /\ UNCHANGED <<env, parent, pipe, word, data, out, typed>>
  BY DEF EndOfPipe, open
<1>2. /\ child' \in [Children -> {"absent", "forked", "close", "read", "write", "ended"}]
      /\ child[c] = "read" /\ child'[c] = "ended"
      /\ \A d \in Children : d # c => child'[d] = child[d]
  BY <1>0, <1>1, ChildGoesLemma
<1>3. /\ held' \in [Process -> SUBSET Ends]
      /\ \A p \in Process : p # c => held'[p] = held[p]
  BY <1>0, <1>1, ReleaseLemma
<1>4. TypeOK'
  BY <1>0, <1>1, <1>2, <1>3 DEF TypeOK, env
<1>5. c = 2
  <2>1. writeEnd(c) \in Ends \ (held[c] \cup held[Parent])
    BY <1>1, EndsLemma
  <2>2. held[c] = Ends \ {writeEnd(2)}
    BY <1>0, <1>2 DEF ChildInv, HeldOf
  <2>3. writeEnd(c) = writeEnd(2)
    BY <2>1, <2>2
  <2> QED
    BY <2>3, EndsLemma
<1>6. parent \in {"ended", "failed", "killed"}
  <2>1. parent \notin Between
    BY <1>1, <1>5 DEF IInv, ParentHeld
  <2>2. parent \notin {"names", "fork1", "fork2"}
    BY <1>1, EndsLemma DEF IInv, ParentHeld
  <2> QED
    BY <2>1, <2>2, <1>0 DEF TypeOK, Between
<1>7. ChildInv(c)'
  BY <1>0, <1>1, <1>2, <1>5, <1>6 DEF ChildInv, HeldOf, WorksOf, DataOf, env
<1> QED
  BY <1>1, <1>2, <1>3, <1>4, <1>7, ChildStepIInv DEF env

LEMMA WriteLineIInv == ASSUME IInv, NEW c \in Children, WriteLine(c) PROVE IInv'
<1> USE SidesLemma
<1>0. TypeOK /\ ChildInv(c)
  BY DEF IInv
<1>1. /\ ChildGoes(c, "write", "read")
      /\ data' = [data EXCEPT ![c] = <<>>]
      /\ out' = [out EXCEPT ![c] = Append(@, withoutVowels(data[c]))]
      /\ UNCHANGED <<env, parent, held, pipe, word, typed>>
  BY DEF WriteLine
<1>2. /\ child' \in [Children -> {"absent", "forked", "close", "read", "write", "ended"}]
      /\ child[c] = "write" /\ child'[c] = "read"
      /\ \A d \in Children : d # c => child'[d] = child[d]
  BY <1>0, <1>1, ChildGoesLemma
<1>3. /\ data' \in [Children -> Seq(Letter)] /\ data'[c] = <<>>
      /\ \A d \in Children : d # c => data'[d] = data[d]
      /\ \A d \in Children : Len(data'[d]) <= ReadSize
  BY <1>0, <1>1, PipesAssumption DEF TypeOK
<1>4. TypeOK'
  BY <1>0, <1>1, <1>2, <1>3 DEF TypeOK, env
<1>5. ChildInv(c)'
  BY <1>0, <1>1, <1>2, <1>3 DEF ChildInv, HeldOf, WorksOf, DataOf, env
<1> QED
  BY <1>1, <1>2, <1>3, <1>4, <1>5, ChildStepIInv DEF env

LEMMA NextIInv == IInv /\ [Next]_vars => IInv'
<1> SUFFICES ASSUME IInv, [Next]_vars PROVE IInv'
  OBVIOUS
<1>1. ASSUME NEW c \in Children, Child(c) PROVE IInv'
  BY <1>1, ExecIInv, CloseWriteEndIInv, ReadIInv, EndOfPipeIInv, WriteLineIInv DEF Child
<1>2. CASE UNCHANGED vars
  BY <1>2 DEF vars, env, IInv, TypeOK, ParentHeld, Born, ChildInv, HeldOf, WorksOf, DataOf,
              KilledOnlyAlone
<1> QED
  BY <1>1, <1>2, ParentIInv, UserIInv DEF Next, Stalled
-----------------------------------------------------------------------------
\* The state keeps its shape: no pipe holds more than its capacity, no child reads more
\* than its buffer takes (the write of the parent, the read of the child).
THEOREM TypeCorrect == Spec => []TypeOK
<1>1. IInv => TypeOK
  BY DEF IInv
<1> QED
  BY <1>1, InitIInv, NextIInv, PTL DEF Spec

\* The first child never sees the end of its input: it was given the wrong end to close.
THEOREM FirstChildNeverEnds == Spec => []FirstChildWaits
<1>1. IInv => FirstChildWaits
  BY SidesLemma DEF IInv, ChildInv, WorksOf, FirstChildWaits
<1> QED
  BY <1>1, InitIInv, NextIInv, PTL DEF Spec

\* SIGPIPE ends the parent only when no child works: each child that works holds the
\* read end of the other's pipe too.
THEOREM OneChildKeepsParent == Spec => []KilledOnlyAlone
<1>1. IInv => KilledOnlyAlone
  BY DEF IInv
<1> QED
  BY <1>1, InitIInv, NextIInv, PTL DEF Spec
-----------------------------------------------------------------------------
\* A step in which no word is written and no line leaves the abstract state alone.
LEMMA Stutter ==
  ASSUME UNCHANGED <<pipe, data, out>>
  PROVE  UNCHANGED <<pending, out>>
  BY DEF pending

LEMMA ConcatLetters ==
  \A x, y, z \in Seq(Letter) : x \o (y \o z) = (x \o y) \o z
<1> SUFFICES ASSUME NEW x \in Seq(Letter), NEW y \in Seq(Letter), NEW z \in Seq(Letter)
             PROVE  (x \o y) \o z = x \o (y \o z)
  OBVIOUS
<1> QED
  BY ConcatAssociative

\* A word that is written joins the bytes on their way.
LEMMA WriteIsPut == IInv /\ Write => Abstract!Put
<1> SUFFICES ASSUME IInv, Write PROVE Abstract!Put
  OBVIOUS
<1>1. /\ parent = "write" /\ UNCHANGED <<data, out>>
      /\ pipe' = [pipe EXCEPT ![sideOf(word)] = @ \o word]
  BY DEF Write, ParentGoes
<1>2. word \in Word /\ word \in Seq(Letter)
  BY <1>1, PipesAssumption DEF IInv
<1>3. \A c \in Children : pipe[c] \in Seq(Letter) /\ data[c] \in Seq(Letter)
  BY DEF IInv, TypeOK
<1>4. pending' = [pending EXCEPT ![sideOf(word)] = @ \o word]
  <2> DEFINE s == sideOf(word)
  <2>0. s \in Children
    BY SidesLemma
  <2> HIDE DEF s
  <2>1. pipe'[s] = pipe[s] \o word /\ \A c \in Children : c # s => pipe'[c] = pipe[c]
    BY <2>0, <1>1 DEF s, IInv, TypeOK
  <2>2. data[s] \o (pipe[s] \o word) = (data[s] \o pipe[s]) \o word
    <3>1. data[s] \in Seq(Letter) /\ pipe[s] \in Seq(Letter)
      BY <2>0, <1>3
    <3> QED
      BY <3>1, <1>2, ConcatLetters
  <2>3. ASSUME NEW c \in Children
        PROVE  data'[c] \o pipe'[c] = IF c = s THEN (data[c] \o pipe[c]) \o word
                                                ELSE data[c] \o pipe[c]
    <3>1. data'[c] = data[c]
      BY <1>1
    <3>2. CASE c = s
      BY ONLY <3>1, <3>2, <2>1, <2>2
    <3>3. CASE c # s
      BY ONLY <3>1, <3>3, <2>1, <2>3
    <3> QED
      BY <3>2, <3>3
  <2>4. pending' = [pending EXCEPT ![s] = @ \o word]
    BY <2>0, <2>3 DEF pending
  <2> QED
    BY <2>4 DEF s
<1> QED
  BY <1>1, <1>2, <1>4 DEF Abstract!Put

\* A read takes bytes out of the pipe and keeps them in front of the rest of it.
LEMMA ReadStutters == ASSUME IInv, NEW c \in Children, Read(c) PROVE UNCHANGED <<pending, out>>
<1>1. /\ pipe[c] # <<>> /\ child[c] = "read" /\ out' = out
      /\ data' = [data EXCEPT ![c] = SubSeq(pipe[c], 1, available(c))]
      /\ pipe' = [pipe EXCEPT ![c] = SubSeq(pipe[c], available(c) + 1, Len(pipe[c]))]
  BY DEF Read, ChildGoes
<1>2. data[c] = <<>> /\ pipe[c] \in Seq(Letter)
  BY <1>1 DEF IInv, ChildInv, DataOf, TypeOK
<1>3. data'[c] \o pipe'[c] = data[c] \o pipe[c]
  <2>1. data'[c] \o pipe'[c] = pipe[c]
    BY <1>1, ReadLemma DEF IInv, TypeOK
  <2>2. <<>> \o pipe[c] = pipe[c]
    BY <1>2
  <2> QED
    BY <2>1, <2>2, <1>2
<1>4. \A d \in Children : d # c => data'[d] = data[d] /\ pipe'[d] = pipe[d]
  BY <1>1 DEF IInv, TypeOK
<1>5. \A d \in Children : data'[d] \o pipe'[d] = data[d] \o pipe[d]
  BY <1>3, <1>4
<1> QED
  BY <1>1, <1>5 DEF pending

\* A line is what one read returned: the first bytes of those on their way.
LEMMA WriteLineIsEmit == ASSUME IInv, NEW c \in Children, WriteLine(c) PROVE Abstract!Emit
<1> DEFINE d == data[c]
           rest == pipe[c]
<1>1. /\ child[c] = "write" /\ UNCHANGED pipe
      /\ data' = [data EXCEPT ![c] = <<>>]
      /\ out' = [out EXCEPT ![c] = Append(@, withoutVowels(d))]
  BY DEF WriteLine, ChildGoes
<1>2. d # <<>> /\ d \in Seq(Letter) /\ rest \in Seq(Letter)
  BY <1>1 DEF IInv, ChildInv, DataOf, TypeOK
<1>3. /\ data'[c] = <<>>
      /\ \A e \in Children : e # c => data'[e] = data[e]
  BY <1>1 DEF IInv, TypeOK
<1>4. pending[c] = d \o rest
  BY DEF pending
<1> HIDE DEF d, rest
<1>5. /\ Len(d) \in 1 .. Len(d \o rest)
      /\ SubSeq(d \o rest, 1, Len(d)) = d
      /\ SubSeq(d \o rest, Len(d) + 1, Len(d \o rest)) = rest
      /\ <<>> \o rest = rest
  <2>1. Len(d) \in Nat /\ Len(d) > 0 /\ Len(rest) \in Nat
    BY <1>2
  <2>2. d \o rest \in Seq(Letter) /\ Len(d \o rest) = Len(d) + Len(rest)
    BY <1>2
  <2>3. SubSeq(d \o rest, 1, Len(d)) = d
    BY <1>2, <2>1, <2>2
  <2>4. SubSeq(d \o rest, Len(d) + 1, Len(d \o rest)) = rest
    BY <1>2, <2>1, <2>2
  <2>5. <<>> \o rest = rest
    BY <1>2
  <2> QED
    BY <2>1, <2>2, <2>3, <2>4, <2>5
<1>6. pending' = [pending EXCEPT ![c] = SubSeq(@, Len(d) + 1, Len(@))]
  <2>1. data'[c] \o pipe'[c] = rest
    BY <1>1, <1>3, <1>5 DEF rest
  <2>2. ASSUME NEW e \in Children
        PROVE  data'[e] \o pipe'[e] = IF e = c THEN rest ELSE data[e] \o pipe[e]
    <3>1. CASE e = c
      BY ONLY <3>1, <2>1
    <3>2. CASE e # c
      <4>1. data'[e] = data[e] /\ pipe'[e] = pipe[e]
        BY <3>2, <1>1, <1>3
      <4> QED
        BY ONLY <3>2, <4>1
    <3> QED
      BY <3>1, <3>2
  <2>3. pending' = [pending EXCEPT ![c] = rest]
    BY <2>2 DEF pending
  <2> QED
    BY <2>3, <1>4, <1>5
<1>7. out' = [out EXCEPT ![c] = Append(@, withoutVowels(SubSeq(pending[c], 1, Len(d))))]
  BY <1>1, <1>4, <1>5
<1> QED
  BY <1>4, <1>5, <1>6, <1>7 DEF Abstract!Emit

LEMMA ChildRefines ==
  ASSUME IInv, NEW c \in Children, Child(c)
  PROVE  Abstract!Emit \/ UNCHANGED <<pending, out>>
<1>1. CASE Exec(c) \/ CloseWriteEnd(c) \/ EndOfPipe(c)
  BY <1>1, Stutter DEF Exec, CloseWriteEnd, EndOfPipe
<1> QED
  BY <1>1, ReadStutters, WriteLineIsEmit DEF Child

\* The three processes implement the filter: what is on its way to a file is what its
\* child has read and what is left in the pipe, in this order.
THEOREM RefinesFilter == Spec => RefinesStreamFilter
<1>1. Init => Abstract!Init
  BY DEF Init, Abstract!Init, pending
<1>2. IInv /\ [Next]_vars => [Abstract!Put \/ Abstract!Emit]_<<pending, out>>
  <2> SUFFICES ASSUME IInv, [Next]_vars
               PROVE  Abstract!Put \/ Abstract!Emit \/ UNCHANGED <<pending, out>>
    OBVIOUS
  <2>1. CASE ParentStep
    <3>1. CASE Write
      BY <3>1, WriteIsPut
    <3>2. CASE ~Write
      BY <2>1, <3>2, Stutter DEF ParentStep, Names, Fork, Close, Killed
    <3> QED
      BY <3>1, <3>2
  <2>2. CASE User
    BY <2>2, Stutter DEF User, EndOfInput, Type
  <2>3. CASE Stalled \/ UNCHANGED vars
    BY <2>3, Stutter DEF Stalled, vars
  <2> QED
    BY <2>1, <2>2, <2>3, ChildRefines DEF Next
<1> QED
  BY <1>1, <1>2, InitIInv, NextIInv, PTL DEF Spec, RefinesStreamFilter, Abstract!Spec
-----------------------------------------------------------------------------
(***************************************************************************)
(* Nobody waits in vain but the first child.                               *)
(***************************************************************************)

\* The parent has nothing more to say.
Over == {"ended", "failed", "killed"}

\* Who is gone holds nothing that could keep another waiting.
Gone ==
  /\ parent \in Over => writeEnd(2) \notin held[Parent]
  /\ \A c \in Children : child[c] \in {"absent", "ended"} => held[c] = {}

\* A word for a child that works does not kill the parent, and when the pipe has no room
\* for it, that child has something to do that makes room.
WordIsAwaited ==
  parent = "write" /\ sideOf(word) \in works =>
    /\ open(readEnd(sideOf(word)))
    /\ \/ fits(word)
       \/ child[sideOf(word)] \in {"forked", "close", "write"}
       \/ child[sideOf(word)] = "read" /\ pipe[sideOf(word)] # <<>>

\* When the parent is over the second child sees the end of its pipe, as soon as the first
\* one has closed the end that it was given to close.
SecondSeesTheEnd ==
  parent \in Over /\ child[2] \in {"read", "write"} /\ child[1] \notin {"forked", "close"} =>
    ~open(writeEnd(2))

LEMMA InitGone == Init => Gone
  BY SidesLemma DEF Init, Gone, Over

\* A step of the parent that gives up some of its ends or none.
LEMMA ParentGone ==
  ASSUME IInv, Gone, ParentStep \/ User
  PROVE  Gone'
<1> USE SidesLemma, EndsLemma
<1>1. CASE Names
  <2>1. CASE parent' = "fork1" /\ UNCHANGED <<child, held>>
    BY <2>1 DEF Gone, Over
  <2>2. CASE parent' = "failed" /\ Release(Parent, Ends) /\ child' = child
    BY <2>2, ReleaseLemma DEF Gone, Over, IInv
  <2> QED
    BY <1>1, <2>1, <2>2 DEF Names, ParentGoes
<1>2. ASSUME NEW c \in Children, NEW from, NEW to \in {"fork2", "close_r1"},
             Fork(c, from, to)
      PROVE  Gone'
  <2>1. CASE parent' = "failed" /\ Release(Parent, Ends) /\ child' = child
    BY <2>1, ReleaseLemma DEF Gone, Over, IInv
  <2>2. CASE parent' = to /\ child' = [child EXCEPT ![c] = "forked"]
                          /\ held' = [held EXCEPT ![c] = held[Parent]]
    <3>1. DOMAIN child = Children /\ DOMAIN held = Process
      BY DEF IInv, TypeOK
    <3>2. child'[c] = "forked"
          /\ \A d \in Children : d # c => child'[d] = child[d] /\ held'[d] = held[d]
      BY <2>2, <3>1
    <3>3. parent' \notin Over
      BY <1>2, <2>2 DEF Over
    <3> QED
      BY <3>2, <3>3 DEF Gone
  <2> QED
    BY <1>2, <2>1, <2>2 DEF Fork, ParentGoes
<1>3. ASSUME NEW end \in Ends, NEW from, NEW to, Close(end, from, to),
             to \in Over => end = writeEnd(2)
      PROVE  Gone'
  <2>1. parent' = to /\ Release(Parent, {end}) /\ child' = child
    BY <1>3 DEF Close, ParentGoes
  <2>2. /\ held'[Parent] = held[Parent] \ {end}
        /\ \A c \in Children : held'[c] = held[c]
    BY <2>1, ReleaseLemma DEF IInv
  <2> QED
    BY <1>3, <2>1, <2>2 DEF Gone
<1>4. CASE Close(readEnd(1), "close_r1", "close_r2") \/ Close(readEnd(2), "close_r2", "prompt")
           \/ Close(writeEnd(1), "close_w1", "close_w2")
           \/ Close(writeEnd(2), "close_w2", "ended")
  BY <1>3, <1>4 DEF Over
<1>5. CASE Write \/ User
  BY <1>5 DEF Write, User, EndOfInput, Type, ParentGoes, Gone, Over
<1>6. CASE Killed
  <2>1. parent' = "killed" /\ Release(Parent, Ends) /\ child' = child
    BY <1>6 DEF Killed, ParentGoes
  <2> QED
    BY <2>1, ReleaseLemma DEF Gone, Over, IInv
<1>7. CASE Fork(1, "fork1", "fork2") \/ Fork(2, "fork2", "close_r1")
  BY <1>2, <1>7
<1> QED
  BY <1>1, <1>4, <1>5, <1>6, <1>7 DEF ParentStep

LEMMA ChildGone ==
  ASSUME IInv, Gone, NEW c \in Children, Child(c)
  PROVE  Gone'
<1> USE SidesLemma
<1>1. parent' = parent
  BY DEF Child, Exec, CloseWriteEnd, Read, EndOfPipe, WriteLine
<1>2. /\ child \in [Children -> {"absent", "forked", "close", "read", "write", "ended"}]
      /\ held \in [Process -> SUBSET Ends]
  BY DEF IInv, TypeOK
<1>3. ASSUME NEW from, NEW to \in {"close", "read", "write"}, ChildGoes(c, from, to),
             \/ held' = held
             \/ Release(c, {writeEnd(2)})
      PROVE  Gone'
  <2>1. /\ child'[c] = to /\ \A d \in Children : d # c => child'[d] = child[d]
        /\ \A p \in Process : p # c => held'[p] = held[p]
    BY <1>2, <1>3 DEF ChildGoes, Release
  <2> QED
    BY <1>1, <2>1 DEF Gone, Over
<1>4. ASSUME NEW from, ChildGoes(c, from, "ended"), Release(c, Ends)
      PROVE  Gone'
  <2>1. /\ \A d \in Children : d # c => child'[d] = child[d]
        /\ \A p \in Process : p # c => held'[p] = held[p]
        /\ held'[c] = {}
    BY <1>2, <1>4 DEF ChildGoes, Release
  <2> QED
    BY <1>1, <2>1 DEF Gone, Over
<1> QED
  BY <1>3, <1>4 DEF Child, Exec, CloseWriteEnd, Read, EndOfPipe, WriteLine

LEMMA NextGone ==
  ASSUME IInv, Gone, [Next]_vars
  PROVE  Gone'
<1>1. CASE Stalled \/ UNCHANGED vars
  BY <1>1 DEF Stalled, vars, Gone
<1> QED
  BY <1>1, ParentGone, ChildGone DEF Next

\* The parent waits only for a child that will read, however small the pipes are.
THEOREM WordsAreAwaited == Spec => []WordIsAwaited
<1>1. IInv => WordIsAwaited
  <2> SUFFICES ASSUME IInv, parent = "write", NEW c \in Children, c = sideOf(word), c \in works
               PROVE  /\ open(readEnd(c))
                      /\ \/ fits(word)
                         \/ child[c] \in {"forked", "close", "write"}
                         \/ child[c] = "read" /\ pipe[c] # <<>>
    BY SidesLemma DEF WordIsAwaited
  <2>1. child[c] \in {"forked", "close", "read", "write"}
    BY SidesLemma DEF IInv, TypeOK, Born, Between, ChildInv, WorksOf
  <2>2. open(readEnd(c))
    BY <2>1, SidesLemma, EndsLemma DEF open, IInv, ChildInv, HeldOf
  <2>3. pipe[c] = <<>> => fits(word)
    BY PipesAssumption DEF fits, IInv
  <2> QED
    BY <2>1, <2>2, <2>3
<1> QED
  BY <1>1, InitIInv, NextIInv, PTL DEF Spec

\* The first child, which never ends, does not keep the second one from its end: once it has
\* closed what it was given to close, nobody holds a write end of the second pipe.
THEOREM TheSecondSeesTheEnd == Spec => []SecondSeesTheEnd
<1>1. IInv /\ Gone => SecondSeesTheEnd
  <2> SUFFICES ASSUME IInv, Gone, parent \in Over, child[2] \in {"read", "write"},
                      child[1] \notin {"forked", "close"},
                      NEW p \in Process, writeEnd(2) \in held[p]
               PROVE  FALSE
    BY DEF SecondSeesTheEnd, open
  <2>1. p \in Children
    BY SidesLemma DEF Gone, Process
  <2>2. child[p] \in {"read", "write"}
    BY <2>1, SidesLemma DEF Gone, IInv, TypeOK
  <2> QED
    BY <2>1, <2>2 DEF IInv, ChildInv, HeldOf
<1> QED
  BY <1>1, InitIInv, NextIInv, InitGone, NextGone, PTL DEF Spec
=============================================================================
