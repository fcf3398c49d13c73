-------------------------- MODULE HandshakeProofs --------------------------
(***************************************************************************)
(* The processes of Lab3 implement LineFilter, for every set of lines and  *)
(* every size of the buffer.  What a line leaves in a file is not looked   *)
(* into: kept may be any function of the line.                             *)
(***************************************************************************)
EXTENDS Handshake, FiniteSetTheorems, TLAPS

\* Where a line is while it is handed over.
Hand ==
  /\ typed \in Seq(Line)
  /\ parent \in {"set_ready", "waiting"} =>
       /\ typed # <<>>
       /\ data[sideOf(current)] = cut(current)

\* A ready flag is the parent's, who waits; a done flag is set when it waits no more.
Flags ==
  /\ ready \in [Children -> BOOLEAN]
  /\ done \in [Children -> BOOLEAN]
  /\ \A c \in Children : ready[c] => parent = "waiting" /\ c = sideOf(current)
  /\ \A c \in Children : done[c] => parent \in {"done2", "wait1", "wait2", "returned"}

\* A child that writes has been handed a line that is still ready.
Hands ==
  /\ child \in [Children -> {"absent", "opening", "ready?", "done?", "check", "write",
                             "clear", "exited"}]
  /\ data \in [Children -> Seq(Letter)]
  /\ out = [c \in Children |-> out[c]]
  /\ \A c \in Children : child[c] \in {"write", "clear"} => ready[c]
  /\ \A c \in Children : child[c] = "check" => ready[c] \/ done[c]

HInv == Hand /\ Flags /\ Hands
-----------------------------------------------------------------------------
\* Each line is for one of the children.
LEMMA SideLemma == \A line : sideOf(line) \in Children
  BY DEF sideOf, Children

\* What is copied into the buffer is a line.
LEMMA CutLemma == ASSUME NEW line \in Line PROVE cut(line) \in Seq(Letter)
<1>1. line \in Seq(Letter) /\ Len(line) \in Nat /\ BufferSize \in Nat /\ BufferSize >= 1
  BY HandshakeAssumption
<1> DEFINE n == IF Len(line) < BufferSize - 1 THEN Len(line) ELSE BufferSize - 1
<1>2. n \in Nat /\ n <= Len(line)
  BY <1>1
<1> HIDE DEF n
<1>3. SubSeq(line, 1, n) \in Seq(Letter)
  BY <1>1, <1>2
<1> QED
  BY <1>3 DEF cut, n

\* The last line typed is one of the lines.
LEMMA CurrentLemma == ASSUME typed \in Seq(Line), typed # <<>> PROVE current \in Line
  BY DEF current

LEMMA InitHInv == Init => HInv
<1> SUFFICES ASSUME Init PROVE HInv
  OBVIOUS
<1>1. Hand
  BY DEF Init, Hand
<1>2. Flags
  BY DEF Init, Flags
<1>3. Hands
  BY DEF Init, Hands
<1> QED
  BY <1>1, <1>2, <1>3 DEF HInv

\* The parent's steps.
LEMMA ParentHInv == ASSUME HInv, Parent PROVE HInv'
<1>1. /\ Hand /\ Flags /\ Hands
      /\ sideOf(current) \in Children
  BY SideLemma DEF HInv
<1>2. ASSUME NEW c \in Children, NEW from, NEW to,
             from \in {"fork1", "fork2"}, to \in {"fork2", "prompt"}, Fork(c, from, to)
      PROVE  HInv'
  <2>1. CASE UNCHANGED child
    BY <1>1, <1>2, <2>1 DEF Fork, ParentGoes, env, current, HInv, Hand, Flags, Hands
  <2>2. CASE child' = [child EXCEPT ![c] = "opening"]
    BY <1>1, <1>2, <2>2 DEF Fork, ParentGoes, env, current, HInv, Hand, Flags, Hands
  <2> QED
    BY <1>2, <2>1, <2>2 DEF Fork
<1>3. CASE SetReady
  <2>1. /\ ParentGoes("set_ready", "waiting")
        /\ ready' = [ready EXCEPT ![sideOf(current)] = TRUE]
        /\ UNCHANGED <<child, done, data, out, typed, current>>
    BY <1>3 DEF SetReady, current
  <2>2. ready' \in [Children -> BOOLEAN]
    BY <1>1, <2>1, Zenon DEF Flags
  <2>3. \A c \in Children : /\ ready[c] => ready'[c]
                            /\ ready'[c] => ready[c] \/ c = sideOf(current)
    BY <1>1, <2>1 DEF Flags
  <2>4. Hand'
    BY <1>1, <2>1 DEF Hand, ParentGoes
  <2>5. Flags'
    BY <1>1, <2>1, <2>2, <2>3 DEF Flags, ParentGoes
  <2>6. Hands'
    BY <1>1, <2>1, <2>3 DEF Hands
  <2> QED
    BY <2>4, <2>5, <2>6 DEF HInv
<1>4. CASE Handed \/ Spin
  BY <1>1, <1>4 DEF Handed, Spin, ParentGoes, vars, env, current, HInv, Hand, Flags, Hands
<1>5. ASSUME NEW c \in Children, NEW from, NEW to,
             <<from, to>> \in {<<"done1", "done2">>, <<"done2", "wait1">>},
             SetDone(c, from, to)
      PROVE  HInv'
  <2>1. /\ ParentGoes(from, to)
        /\ done' = [done EXCEPT ![c] = TRUE]
        /\ UNCHANGED <<child, ready, data, out, typed, current>>
        /\ parent \in {"done1", "done2"} /\ parent' \in {"done2", "wait1"}
    BY <1>5 DEF SetDone, ParentGoes, current
  <2>2. done' \in [Children -> BOOLEAN]
    BY <1>1, <2>1, Zenon DEF Flags
  <2>3. \A d \in Children : done[d] => done'[d]
    BY <1>1, <2>1 DEF Flags
  <2>4. Hand'
    BY <1>1, <2>1 DEF Hand
  <2>5. Flags'
    BY <1>1, <2>1, <2>2 DEF Flags
  <2>6. Hands'
    BY <1>1, <2>1, <2>3 DEF Hands
  <2> QED
    BY <2>4, <2>5, <2>6 DEF HInv
<1>6. ASSUME NEW c \in Children, NEW from, NEW to,
             <<from, to>> \in {<<"wait1", "wait2">>, <<"wait2", "returned">>},
             Wait(c, from, to)
      PROVE  HInv'
  BY <1>1, <1>6 DEF Wait, ParentGoes, env, current, HInv, Hand, Flags, Hands
<1> QED
  BY <1>2, <1>3, <1>4, <1>5, <1>6 DEF Parent, Children

\* The user's steps.
LEMMA UserHInv == ASSUME HInv, User PROVE HInv'
<1>1. Hand /\ Flags /\ Hands
  BY DEF HInv
<1>2. CASE Quit
  BY <1>1, <1>2 DEF Quit, ParentGoes, env, current, HInv, Hand, Flags, Hands
<1>3. ASSUME NEW line \in Line, TakeLine(line) PROVE HInv'
  <2>1. /\ ParentGoes("prompt", "set_ready")
        /\ typed' = Append(typed, line)
        /\ data' = [data EXCEPT ![sideOf(line)] = cut(line)]
        /\ UNCHANGED <<child, ready, done, out>>
    BY <1>3 DEF TakeLine
  <2>2. typed' \in Seq(Line) /\ typed' # <<>> /\ current' = line
    BY <1>1, <2>1 DEF Hand, current
  <2>3. data' \in [Children -> Seq(Letter)] /\ data'[sideOf(line)] = cut(line)
    BY <1>1, <2>1, CutLemma, SideLemma DEF Hands
  <2>4. Hand'
    BY <2>1, <2>2, <2>3 DEF Hand
  <2>5. Flags' /\ Hands'
    BY <1>1, <2>1, <2>3 DEF Flags, Hands, ParentGoes
  <2> QED
    BY <2>4, <2>5 DEF HInv
<1> QED
  BY <1>2, <1>3 DEF User

\* A child's steps.
LEMMA ChildHInv == ASSUME HInv, NEW c \in Children, Child(c) PROVE HInv'
<1>1. Hand /\ Flags /\ Hands
  BY DEF HInv
<1>2. CASE Open(c) \/ PollReady(c) \/ PollDone(c) \/ Check(c)
  <2>1. UNCHANGED <<parent, ready, done, data, out, typed, current>>
    BY <1>2 DEF Open, PollReady, PollDone, Check, current
  <2>2. PICK to : /\ child' = [child EXCEPT ![c] = to]
                  /\ to \in {"ready?", "done?", "check", "write", "exited"}
                  /\ to = "check" => ready[c] \/ done[c]
                  /\ to = "write" => child[c] = "check" /\ ~done[c]
    <3>1. CASE Open(c)
      <4>1. \/ child' = [child EXCEPT ![c] = "ready?"]
            \/ child' = [child EXCEPT ![c] = "exited"]
        BY <3>1 DEF Open, ChildGoes
      <4> QED
        BY <4>1
    <3>2. CASE PollReady(c)
      <4>1. \/ child' = [child EXCEPT ![c] = "check"] /\ ready[c]
            \/ child' = [child EXCEPT ![c] = "done?"]
        BY <3>2 DEF PollReady, ChildGoes
      <4> QED
        BY <4>1
    <3>3. CASE PollDone(c)
      <4>1. \/ child' = [child EXCEPT ![c] = "check"] /\ done[c]
            \/ child' = [child EXCEPT ![c] = "ready?"]
        BY <3>3 DEF PollDone, ChildGoes
      <4> QED
        BY <4>1
    <3>4. CASE Check(c)
      <4>1. \/ child' = [child EXCEPT ![c] = "write"] /\ child[c] = "check" /\ ~done[c]
            \/ child' = [child EXCEPT ![c] = "exited"]
        BY <3>4 DEF Check, ChildGoes
      <4> QED
        BY <4>1
    <3> QED
      BY <1>2, <3>1, <3>2, <3>3, <3>4
  <2>3. Hands'
    BY <1>1, <2>1, <2>2 DEF Hands
  <2> QED
    BY <1>1, <2>1, <2>3 DEF HInv, Hand, Flags
<1>3. CASE Write(c)
  <2>1. /\ child[c] = "write"
        /\ child' = [child EXCEPT ![c] = "clear"]
        /\ out' = [out EXCEPT ![c] = Append(@, removeLetters(data[c]))]
        /\ UNCHANGED <<parent, ready, done, data, typed, current>>
    BY <1>3 DEF Write, ChildGoes, current
  <2>2. Hands'
    BY <1>1, <2>1 DEF Hands
  <2> QED
    BY <1>1, <2>1, <2>2 DEF HInv, Hand, Flags
<1>4. CASE Clear(c)
  <2>1. /\ child' = [child EXCEPT ![c] = "ready?"]
        /\ ready' = [ready EXCEPT ![c] = FALSE]
        /\ ready[c]
        /\ UNCHANGED <<parent, done, data, out, typed, current>>
    BY <1>1, <1>4 DEF Clear, ChildGoes, current, Hands
  <2>2. ready' \in [Children -> BOOLEAN]
    BY <1>1, <2>1, Zenon DEF Flags
  <2>3. \A d \in Children : /\ ready'[d] => ready[d]
                            /\ d # c => ready'[d] = ready[d]
    BY <1>1, <2>1 DEF Flags
  <2>4. Flags'
    BY <1>1, <2>1, <2>2, <2>3 DEF Flags
  <2>5. Hands'
    BY <1>1, <2>1, <2>3 DEF Hands
  <2> QED
    BY <1>1, <2>1, <2>4, <2>5 DEF HInv, Hand
<1> QED
  BY <1>2, <1>3, <1>4 DEF Child

LEMMA NextHInv == ASSUME HInv, [Next]_vars PROVE HInv'
<1>1. CASE Ended \/ UNCHANGED vars
  BY <1>1 DEF Ended, vars, env, current, HInv, Hand, Flags, Hands
<1> QED
  BY <1>1, ParentHInv, UserHInv, ChildHInv DEF Next
-----------------------------------------------------------------------------
\* A step that leaves the parent's and the children's part in the hand-over alone
\* leaves the pending line alone.
LEMMA SamePending ==
  ASSUME HInv, UNCHANGED <<parent, ready, typed>>,
         child'[sideOf(current)] = "clear" <=> child[sideOf(current)] = "clear"
  PROVE  pending' = pending
  BY DEF pending, current

\* The parent's steps: a line becomes pending when it is ready.
LEMMA ParentSteps ==
  ASSUME HInv, Parent \/ User PROVE Abstract!Take \/ UNCHANGED <<pending, out>>
<1>1. /\ Hand /\ Flags /\ Hands
      /\ sideOf(current) \in Children
  BY SideLemma DEF HInv
<1>2. CASE SetReady
  <2>1. /\ parent = "set_ready" /\ parent' = "waiting"
        /\ ready'[sideOf(current)]
        /\ ~ready[sideOf(current)]
        /\ child[sideOf(current)] # "clear"
        /\ UNCHANGED <<child, out, current>>
        /\ current \in Line
    BY <1>1, <1>2, CurrentLemma DEF SetReady, ParentGoes, current, Hand, Flags, Hands
  <2>2. pending = <<>> /\ pending' = <<current>>
    BY <2>1 DEF pending
  <2> QED
    BY <2>1, <2>2 DEF Abstract!Take
<1>3. CASE Spin
  BY <1>3 DEF Spin, vars, env, pending, current
<1>4. CASE Parent /\ ~SetReady /\ ~Spin
  <2>1. /\ parent' # "waiting" /\ UNCHANGED out
        /\ parent = "waiting" => ~ready[sideOf(current)]
    BY <1>4 DEF Parent, Fork, Handed, SetDone, Wait, ParentGoes
  <2> QED
    BY <2>1 DEF pending
<1>5. CASE User
  <2>1. parent # "waiting" /\ parent' # "waiting" /\ UNCHANGED out
    BY <1>5 DEF User, Quit, TakeLine, ParentGoes
  <2> QED
    BY <2>1 DEF pending
<1> QED
  BY <1>2, <1>3, <1>4, <1>5

\* The children's steps: the pending line is written, and only that.
LEMMA ChildSteps ==
  ASSUME HInv, NEW c \in Children, Child(c)
  PROVE  Abstract!Write \/ UNCHANGED <<pending, out>>
<1>1. /\ Hand /\ Flags /\ Hands
      /\ sideOf(current) \in Children
  BY SideLemma DEF HInv
<1>2. CASE Open(c) \/ PollReady(c) \/ PollDone(c) \/ Check(c)
  <2>1. /\ UNCHANGED <<parent, ready, out, typed>>
        /\ child[c] # "clear" /\ child'[c] # "clear"
        /\ \A d \in Children : d # c => child'[d] = child[d]
    BY <1>1, <1>2 DEF Open, PollReady, PollDone, Check, ChildGoes, Hands
  <2> QED
    BY <1>1, <2>1, SamePending
<1>3. CASE Write(c)
  <2>1. /\ child[c] = "write" /\ child'[c] = "clear"
        /\ out' = [out EXCEPT ![c] = Append(@, removeLetters(data[c]))]
        /\ UNCHANGED <<parent, ready, current>>
    BY <1>1, <1>3 DEF Write, ChildGoes, current, Hands
  <2>2. parent = "waiting" /\ ready[c] /\ c = sideOf(current) /\ data[c] = cut(current)
    BY <1>1, <2>1 DEF Hand, Flags, Hands
  <2>3. pending = <<current>> /\ pending' = <<>>
    BY <2>1, <2>2 DEF pending
  <2> QED
    BY <2>1, <2>2, <2>3 DEF Abstract!Write, kept
<1>4. CASE Clear(c)
  <2>1. /\ child[c] = "clear" /\ ready[c] /\ ~ready'[c]
        /\ UNCHANGED <<parent, out, current>>
        /\ c = sideOf(current)
    BY <1>1, <1>4 DEF Clear, ChildGoes, current, Flags, Hands
  <2> QED
    BY <2>1 DEF pending
<1> QED
  BY <1>2, <1>3, <1>4 DEF Child

\* Parent and children do what LineFilter says: a line that is typed goes into the
\* file of its length, once, before the next line is taken.
THEOREM HandshakeImplementsLineFilter == Spec => RefinesLineFilter
<1>1. Init => Abstract!Init
  BY DEF Init, Abstract!Init, pending
<1>2. HInv /\ [Next]_vars => [Abstract!Take \/ Abstract!Write]_<<pending, out>>
  <2> SUFFICES ASSUME HInv, [Next]_vars
               PROVE  [Abstract!Take \/ Abstract!Write]_<<pending, out>>
    OBVIOUS
  <2>1. CASE Ended \/ UNCHANGED vars
    BY <2>1 DEF Ended, vars, env, pending, current
  <2> QED
    BY <2>1, ParentSteps, ChildSteps DEF Next
<1> QED
  BY <1>1, <1>2, InitHInv, NextHInv, PTL DEF Spec, RefinesLineFilter, Abstract!Spec
-----------------------------------------------------------------------------
(***************************************************************************)
(* The types.                                                              *)
(***************************************************************************)

\* What a line leaves in the buffer is shorter than the buffer.
LEMMA CutFits == ASSUME NEW line \in Line PROVE Len(cut(line)) < BufferSize
<1>1. line \in Seq(Letter) /\ Len(line) \in Nat /\ BufferSize \in Nat /\ BufferSize >= 1
  BY HandshakeAssumption
<1> DEFINE n == IF Len(line) < BufferSize - 1 THEN Len(line) ELSE BufferSize - 1
<1>2. n \in Nat /\ n <= Len(line) /\ n < BufferSize
  BY <1>1
<1> HIDE DEF n
<1>3. Len(SubSeq(line, 1, n)) = n
  BY <1>1, <1>2
<1> QED
  BY <1>2, <1>3 DEF cut, n

\* The parts of the type that HInv does not speak of.
Shape ==
  /\ opens \subseteq Children /\ forks \in 0 .. 2
  /\ parent \in {"fork1", "fork2", "failed", "prompt", "set_ready", "waiting",
                 "done1", "done2", "wait1", "wait2", "returned"}
  /\ \A c \in Children : Len(data[c]) < BufferSize

LEMMA InitShape == Init => Shape
<1>1. Len(<<>>) < BufferSize
  BY HandshakeAssumption
<1> QED
  BY <1>1 DEF Init, Shape, Children

LEMMA NextShape == ASSUME HInv, Shape, [Next]_vars PROVE Shape'
<1>1. CASE Parent \/ Quit
  BY <1>1 DEF Parent, Fork, SetReady, Handed, Spin, SetDone, Wait, Quit, ParentGoes,
              vars, env, Shape
<1>2. ASSUME NEW line \in Line, TakeLine(line) PROVE Shape'
  <2>1. /\ data' = [data EXCEPT ![sideOf(line)] = cut(line)]
        /\ parent' = "set_ready"
        /\ UNCHANGED <<opens, forks>>
    BY <1>2 DEF TakeLine, ParentGoes, env
  <2>2. \A c \in Children : data'[c] = data[c] \/ data'[c] = cut(line)
    BY <2>1 DEF HInv, Hands
  <2>3. Len(cut(line)) < BufferSize
    BY CutFits
  <2> QED
    BY <2>1, <2>2, <2>3 DEF Shape
<1>3. ASSUME NEW c \in Children, Child(c) PROVE Shape'
  <2>1. UNCHANGED <<opens, forks, parent, data>>
    BY <1>3 DEF Child, Open, PollReady, PollDone, Check, Write, Clear, env
  <2> QED
    BY <2>1 DEF Shape
<1>4. CASE Ended \/ UNCHANGED vars
  BY <1>4 DEF Ended, vars, env, Shape
<1> QED
  BY <1>1, <1>2, <1>3, <1>4 DEF Next, User

\* Every variable keeps its type; in particular no line, however long, leaves a child
\* with a buffer that is not terminated.
THEOREM TypeCorrect == Spec => []TypeOK
<1>1. HInv /\ Shape => TypeOK
  BY DEF HInv, Shape, Hand, Flags, Hands, TypeOK
<1> QED
  BY <1>1, InitHInv, NextHInv, InitShape, NextShape, PTL DEF Spec
-----------------------------------------------------------------------------
(***************************************************************************)
(* The files.                                                              *)
(***************************************************************************)

\* What lines can leave in a file.
KeptLines == {kept(line) : line \in Line}

\* The lines that have reached a file: all of those typed, but for one on its way.
handled ==
  IF parent = "set_ready" \/ pending # <<>> THEN Len(typed) - 1 ELSE Len(typed)

\* Each file holds what the lines handled so far have left.
Filed ==
  /\ out \in [Children -> Seq(KeptLines)]
  /\ \A c \in Children : Holds(c, handled)

\* How the lines of a child are counted.
LEMMA OwnLemma ==
  ASSUME NEW c, NEW n \in Nat
  PROVE  /\ IsFiniteSet(Own(c, n)) /\ Cardinality(Own(c, n)) \in Nat
         /\ \A k \in 0 .. n : Cardinality(Own(c, k)) <= Cardinality(Own(c, n))
         /\ Cardinality(Own(c, n + 1)) =
              IF sideOf(typed[n + 1]) = c THEN Cardinality(Own(c, n)) + 1
              ELSE Cardinality(Own(c, n))
<1>1. IsFiniteSet(Own(c, n)) /\ Cardinality(Own(c, n)) \in Nat
  <2>1. Own(c, n) \in SUBSET (1 .. n) /\ IsFiniteSet(1 .. n)
    BY FS_Interval DEF Own
  <2> QED
    BY <2>1, FS_Subset, FS_CardinalityType
<1>2. ASSUME NEW k \in 0 .. n
      PROVE  Cardinality(Own(c, k)) <= Cardinality(Own(c, n))
  <2>1. Own(c, k) \in SUBSET Own(c, n)
    BY DEF Own
  <2> QED
    BY <1>1, <2>1, FS_Subset
<1>3. CASE sideOf(typed[n + 1]) = c
  <2>1. Own(c, n + 1) = Own(c, n) \cup {n + 1} /\ n + 1 \notin Own(c, n)
    BY <1>3 DEF Own
  <2> QED
    BY <1>1, <1>2, <1>3, <2>1, FS_AddElement
<1>4. CASE sideOf(typed[n + 1]) # c
  <2>1. Own(c, n + 1) = Own(c, n)
    BY <1>4 DEF Own
  <2> QED
    BY <1>1, <1>2, <1>4, <2>1
<1> QED
  BY <1>1, <1>2, <1>3, <1>4

\* Lines that are typed later change nothing about what a file should hold.
LEMMA SameFiles ==
  ASSUME NEW n \in Nat, NEW c \in Children, Holds(c, n), UNCHANGED out,
         \A k \in 1 .. n : typed'[k] = typed[k]
  PROVE  Holds(c, n)'
<1>1. \A k \in 0 .. n : Own(c, k)' = Own(c, k)
  BY DEF Own
<1>2. Own(c, n) \subseteq 1 .. n
  BY DEF Own
<1> QED
  BY <1>1, <1>2 DEF Holds

LEMMA InitFiled == Init => Filed
<1> SUFFICES ASSUME Init PROVE Filed
  OBVIOUS
<1>1. /\ handled = 0 /\ out = [c \in Children |-> <<>>]
  BY DEF Init, handled, pending
<1>2. \A c \in Children : Own(c, 0) = {} /\ Cardinality(Own(c, 0)) = 0
  <2>1. \A c \in Children : Own(c, 0) = {}
    BY DEF Own
  <2> QED
    BY <2>1, FS_EmptySet
<1>3. \A c \in Children : Holds(c, 0)
  BY <1>1, <1>2 DEF Holds
<1> QED
  BY <1>1, <1>3 DEF Filed

\* A step that writes nothing and hands nothing over.
LEMMA StillFiled ==
  ASSUME Filed, handled \in Nat, handled' = handled, UNCHANGED out,
         \A k \in 1 .. handled : typed'[k] = typed[k]
  PROVE  Filed'
<1>1. \A c \in Children : Holds(c, handled)'
  BY SameFiles DEF Filed
<1> QED
  BY <1>1 DEF Filed, Holds

\* The pending line goes into its file, behind those before it.
LEMMA WriteFiled ==
  ASSUME HInv, Filed, pending # <<>>, Abstract!Write, UNCHANGED <<parent, typed>>
  PROVE  Filed'
<1>1. /\ typed \in Seq(Line) /\ typed # <<>> /\ parent = "waiting"
      /\ pending = <<current>>
  BY DEF HInv, Hand, pending
<1> PICK n \in Nat : Len(typed) = n + 1
  <2>1. Len(typed) - 1 \in Nat /\ Len(typed) = (Len(typed) - 1) + 1
    BY <1>1
  <2> QED
    BY <2>1
<1> PICK s \in Children : s = sideOf(current)
  BY SideLemma
<1>2. /\ current = typed[n + 1] /\ handled = n /\ sideOf(typed[n + 1]) = s
      /\ kept(current) \in KeptLines
  BY <1>1, CurrentLemma DEF handled, current, KeptLines
<1>3. pending' = <<>> /\ out' = [out EXCEPT ![s] = Append(@, kept(current))]
  BY <1>1 DEF Abstract!Write
<1>4. handled' = n + 1
  BY <1>1, <1>2, <1>3 DEF handled
<1>5. \A c \in Children : out[c] \in Seq(KeptLines) /\ Holds(c, n)
  BY <1>2 DEF Filed
<1>6. out' \in [Children -> Seq(KeptLines)]
  BY <1>2, <1>3, <1>5 DEF Filed
<1>7. ASSUME NEW c \in Children PROVE Holds(c, n + 1)'
  <2>1. \A k \in Nat : Own(c, k)' = Own(c, k)
    BY DEF Own
  <2>2. \A k \in Own(c, n) : k \in 0 .. n
    BY <1>2 DEF Own
  <2>3. CASE c # s
    <3>1. out'[c] = out[c] /\ Own(c, n + 1) = Own(c, n)
      <4>1. \A k \in 1 .. n + 1 : sideOf(typed[k]) = c => k \in 1 .. n
        BY <1>2, <2>3
      <4> QED
        BY <1>3, <2>3, <4>1 DEF Own, Filed
    <3> QED
      BY <1>2, <1>5, <2>1, <2>2, <3>1 DEF Holds
  <2>4. CASE c = s
    <3>1. /\ Own(c, n + 1) = Own(c, n) \cup {n + 1}
          /\ Cardinality(Own(c, n + 1)) = Cardinality(Own(c, n)) + 1
          /\ Cardinality(Own(c, n)) \in Nat
      <4>1. Own(c, n + 1) = Own(c, n) \cup {n + 1}
        BY <1>2, <2>4 DEF Own
      <4> QED
        BY <1>2, <2>4, <4>1, OwnLemma
    <3>2. /\ Len(out'[c]) = Len(out[c]) + 1
          /\ out'[c][Len(out[c]) + 1] = kept(current)
          /\ \A j \in 1 .. Len(out[c]) : out'[c][j] = out[c][j]
      BY <1>2, <1>3, <1>5, <2>4 DEF Filed
    <3>3. ASSUME NEW k \in Own(c, n)
          PROVE  out'[c][Cardinality(Own(c, k))] = kept(typed[k])
      <4>1. Cardinality(Own(c, k)) <= Cardinality(Own(c, n)) /\ k \in Nat
        BY <1>2, <2>2, OwnLemma
      <4>2. PICK j \in Nat : k = j + 1
        <5>1. k - 1 \in Nat /\ k = (k - 1) + 1
          BY DEF Own
        <5> QED
          BY <5>1
      <4>3. Cardinality(Own(c, k)) \in Nat /\ Cardinality(Own(c, k)) >= 1
        <5>1. sideOf(typed[j + 1]) = c
          BY <4>2 DEF Own
        <5>2. Cardinality(Own(c, j + 1)) = Cardinality(Own(c, j)) + 1
              /\ Cardinality(Own(c, j)) \in Nat
          BY <5>1, OwnLemma
        <5> QED
          BY <4>2, <5>2
      <4>4. Cardinality(Own(c, k)) \in 1 .. Len(out[c])
        BY <1>5, <4>1, <4>3 DEF Holds
      <4> QED
        BY <1>5, <3>2, <4>4 DEF Holds
    <3>4. out'[c][Cardinality(Own(c, n + 1))] = kept(typed[n + 1])
      BY <1>2, <1>5, <3>1, <3>2 DEF Holds
    <3>5. Len(out'[c]) = Cardinality(Own(c, n + 1))
      BY <1>5, <3>1, <3>2 DEF Holds
    <3> QED
      BY <1>2, <2>1, <2>2, <3>1, <3>3, <3>4, <3>5 DEF Holds
  <2> QED
    BY <2>3, <2>4
<1> QED
  BY <1>4, <1>6, <1>7 DEF Filed, Holds

LEMMA NextFiled == ASSUME HInv, Filed, [Next]_vars PROVE Filed'
<1>1. /\ Hand /\ Flags /\ Hands
      /\ sideOf(current) \in Children /\ Len(typed) \in Nat
  BY SideLemma DEF HInv, Hand
<1>2. handled \in Nat
  BY <1>1 DEF handled, pending, Hand
<1>3. ASSUME NEW c \in Children, Child(c) PROVE Filed'
  <2>1. UNCHANGED <<parent, typed>>
    BY <1>3 DEF Child, Open, PollReady, PollDone, Check, Write, Clear
  <2>2. CASE UNCHANGED <<pending, out>>
    BY <1>2, <2>1, <2>2, StillFiled DEF handled
  <2>3. CASE Abstract!Write
    BY <2>1, <2>3, WriteFiled DEF Abstract!Write
  <2> QED
    BY <1>3, <2>2, <2>3, ChildSteps
<1>4. CASE SetReady
  <2>1. /\ parent = "set_ready" /\ parent' = "waiting"
        /\ ready'[sideOf(current)] /\ child[sideOf(current)] # "clear"
        /\ UNCHANGED <<child, out, typed, current>>
    BY <1>1, <1>4 DEF SetReady, ParentGoes, current, Flags, Hands
  <2>2. pending' # <<>>
    BY <2>1 DEF pending
  <2> QED
    BY <1>2, <2>1, <2>2, StillFiled DEF handled
<1>5. CASE Spin \/ Ended \/ UNCHANGED vars
  <2>1. UNCHANGED <<parent, typed, out, pending>>
    BY <1>5 DEF Spin, Ended, vars, pending, current
  <2> QED
    BY <1>2, <2>1, StillFiled DEF handled
<1>6. CASE (Parent /\ ~SetReady /\ ~Spin) \/ Quit
  <2>1. /\ parent # "set_ready" /\ parent' \notin {"set_ready", "waiting"}
        /\ UNCHANGED <<typed, out>>
        /\ parent = "waiting" => ~ready[sideOf(current)]
    BY <1>6 DEF Parent, Fork, Handed, SetDone, Wait, Quit, ParentGoes
  <2>2. pending = <<>> /\ pending' = <<>>
    BY <2>1 DEF pending
  <2> QED
    BY <1>2, <2>1, <2>2, StillFiled DEF handled
<1>7. ASSUME NEW line \in Line, TakeLine(line) PROVE Filed'
  <2>1. /\ parent = "prompt" /\ parent' = "set_ready"
        /\ typed' = Append(typed, line) /\ UNCHANGED out
    BY <1>7 DEF TakeLine, ParentGoes
  <2>2. handled = Len(typed) /\ handled' = Len(typed') - 1
    BY <2>1 DEF handled, pending
  <2>3. Len(typed') = Len(typed) + 1 /\ \A k \in 1 .. Len(typed) : typed'[k] = typed[k]
    BY <1>1, <2>1 DEF Hand
  <2> QED
    BY <1>1, <1>2, <2>1, <2>2, <2>3, StillFiled
<1> QED
  BY <1>3, <1>4, <1>5, <1>6, <1>7 DEF Next, User

\* At the prompt and at the end each file holds what its lines have left, each once and
\* in the order in which they were typed, however many there were.
THEOREM OutputsAreRight == Spec => []OutputsRight
<1>1. HInv /\ Filed => OutputsRight
  BY DEF Filed, OutputsRight, handled, pending
<1> QED
  BY <1>1, InitHInv, NextHInv, InitFiled, NextFiled, PTL DEF Spec
-----------------------------------------------------------------------------
(***************************************************************************)
(* Both sides spin on flags; neither does so for somebody who is gone,     *)
(* but for a child that could not open its file.                           *)
(***************************************************************************)

\* The steps at which the parent has told a child that it is done.
Told(c) == IF c = 1 THEN {"done2", "wait1", "wait2", "returned"}
           ELSE {"wait1", "wait2", "returned"}

\* Who is born and who is gone: a child exits for want of its file, or when it is told.
Lives ==
  /\ child[1] = "absent" => parent \in {"fork1", "failed"}
  /\ child[2] = "absent" => parent \in {"fork1", "fork2", "failed"}
  /\ \A c \in Children : parent \in Told(c) => done[c]
  /\ \A c \in Children : child[c] = "exited" => c \notin opens \/ done[c]
  /\ \A c \in Children : child[c] \in {"ready?", "done?", "check", "write", "clear"} =>
       c \in opens

\* The parent waits for a child that lives and will see the flag that was set for it: a
\* child with a line can exit only after it has cleared ready; a child that is waited for
\* at the end has exited or been told to.  Only a child without a file is waited for in vain.
WaitsForTheLiving ==
  /\ parent = "waiting" /\ ready[sideOf(current)] /\ sideOf(current) \in opens =>
       child[sideOf(current)] \notin {"absent", "exited"} /\ ~done[sideOf(current)]
  /\ parent = "wait1" => child[1] # "absent" /\ done[1]
  /\ parent \in {"wait1", "wait2"} => child[2] # "absent" /\ done[2]

LEMMA InitLives == Init => Lives
  BY DEF Init, Lives, Told, Children

\* Every step of the parent keeps it.
LEMMA ParentLives ==
  ASSUME HInv, Lives, Parent \/ User
  PROVE  Lives'
<1>1. /\ DOMAIN child = Children /\ DOMAIN done = Children /\ 1 \in Children /\ 2 \in Children
      /\ \A c \in Children : c = 1 \/ c = 2
  BY DEF HInv, Hands, Flags, Children
<1>2. CASE Fork(1, "fork1", "fork2") \/ Fork(2, "fork2", "prompt")
  BY <1>1, <1>2 DEF Fork, ParentGoes, env, Lives, Told
<1>3. CASE SetDone(1, "done1", "done2") \/ SetDone(2, "done2", "wait1")
  BY <1>1, <1>3 DEF SetDone, ParentGoes, env, Lives, Told
<1>4. CASE Wait(1, "wait1", "wait2") \/ Wait(2, "wait2", "returned")
  BY <1>1, <1>4 DEF Wait, ParentGoes, env, Lives, Told
<1>5. CASE SetReady \/ Handed \/ Spin
  BY <1>1, <1>5 DEF SetReady, Handed, Spin, ParentGoes, env, vars, Lives, Told
<1>6. CASE User
  BY <1>1, <1>6 DEF User, Quit, TakeLine, ParentGoes, env, Lives, Told
<1> QED
  BY <1>2, <1>3, <1>4, <1>5, <1>6 DEF Parent

\* Every step of a child keeps it.
LEMMA ChildLives ==
  ASSUME HInv, Lives, NEW c \in Children, Child(c)
  PROVE  Lives'
<1>1. UNCHANGED <<parent, opens, done>>
  BY DEF Child, Open, PollReady, PollDone, Check, Write, Clear, env
<1>2. /\ \A d \in Children : d # c => child'[d] = child[d]
      /\ child[c] # "absent" /\ child'[c] # "absent"
      /\ child'[c] = "exited" => c \notin opens \/ done[c]
      /\ child'[c] # "exited" => c \in opens
  BY DEF Child, Open, PollReady, PollDone, Check, Write, Clear, ChildGoes, HInv, Hands, Lives
<1>3. 1 \in Children /\ 2 \in Children
  BY DEF Children
<1> QED
  BY <1>1, <1>2, <1>3 DEF Lives, Told

LEMMA NextLives ==
  ASSUME HInv, Lives, [Next]_vars
  PROVE  Lives'
<1>1. CASE Parent \/ User
  BY <1>1, ParentLives
<1>2. ASSUME NEW c \in Children, Child(c) PROVE Lives'
  BY <1>2, ChildLives
<1>3. CASE Ended \/ UNCHANGED vars
  BY <1>3 DEF Ended, vars, env, Lives, Told
<1> QED
  BY <1>1, <1>2, <1>3 DEF Next

\* No line and no end waits for a child that is gone, unless it had no file.
THEOREM WaitsAreForTheLiving == Spec => []WaitsForTheLiving
<1>1. HInv /\ Lives => WaitsForTheLiving
  <2> SUFFICES ASSUME HInv, Lives PROVE WaitsForTheLiving
    OBVIOUS
  <2>1. sideOf(current) \in Children /\ 1 \in Children /\ 2 \in Children
    BY SideLemma DEF Children
  <2>2. parent = "waiting" => child[1] # "absent" /\ child[2] # "absent"
    BY DEF Lives
  <2>3. parent = "waiting" => \A c \in Children : ~done[c]
    BY DEF HInv, Flags
  <2>4. parent = "waiting" => child[sideOf(current)] # "absent"
    BY <2>1, <2>2 DEF Children
  <2> QED
    BY <2>1, <2>3, <2>4 DEF Lives, Told, WaitsForTheLiving
<1> QED
  BY <1>1, InitHInv, NextHInv, InitLives, NextLives, PTL DEF Spec
=============================================================================
