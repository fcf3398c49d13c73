--------------------------- MODULE EndpointsProofs ---------------------------
(***************************************************************************)
(* Theorems about Endpoints, for any number of servers and clients, with   *)
(* any pids.  The inductive invariant ties the FIFO at a path to the       *)
(* process that made it, and every message being written to a reader of    *)
(* its FIFO as long as nobody has stopped.                                 *)
(***************************************************************************)
EXTENDS Endpoints, TLAPS

\* The points at which a process has made its FIFO and not yet removed it.
Up == {"open", "run", "respond", "loop", "prompt", "send", "write"}

\* What servers do only, what clients do only, and who has a FIFO open for reading.
Kinds(p) ==
  /\ p \in Server => /\ pc[p] \notin {"loop", "prompt", "send"}
                     /\ reader[p] = "off"
                     /\ pc[p] \notin {"run", "respond", "write"} => fd[p] = None
  /\ p \in Client => /\ pc[p] \notin {"open", "run", "respond", "destroy"}
                     /\ reader[p] \in {"open", "read"} =>
                          pc[p] \in {"loop", "prompt", "send", "write"}
                     /\ reader[p] # "read" => fd[p] = None

\* A process that met no other server has its path for itself.
Alone(p) ==
  p \notin met /\ alive(p) =>
    \A q \in Process : q # p /\ PathOf(q) = PathOf(p) => ~alive(q)

\* What is at the path is then its own FIFO, and the one that it reads.
Owns(p) ==
  p \notin met =>
    /\ pc[p] = "mkfifo" => at[PathOf(p)] = None
    /\ pc[p] \in Up => at[PathOf(p)] = p
    /\ pc[p] \in {"run", "respond"} \/ reader[p] = "read" => fd[p] = p
    /\ p \in Server /\ pc[p] = "write" => fd[p] = p

\* The FIFO at a path was made for this path.
AtOwn == \A path \in Path : at[path] # None => PathOf(at[path]) = path

Stop == \E p \in Process : ~running[p]

Writers == \A p \in Process : wfd[p] # None => hasReader(wfd[p]) \/ Stop

\* A server that answers knows to whom.
Msgs == \A s \in Server : pc[s] \in {"respond", "write"} => msg[s] \in Path

IInv ==
  /\ TypeOK
  /\ \A p \in Process : Kinds(p) /\ Alone(p) /\ Owns(p)
  /\ AtOwn
  /\ NoneLeft
  /\ Writers
  /\ KilledByAStop
-----------------------------------------------------------------------------
LEMMA PathLemma ==
  /\ \A p \in Process : PathOf(p) \in Path /\ (p \in Server \/ p \in Client) /\ p # None
  /\ \A s \in Server : s \in Process /\ s \notin Client /\ PathOf(s) = SERVER_FIFO_PATH
  /\ \A c \in Client : c \in Process /\ c \notin Server /\ PathOf(c) # SERVER_FIFO_PATH
  /\ SERVER_FIFO_PATH \in Path
  BY EndpointsAssumption DEF Process, Path, PathOf

LEMMA InitIInv == Init => IInv
  BY PathLemma
  DEF Init, IInv, TypeOK, Kinds, Alone, Owns, AtOwn, NoneLeft, Writers, KilledByAStop, alive,
      Up

\* What a step of a living process has to show about itself and its path.
LEMMA OthersStep ==
  ASSUME IInv, NEW a \in Process, alive(a), met' = met,
         \A p \in Process : p # a =>
           pc'[p] = pc[p] /\ reader'[p] = reader[p] /\ fd'[p] = fd[p],
         \A path \in Path : path # PathOf(a) => at'[path] = at[path],
         Kinds(a)', Owns(a)'
  PROVE  \A p \in Process : (Kinds(p) /\ Alone(p) /\ Owns(p))'
<1>1. \A p \in Process : alive(p)' => alive(p)
  BY DEF alive
<1>2. ASSUME NEW p \in Process PROVE Alone(p)'
  BY <1>1 DEF IInv, Alone
<1>3. ASSUME NEW p \in Process, p # a PROVE Kinds(p)'
  BY <1>3 DEF IInv, Kinds
<1>4. ASSUME NEW p \in Process, p # a PROVE Owns(p)'
  <2>1. Kinds(p) /\ Alone(p) /\ Owns(p) /\ PathOf(p) \in Path
    BY PathLemma DEF IInv
  <2>2. pc'[p] = pc[p] /\ reader'[p] = reader[p] /\ fd'[p] = fd[p]
    BY <1>4
  <2>3. CASE alive(p) /\ p \notin met
    <3>1. PathOf(p) # PathOf(a)
      BY <1>4, <2>1, <2>3 DEF Alone
    <3>2. at'[PathOf(p)] = at[PathOf(p)]
      BY <2>1, <3>1
    <3> QED
      BY <2>1, <2>2, <3>2 DEF Owns
  <2>4. CASE ~alive(p) /\ p \notin met
    <3>1. pc[p] \notin Up /\ pc[p] # "mkfifo" /\ reader[p] # "read"
      BY <2>1, <2>4, PathLemma DEF alive, Up, Kinds
    <3> QED
      BY <2>2, <3>1 DEF Owns, Up
  <2>5. CASE p \in met
    BY <2>5 DEF Owns
  <2> QED
    BY <2>3, <2>4, <2>5
<1> QED
  BY <1>2, <1>3, <1>4

\* A step that opens and closes nothing, neither gives nor takes a name, and does not end.
LEMMA QuietStep ==
  ASSUME IInv, TypeOK', NEW a \in Process, alive(a),
         UNCHANGED <<at, fd, wfd, met>>,
         \A p \in Process : p # a => pc'[p] = pc[p] /\ reader'[p] = reader[p],
         \A p \in Process : ~running[p] => ~running'[p],
         pc'[a] \notin {"ended", "killed"},
         Kinds(a)', Owns(a)'
  PROVE  IInv'
<1>1. \A p \in Process : (Kinds(p) /\ Alone(p) /\ Owns(p))'
  BY OthersStep
<1>2. AtOwn'
  BY DEF IInv, AtOwn
<1>3. NoneLeft'
  BY DEF IInv, NoneLeft, TypeOK
<1>4. Stop => Stop'
  BY DEF Stop
<1>5. Writers'
  BY <1>4 DEF IInv, Writers, hasReader
<1>6. KilledByAStop'
  BY <1>4 DEF IInv, KilledByAStop, Stop
<1> QED
  BY <1>1, <1>2, <1>3, <1>5, <1>6 DEF IInv
-----------------------------------------------------------------------------
Points == {"off", "unlink", "mkfifo", "open", "run", "respond", "destroy", "loop", "prompt",
           "send", "write", "remove", "ended", "killed"}

LEMMA GoesLemma ==
  ASSUME TypeOK, NEW p \in Process, NEW from, NEW to \in Points, Goes(p, from, to)
  PROVE  /\ pc[p] = from /\ pc'[p] = to
         /\ \A q \in Process : q # p => pc'[q] = pc[q]
         /\ pc' \in [Process -> Points]
  BY DEF TypeOK, Goes, Points

\* The type of the state after a step, from the part of it that a step changes.
LEMMA TypeStep ==
  ASSUME IInv, pc' \in [Process -> Points],
         at' \in [Path -> Process \cup {None}],
         reader' \in [Process -> {"off", "open", "read", "ended"}],
         running' \in [Process -> BOOLEAN],
         msg' \in [Process -> Path \cup {None}],
         sent' \in [Process -> Nat], met' \subseteq Server,
         UNCHANGED <<fd, wfd, buffer>>,
         \A p \in Process : pc'[p] = "write" <=> pc[p] = "write"
  PROVE  TypeOK'
  BY DEF IInv, TypeOK, Points

LEMMA StartIInv == ASSUME IInv, NEW p \in Process, Start(p) PROVE IInv'
<1> USE PathLemma
<1>0. TypeOK /\ Kinds(p) /\ p # None
  BY DEF IInv
<1>1. /\ pc[p] = "off" /\ pc'[p] = "unlink"
      /\ \A q \in Process : q # p => pc'[q] = pc[q]
      /\ pc' \in [Process -> Points]
  BY <1>0, GoesLemma DEF Start, Points
<1>2. UNCHANGED <<at, fd, wfd, buffer, reader, running, msg, sent>>
  BY DEF Start, files
<1> DEFINE others == {s \in Server : p \in Server /\ alive(s)}
<1>3. met' = IF others = {} THEN met ELSE met \cup others \cup {p}
  BY DEF Start
<1>4. p \in Client => \A q \in Process : PathOf(q) = PathOf(p) => ~alive(q)
  BY DEF Start
<1>5. met' \subseteq Server /\ met \subseteq met'
  BY <1>0, <1>3 DEF TypeOK
<1>6. TypeOK'
  BY <1>0, <1>1, <1>2, <1>5, TypeStep DEF TypeOK
<1>7. \A q \in Process : q # p => (alive(q)' <=> alive(q))
  BY <1>1 DEF alive
<1>8. ~alive(p)
  BY <1>1 DEF alive
<1>9. ASSUME NEW q \in Process, q \notin met', alive(q)' ,
             NEW r \in Process, r # q, PathOf(r) = PathOf(q)
      PROVE  ~alive(r)'
  <2>0. q \notin met
    BY <1>5, <1>9
  <2>1. CASE q = p
    <3>1. ~alive(r)
      <4>1. CASE p \in Client
        BY <4>1, <1>4, <1>9, <2>1
      <4>2. CASE p \in Server
        <5>1. others = {}
          BY <1>3, <1>9, <2>1, <4>2
        <5>2. r \in Server
          BY <1>9, <2>1, <4>2
        <5> QED
          BY <5>1, <5>2, <4>2
      <4> QED
        BY <4>1, <4>2
    <3> QED
      BY <3>1, <1>7, <1>9, <2>1
  <2>2. CASE q # p
    <3>1. alive(q)
      BY <2>2, <1>7, <1>9
    <3>2. r # p
      <4>1. SUFFICES ASSUME r = p PROVE FALSE
        OBVIOUS
      <4>2. CASE p \in Client
        BY <4>1, <4>2, <1>4, <1>9, <3>1
      <4>3. CASE p \in Server
        <5>1. q \in Server
          BY <4>1, <4>3, <1>9
        <5>2. q \in others
          BY <5>1, <4>3, <3>1
        <5> QED
          BY <5>2, <1>3, <1>9
      <4> QED
        BY <4>2, <4>3
    <3>3. ~alive(r)
      BY <2>0, <3>1, <1>9 DEF IInv, Alone
    <3> QED
      BY <3>2, <3>3, <1>7
  <2> QED
    BY <2>1, <2>2
<1>10. ASSUME NEW q \in Process PROVE Alone(q)'
  <2>1. PathOf(q)' = PathOf(q)
    OBVIOUS
  <2> QED
    BY <1>9 DEF Alone
<1>11. ASSUME NEW q \in Process PROVE Kinds(q)' /\ Owns(q)'
  <2>0. Kinds(q) /\ Owns(q)
    BY DEF IInv
  <2>1. CASE q = p
    BY <2>0, <2>1, <1>1, <1>2 DEF Kinds, Owns, Up
  <2>2. CASE q # p
    BY <2>0, <2>2, <1>1, <1>2, <1>5 DEF Kinds, Owns
  <2> QED
    BY <2>1, <2>2
<1>12. AtOwn' /\ Writers'
  BY <1>2 DEF IInv, AtOwn, Writers, hasReader, Stop
<1>13. NoneLeft' /\ KilledByAStop'
  BY <1>0, <1>1, <1>2 DEF IInv, NoneLeft, KilledByAStop, TypeOK
<1> QED
  BY <1>6, <1>10, <1>11, <1>12, <1>13 DEF IInv

LEMMA SignalIInv == ASSUME IInv, NEW p \in Process, Signal(p) PROVE IInv'
<1>0. TypeOK /\ Kinds(p) /\ Owns(p) /\ alive(p)
  BY DEF IInv, Signal
<1>1. /\ running' = [running EXCEPT ![p] = FALSE]
      /\ UNCHANGED <<at, fd, wfd, buffer, pc, reader, msg, sent, met>>
  BY DEF Signal, files
<1>2. TypeOK'
  BY <1>0, <1>1, TypeStep DEF TypeOK, Points
<1>3. Kinds(p)' /\ Owns(p)'
  BY <1>0, <1>1 DEF Kinds, Owns
<1>4. \A q \in Process : ~running[q] => ~running'[q]
  BY <1>0, <1>1 DEF TypeOK
<1>5. pc'[p] \notin {"ended", "killed"}
  BY <1>0, <1>1 DEF alive
<1> QED
  BY <1>0, <1>1, <1>2, <1>3, <1>4, <1>5, QuietStep

\* A step that changes only what is at the path of its process.
LEMMA PathStep ==
  ASSUME IInv, TypeOK', NEW a \in Process, alive(a),
         UNCHANGED <<fd, wfd, running, met>>,
         \A p \in Process : p # a => pc'[p] = pc[p] /\ reader'[p] = reader[p],
         pc'[a] # "killed", NEW new \in {a, None, at[PathOf(a)]},
         at' = [at EXCEPT ![PathOf(a)] = new],
         new # None => pc'[a] # "ended",
         Kinds(a)', Owns(a)'
  PROVE  IInv'
<1>1. /\ PathOf(a) \in Path /\ at'[PathOf(a)] = new
      /\ \A path \in Path : path # PathOf(a) => at'[path] = at[path]
  BY PathLemma DEF IInv, TypeOK
<1>2. \A p \in Process : (Kinds(p) /\ Alone(p) /\ Owns(p))'
  BY <1>1, OthersStep
<1>3. AtOwn'
  BY <1>1 DEF IInv, AtOwn
<1>4. NoneLeft'
  <2> SUFFICES ASSUME NEW path \in Path, at'[path] # None PROVE pc'[at'[path]] # "ended"
    BY DEF NoneLeft
  <2>1. CASE path = PathOf(a)
    <3>1. CASE new = a
      BY <2>1, <3>1, <1>1
    <3>2. CASE new = at[PathOf(a)] /\ new # a
      BY <2>1, <3>2, <1>1 DEF IInv, NoneLeft, TypeOK
    <3> QED
      BY <2>1, <3>1, <3>2, <1>1
  <2>2. CASE path # PathOf(a)
    <3>1. at'[path] = at[path] /\ PathOf(at[path]) = path /\ at[path] \in Process
      BY <2>2, <1>1 DEF IInv, AtOwn, TypeOK
    <3>2. at[path] # a
      BY <3>1, <2>2
    <3> QED
      BY <3>1, <3>2 DEF IInv, NoneLeft
  <2> QED
    BY <2>1, <2>2
<1>5. Writers'
  BY DEF IInv, Writers, hasReader, Stop
<1>6. KilledByAStop'
  BY DEF IInv, KilledByAStop
<1> QED
  BY <1>2, <1>3, <1>4, <1>5, <1>6 DEF IInv

LEMMA UnlinkIInv == ASSUME IInv, NEW p \in Process, Unlink(p) PROVE IInv'
<1>0. TypeOK /\ Kinds(p) /\ PathOf(p) \in Path
  BY PathLemma DEF IInv
<1>1. /\ pc[p] = "unlink" /\ pc'[p] = "mkfifo"
      /\ \A q \in Process : q # p => pc'[q] = pc[q]
      /\ pc' \in [Process -> Points]
  BY <1>0, GoesLemma DEF Unlink, Points
<1>2. /\ at' = [at EXCEPT ![PathOf(p)] = None]
      /\ UNCHANGED <<fd, wfd, buffer, reader, running, msg, sent, met>>
  BY DEF Unlink
<1>3. TypeOK'
  BY <1>0, <1>1, <1>2, TypeStep DEF TypeOK
<1>4. Kinds(p)'
  BY <1>0, <1>1, <1>2 DEF Kinds
<1>5. reader[p] # "read"
  BY <1>0, <1>1, PathLemma DEF Kinds
<1>6. Owns(p)'
  BY <1>0, <1>1, <1>2, <1>5 DEF Owns, Up, TypeOK
<1>7. alive(p)
  BY <1>1 DEF alive
<1> QED
  BY <1>1, <1>2, <1>3, <1>4, <1>6, <1>7, PathStep

LEMMA MkfifoIInv == ASSUME IInv, NEW p \in Process, Mkfifo(p) PROVE IInv'
<1>0. TypeOK /\ Kinds(p) /\ Owns(p) /\ PathOf(p) \in Path
  BY PathLemma DEF IInv
<1> DEFINE to == IF p \in Server THEN "open" ELSE "loop"
           new == IF at[PathOf(p)] = None THEN p ELSE at[PathOf(p)]
<1>1. /\ pc[p] = "mkfifo" /\ pc'[p] = to
      /\ \A q \in Process : q # p => pc'[q] = pc[q]
      /\ pc' \in [Process -> Points]
  BY <1>0, GoesLemma DEF Mkfifo, Points
<1>2. /\ at' = [at EXCEPT ![PathOf(p)] = new]
      /\ reader' = [reader EXCEPT ![p] = IF p \in Client THEN "open" ELSE @]
      /\ UNCHANGED <<fd, wfd, buffer, running, msg, sent, met>>
  BY <1>0 DEF Mkfifo
<1>3. TypeOK'
  <2>1. at' \in [Path -> Process \cup {None}]
    BY <1>0, <1>2 DEF TypeOK
  <2>2. reader' \in [Process -> {"off", "open", "read", "ended"}]
    BY <1>0, <1>2 DEF TypeOK
  <2>3. \A q \in Process : pc'[q] = "write" <=> pc[q] = "write"
    BY <1>1
  <2> QED
    BY <1>0, <1>1, <1>2, <2>1, <2>2, <2>3, TypeStep DEF TypeOK
<1>4. /\ \A q \in Process : q # p => reader'[q] = reader[q]
      /\ reader'[p] = IF p \in Client THEN "open" ELSE reader[p]
  BY <1>0, <1>2 DEF TypeOK
<1>5. reader[p] \notin {"open", "read"}
  BY <1>0, <1>1, PathLemma DEF Kinds
<1>6. Kinds(p)'
  BY <1>0, <1>1, <1>2, <1>4, <1>5, PathLemma DEF Kinds
<1>7. Owns(p)'
  <2>1. p \notin met => at'[PathOf(p)] = p
    BY <1>0, <1>1, <1>2 DEF Owns, TypeOK
  <2> QED
    BY <2>1, <1>1, <1>2, <1>4, <1>5 DEF Owns, Up
<1>8. alive(p) /\ new \in {p, None, at[PathOf(p)]} /\ pc'[p] \notin {"killed", "ended"}
  BY <1>1 DEF alive
<1> HIDE DEF new
<1> QED
  BY <1>1, <1>2, <1>3, <1>4, <1>6, <1>7, <1>8, PathStep

LEMMA RemoveIInv ==
  ASSUME IInv, NEW p \in Process, NEW from, NEW to, Remove(p, from, to),
         \/ from = "remove" /\ to = "destroy" /\ p \in Server
         \/ from = "destroy" /\ to = "ended"
         \/ from = "remove" /\ to = "ended" /\ p \in Client
  PROVE  IInv'
<1>0. TypeOK /\ Kinds(p) /\ Owns(p) /\ PathOf(p) \in Path
  BY PathLemma DEF IInv
<1>1. /\ pc[p] = from /\ pc'[p] = to
      /\ \A q \in Process : q # p => pc'[q] = pc[q]
      /\ pc' \in [Process -> Points]
  BY <1>0, GoesLemma DEF Remove, Points
<1>2. /\ at' = [at EXCEPT ![PathOf(p)] = None]
      /\ UNCHANGED <<fd, wfd, buffer, reader, running, msg, sent, met>>
  BY DEF Remove
<1>3. TypeOK'
  BY <1>0, <1>1, <1>2, TypeStep DEF TypeOK
<1>4. Kinds(p)'
  BY <1>0, <1>1, <1>2, PathLemma DEF Kinds
<1>5. reader[p] # "read"
  BY <1>0, <1>1, PathLemma DEF Kinds
<1>6. Owns(p)'
  BY <1>0, <1>1, <1>2, <1>5 DEF Owns, Up, TypeOK
<1>7. alive(p) /\ pc'[p] # "killed"
  BY <1>1 DEF alive
<1> QED
  BY <1>1, <1>2, <1>3, <1>4, <1>6, <1>7, PathStep

LEMMA OpenFIFOIInv ==
  ASSUME IInv, NEW p \in Process, NEW path \in Path, NEW from, NEW next,
         OpenFIFO(p, path, from, next),
         \/ p \in Server /\ from = "respond" /\ next = "run"
         \/ p \in Client /\ from = "send" /\ next = "loop"
  PROVE  IInv'
<1>0. TypeOK /\ Kinds(p) /\ Owns(p)
  BY DEF IInv
<1> DEFINE found == at[path] # None /\ hasReader(at[path])
           to == IF found THEN "write" ELSE next
<1>1. /\ pc[p] = from /\ pc'[p] = to
      /\ \A q \in Process : q # p => pc'[q] = pc[q]
      /\ pc' \in [Process -> Points]
  <2>1. Goes(p, from, to) /\ to \in Points
    BY DEF OpenFIFO, Points
  <2> HIDE DEF to
  <2> QED
    BY <1>0, <2>1, GoesLemma
<1>2. /\ wfd' = [wfd EXCEPT ![p] = IF found THEN at[path] ELSE @]
      /\ msg' = [msg EXCEPT ![p] = IF found THEN @ ELSE None]
      /\ UNCHANGED <<at, fd, buffer, reader, running, sent, met>>
  BY DEF OpenFIFO
<1>3. /\ at[path] \in Process \cup {None} /\ wfd[p] = None
      /\ wfd'[p] = IF found THEN at[path] ELSE None
      /\ \A q \in Process : q # p => wfd'[q] = wfd[q]
  BY <1>0, <1>1, <1>2 DEF TypeOK
<1>4. wfd' \in [Process -> Process \cup {None}] /\ msg' \in [Process -> Path \cup {None}]
  BY <1>0, <1>2, <1>3 DEF TypeOK
<1>5. ASSUME NEW q \in Process PROVE wfd'[q] # None <=> pc'[q] = "write"
  <2>1. found => at[path] # None
    OBVIOUS
  <2>2. wfd[q] # None <=> pc[q] = "write"
    BY <1>0 DEF TypeOK
  <2> HIDE DEF found
  <2>3. CASE q = p
    BY <2>1, <2>3, <1>1, <1>3
  <2>4. CASE q # p
    BY <2>2, <2>4, <1>1, <1>3
  <2> QED
    BY <2>3, <2>4
<1>6. ASSUME NEW f \in Process, buffer[f] # <<>>
      PROVE  \E q \in Process : f \in {fd[q], wfd'[q]}
  <2>1. PICK q \in Process : f \in {fd[q], wfd[q]}
    BY <1>0, <1>6 DEF TypeOK
  <2>2. wfd[q] # None => wfd'[q] = wfd[q]
    BY <1>3
  <2> QED
    BY <2>1, <2>2, PathLemma
<1>7. TypeOK'
  BY <1>0, <1>1, <1>2, <1>4, <1>5, <1>6 DEF TypeOK, Points
<1>8. Kinds(p)' /\ Owns(p)' /\ alive(p)
  BY <1>0, <1>1, <1>2, PathLemma DEF Kinds, Owns, Up, alive
<1>9. \A q \in Process : (Kinds(q) /\ Alone(q) /\ Owns(q))'
  BY <1>1, <1>2, <1>8, OthersStep
<1>10. AtOwn'
  BY <1>2 DEF IInv, AtOwn
<1>11. NoneLeft' /\ KilledByAStop'
  BY <1>0, <1>1, <1>2 DEF IInv, NoneLeft, KilledByAStop, TypeOK
<1>12. Writers'
  <2>1. \A f : hasReader(f)' <=> hasReader(f)
    BY <1>2 DEF hasReader
  <2>2. Stop' <=> Stop
    BY <1>2 DEF Stop
  <2>3. ASSUME NEW q \in Process, wfd'[q] # None PROVE hasReader(wfd'[q]) \/ Stop
    BY <2>3, <1>3 DEF IInv, Writers
  <2> QED
    BY <2>1, <2>2, <2>3 DEF Writers, hasReader
<1> QED
  BY <1>7, <1>9, <1>10, <1>11, <1>12 DEF IInv

LEMMA WriteFIFOIInv ==
  ASSUME IInv, NEW p \in Process, NEW m \in Path, NEW next, WriteFIFO(p, m, next),
         running' = running,
         \/ p \in Server /\ next = "run"
         \/ p \in Client /\ next = "loop"
  PROVE  IInv'
<1>0. TypeOK /\ Kinds(p) /\ Owns(p)
  BY DEF IInv
<1>1. /\ pc[p] = "write" /\ pc'[p] = next
      /\ \A q \in Process : q # p => pc'[q] = pc[q]
      /\ pc' \in [Process -> Points]
  BY <1>0, GoesLemma DEF WriteFIFO, Points
<1>2. /\ hasReader(wfd[p])
      /\ buffer' = [buffer EXCEPT ![wfd[p]] = Append(@, m)]
      /\ wfd' = [wfd EXCEPT ![p] = None]
      /\ msg' = [msg EXCEPT ![p] = None]
      /\ UNCHANGED <<at, fd, reader, sent, met>>
  BY DEF WriteFIFO
<1>3. /\ wfd'[p] = None /\ wfd' \in [Process -> Process \cup {None}]
      /\ \A q \in Process : q # p => wfd'[q] = wfd[q]
      /\ wfd[p] \in Process
  BY <1>0, <1>1, <1>2 DEF TypeOK
<1>4. /\ buffer' \in [Process -> Seq(Path)]
      /\ \A f \in Process : f # wfd[p] => buffer'[f] = buffer[f]
  BY <1>0, <1>2, <1>3 DEF TypeOK
<1>5. msg' \in [Process -> Path \cup {None}]
  BY <1>0, <1>2 DEF TypeOK
<1>6. ASSUME NEW q \in Process PROVE wfd'[q] # None <=> pc'[q] = "write"
  <2>1. wfd[q] # None <=> pc[q] = "write"
    BY <1>0 DEF TypeOK
  <2>2. CASE q = p
    BY <2>2, <1>1, <1>3
  <2>3. CASE q # p
    BY <2>1, <2>3, <1>1, <1>3
  <2> QED
    BY <2>2, <2>3
<1>7. ASSUME NEW f \in Process, buffer'[f] # <<>>
      PROVE  \E q \in Process : f \in {fd'[q], wfd'[q]}
  <2>1. CASE f = wfd[p]
    BY <2>1, <1>2 DEF hasReader
  <2>2. CASE f # wfd[p]
    <3>1. PICK q \in Process : f \in {fd[q], wfd[q]}
      BY <2>2, <1>4, <1>7, <1>0 DEF TypeOK
    <3> QED
      BY <3>1, <2>2, <1>2, <1>3
  <2> QED
    BY <2>1, <2>2
<1>8. TypeOK'
  BY <1>0, <1>1, <1>2, <1>3, <1>4, <1>5, <1>6, <1>7 DEF TypeOK, Points
<1>9. Kinds(p)' /\ Owns(p)' /\ alive(p)
  BY <1>0, <1>1, <1>2, PathLemma DEF Kinds, Owns, Up, alive
<1>10. \A q \in Process : (Kinds(q) /\ Alone(q) /\ Owns(q))'
  BY <1>1, <1>2, <1>9, OthersStep
<1>11. AtOwn' /\ Writers'
  BY <1>2, <1>3 DEF IInv, AtOwn, Writers, hasReader, Stop
<1>12. NoneLeft' /\ KilledByAStop'
  BY <1>0, <1>1, <1>2 DEF IInv, NoneLeft, KilledByAStop, TypeOK
<1> QED
  BY <1>8, <1>10, <1>11, <1>12 DEF IInv

\* A process gives up what it has open; somebody stops, or has stopped.
LEMMA CloseStep ==
  ASSUME IInv, NEW a \in Process, alive(a), NEW wfds,
         CloseFIFOs([fd EXCEPT ![a] = None], wfds),
         wfds \in [Process -> Process \cup {None}],
         \A p \in Process : wfds[p] # None <=> pc'[p] = "write",
         \A p \in Process : p # a => pc'[p] = pc[p] /\ reader'[p] = reader[p],
         pc' \in [Process -> Points],
         reader' \in [Process -> {"off", "open", "read", "ended"}],
         running' \in [Process -> BOOLEAN],
         msg' \in [Process -> Path \cup {None}],
         UNCHANGED <<at, sent, met>>,
         Stop', pc'[a] # "ended", Kinds(a)', Owns(a)'
  PROVE  IInv'
<1>1. /\ fd' = [fd EXCEPT ![a] = None] /\ wfd' = wfds
      /\ buffer' = [f \in Process |->
                      IF \E p \in Process : f \in {fd'[p], wfd'[p]} THEN buffer[f] ELSE <<>>]
  BY DEF CloseFIFOs
<1>2. /\ fd' \in [Process -> Process \cup {None}]
      /\ \A p \in Process : p # a => fd'[p] = fd[p]
  BY <1>1 DEF IInv, TypeOK
<1>3. /\ buffer' \in [Process -> Seq(Path)]
      /\ \A f \in Process : buffer'[f] # <<>> => \E p \in Process : f \in {fd'[p], wfd'[p]}
  BY <1>1 DEF IInv, TypeOK
<1>4. TypeOK'
  BY <1>1, <1>2, <1>3 DEF IInv, TypeOK, Points
<1>5. \A p \in Process : (Kinds(p) /\ Alone(p) /\ Owns(p))'
  BY <1>2, OthersStep
<1>6. AtOwn'
  BY DEF IInv, AtOwn
<1>7. NoneLeft'
  BY DEF IInv, NoneLeft, TypeOK
<1>8. Writers' /\ KilledByAStop'
  BY DEF Writers, KilledByAStop, Stop
<1> QED
  BY <1>4, <1>5, <1>6, <1>7, <1>8 DEF IInv

LEMMA KilledIInv == ASSUME IInv, NEW p \in Process, Killed(p) PROVE IInv'
<1>0. TypeOK /\ Kinds(p) /\ Owns(p)
  BY DEF IInv
<1>1. /\ pc[p] = "write" /\ pc'[p] = "killed"
      /\ \A q \in Process : q # p => pc'[q] = pc[q]
      /\ pc' \in [Process -> Points]
  BY <1>0, GoesLemma DEF Killed, Points
<1> DEFINE wfds == [wfd EXCEPT ![p] = None]
<1>2. /\ ~hasReader(wfd[p])
      /\ CloseFIFOs([fd EXCEPT ![p] = None], wfds)
      /\ reader' = [reader EXCEPT ![p] = "off"]
      /\ msg' = [msg EXCEPT ![p] = None]
      /\ UNCHANGED <<at, running, sent, met>>
  BY DEF Killed
<1>3. Stop'
  <2>1. wfd[p] # None
    BY <1>0, <1>1 DEF TypeOK
  <2>2. Stop
    BY <1>2, <2>1 DEF IInv, Writers
  <2> QED
    BY <1>2, <2>2 DEF Stop
<1>4. /\ wfds \in [Process -> Process \cup {None}]
      /\ \A q \in Process : wfds[q] # None <=> pc'[q] = "write"
  BY <1>0, <1>1 DEF TypeOK
<1>5. /\ reader'[p] = "off" /\ reader' \in [Process -> {"off", "open", "read", "ended"}]
      /\ \A q \in Process : q # p => reader'[q] = reader[q]
      /\ msg' \in [Process -> Path \cup {None}] /\ running' \in [Process -> BOOLEAN]
  BY <1>0, <1>2 DEF TypeOK
<1>6. fd'[p] = None
  BY <1>0, <1>2 DEF CloseFIFOs, TypeOK
<1>7. Kinds(p)' /\ Owns(p)' /\ alive(p)
  BY <1>1, <1>5, <1>6, PathLemma DEF Kinds, Owns, Up, alive
<1> HIDE DEF wfds
<1> QED
  BY <1>1, <1>2, <1>3, <1>4, <1>5, <1>7, CloseStep

LEMMA EndLoopIInv == ASSUME IInv, NEW s \in Server, EndLoop(s) PROVE IInv'
<1>0. TypeOK /\ Kinds(s) /\ Owns(s) /\ s \in Process
  BY PathLemma DEF IInv
<1>1. /\ pc[s] = "run" /\ pc'[s] = "remove"
      /\ \A q \in Process : q # s => pc'[q] = pc[q]
      /\ pc' \in [Process -> Points]
  BY <1>0, GoesLemma DEF EndLoop, Points
<1>2. /\ running' = [running EXCEPT ![s] = FALSE]
      /\ CloseFIFOs([fd EXCEPT ![s] = None], wfd)
      /\ UNCHANGED <<at, reader, msg, sent, met>>
  BY DEF EndLoop
<1>3. running' \in [Process -> BOOLEAN] /\ ~running'[s] /\ fd'[s] = None
  BY <1>0, <1>2 DEF TypeOK, CloseFIFOs
<1>4. Stop'
  BY <1>0, <1>3 DEF Stop
<1>5. /\ wfd \in [Process -> Process \cup {None}]
      /\ \A q \in Process : wfd[q] # None <=> pc'[q] = "write"
  BY <1>0, <1>1 DEF TypeOK
<1>6. Kinds(s)' /\ Owns(s)' /\ alive(s)
  BY <1>0, <1>1, <1>2, <1>3, PathLemma DEF Kinds, Owns, Up, alive
<1>7. /\ reader' \in [Process -> {"off", "open", "read", "ended"}]
      /\ msg' \in [Process -> Path \cup {None}]
  BY <1>0, <1>2 DEF TypeOK
<1> QED
  BY <1>0, <1>1, <1>2, <1>3, <1>4, <1>5, <1>6, <1>7, CloseStep

LEMMA EndReaderIInv == ASSUME IInv, NEW c \in Client, EndReader(c) PROVE IInv'
<1>0. TypeOK /\ Kinds(c) /\ Owns(c) /\ c \in Process
  BY PathLemma DEF IInv
<1>1. /\ ~running[c] /\ reader[c] = "read"
      /\ reader' = [reader EXCEPT ![c] = "ended"]
      /\ CloseFIFOs([fd EXCEPT ![c] = None], wfd)
      /\ UNCHANGED <<at, pc, running, msg, sent, met>>
  BY DEF EndReader, ReaderGoes
<1>2. /\ reader'[c] = "ended" /\ reader' \in [Process -> {"off", "open", "read", "ended"}]
      /\ \A q \in Process : q # c => reader'[q] = reader[q]
      /\ fd'[c] = None
  BY <1>0, <1>1 DEF TypeOK, CloseFIFOs
<1>3. Stop'
  BY <1>0, <1>1 DEF Stop
<1>4. pc[c] \in {"loop", "prompt", "send", "write"}
  BY <1>0, <1>1 DEF Kinds
<1>5. Kinds(c)' /\ Owns(c)' /\ alive(c) /\ pc'[c] # "ended"
  BY <1>0, <1>1, <1>2, <1>4, PathLemma DEF Kinds, Owns, Up, alive
<1>6. /\ wfd \in [Process -> Process \cup {None}]
      /\ \A q \in Process : wfd[q] # None <=> pc'[q] = "write"
      /\ pc' \in [Process -> Points] /\ running' \in [Process -> BOOLEAN]
      /\ msg' \in [Process -> Path \cup {None}]
  BY <1>0, <1>1 DEF TypeOK, Points
<1> QED
  BY <1>0, <1>1, <1>2, <1>3, <1>5, <1>6, CloseStep

\* A process that has nothing open for reading opens what it finds.
LEMMA OpenStep ==
  ASSUME IInv, NEW a \in Process, alive(a), fd[a] = None, NEW f \in Process \cup {None},
         fd' = [fd EXCEPT ![a] = f],
         UNCHANGED <<at, wfd, buffer, running, msg, sent, met>>,
         \A p \in Process : p # a => pc'[p] = pc[p] /\ reader'[p] = reader[p],
         pc' \in [Process -> Points], pc'[a] \notin {"ended", "killed"},
         pc[a] = "write" <=> pc'[a] = "write",
         reader' \in [Process -> {"off", "open", "read", "ended"}],
         Kinds(a)', Owns(a)'
  PROVE  IInv'
<1>1. /\ fd'[a] = f /\ fd' \in [Process -> Process \cup {None}]
      /\ \A p \in Process : p # a => fd'[p] = fd[p]
  BY DEF IInv, TypeOK
<1>2. ASSUME NEW g \in Process, buffer[g] # <<>>
      PROVE  \E q \in Process : g \in {fd'[q], wfd[q]}
  <2>1. PICK q \in Process : g \in {fd[q], wfd[q]}
    BY <1>2 DEF IInv, TypeOK
  <2>2. fd[q] # None => fd'[q] = fd[q]
    BY <1>1
  <2> QED
    BY <2>1, <2>2, PathLemma
<1>3. ASSUME NEW q \in Process PROVE wfd[q] # None <=> pc'[q] = "write"
  <2>1. wfd[q] # None <=> pc[q] = "write"
    BY DEF IInv, TypeOK
  <2> QED
    BY <2>1
<1>4. TypeOK'
  BY <1>1, <1>2, <1>3 DEF IInv, TypeOK, Points
<1>5. \A p \in Process : (Kinds(p) /\ Alone(p) /\ Owns(p))'
  BY <1>1, OthersStep
<1>6. AtOwn' /\ NoneLeft' /\ KilledByAStop'
  BY DEF IInv, AtOwn, NoneLeft, KilledByAStop, TypeOK
<1>7. Writers'
  <2>1. ASSUME NEW g \in Process, hasReader(g) PROVE hasReader(g)'
    <3>1. PICK q \in Process : fd[q] = g
      BY <2>1 DEF hasReader
    <3>2. fd'[q] = g
      BY <3>1, <1>1, PathLemma
    <3> QED
      BY <3>2 DEF hasReader
  <2>2. Stop' <=> Stop
    BY DEF Stop
  <2>3. ASSUME NEW q \in Process, wfd[q] # None PROVE hasReader(wfd[q])' \/ Stop
    BY <2>1, <2>3 DEF IInv, Writers, TypeOK
  <2> QED
    BY <2>2, <2>3 DEF Writers, hasReader
<1> QED
  BY <1>4, <1>5, <1>6, <1>7 DEF IInv

LEMMA OpenServerIInv == ASSUME IInv, NEW s \in Server, OpenServer(s) PROVE IInv'
<1>0. TypeOK /\ Kinds(s) /\ Owns(s) /\ s \in Process /\ PathOf(s) \in Path
  BY PathLemma DEF IInv
<1>1. /\ pc[s] = "open" /\ pc'[s] = "run"
      /\ \A q \in Process : q # s => pc'[q] = pc[q]
      /\ pc' \in [Process -> Points]
  BY <1>0, GoesLemma DEF OpenServer, Points
<1>2. /\ fd' = [fd EXCEPT ![s] = at[PathOf(s)]]
      /\ UNCHANGED <<at, wfd, buffer, reader, running, msg, sent, met>>
  BY DEF OpenServer
<1>3. /\ fd[s] = None /\ at[PathOf(s)] \in Process \cup {None} /\ fd'[s] = at[PathOf(s)]
      /\ reader' \in [Process -> {"off", "open", "read", "ended"}]
  BY <1>0, <1>1, <1>2 DEF Kinds, TypeOK
<1>4. Kinds(s)' /\ Owns(s)' /\ alive(s)
  BY <1>0, <1>1, <1>2, <1>3, PathLemma DEF Kinds, Owns, Up, alive
<1> QED
  BY <1>0, <1>1, <1>2, <1>3, <1>4, OpenStep

LEMMA OpenClientIInv == ASSUME IInv, NEW c \in Client, OpenClient(c) PROVE IInv'
<1>0. TypeOK /\ Kinds(c) /\ Owns(c) /\ c \in Process /\ PathOf(c) \in Path
  BY PathLemma DEF IInv
<1>1. /\ reader[c] = "open"
      /\ reader' = [reader EXCEPT ![c] = IF at[PathOf(c)] = None THEN "ended" ELSE "read"]
      /\ fd' = [fd EXCEPT ![c] = at[PathOf(c)]]
      /\ UNCHANGED <<at, wfd, buffer, pc, running, msg, sent, met>>
  BY DEF OpenClient, ReaderGoes
<1>2. /\ reader' \in [Process -> {"off", "open", "read", "ended"}]
      /\ reader'[c] = IF at[PathOf(c)] = None THEN "ended" ELSE "read"
      /\ \A q \in Process : q # c => reader'[q] = reader[q]
  BY <1>0, <1>1 DEF TypeOK
<1>3. /\ fd[c] = None /\ at[PathOf(c)] \in Process \cup {None} /\ fd'[c] = at[PathOf(c)]
      /\ pc[c] \in {"loop", "prompt", "send", "write"}
      /\ pc' \in [Process -> Points]
  BY <1>0, <1>1 DEF Kinds, TypeOK, Points
<1>4. Kinds(c)' /\ Owns(c)' /\ alive(c) /\ pc'[c] \notin {"ended", "killed"}
  BY <1>0, <1>1, <1>2, <1>3, PathLemma DEF Kinds, Owns, Up, alive
<1> QED
  BY <1>0, <1>1, <1>2, <1>3, <1>4, OpenStep

\* A read empties a FIFO that the process has open.
LEMMA ReadBuffer ==
  ASSUME TypeOK, NEW p \in Process, fd[p] # None, UNCHANGED <<fd, wfd>>,
         buffer' = [buffer EXCEPT ![fd[p]] = <<>>]
  PROVE  /\ buffer' \in [Process -> Seq(Path)]
         /\ \A f \in Process : buffer'[f] # <<>> => \E q \in Process : f \in {fd'[q], wfd'[q]}
<1>1. fd[p] \in Process
  BY DEF TypeOK
<1> QED
  BY <1>1 DEF TypeOK

LEMMA ServeIInv == ASSUME IInv, NEW s \in Server, Serve(s) PROVE IInv'
<1>0. TypeOK /\ Kinds(s) /\ Owns(s) /\ s \in Process
  BY PathLemma DEF IInv
<1>1. /\ pc[s] = "run" /\ pc'[s] = "respond"
      /\ \A q \in Process : q # s => pc'[q] = pc[q]
      /\ pc' \in [Process -> Points]
  BY <1>0, GoesLemma DEF Serve, Points
<1>2. /\ fd[s] # None /\ buffer[fd[s]] # <<>>
      /\ msg' = [msg EXCEPT ![s] = Head(buffer[fd[s]])]
      /\ buffer' = [buffer EXCEPT ![fd[s]] = <<>>]
      /\ UNCHANGED <<at, fd, wfd, reader, running, sent, met>>
  BY DEF Serve
<1>3. msg' \in [Process -> Path \cup {None}]
  <2>1. buffer[fd[s]] \in Seq(Path)
    BY <1>0, <1>2 DEF TypeOK
  <2>2. Head(buffer[fd[s]]) \in Path
    BY <2>1, <1>2
  <2> QED
    BY <2>2, <1>0, <1>2 DEF TypeOK
<1>4. \A q \in Process : pc'[q] = "write" <=> pc[q] = "write"
  BY <1>1
<1>5. TypeOK'
  BY <1>0, <1>1, <1>2, <1>3, <1>4, ReadBuffer DEF TypeOK, Points
<1>6. Kinds(s)' /\ Owns(s)' /\ alive(s)
  BY <1>0, <1>1, <1>2, PathLemma DEF Kinds, Owns, Up, alive
<1> QED
  BY <1>0, <1>1, <1>2, <1>5, <1>6, QuietStep

LEMMA ReadIInv == ASSUME IInv, NEW c \in Client, Read(c) PROVE IInv'
<1>0. TypeOK /\ Kinds(c) /\ Owns(c) /\ c \in Process
  BY PathLemma DEF IInv
<1>1. /\ reader[c] = "read" /\ buffer' = [buffer EXCEPT ![fd[c]] = <<>>]
      /\ UNCHANGED <<at, fd, wfd, pc, reader, running, msg, sent, met>>
  BY DEF Read
<1>2. buffer' \in [Process -> Seq(Path)]
  <2>1. buffer \in [Process -> Seq(Path)] /\ <<>> \in Seq(Path)
    BY <1>0 DEF TypeOK
  <2>2. \A f \in Process : buffer'[f] \in Seq(Path)
    BY <2>1, <1>1
  <2> QED
    BY <2>1, <2>2, <1>1
<1>3. ASSUME NEW f \in Process, buffer'[f] # <<>> PROVE buffer[f] # <<>>
  BY <1>0, <1>1, <1>3 DEF TypeOK
<1>4. TypeOK'
  BY <1>0, <1>1, <1>2, <1>3 DEF TypeOK
<1>5. Kinds(c)' /\ Owns(c)'
  BY <1>0, <1>1 DEF Kinds, Owns
<1>6. alive(c) /\ pc'[c] \notin {"ended", "killed"}
  BY <1>0, <1>1 DEF Kinds, alive
<1> QED
  BY <1>0, <1>1, <1>4, <1>5, <1>6, QuietStep

LEMMA MainIInv ==
  ASSUME IInv, NEW c \in Client, Loop(c) \/ Type(c) \/ Join(c)
  PROVE  IInv'
<1>0. TypeOK /\ Kinds(c) /\ Owns(c) /\ c \in Process
  BY PathLemma DEF IInv
<1>1. PICK from \in {"loop", "prompt"}, to \in {"loop", "prompt", "send", "remove"} :
        /\ Goes(c, from, to)
        /\ to = "remove" => reader[c] = "ended"
  BY DEF Loop, Type, Join
<1>2. /\ pc[c] = from /\ pc'[c] = to
      /\ \A q \in Process : q # c => pc'[q] = pc[q]
      /\ pc' \in [Process -> Points]
  BY <1>0, <1>1, GoesLemma DEF Points
<1>3. UNCHANGED <<at, fd, wfd, buffer, reader, running, msg, met>>
  BY DEF Loop, Type, Join, files
<1>4. sent' \in [Process -> Nat]
  <2>1. sent' = sent \/ sent' = [sent EXCEPT ![c] = @ + 1]
    BY DEF Loop, Type, Join
  <2>2. sent \in [Process -> Nat]
    BY <1>0 DEF TypeOK
  <2> QED
    BY <2>1, <2>2
<1>5. \A q \in Process : pc'[q] = "write" <=> pc[q] = "write"
  BY <1>2
<1>6. TypeOK'
  BY <1>0, <1>2, <1>3, <1>4, <1>5, TypeStep DEF TypeOK
<1>7. Kinds(c)' /\ Owns(c)' /\ alive(c)
  BY <1>0, <1>1, <1>2, <1>3, PathLemma DEF Kinds, Owns, Up, alive
<1> QED
  BY <1>0, <1>2, <1>3, <1>6, <1>7, QuietStep

LEMMA ServerIInv == ASSUME IInv, Msgs, NEW s \in Server, ServerStep(s) PROVE IInv'
<1>0. s \in Process /\ TypeOK
  BY PathLemma DEF IInv
<1>1. CASE Respond(s)
  <2>1. msg[s] \in Path
    BY <1>1 DEF Respond, OpenFIFO, Goes, Msgs
  <2> QED
    BY <1>0, <1>1, <2>1, OpenFIFOIInv DEF Respond
<1>2. CASE Answer(s)
  <2>1. msg[s] \in Path
    BY <1>2 DEF Answer, WriteFIFO, Goes, Msgs
  <2> QED
    BY <1>0, <1>2, <2>1, WriteFIFOIInv DEF Answer
<1>3. CASE Remove(s, "remove", "destroy") \/ Remove(s, "destroy", "ended")
  BY <1>0, <1>3, RemoveIInv
<1>4. CASE Unlink(s) \/ Mkfifo(s) \/ OpenServer(s) \/ Serve(s) \/ Killed(s) \/ EndLoop(s)
  BY <1>0, <1>4, UnlinkIInv, MkfifoIInv, OpenServerIInv, ServeIInv, KilledIInv, EndLoopIInv
<1> QED
  BY <1>1, <1>2, <1>3, <1>4 DEF ServerStep

LEMMA ClientIInv == ASSUME IInv, NEW c \in Client, ClientStep(c) PROVE IInv'
<1>0. c \in Process /\ PathOf(c) \in Path /\ SERVER_FIFO_PATH \in Path
  BY PathLemma
<1>1. CASE Send(c)
  BY <1>0, <1>1, OpenFIFOIInv DEF Send
<1>2. CASE SendWrite(c)
  BY <1>0, <1>2, WriteFIFOIInv DEF SendWrite
<1>3. CASE Remove(c, "remove", "ended")
  BY <1>0, <1>3, RemoveIInv
<1>4. CASE Unlink(c) \/ Mkfifo(c) \/ Loop(c) \/ Killed(c) \/ Join(c)
  BY <1>0, <1>4, UnlinkIInv, MkfifoIInv, MainIInv, KilledIInv
<1> QED
  BY <1>1, <1>2, <1>3, <1>4 DEF ClientStep

LEMMA NextIInv == IInv /\ Msgs /\ [Next]_vars => IInv'
<1> SUFFICES ASSUME IInv, Msgs, [Next]_vars PROVE IInv'
  OBVIOUS
<1>1. ASSUME NEW p \in Process, Start(p) \/ Signal(p) PROVE IInv'
  BY <1>1, StartIInv, SignalIInv
<1>2. ASSUME NEW s \in Server, ServerStep(s) PROVE IInv'
  BY <1>2, ServerIInv
<1>3. ASSUME NEW c \in Client, ClientStep(c) \/ ReaderStep(c) \/ Type(c) PROVE IInv'
  BY <1>3, ClientIInv, OpenClientIInv, ReadIInv, EndReaderIInv, MainIInv DEF ReaderStep
<1>4. CASE UNCHANGED vars
  BY <1>4
  DEF vars, files, IInv, TypeOK, Kinds, Alone, Owns, AtOwn, NoneLeft, Writers, KilledByAStop,
      alive, hasReader, Stop
<1> QED
  BY <1>1, <1>2, <1>3, <1>4 DEF Next, Over
-----------------------------------------------------------------------------
\* A server that answers keeps the path it answers to.
LEMMA MsgsStep ==
  ASSUME Msgs, NEW a \in Process,
         \A p \in Process : p # a => pc'[p] = pc[p] /\ msg'[p] = msg[p],
         a \in Server /\ pc'[a] \in {"respond", "write"} => msg'[a] \in Path
  PROVE  Msgs'
  BY PathLemma DEF Msgs

LEMMA NextMsgs == IInv /\ Msgs /\ [Next]_vars => Msgs'
<1> SUFFICES ASSUME IInv, Msgs, [Next]_vars PROVE Msgs'
  OBVIOUS
<1>0. TypeOK
  BY DEF IInv
<1>1. ASSUME NEW p \in Process, NEW from, NEW to \in Points \ {"respond", "write"},
             Goes(p, from, to), \A q \in Process : q # p => msg'[q] = msg[q]
      PROVE  Msgs'
  BY <1>0, <1>1, GoesLemma, MsgsStep
<1>2. CASE UNCHANGED <<pc, msg>>
  BY <1>2 DEF Msgs
<1>3. ASSUME NEW p \in Process, Start(p) \/ Signal(p) PROVE Msgs'
  BY <1>1, <1>2, <1>3 DEF Start, Signal, Points
<1>4. ASSUME NEW p \in Process,
             \/ Unlink(p) \/ Mkfifo(p) \/ Killed(p)
             \/ \E from, to \in {"remove", "destroy", "ended"} : Remove(p, from, to)
      PROVE  Msgs'
  BY <1>0, <1>1, <1>4 DEF Unlink, Mkfifo, Killed, Remove, Points, TypeOK
<1>5. ASSUME NEW s \in Server, ServerStep(s) PROVE Msgs'
  <2>0. s \in Process
    BY PathLemma
  <2>1. CASE OpenServer(s) \/ EndLoop(s)
    BY <2>0, <2>1, <1>1 DEF OpenServer, EndLoop, Points
  <2>2. CASE Serve(s)
    <3>1. msg' = [msg EXCEPT ![s] = Head(buffer[fd[s]])] /\ Goes(s, "run", "respond")
      BY <2>2 DEF Serve
    <3>2. buffer[fd[s]] \in Seq(Path) /\ buffer[fd[s]] # <<>>
      BY <2>0, <2>2, <1>0 DEF Serve, TypeOK
    <3>3. Head(buffer[fd[s]]) \in Path
      BY <3>2
    <3>4. msg'[s] \in Path /\ \A q \in Process : q # s => msg'[q] = msg[q]
      BY <2>0, <3>1, <3>3, <1>0 DEF TypeOK
    <3> QED
      BY <2>0, <3>1, <3>4, <1>0, GoesLemma, MsgsStep DEF Points
  <2>3. CASE Respond(s)
    <3>1. /\ pc[s] = "respond" /\ pc'[s] \in {"write", "run"}
          /\ \A q \in Process : q # s => pc'[q] = pc[q] /\ msg'[q] = msg[q]
          /\ pc'[s] = "write" => msg'[s] = msg[s]
      <4> DEFINE path == msg[s]
                 found == at[path] # None /\ hasReader(at[path])
                 to == IF found THEN "write" ELSE "run"
      <4>1. /\ Goes(s, "respond", to) /\ to \in Points
            /\ msg' = [msg EXCEPT ![s] = IF found THEN @ ELSE None]
        BY <2>3 DEF Respond, OpenFIFO, Points
      <4>2. to = "write" => found
        OBVIOUS
      <4>3. to \in {"write", "run"}
        OBVIOUS
      <4> HIDE DEF to, found
      <4>4. /\ pc[s] = "respond" /\ pc'[s] = to
            /\ \A q \in Process : q # s => pc'[q] = pc[q]
        BY <2>0, <4>1, <1>0, GoesLemma
      <4> QED
        BY <2>0, <4>1, <4>2, <4>3, <4>4, <1>0 DEF TypeOK
    <3>2. msg[s] \in Path
      BY <3>1 DEF Msgs
    <3> QED
      BY <2>0, <3>1, <3>2, MsgsStep
  <2>4. CASE Answer(s)
    <3>1. Goes(s, "write", "run") /\ msg' = [msg EXCEPT ![s] = None]
      BY <2>4 DEF Answer, WriteFIFO
    <3> QED
      BY <2>0, <3>1, <1>0, <1>1 DEF TypeOK, Points
  <2> QED
    BY <2>0, <2>1, <2>2, <2>3, <2>4, <1>5, <1>4 DEF ServerStep
<1>6. ASSUME NEW c \in Client, ClientStep(c) \/ ReaderStep(c) \/ Type(c) PROVE Msgs'
  <2>0. c \in Process /\ c \notin Server
    BY PathLemma
  <2>1. CASE Loop(c) \/ Join(c) \/ Type(c)
    BY <2>0, <2>1, <1>1 DEF Loop, Join, Type, Points
  <2>2. CASE Send(c) \/ SendWrite(c)
    <3>1. /\ \A q \in Process : q # c => pc'[q] = pc[q]
          /\ \A q \in Process : q # c => msg'[q] = msg[q]
      BY <2>0, <2>2, <1>0 DEF Send, SendWrite, OpenFIFO, WriteFIFO, Goes, TypeOK
    <3> QED
      BY <2>0, <3>1, MsgsStep
  <2>3. CASE ReaderStep(c)
    BY <2>3, <1>2 DEF ReaderStep, OpenClient, Read, EndReader
  <2> QED
    BY <2>0, <2>1, <2>2, <2>3, <1>6, <1>4 DEF ClientStep
<1> QED
  BY <1>2, <1>3, <1>5, <1>6 DEF Next, Over, vars
-----------------------------------------------------------------------------
Inv == IInv /\ Msgs

LEMMA InitInv == Init => Inv
  BY InitIInv, PathLemma DEF Inv, Init, Msgs

LEMMA NextInv == Inv /\ [Next]_vars => Inv'
  BY NextIInv, NextMsgs DEF Inv

\* The state keeps its shape: who writes has the FIFO open, and who has it open only
\* writes (write_to_FIFO closes what it opens).
THEOREM TypeCorrect == Spec => []TypeOK
<1>1. Inv => TypeOK
  BY DEF Inv, IInv
<1> QED
  BY <1>1, InitInv, NextInv, PTL DEF Spec

\* A process whose path is its own reads what is found there, whatever earlier processes
\* left behind (initializeFIFO, create_client_fifo).
THEOREM PathsAreReached == Spec => []Reached
<1>1. Inv => Reached
  <2> SUFFICES ASSUME Inv, NEW p \in Process, p \notin met, serves(p)
               PROVE  fd[p] # None /\ fd[p] = at[PathOf(p)]
    BY DEF Reached
  <2>1. Kinds(p) /\ Owns(p) /\ (p \in Server \/ p \in Client) /\ p # None
    BY PathLemma DEF Inv, IInv
  <2>2. fd[p] = p /\ pc[p] \in Up
    BY <2>1 DEF Kinds, Owns, serves, Up
  <2> QED
    BY <2>1, <2>2 DEF Owns
<1> QED
  BY <1>1, InitInv, NextInv, PTL DEF Spec

\* A process that ended leaves no FIFO of its own at any path (cleanupFIFO and the
\* destructors): what is left was made by one that was killed.
THEOREM NothingIsLeft == Spec => []NoneLeft
<1>1. Inv => NoneLeft
  BY DEF Inv, IInv
<1> QED
  BY <1>1, InitInv, NextInv, PTL DEF Spec

\* SIGPIPE needs somebody who has stopped.
THEOREM OnlyAStopKills == Spec => []KilledByAStop
<1>1. Inv => KilledByAStop
  BY DEF Inv, IInv
<1> QED
  BY <1>1, InitInv, NextInv, PTL DEF Spec
=============================================================================
