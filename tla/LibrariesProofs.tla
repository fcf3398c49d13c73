--------------------------- MODULE LibrariesProofs ---------------------------
(***************************************************************************)
(* Proofs about Libraries, for every set of numbers that may be typed.     *)
(***************************************************************************)
EXTENDS Libraries, TLAPS

(* Which libraries are open follows from where the program is, and the two *)
(* functions come from one library, which is also the one the user was told*)
(* of.                                                                     *)
OpenSoFar ==
  opened = CASE pc = "open1" -> [l \in Lib |-> 0]
             [] pc = "open2" -> [l \in Lib |-> IF l = 1 THEN 1 ELSE 0]
             [] pc \in {"greet", "prompt"} -> [l \in Lib |-> 1]
             [] OTHER -> [l \in Lib |-> 0]

OneLibrary ==
  \/ current = [f \in Function |-> NoLib]
  \/ /\ pc \in {"prompt", "over"}
     /\ current = [f \in Function |-> told]
     /\ told \in Lib

AnswerKnown ==
  answer # NoLib => pc \in {"prompt", "over"} /\ answer = told /\ told \in Lib

IInv == TypeOK /\ OpenSoFar /\ OneLibrary /\ AnswerKnown

LEMMA InitIInv == Init => IInv
  BY DEF Init, IInv, TypeOK, OpenSoFar, OneLibrary, AnswerKnown, Lib, Function, NoLib

(* Every call of switchToLib leaves the functions of one library, and the  *)
(* user told of it, when it is called with what the user believes already, *)
(* or before anything is loaded.                                           *)
LEMMA SwitchKeepsOne ==
  ASSUME NEW libNum \in Lib, NEW otherwise \in Lib \cup {NoLib}, IInv,
         \/ current = [f \in Function |-> NoLib]
         \/ otherwise = told,
         switchToLib(libNum, otherwise)
  PROVE  /\ \/ current' = [f \in Function |-> NoLib]
            \/ told' \in Lib /\ current' = [f \in Function |-> told']
         /\ current' \in [Function -> Lib \cup {NoLib}]
         /\ current_lib' \in Lib
         /\ told' \in Lib \cup {NoLib}
  <1>1. CASE Function \subseteq exported[libNum]
    BY <1>1 DEF switchToLib, IInv, TypeOK
  <1>2. CASE ~(Function \subseteq exported[libNum])
    BY <1>2 DEF switchToLib, IInv, TypeOK, OneLibrary
  <1> QED BY <1>1, <1>2

LEMMA NextIInv == IInv /\ [Next]_vars => IInv'
  <1> SUFFICES ASSUME IInv, [Next]_vars PROVE IInv'
    OBVIOUS
  <1> USE DEF IInv, TypeOK, OpenSoFar, OneLibrary, AnswerKnown
  <1>1. CASE Open1
    BY <1>1 DEF Open1, Open, files, Lib
  <1>2. CASE Open2
    BY <1>2 DEF Open2, Open, files, Lib
  <1>3. CASE Greet
    <2>1. current = [f \in Function |-> NoLib]
      BY <1>3 DEF Greet
    <2>2. switchToLib(current_lib, current_lib)
      BY <1>3 DEF Greet
    <2>3. /\ \/ current' = [f \in Function |-> NoLib]
             \/ told' \in Lib /\ current' = [f \in Function |-> told']
          /\ current' \in [Function -> Lib \cup {NoLib}]
          /\ current_lib' \in Lib
          /\ told' \in Lib \cup {NoLib}
      BY <2>1, <2>2, SwitchKeepsOne
    <2>4. answer = NoLib
      BY <1>3 DEF Greet
    <2> QED BY <1>3, <2>3, <2>4 DEF Greet, files
  <1>4. CASE Switch
    <2>1. (current_lib % 2) + 1 \in Lib
      BY DEF Lib
    <2>2. switchToLib((current_lib % 2) + 1, told)
      BY <1>4 DEF Switch
    <2>3. /\ \/ current' = [f \in Function |-> NoLib]
             \/ told' \in Lib /\ current' = [f \in Function |-> told']
          /\ current' \in [Function -> Lib \cup {NoLib}]
          /\ current_lib' \in Lib
          /\ told' \in Lib \cup {NoLib}
      BY <2>1, <2>2, SwitchKeepsOne
    <2> QED BY <1>4, <2>3 DEF Switch, files, NoLib
  <1>5. ASSUME NEW f \in Function, NEW n \in Arg, Call(f, n) PROVE IInv'
    BY <1>5 DEF Call, files, NoLib
  <1>6. CASE Invalid
    BY <1>6 DEF Invalid, files, NoLib
  <1>7. CASE Quit
    BY <1>7 DEF Quit, files, Lib
  <1>8. CASE Over \/ UNCHANGED vars
    BY <1>8 DEF Over, vars
  <1> QED
    BY <1>1, <1>2, <1>3, <1>4, <1>5, <1>6, <1>7, <1>8 DEF Next

LEMMA Invariance == Spec => []IInv
  BY InitIInv, NextIInv, PTL DEF Spec

(* No library is opened or closed twice by the constructor, the destructor *)
(* or both, and the pointers stay in the two libraries.                    *)
THEOREM TypeCorrect == Spec => []TypeOK
  <1>1. IInv => TypeOK
    BY DEF IInv
  <1> QED BY <1>1, Invariance, PTL

(* Every number printed comes from the library the user was told of last,  *)
(* and from an open one, whatever functions the libraries lack.            *)
THEOREM AnswersAreFromTold == Spec => []AnswersFromTold
  <1>1. IInv => AnswersFromTold
    BY DEF IInv, TypeOK, OpenSoFar, AnswerKnown, AnswersFromTold, Lib
  <1> QED BY <1>1, Invariance, PTL

(* Every end of the program, also by the constructor's exceptions, leaves  *)
(* every library closed.                                                   *)
THEOREM EveryLibraryIsClosed == Spec => []AllClosed
  <1>1. IInv => AllClosed
    BY DEF IInv, OpenSoFar, AllClosed
  <1> QED BY <1>1, Invariance, PTL

(* No switch, failed or not, takes away a function that works.             *)
THEOREM WorkingLibraryStays == Spec => WorkingStays
  <1>1. IInv /\ [Next]_vars
          => [\A f \in Function : current[f] # NoLib => current'[f] # NoLib]_vars
    <2> SUFFICES ASSUME IInv, Next,
                        NEW f \in Function, current[f] # NoLib
                 PROVE  current'[f] # NoLib
      OBVIOUS
    <2>1. CASE UNCHANGED current
      BY <2>1
    <2>2. ASSUME NEW libNum, NEW otherwise, switchToLib(libNum, otherwise)
          PROVE  current'[f] # NoLib
      BY <2>2 DEF switchToLib, Lib, NoLib
    <2> QED
      BY <2>1, <2>2 DEF Next, Open1, Open2, Greet, Switch, Invalid, Quit, Call, Over, vars
  <1> QED BY <1>1, Invariance, PTL DEF Spec, WorkingStays
=============================================================================
