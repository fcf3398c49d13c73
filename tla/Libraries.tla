------------------------------ MODULE Libraries ------------------------------
(***************************************************************************)
(* Lab4, program 2: two libraries are loaded at run time, and the user     *)
(* calls Pi and E of one of them and switches to the other.  A library may *)
(* be missing, and so may a function in it; what a function computes is    *)
(* abstracted to the library that it is found in.                          *)
(***************************************************************************)
EXTENDS Integers

CONSTANT Arg     \* the numbers that are typed after a command

ASSUME LibrariesAssumption == Arg \subseteq Int

Lib == {1, 2}
Function == {"Pi", "E"}
NoLib == 0       \* a null pointer: no library stands behind it

VARIABLES
  present,      \* the libraries that dlopen finds
  exported,     \* the functions that dlsym finds in each library
  pc,           \* where the program is
  opened,       \* how often each library was opened and not closed since
  current,      \* the libraries that current_Pi and current_E point into
  current_lib,  \* the member of that name
  told,         \* the library that the user was last told is in use
  answer        \* the library whose number was printed last, NoLib after a refusal

vars == <<present, exported, pc, opened, current, current_lib, told, answer>>
files == <<present, exported>>

Init ==
  /\ present \in SUBSET Lib
  /\ exported \in [Lib -> SUBSET Function]
  /\ pc = "open1"
  /\ opened = [l \in Lib |-> 0]
  /\ current = [f \in Function |-> NoLib]
  /\ current_lib = 1
  /\ told = NoLib
  /\ answer = NoLib

Open(l) == opened' = [opened EXCEPT ![l] = @ + 1]

(* The constructor opens library 1; its exception ends the program.        *)
Open1 ==
  /\ pc = "open1"
  /\ \/ 1 \in present /\ Open(1) /\ pc' = "open2"
     \/ 1 \notin present /\ pc' = "over" /\ UNCHANGED opened
  /\ UNCHANGED <<files, current, current_lib, told, answer>>

(* The constructor opens library 2; if that fails it closes library 1, and *)
(* throws: the destructor of an object that was not constructed is not run.*)
Open2 ==
  /\ pc = "open2"
  /\ \/ 2 \in present /\ Open(2) /\ pc' = "greet"
     \/ 2 \notin present /\ pc' = "over" /\ opened' = [opened EXCEPT ![1] = @ - 1]
  /\ UNCHANGED <<files, current, current_lib, told, answer>>

(* Plausible bug: switchToLib stores Pi before it looks for E.             *)
switchToLib_PiFirst(libNum, otherwise) ==
  IF libNum \in Lib /\ Function \subseteq exported[libNum]
  THEN /\ current' = [f \in Function |-> libNum]
       /\ current_lib' = libNum
       /\ told' = libNum
  ELSE /\ current' = [current EXCEPT !["Pi"] = IF "Pi" \in exported[libNum] THEN libNum ELSE @]
       /\ told' = otherwise
       /\ UNCHANGED current_lib

(* Plausible bug: switchToLib clears both pointers before it looks up the  *)
(* new ones.                                                               *)
switchToLib_ClearsFirst(libNum, otherwise) ==
  IF libNum \in Lib /\ Function \subseteq exported[libNum]
  THEN /\ current' = [f \in Function |-> libNum]
       /\ current_lib' = libNum
       /\ told' = libNum
  ELSE /\ current' = [f \in Function |-> NoLib]
       /\ told' = otherwise
       /\ UNCHANGED current_lib

(* switchToLib returns early, and leaves everything as it was, when either *)
(* function is missing.  `otherwise` is what the user goes on believing.   *)
switchToLib(libNum, otherwise) ==
  IF libNum \in Lib /\ Function \subseteq exported[libNum]
  THEN /\ current' = [f \in Function |-> libNum]
       /\ current_lib' = libNum
       /\ told' = libNum
  ELSE told' = otherwise /\ UNCHANGED <<current, current_lib>>

(* The constructor's first switch, and main's line `Current: ...`, which   *)
(* names library 1 also when that switch has failed.                       *)
Greet ==
  /\ pc = "greet"
  /\ switchToLib(current_lib, current_lib)
  /\ pc' = "prompt"
  /\ UNCHANGED <<files, opened, answer>>

(* Command 0.                                                              *)
Switch ==
  /\ pc = "prompt"
  /\ switchToLib((current_lib % 2) + 1, told)
  /\ answer' = NoLib
  /\ UNCHANGED <<files, pc, opened>>

accepted(f, n) == IF f = "Pi" THEN n > 0 ELSE n # 0

(* Commands 1 and 2: callPi and callE throw when nothing is loaded, and    *)
(* main prints the error.                                                  *)
Call(f, n) ==
  /\ pc = "prompt"
  /\ answer' = IF accepted(f, n) THEN current[f] ELSE NoLib
  /\ UNCHANGED <<files, pc, opened, current, current_lib, told>>

(* Any other line, a number that stoi cannot read included.                *)
Invalid ==
  /\ pc = "prompt"
  /\ answer' = NoLib
  /\ UNCHANGED <<files, pc, opened, current, current_lib, told>>

(* ~q: main leaves the block of libMgr, whose destructor closes both.      *)
Quit ==
  /\ pc = "prompt"
  /\ pc' = "over"
  /\ opened' = [l \in Lib |-> opened[l] - 1]
  /\ UNCHANGED <<files, current, current_lib, told, answer>>

Over == pc = "over" /\ UNCHANGED vars

Next ==
  \/ Open1 \/ Open2 \/ Greet
  \/ Switch \/ Invalid \/ Quit
  \/ \E f \in Function, n \in Arg : Call(f, n)
  \/ Over

Spec == Init /\ [][Next]_vars

-----------------------------------------------------------------------------
(* The types of the variables: no library is open twice, and none is       *)
(* closed that is not open.                                                *)
TypeOK ==
  /\ present \subseteq Lib
  /\ exported \in [Lib -> SUBSET Function]
  /\ pc \in {"open1", "open2", "greet", "prompt", "over"}
  /\ opened \in [Lib -> {0, 1}]
  /\ current \in [Function -> Lib \cup {NoLib}]
  /\ current_lib \in Lib
  /\ told \in Lib \cup {NoLib}
  /\ answer \in Lib \cup {NoLib}

(* A number that the user sees was computed by the library that the user   *)
(* was last told is in use, and that library is one that is still open:    *)
(* a switch that fails half-way (switchToLib looks up Pi, then E) must not *)
(* leave the functions of two libraries mixed.                             *)
AnswersFromTold ==
  pc = "prompt" /\ answer # NoLib => answer = told /\ opened[told] = 1

(* Once both functions work they go on working: a failed switch to the     *)
(* other library does not take them away.                                  *)
WorkingStays == [][\A f \in Function : current[f] # NoLib => current'[f] # NoLib]_vars

(* However the program ends, in the constructor or by ~q, every library    *)
(* that it has opened is closed.                                           *)
AllClosed == pc = "over" => \A l \in Lib : opened[l] = 0
=============================================================================
