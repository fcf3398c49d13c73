------------------------------ MODULE SumOnce ------------------------------
(***************************************************************************)
(* What Lab2 promises: every number that the input holds, up to the number *)
(* that it declares, is counted exactly once before the result is printed. *)
(* Numbers are known by their position in the input.                       *)
(***************************************************************************)
EXTENDS Naturals

CONSTANT Declared    \* the count at the head of the input

VARIABLES
  present,   \* how many numbers really follow it
  counted,   \* the numbers in the sum
  result     \* the numbers in the sum that was printed, <<>> before

Wanted == 1 .. IF present < Declared THEN present ELSE Declared

Init ==
  /\ present \in Nat
  /\ counted = {}
  /\ result = <<>>

\* A batch enters the sum: none of its numbers is in it yet.
Count ==
  /\ \E batch \in SUBSET (Wanted \ counted) : counted' = counted \cup batch
  /\ UNCHANGED <<present, result>>

Report ==
  /\ counted = Wanted
  /\ result = <<>>
  /\ result' = <<counted>>
  /\ UNCHANGED <<present, counted>>

Spec == Init /\ [][Count \/ Report]_<<present, counted, result>>
=============================================================================
