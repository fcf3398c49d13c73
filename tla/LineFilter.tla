----------------------------- MODULE LineFilter -----------------------------
(***************************************************************************)
(* What Lab3 promises: a line that is typed goes into one of two files,    *)
(* without its vowels, before the next line is taken.                      *)
(***************************************************************************)
EXTENDS Naturals, Sequences

CONSTANTS
  Line,        \* what may be typed
  Side,        \* the files
  SideOf(_),   \* the file a line belongs to
  Kept(_)      \* what is kept of a line

VARIABLES
  pending,   \* the line that was taken and not yet written, <<>> if there is none
  out        \* the contents of each file

Init == pending = <<>> /\ out = [s \in Side |-> <<>>]

Take ==
  /\ pending = <<>>
  /\ \E line \in Line : pending' = <<line>>
  /\ UNCHANGED out

Write ==
  /\ pending # <<>>
  /\ pending' = <<>>
  /\ out' = [out EXCEPT ![SideOf(pending[1])] = Append(@, Kept(pending[1]))]

Spec == Init /\ [][Take \/ Write]_<<pending, out>>
=============================================================================
