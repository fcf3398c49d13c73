---------------------------- MODULE StreamFilter ----------------------------
(***************************************************************************)
(* What Lab1 promises: the bytes of the words that are typed go into one   *)
(* of two files, without the vowels and in order.  Where the lines of a    *)
(* file end is not promised: a line is any run of the bytes not yet        *)
(* written.                                                                *)
(***************************************************************************)
EXTENDS Naturals, Sequences

CONSTANTS
  Word,        \* what may be typed
  Side,        \* the files
  SideOf(_),   \* the file a word belongs to
  Kept(_)      \* what is kept of a run of bytes

VARIABLES
  pending,   \* for each file, the bytes that are on their way to it
  out        \* the lines of each file

Init ==
  /\ pending = [s \in Side |-> <<>>]
  /\ out = [s \in Side |-> <<>>]

Put ==
  /\ \E w \in Word : pending' = [pending EXCEPT ![SideOf(w)] = @ \o w]
  /\ UNCHANGED out

Emit ==
  \E s \in Side : \E n \in 1 .. Len(pending[s]) :
    /\ out' = [out EXCEPT ![s] = Append(@, Kept(SubSeq(pending[s], 1, n)))]
    /\ pending' = [pending EXCEPT ![s] = SubSeq(@, n + 1, Len(@))]

Spec == Init /\ [][Put \/ Emit]_<<pending, out>>
=============================================================================
