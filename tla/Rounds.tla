-------------------------------- MODULE Rounds --------------------------------
(***************************************************************************)
(* What a game of KP promises its players: seats are taken and given up,   *)
(* a round is opened by the one who takes the last free seat, and it is    *)
(* closed by its winner or by the last player to leave.  Codes, guesses,   *)
(* messages and the other games are left out.                              *)
(***************************************************************************)
EXTENDS Naturals, FiniteSets, Sequences

CONSTANT Player

VARIABLES
  places,   \* how many seats there are, 0 before the game is founded
  seated,   \* who has one
  winners,  \* of each round that was opened: who has won it
  open      \* whether the last round is being played

vars == <<places, seated, winners, open>>

Init == places = 0 /\ seated = {} /\ winners = <<>> /\ open = FALSE

\* The founder takes the first seat.  Whoever takes the last one opens a round, if need be
\* in place of one that is still open.
Take(p) ==
  /\ p \notin seated
  /\ places' \in Nat \ {0} /\ places \in {0, places'}
  /\ Cardinality(seated) < places'
  /\ seated' = seated \cup {p}
  /\ IF Cardinality(seated') = places'
     THEN winners' = Append(winners, {}) /\ open' = TRUE
     ELSE UNCHANGED <<winners, open>>

Leave(p) ==
  /\ p \in seated
  /\ seated' = seated \ {p}
  /\ open' = (open /\ seated' # {})
  /\ UNCHANGED <<places, winners>>

Win(p) ==
  /\ open
  /\ p \in seated
  /\ winners[Len(winners)] = {}
  /\ winners' = [winners EXCEPT ![Len(winners)] = {p}]
  /\ open' = FALSE
  /\ UNCHANGED <<places, seated>>

Next == \E p \in Player : Take(p) \/ Leave(p) \/ Win(p)

Spec == Init /\ [][Next]_vars
=============================================================================
