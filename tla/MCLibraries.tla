----------------------------- MODULE MCLibraries -----------------------------
(***************************************************************************)
(* Libraries with a number of each kind that the commands tell apart;      *)
(* every choice of libraries and functions is an initial state.            *)
(***************************************************************************)
EXTENDS Libraries

MCArg == {-1, 0, 1}
=============================================================================
