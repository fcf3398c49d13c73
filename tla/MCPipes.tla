------------------------------ MODULE MCPipes ------------------------------
(***************************************************************************)
(* A small instance of Pipes: words for both children, with vowels and     *)
(* without, longer than a read.                                            *)
(***************************************************************************)
EXTENDS Pipes

MCLetter == {"a", "k", "l"}
MCWord == {<<"k">>, <<"a", "l">>, <<"l", "k", "a">>}
=============================================================================
