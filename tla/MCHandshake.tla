----------------------------- MODULE MCHandshake -----------------------------
(***************************************************************************)
(* A small instance of Handshake: lines of both parities, with and without *)
(* vowels, some longer than the buffer.                                    *)
(***************************************************************************)
EXTENDS Handshake

MCLetter == {"a", "b"}
MCVowel == {"a"}
MCLine ==
  {<<"b">>, <<"a">>, <<"b", "a">>, <<"b", "a", "b">>, <<"a", "b", "a", "b">>,
   <<"b", "b", "b", "b", "a">>}
=============================================================================
