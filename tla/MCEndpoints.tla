---------------------------- MODULE MCEndpoints ----------------------------
(***************************************************************************)
(* A small instance of Endpoints: two servers, and two clients of one pid. *)
(***************************************************************************)
EXTENDS Endpoints

MCClientPath(c) == "/tmp/bc_client_1"
=============================================================================
