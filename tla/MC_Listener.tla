---------------------------- MODULE MC_Listener ----------------------------
(***************************************************************************)
(* Listener on three clients.                                              *)
(***************************************************************************)
EXTENDS Listener

CONSTANTS c1, c2, c3

ThreeClients == {c1, c2, c3}
=============================================================================
