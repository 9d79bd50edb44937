----------------------------- MODULE MC_Shutdown -----------------------------
(* Instances of Shutdown. *)
EXTENDS Shutdown

CONSTANTS c1, c2, c3
ThreeClients == {c1, c2, c3}
=============================================================================
