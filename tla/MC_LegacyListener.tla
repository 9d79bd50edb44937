-------------------------- MODULE MC_LegacyListener --------------------------
(***************************************************************************)
(* LegacyListener with one client more than there are slots.               *)
(***************************************************************************)
EXTENDS LegacyListener

CONSTANTS c1, c2, c3

ThreeClients == {c1, c2, c3}
=============================================================================
