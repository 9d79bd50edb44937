------------------------------- MODULE MC_Bpf -------------------------------
(***************************************************************************)
(* Bpf on every alert over three hosts and two ports: a client, a server   *)
(* and a bystander are what its terms can tell apart.                      *)
(***************************************************************************)
EXTENDS LegacyFilter

CONSTANTS h1, h2, h3, p1, p2

ThreeHosts == {h1, h2, h3}
TwoPorts   == {p1, p2}
=============================================================================
