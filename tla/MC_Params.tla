------------------------------ MODULE MC_Params ------------------------------
(***************************************************************************)
(* Params with a clamp of 3: numbers below, inside and above the range.    *)
(***************************************************************************)
EXTENDS LegacyParams

InRange == {0, 3}
Asked   == {-2, 1, 5}
=============================================================================
