---------------------------- MODULE MC_Retention ----------------------------
(***************************************************************************)
(* Retention on two files of up to two bytes.                              *)
(***************************************************************************)
EXTENDS Retention

CONSTANTS f1, f2

TwoFiles  == {f1, f2}
NoFile    == {}
FirstFile == {f1}
=============================================================================
