---------------------------- MODULE MC_Recorder ----------------------------
(***************************************************************************)
(* Recorder on an alert that is posted twice.                              *)
(***************************************************************************)
EXTENDS Recorder

CONSTANTS j1, j2, n1

TwoJobs == {j1, j2}
OneName == {n1}
Again   == [j \in TwoJobs |-> n1]
=============================================================================
