--------------------------- MODULE MC_Extraction ---------------------------
(***************************************************************************)
(* Extraction on three alerts with names of their own. Names that are      *)
(* shared are the business of MC_Recorder.                                 *)
(***************************************************************************)
EXTENDS Extraction

CONSTANTS j1, j2, j3, n1, n2, n3

ThreeJobs  == {j1, j2, j3}
OneName    == {n1}
ThreeNames == {n1, n2, n3}

Distinct == [j \in ThreeJobs |-> CASE j = j1 -> n1 [] j = j2 -> n2 [] j = j3 -> n3]
=============================================================================
