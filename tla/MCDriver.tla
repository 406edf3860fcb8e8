------------------------------ MODULE MCDriver ------------------------------
(***************************************************************************)
(* Small instances of Driver, with a node name for each id.                *)
(***************************************************************************)
EXTENDS Driver, TLC

CONSTANTS v1, v2, s1, s2

MCQSDID == [i \in ImageID |-> i]

Alike == Permutations(Workers) \cup Permutations(Requests)
=============================================================================
