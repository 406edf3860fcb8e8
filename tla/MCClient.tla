------------------------------ MODULE MCClient ------------------------------
(***************************************************************************)
(* Small instances of Client, with a node name for each id.                *)
(***************************************************************************)
EXTENDS Client

CONSTANTS v1, v2, s1, s2

MCQSDID == [i \in ImageID |-> i]
=============================================================================
