---------------------------- MODULE MCQSDServer ----------------------------
(***************************************************************************)
(* Small instances of QSDServer.  A node is named after its image, so no   *)
(* two ids share a QSDID.                                                  *)
(***************************************************************************)
EXTENDS QSDServer

CONSTANTS v1, v2, s1, s2

MCQSDID == [i \in ImageID |-> i]
=============================================================================
