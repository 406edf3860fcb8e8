------------------------------- MODULE MCNode -------------------------------
(* Two pods on the node share one volume.                                  *)
EXTENDS Node

CONSTANTS t1, t2, v1

MCTargetVolume == [t \in {t1, t2} |-> v1]
=============================================================================
