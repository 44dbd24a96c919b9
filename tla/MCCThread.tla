----------------------------- MODULE MCCThread -----------------------------
(* Instances of CThread: one of two environments has a timer, or both have  *)
(* one of the same id.                                                       *)
EXTENDS CThread

MCTimerIds == [e \in Envs |-> IF e = "e1" THEN {1} ELSE {}]
MCSameId == [e \in Envs |-> {1}]
=============================================================================
