----------------------------- MODULE MCSpscPool -----------------------------
(***************************************************************************)
(* A small instance of SpscPool: two pools that the queue cannot exhaust,  *)
(* and one that it can, as in the program (100 messages, a queue of        *)
(* 100000).                                                                *)
(***************************************************************************)
EXTENDS SpscPool

MCPoolSize == [p \in 0 .. NPools - 1 |-> IF p = 2 THEN 2 ELSE 4]
=============================================================================
