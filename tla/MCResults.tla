----------------------------- MODULE MCResults -----------------------------
(***************************************************************************)
(* Results with three variables and four objects.                          *)
(***************************************************************************)
EXTENDS Results, TLC

Symmetric == Permutations(Slot) \cup Permutations(Obj)
=============================================================================
