-------------------------- MODULE MCSmallFunction --------------------------
(***************************************************************************)
(* SmallFunction with three variables and two callables.                   *)
(***************************************************************************)
EXTENDS SmallFunction, TLC

Symmetric == Permutations(Slot) \cup Permutations(Callable)
=============================================================================
