----------------------------- MODULE MCFrontEnd -----------------------------
(***************************************************************************)
(* FrontEnd on inputs of two functions that share two statements.          *)
(***************************************************************************)
EXTENDS FrontEnd
=============================================================================
