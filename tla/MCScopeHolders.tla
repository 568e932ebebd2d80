--------------------------- MODULE MCScopeHolders ---------------------------
(***************************************************************************)
(* Handles for a small tree of scopes.                                     *)
(***************************************************************************)
EXTENDS ScopeHolders
=============================================================================
