----------------------------- MODULE MCAcceptor -----------------------------
(***************************************************************************)
(* Acceptor on its own, with two clients at a time.                        *)
(***************************************************************************)
EXTENDS Acceptor
=============================================================================
