---------------------------- MODULE MCConnector ----------------------------
(***************************************************************************)
(* Acceptor and Connector on one context: clients that crowd, an accept    *)
(* that fails, a user who closes the one or the other.                     *)
(***************************************************************************)
EXTENDS Connector
=============================================================================
