------------------------- MODULE MCDatagramSockets --------------------------
(***************************************************************************)
(* Two sockets, which may be moved onto each other, and descriptors of the *)
(* user's beside them.                                                     *)
(***************************************************************************)
EXTENDS DatagramSockets
=============================================================================
