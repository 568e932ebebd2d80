---------------------------- MODULE MCAsyncScope ----------------------------
(***************************************************************************)
(* Small instances of AsyncScope.  Trees are grown by Create, so that with *)
(* N objects every tree of at most N objects is explored.                  *)
(***************************************************************************)
EXTENDS AsyncScope
=============================================================================
