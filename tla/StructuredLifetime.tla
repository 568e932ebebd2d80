------------------------- MODULE StructuredLifetime -------------------------
(***************************************************************************)
(* What the asynchronous scopes of src/lang/random/test_async_scopes_1.cpp *)
(* promise, without saying how: a tree of objects under one root, in which *)
(* every object begins its destruction once, only after everything created *)
(* below it is gone, and in which closing the root ends every object.      *)
(***************************************************************************)
CONSTANTS Obj,       \* the objects that may ever be created
          Root,      \* the blocking scope
          NoParent   \* the parent of an object that does not exist yet

VARIABLES phase,     \* where each object is in its life
          parent,    \* the scope each object was created in
          closing    \* has the destruction of the root begun?

vars == <<phase, parent, closing>>

Phase == {"unborn", "alive", "destroying", "dead"}

TypeOK ==
  /\ phase \in [Obj -> Phase]
  /\ parent \in [Obj -> Obj \cup {Root, NoParent}]
  /\ closing \in BOOLEAN

Init ==
  /\ phase = [o \in Obj |-> "unborn"]
  /\ parent = [o \in Obj |-> NoParent]
  /\ closing = FALSE

\* Everything created in o is gone.
Empty(o) == \A c \in Obj : parent[c] = o => phase[c] = "dead"

\* An object is created in the open root or in an object that is alive.
Create(o, p) ==
  /\ phase[o] = "unborn"
  /\ \/ p = Root /\ ~closing
     \/ p \in Obj /\ phase[p] = "alive"
  /\ phase' = [phase EXCEPT ![o] = "alive"]
  /\ parent' = [parent EXCEPT ![o] = p]
  /\ UNCHANGED closing

\* Some live objects with nothing left below them begin their destruction;
\* one call may set off a whole generation.
Begin(S) ==
  /\ \A o \in S : phase[o] = "alive" /\ Empty(o)
  /\ phase' = [o \in Obj |-> IF o \in S THEN "destroying" ELSE phase[o]]
  /\ UNCHANGED parent

\* Destruction of the root is requested, which may set off others.
Close(S) ==
  /\ ~closing
  /\ closing' = TRUE
  /\ Begin(S)

\* An object ends, and its parent, if that was the last thing the parent
\* was waiting for, may begin its own destruction in the same call.
End(o, S) ==
  /\ phase[o] = "destroying"
  /\ \A p \in S :
        /\ parent[o] = p
        /\ phase[p] = "alive"
        /\ \A c \in Obj \ {o} : parent[c] = p => phase[c] = "dead"
  /\ phase' = [x \in Obj |-> IF x = o THEN "dead"
                             ELSE IF x \in S THEN "destroying" ELSE phase[x]]
  /\ UNCHANGED <<parent, closing>>

Next ==
  \/ \E o \in Obj, p \in Obj \cup {Root} : Create(o, p)
  \/ \E S \in SUBSET Obj : Begin(S) /\ UNCHANGED closing
  \/ \E S \in SUBSET Obj : Close(S)
  \/ \E o \in Obj, S \in SUBSET Obj : End(o, S)

\* Once the root is closing, everything ever created under it is destroyed.
AllEnd == closing ~> \A o \in Obj : phase[o] \in {"unborn", "dead"}

Safety == Init /\ [][Next]_vars

Spec == Safety /\ AllEnd
=============================================================================
