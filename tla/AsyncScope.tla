----------------------------- MODULE AsyncScope -----------------------------
(***************************************************************************)
(* The tree of asynchronous scopes of                                      *)
(* src/lang/random/test_async_scopes_1.cpp, for an object type T whose     *)
(* StartDestroy only begins the destruction and which calls                *)
(* handleFinishDestroy later, from the execution context (the disabled     *)
(* variant at lines 399-404).  T::StartDestroy completing inside the call  *)
(* is another program: there children_ changes while it is iterated.       *)
(*                                                                         *)
(* The program is single-threaded: every action is one call made by the    *)
(* user of a scope, or one operation of the execution context, run to its  *)
(* end, together with all the calls it makes.                              *)
(***************************************************************************)
EXTENDS Naturals

CONSTANTS
  Obj,        \* the AsyncScoped objects that may be created
  Root,       \* the BlockingScope
  NoParent,   \* the parent of an object not yet created
  EarlyDrop,  \* may a holder be dropped while its scope still has children
              \* and the scope above has not asked for its destruction?
  LateDrop    \* may a holder be dropped after the destruction of its object
              \* has started?

Scope == Obj \cup {Root}

ASSUME ScopeAssumption ==
  /\ Root \notin Obj
  /\ NoParent \notin Scope
  /\ EarlyDrop \in BOOLEAN
  /\ LateDrop \in BOOLEAN

VARIABLES
  parent,                    \* parent_, or NoParent before the constructor
  children,                  \* children_
  user_state,                \* user_state_
  parent_triggered_destroy,  \* parent_triggered_destroy_
  object_state,              \* object_state_
  pending                    \* T::StartDestroy calls not yet answered by a
                             \* call of handleFinishDestroy

vars == <<parent, children, user_state, parent_triggered_destroy,
          object_state, pending>>

AsyncUserState == {"Locked", "Unlocked", "Detached"}

AsyncObjectState == {"Valid", "StartedDestruction", "Destroyed"}

Created(o) == parent[o] # NoParent

Init ==
  /\ parent = [o \in Obj |-> NoParent]
  /\ children = [s \in Scope |-> {}]
  /\ user_state = [s \in Scope |-> "Unlocked"]
  /\ parent_triggered_destroy = [s \in Scope |-> FALSE]
  /\ object_state = [s \in Scope |-> "Valid"]
  /\ pending = [o \in Obj |-> 0]
-----------------------------------------------------------------------------
(***************************************************************************)
(* for (auto child : children_) child->handleParentStartDestroy();         *)
(*                                                                         *)
(* The call returns at once on a scope that has been told before, and goes *)
(* on to the children of an unlocked one.  The objects it marks are the    *)
(* least set closed under that rule.                                       *)
(***************************************************************************)
Fresh(o) == ~parent_triggered_destroy[o]

\* A slip: the calls mark the children of s and go no further.
SpreadsToChildren(s, R) == \A c \in children[s] : Fresh(c) => c \in R

\* R contains what the calls on the children of s mark.
Spreads(s, R) ==
  /\ \A c \in children[s] : Fresh(c) => c \in R
  /\ \A m \in R : user_state[m] = "Unlocked" =>
        \A c \in children[m] : Fresh(c) => c \in R

Notified(s) == {n \in Obj : \A R \in SUBSET Obj : Spreads(s, R) => n \in R}

\* Of these, the ones with nothing to wait for start their destruction.
ReadyWithChildren(N) == {n \in N : user_state[n] = "Unlocked"}

Ready(N) == {n \in N : user_state[n] = "Unlocked" /\ children[n] = {}}

Trigger(N) ==
  parent_triggered_destroy' =
    [s \in Scope |-> s \in N \/ parent_triggered_destroy[s]]

\* object_state_ = kStartedDestruction and handleStartDestroy, on each of S.
StartDestroy(S) ==
  /\ object_state' = [s \in Scope |-> IF s \in S THEN "StartedDestruction"
                                      ELSE object_state[s]]
  /\ pending' = [o \in Obj |-> IF o \in S THEN pending[o] + 1 ELSE pending[o]]
-----------------------------------------------------------------------------
\* MakeUniqueAsyncScoped: the parent is the blocking scope, before its
\* destructor, or a scope reached through the LockedScopePtr of LockScope.
Create(o, p) ==
  /\ ~Created(o)
  /\ \/ p = Root /\ ~parent_triggered_destroy[Root]
     \/ p \in Obj /\ user_state[p] = "Locked"
  /\ parent' = [parent EXCEPT ![o] = p]
  /\ children' = [children EXCEPT ![p] = @ \cup {o}]
  /\ UNCHANGED <<user_state, parent_triggered_destroy, object_state, pending>>

\* Lock succeeds (it changes nothing when it fails).
Lock(o) ==
  /\ Created(o)
  /\ user_state[o] = "Unlocked"
  /\ ~parent_triggered_destroy[o]
  /\ user_state' = [user_state EXCEPT ![o] = "Locked"]
  /\ UNCHANGED <<parent, children, parent_triggered_destroy, object_state,
                 pending>>

\* The locked pointer dies: the request of the parent, if it came while the
\* scope was locked, is acted on now.
Unlock(o) ==
  LET told == parent_triggered_destroy[o]
      N == IF told THEN Notified(o) ELSE {}
  IN  /\ user_state[o] = "Locked"
      /\ user_state' = [user_state EXCEPT ![o] = "Unlocked"]
      /\ Trigger(N)
      /\ StartDestroy(IF told /\ children[o] = {} THEN {o} ELSE Ready(N))
      /\ UNCHANGED <<parent, children>>

\* The holder dies.  Its locked pointers are dead by then: they return the
\* lock through the holder.
Detach(o) ==
  LET N == IF parent_triggered_destroy[o] THEN {} ELSE Notified(o)
  IN  /\ Created(o)
      /\ user_state[o] = "Unlocked"
      /\ LateDrop \/ object_state[o] = "Valid"
      /\ EarlyDrop \/ children[o] = {} \/ parent_triggered_destroy[o]
      /\ user_state' = [user_state EXCEPT ![o] = "Detached"]
      /\ Trigger(N)
      /\ StartDestroy(IF children[o] = {} THEN {o} ELSE Ready(N))
      /\ UNCHANGED <<parent, children>>

\* Slips in Remove: the state of the user, or the request of the parent, is
\* not looked at; the unlocked or the detached state is taken for the locked
\* one.
StartsLockedParent(o) ==
  children[parent[o]] \subseteq {o} /\ parent_triggered_destroy[parent[o]]

StartsUnaskedParent(o) ==
  children[parent[o]] \subseteq {o} /\ user_state[parent[o]] # "Locked"

StartsDetachedParent(o) ==
  /\ children[parent[o]] \subseteq {o}
  /\ user_state[parent[o]] = "Detached"
  /\ parent_triggered_destroy[parent[o]]

StartsUnlockedParent(o) ==
  /\ children[parent[o]] \subseteq {o}
  /\ user_state[parent[o]] = "Unlocked"
  /\ parent_triggered_destroy[parent[o]]

\* parent_->Remove(*this) starts the destruction of the parent: it was the
\* last child of a scope that is not locked and has been told.
StartsParent(o) ==
  LET p == parent[o]
  IN  /\ children[p] \subseteq {o}
      /\ user_state[p] # "Locked"
      /\ parent_triggered_destroy[p]

\* T answers each call of StartDestroy with one call of handleFinishDestroy;
\* a T that calls it of its own accord breaks that contract.
AnyTime(o) == Created(o)

Awaited(o) == pending[o] > 0

\* T calls handleFinishDestroy.  BlockingScope::handleStartDestroy ends the
\* root at once; an object waits for its own T.
FinishDestroy(o) ==
  LET p == parent[o]
      started == IF p = Root THEN "Destroyed" ELSE "StartedDestruction"
  IN  /\ Awaited(o)
      /\ children' = [children EXCEPT ![p] = @ \ {o}]
      /\ object_state' = [s \in Scope |->
            IF s = p /\ StartsParent(o) THEN started
            ELSE IF s = o THEN "Destroyed" ELSE object_state[s]]
      /\ pending' = [x \in Obj |->
            IF x = o THEN pending[x] - 1
            ELSE IF x = p /\ StartsParent(o) THEN pending[x] + 1
            ELSE pending[x]]
      /\ UNCHANGED <<parent, user_state, parent_triggered_destroy>>

\* ~BlockingScope begins; it then polls the execution context for as long as
\* it has children.
DestroyRoot ==
  /\ ~parent_triggered_destroy[Root]
  /\ Trigger(Notified(Root) \cup {Root})
  /\ StartDestroy(Ready(Notified(Root)))
  /\ UNCHANGED <<parent, children, user_state>>

Next ==
  \/ \E o \in Obj, p \in Scope : Create(o, p)
  \/ \E o \in Obj : Lock(o)
  \/ \E o \in Obj : Unlock(o)
  \/ \E o \in Obj : Detach(o)
  \/ \E o \in Obj : FinishDestroy(o)
  \/ DestroyRoot

Spec == Init /\ [][Next]_vars

\* ~BlockingScope is in its loop.
Polling ==
  /\ parent_triggered_destroy[Root]
  /\ children[Root] # {}
  /\ object_state[Root] # "Destroyed"

\* The loop of ~BlockingScope runs whatever was enqueued, and a locked
\* pointer does not outlive the block it is declared in.  Nobody else has to
\* poll, and nobody has to create, lock or drop anything.
Fairness ==
  \A o \in Obj : /\ WF_vars(Polling /\ FinishDestroy(o))
                 /\ WF_vars(Unlock(o))

FairSpec == Spec /\ Fairness
-----------------------------------------------------------------------------
TypeOK ==
  /\ parent \in [Obj -> Scope \cup {NoParent}]
  /\ children \in [Scope -> SUBSET Obj]
  /\ user_state \in [Scope -> AsyncUserState]
  /\ parent_triggered_destroy \in [Scope -> BOOLEAN]
  /\ object_state \in [Scope -> AsyncObjectState]
  /\ pending \in [Obj -> Nat]

\* T::StartDestroy is called at most once on an object, whichever of Unlock,
\* Detach, Remove and handleParentStartDestroy gets to it.
DestroyOnce ==
  [][\A o \in Obj : pending'[o] > pending[o] => object_state[o] = "Valid"]_vars

\* An object does not begin its destruction before everything that was
\* created in it has been destroyed.
ChildrenFirst ==
  \A o, c \in Obj : parent[c] = o /\ object_state[o] # "Valid"
                       => object_state[c] = "Destroyed"

\* What a LockedPtr or LockedScopePtr points to is not being destroyed.
LockedIsAlive ==
  \A o \in Obj : user_state[o] = "Locked" => object_state[o] = "Valid"

\* No request of destruction is lost on the way down: where the call cannot
\* be held up by a lock, the children of a scope that was told, and those of
\* a detached scope, have been told too.
NoLostRequest ==
  \A s \in Scope, c \in Obj :
    /\ c \in children[s]
    /\ user_state[s] # "Locked"
    /\ parent_triggered_destroy[s] \/ user_state[s] = "Detached"
    => parent_triggered_destroy[c]

\* An object that was told, is not locked or dropped, and has nothing left to
\* wait for, has started: whichever of the request, the unlocking and the end
\* of the last child came last did start it.
NothingForgotten ==
  \A o \in Obj :
    /\ parent_triggered_destroy[o]
    /\ user_state[o] = "Unlocked"
    /\ children[o] = {}
    => object_state[o] # "Valid"

\* The comment on the kDetached case of handleParentStartDestroy (lines
\* 88-89): the children have been notified, and the scope is "just waiting
\* for completion of destruction".
JustWaiting ==
  \A o \in Obj :
    /\ user_state[o] = "Detached"
    /\ parent_triggered_destroy[o]
    /\ object_state[o] = "Valid"
    => children[o] # {}

\* ~BlockingScope returns: whatever the users had locked, dropped or kept
\* when it began, every scope below it ends; unless one of them is a dropped
\* scope that was forgotten, which JustWaiting is about.
BlockingScopeReturns ==
  parent_triggered_destroy[Root] ~> children[Root] = {} \/ ~JustWaiting
-----------------------------------------------------------------------------
(***************************************************************************)
(* The objects live the way StructuredLifetime allows.                     *)
(***************************************************************************)
phaseBar ==
  [o \in Obj |->
     IF ~Created(o) THEN "unborn"
     ELSE IF object_state[o] = "Valid" THEN "alive"
     ELSE IF object_state[o] = "StartedDestruction" THEN "destroying"
     ELSE "dead"]

Lifetime == INSTANCE StructuredLifetime
              WITH phase <- phaseBar,
                   closing <- parent_triggered_destroy[Root]

\* The scopes implement the abstract lifetimes: creation, start and end of
\* each object happen in an order StructuredLifetime allows.
ImplementsLifetime == Lifetime!Safety

\* And closing the root ends everything, where no scope was forgotten.
ImplementsLifetimeLive == <>~JustWaiting \/ Lifetime!AllEnd
=============================================================================
