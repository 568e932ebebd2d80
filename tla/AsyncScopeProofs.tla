-------------------------- MODULE AsyncScopeProofs --------------------------
(***************************************************************************)
(* Proofs about AsyncScope and, at the end, ScopeHolders, for every set of *)
(* objects, of holders and of pointers.                                    *)
(***************************************************************************)
EXTENDS ScopeHolders, TLAPS

\* children_ holds only objects whose parent_ is this scope.
ChildrenOk ==
  \A s \in Scope : \A c \in children[s] : parent[c] = s

\* An object not yet constructed has no state.
UnbornOk ==
  \A o \in Obj : ~Created(o) =>
    /\ children[o] = {}
    /\ user_state[o] = "Unlocked"
    /\ ~parent_triggered_destroy[o]
    /\ object_state[o] = "Valid"
    /\ pending[o] = 0

\* A destruction has started only where nothing is left below, no lock is
\* held, and somebody asked for it.
StartedOk ==
  \A o \in Obj : object_state[o] # "Valid" =>
    /\ children[o] = {}
    /\ user_state[o] # "Locked"
    /\ parent_triggered_destroy[o] \/ user_state[o] = "Detached"

\* handleFinishDestroy is awaited only of an object whose destruction started.
PendingOk == \A o \in Obj : pending[o] > 0 => object_state[o] # "Valid"

\* The root is never locked or dropped.
RootOk == user_state[Root] = "Unlocked"

\* The inductive invariant, whatever the users do with their holders.
Inv ==
  /\ TypeOK
  /\ ChildrenOk
  /\ UnbornOk
  /\ StartedOk
  /\ PendingOk
  /\ RootOk
  /\ NoLostRequest
  /\ NothingForgotten
-----------------------------------------------------------------------------
\* What handleParentStartDestroy marks, called on the children of s, is
\* closed under the calls it makes, and is made of children that had not
\* been told before.
LEMMA NotifiedFacts ==
  ASSUME TypeOK, NEW s \in Scope
  PROVE  /\ Notified(s) \subseteq Obj
         /\ Spreads(s, Notified(s))
         /\ \A n \in Notified(s) : Fresh(n) /\ \E q \in Scope : n \in children[q]
         /\ children[s] = {} => Notified(s) = {}
<1> DEFINE Told == {x \in Obj : Fresh(x) /\ \E q \in Scope : x \in children[q]}
<1>1. Notified(s) \subseteq Obj
  BY DEF Notified
<1>2. \A R \in SUBSET Obj : Spreads(s, R) => Notified(s) \subseteq R
  BY DEF Notified
<1>3. Spreads(s, Told)
  <2>1. \A q \in Scope : children[q] \subseteq Obj
    BY DEF TypeOK
  <2>2. Obj \subseteq Scope
    BY DEF Scope
  <2> QED BY <2>1, <2>2 DEF Spreads
<1>4. Spreads(s, Notified(s))
  <2>1. ASSUME NEW c \in children[s], Fresh(c) PROVE c \in Notified(s)
    <3>1. c \in Obj
      BY DEF TypeOK
    <3> QED BY <2>1, <3>1 DEF Notified, Spreads
  <2>2. ASSUME NEW m \in Notified(s), user_state[m] = "Unlocked",
               NEW c \in children[m], Fresh(c)
        PROVE  c \in Notified(s)
    <3>1. m \in Obj /\ m \in Scope
      BY <1>1 DEF Scope
    <3>2. c \in Obj
      BY <3>1 DEF TypeOK
    <3>3. ASSUME NEW R \in SUBSET Obj, Spreads(s, R) PROVE c \in R
      BY <1>2, <2>2, <3>3 DEF Spreads
    <3> QED BY <3>2, <3>3 DEF Notified
  <2> QED BY <2>1, <2>2 DEF Spreads
<1>5. Notified(s) \subseteq Told
  BY <1>2, <1>3
<1>6. children[s] = {} => Notified(s) = {}
  BY <1>2 DEF Spreads
<1> QED BY <1>1, <1>4, <1>5, <1>6

\* The initial state satisfies the invariant.
LEMMA InitInv == Init => Inv
BY ScopeAssumption
   DEF Init, Inv, TypeOK, ChildrenOk, UnbornOk, StartedOk, PendingOk,
       RootOk,
       NoLostRequest, NothingForgotten, Created, AsyncUserState,
       AsyncObjectState, Scope
-----------------------------------------------------------------------------
\* Each action keeps the invariant.
LEMMA CreateInv ==
  ASSUME Inv, NEW o \in Obj, NEW p \in Scope, Create(o, p)
  PROVE  Inv'
<1> USE DEF Inv, Create, Created, Scope
<1>0. o # Root /\ p # NoParent /\ \A s \in Scope : o \notin children[s]
  BY ScopeAssumption DEF ChildrenOk
<1>1. TypeOK'
  BY ScopeAssumption DEF TypeOK
<1>2. children' = [children EXCEPT ![p] = @ \cup {o}]
  OBVIOUS
<1>3. \A s \in Scope : children'[s] = IF s = p THEN children[p] \cup {o} ELSE children[s]
  BY DEF TypeOK
<1>4. \A x \in Obj : parent'[x] = IF x = o THEN p ELSE parent[x]
  BY DEF TypeOK
<1>5. ChildrenOk'
  BY <1>0, <1>3, <1>4 DEF ChildrenOk, TypeOK
<1>6. p \in Obj => user_state[p] = "Locked"
  BY ScopeAssumption DEF RootOk
<1>7. UnbornOk'
  BY <1>0, <1>3, <1>4, <1>6 DEF UnbornOk
<1>8. StartedOk'
  BY <1>3, <1>6 DEF StartedOk
<1>9. NoLostRequest'
  BY <1>3, <1>6, ScopeAssumption DEF NoLostRequest, RootOk
<1>10. NothingForgotten'
  BY <1>3, <1>6 DEF NothingForgotten
<1>11. RootOk'
  BY DEF RootOk
<1>12. PendingOk'
  BY DEF PendingOk
<1> QED BY <1>1, <1>5, <1>7, <1>8, <1>9, <1>10, <1>11, <1>12

\* Only a scope that is alive and has not been told can be locked.
LEMMA LockInv ==
  ASSUME Inv, NEW o \in Obj, Lock(o)
  PROVE  Inv'
<1> USE DEF Inv, Lock, Created, Scope
<1>1. \A s \in Scope : user_state'[s] = IF s = o THEN "Locked" ELSE user_state[s]
  BY DEF TypeOK
<1>2. TypeOK'
  BY DEF TypeOK, AsyncUserState
<1>3. ChildrenOk'
  BY DEF ChildrenOk
<1>4. UnbornOk'
  BY <1>1 DEF UnbornOk
<1>5. StartedOk'
  BY <1>1 DEF StartedOk
<1>6. RootOk'
  BY <1>1, ScopeAssumption DEF RootOk
<1>7. NoLostRequest'
  BY <1>1 DEF NoLostRequest
<1>8. NothingForgotten'
  BY <1>1 DEF NothingForgotten
<1>9. PendingOk'
  BY DEF PendingOk
<1> QED BY <1>2, <1>3, <1>4, <1>5, <1>6, <1>7, <1>8, <1>9

\* Unlocking acts on the request that came while the scope was locked.
LEMMA UnlockInv ==
  ASSUME Inv, NEW o \in Obj, Unlock(o)
  PROVE  Inv'
<1> USE DEF Inv, Scope
<1> DEFINE told == parent_triggered_destroy[o]
           N == IF told THEN Notified(o) ELSE {}
           S == IF told /\ children[o] = {} THEN {o} ELSE Ready(N)
<1>a. /\ user_state[o] = "Locked"
      /\ user_state' = [user_state EXCEPT ![o] = "Unlocked"]
      /\ Trigger(N)
      /\ StartDestroy(S)
      /\ UNCHANGED <<parent, children>>
  BY DEF Unlock
<1>b. /\ N \subseteq Obj
      /\ told => Spreads(o, N)
      /\ \A n \in N : Fresh(n) /\ \E q \in Scope : n \in children[q]
      /\ \A n \in N : user_state[n] = "Unlocked" =>
            \A c \in children[n] : Fresh(c) => c \in N
  BY NotifiedFacts DEF Spreads
<1>c. \A n \in N : Created(n) /\ n # o
  <2>1. \A n \in N : Created(n)
    BY <1>b, ScopeAssumption DEF ChildrenOk, Created
  <2>2. \A n \in N : told /\ Fresh(n)
    BY <1>b
  <2> QED BY <2>1, <2>2 DEF Fresh
<1>d. S \subseteq Obj
  BY <1>b DEF Ready
<1> HIDE DEF N, S
<1>1. /\ \A s \in Scope : user_state'[s] = IF s = o THEN "Unlocked" ELSE user_state[s]
      /\ \A s \in Scope : parent_triggered_destroy'[s] = (s \in N \/ parent_triggered_destroy[s])
      /\ \A s \in Scope : object_state'[s] = IF s \in S THEN "StartedDestruction" ELSE object_state[s]
      /\ \A x \in Obj : pending'[x] = IF x \in S THEN pending[x] + 1 ELSE pending[x]
  BY <1>a DEF TypeOK, Trigger, StartDestroy
<1>e. S = IF told /\ children[o] = {} THEN {o}
          ELSE {n \in N : user_state[n] = "Unlocked" /\ children[n] = {}}
  BY DEF S, Ready
<1>f. Created(o)
  BY <1>a DEF UnbornOk
<1>2. TypeOK'
  <2>1. user_state' \in [Scope -> AsyncUserState]
    BY <1>a DEF TypeOK, AsyncUserState
  <2>2. parent_triggered_destroy' \in [Scope -> BOOLEAN]
    BY <1>a DEF TypeOK, Trigger
  <2>3. object_state' \in [Scope -> AsyncObjectState]
    BY <1>a DEF TypeOK, StartDestroy, AsyncObjectState
  <2>4. pending' \in [Obj -> Nat]
    BY <1>a DEF TypeOK, StartDestroy
  <2> QED BY <1>a, <2>1, <2>2, <2>3, <2>4 DEF TypeOK
<1>3. ChildrenOk'
  BY <1>a DEF ChildrenOk
<1>4. UnbornOk'
  <2>1. \A x \in S : Created(x)
    BY <1>c, <1>e, <1>f
  <2> QED BY <1>a, <1>1, <1>c, <1>f, <2>1 DEF UnbornOk, Created
<1>5. StartedOk'
  <2> SUFFICES ASSUME NEW x \in Obj, object_state'[x] # "Valid"
               PROVE  /\ children[x] = {}
                      /\ user_state'[x] # "Locked"
                      /\ parent_triggered_destroy'[x] \/ user_state'[x] = "Detached"
    BY <1>a DEF StartedOk
  <2>1. CASE x \in S
    BY <2>1, <1>1, <1>c, <1>e
  <2>2. CASE x \notin S
    BY <2>2, <1>1, <1>a DEF StartedOk
  <2> QED BY <2>1, <2>2
<1>6. RootOk'
  BY <1>a, <1>1, ScopeAssumption DEF RootOk
<1>7. NoLostRequest'
  <2> SUFFICES ASSUME NEW s \in Scope, NEW c \in Obj, c \in children[s],
                      user_state'[s] # "Locked",
                      parent_triggered_destroy'[s] \/ user_state'[s] = "Detached"
               PROVE  parent_triggered_destroy'[c]
    BY <1>a DEF NoLostRequest
  <2>1. CASE s = o
    <3>1. told
      BY <1>1, <1>c, <2>1
    <3> QED BY <3>1, <2>1, <1>b, <1>1 DEF Spreads, Fresh
  <2>2. CASE s # o
    <3>1. CASE s \in N
      <4>1. user_state[s] = "Unlocked" /\ Fresh(c) => c \in N
        BY <3>1, <1>b
      <4>2. user_state[s] \in AsyncUserState /\ user_state[s] = user_state'[s]
        BY <2>2, <1>1 DEF TypeOK
      <4>3. user_state[s] = "Detached" => parent_triggered_destroy[c]
        BY DEF NoLostRequest
      <4> QED BY <4>1, <4>2, <4>3, <1>1 DEF Fresh, AsyncUserState
    <3>2. CASE s \notin N
      BY <3>2, <2>2, <1>1 DEF NoLostRequest
    <3> QED BY <3>1, <3>2
  <2> QED BY <2>1, <2>2
<1>8. NothingForgotten'
  <2> SUFFICES ASSUME NEW x \in Obj, parent_triggered_destroy'[x],
                      user_state'[x] = "Unlocked", children[x] = {},
                      x \notin S
               PROVE  object_state[x] # "Valid"
    BY <1>a, <1>1 DEF NothingForgotten
  <2>1. CASE told /\ children[o] = {}
    <3>1. N = {} /\ x # o
      BY <2>1, <1>e, NotifiedFacts DEF N
    <3> QED BY <3>1, <1>1 DEF NothingForgotten
  <2>2. CASE ~(told /\ children[o] = {})
    <3>1. x # o /\ x \notin N
      BY <2>2, <1>1, <1>c, <1>e
    <3> QED BY <3>1, <1>1 DEF NothingForgotten
  <2> QED BY <2>1, <2>2
<1>9. PendingOk'
  BY <1>1 DEF PendingOk
<1> QED BY <1>2, <1>3, <1>4, <1>5, <1>6, <1>7, <1>8, <1>9

\* Dropping a holder forwards the request, or leaves it forwarded.
LEMMA DetachInv ==
  ASSUME Inv, NEW o \in Obj, Detach(o)
  PROVE  Inv'
<1> USE DEF Inv, Scope
<1> DEFINE told == parent_triggered_destroy[o]
           N == IF told THEN {} ELSE Notified(o)
           S == IF children[o] = {} THEN {o} ELSE Ready(N)
<1>a. /\ Created(o)
      /\ user_state[o] = "Unlocked"
      /\ user_state' = [user_state EXCEPT ![o] = "Detached"]
      /\ Trigger(N)
      /\ StartDestroy(S)
      /\ UNCHANGED <<parent, children>>
  BY DEF Detach
<1>b. /\ N \subseteq Obj
      /\ ~told => Spreads(o, N)
      /\ \A n \in N : Fresh(n) /\ \E q \in Scope : n \in children[q]
      /\ \A n \in N : user_state[n] = "Unlocked" =>
            \A c \in children[n] : Fresh(c) => c \in N
      /\ children[o] = {} => N = {}
  BY NotifiedFacts DEF Spreads
<1>c. \A n \in N : Created(n)
  BY <1>b, ScopeAssumption DEF ChildrenOk, Created
<1> HIDE DEF N, S
<1>d. S = IF children[o] = {} THEN {o}
          ELSE {n \in N : user_state[n] = "Unlocked" /\ children[n] = {}}
  BY DEF S, Ready
<1>1. /\ \A s \in Scope : user_state'[s] = IF s = o THEN "Detached" ELSE user_state[s]
      /\ \A s \in Scope : parent_triggered_destroy'[s] = (s \in N \/ parent_triggered_destroy[s])
      /\ \A s \in Scope : object_state'[s] = IF s \in S THEN "StartedDestruction" ELSE object_state[s]
      /\ \A x \in Obj : pending'[x] = IF x \in S THEN pending[x] + 1 ELSE pending[x]
  BY <1>a DEF TypeOK, Trigger, StartDestroy
<1>2. TypeOK'
  <2>1. user_state' \in [Scope -> AsyncUserState]
    BY <1>a DEF TypeOK, AsyncUserState
  <2>2. parent_triggered_destroy' \in [Scope -> BOOLEAN]
    BY <1>a DEF TypeOK, Trigger
  <2>3. object_state' \in [Scope -> AsyncObjectState]
    BY <1>a DEF TypeOK, StartDestroy, AsyncObjectState
  <2>4. pending' \in [Obj -> Nat]
    BY <1>a DEF TypeOK, StartDestroy
  <2> QED BY <1>a, <2>1, <2>2, <2>3, <2>4 DEF TypeOK
<1>3. ChildrenOk'
  BY <1>a DEF ChildrenOk
<1>4. UnbornOk'
  <2>1. \A x \in S : Created(x)
    BY <1>a, <1>c, <1>d
  <2> QED BY <1>a, <1>1, <1>c, <2>1 DEF UnbornOk, Created
<1>5. StartedOk'
  <2> SUFFICES ASSUME NEW x \in Obj, object_state'[x] # "Valid"
               PROVE  /\ children[x] = {}
                      /\ user_state'[x] # "Locked"
                      /\ parent_triggered_destroy'[x] \/ user_state'[x] = "Detached"
    BY <1>a DEF StartedOk
  <2>1. CASE x \in S
    BY <2>1, <1>1, <1>d
  <2>2. CASE x \notin S
    <3>1. /\ children[x] = {}
          /\ user_state[x] # "Locked"
          /\ parent_triggered_destroy[x] \/ user_state[x] = "Detached"
      BY <2>2, <1>1 DEF StartedOk
    <3>2. user_state'[x] = IF x = o THEN "Detached" ELSE user_state[x]
      BY <1>1
    <3>3. parent_triggered_destroy[x] => parent_triggered_destroy'[x]
      BY <1>1
    <3> QED BY <3>1, <3>2, <3>3
  <2> QED BY <2>1, <2>2
<1>6. RootOk'
  BY <1>1, ScopeAssumption DEF RootOk
<1>7. NoLostRequest'
  <2> SUFFICES ASSUME NEW s \in Scope, NEW c \in Obj, c \in children[s],
                      user_state'[s] # "Locked",
                      parent_triggered_destroy'[s] \/ user_state'[s] = "Detached"
               PROVE  parent_triggered_destroy'[c]
    BY <1>a DEF NoLostRequest
  <2>1. CASE s = o
    <3>1. CASE told
      BY <3>1, <2>1, <1>a, <1>1 DEF NoLostRequest
    <3>2. CASE ~told
      BY <3>2, <2>1, <1>b, <1>1 DEF Spreads, Fresh
    <3> QED BY <3>1, <3>2
  <2>2. CASE s # o
    <3>1. CASE s \in N
      <4>1. user_state[s] = "Unlocked" /\ Fresh(c) => c \in N
        BY <3>1, <1>b
      <4>2. user_state[s] \in AsyncUserState /\ user_state[s] = user_state'[s]
        BY <2>2, <1>1 DEF TypeOK
      <4>3. user_state[s] = "Detached" => parent_triggered_destroy[c]
        BY DEF NoLostRequest
      <4> QED BY <4>1, <4>2, <4>3, <1>1 DEF Fresh, AsyncUserState
    <3>2. CASE s \notin N
      BY <3>2, <2>2, <1>1 DEF NoLostRequest
    <3> QED BY <3>1, <3>2
  <2> QED BY <2>1, <2>2
<1>8. NothingForgotten'
  <2> SUFFICES ASSUME NEW x \in Obj, parent_triggered_destroy'[x],
                      user_state'[x] = "Unlocked", children[x] = {},
                      x \notin S
               PROVE  object_state[x] # "Valid"
    BY <1>a, <1>1 DEF NothingForgotten
  <2>1. x # o
    BY <1>1
  <2>2. x \notin N
    BY <2>1, <1>b, <1>d, <1>1
  <2> QED BY <2>1, <2>2, <1>1 DEF NothingForgotten
<1>9. PendingOk'
  BY <1>1 DEF PendingOk
<1> QED BY <1>2, <1>3, <1>4, <1>5, <1>6, <1>7, <1>8, <1>9

\* The end of an object starts its parent only if it was the last to wait for.
LEMMA FinishDestroyInv ==
  ASSUME Inv, NEW o \in Obj, FinishDestroy(o)
  PROVE  Inv'
<1> USE DEF Inv, Scope
<1> DEFINE p == parent[o]
           again == StartsParent(o)
<1>a. /\ pending[o] > 0
      /\ children' = [children EXCEPT ![p] = @ \ {o}]
      /\ UNCHANGED <<parent, user_state, parent_triggered_destroy>>
  BY DEF FinishDestroy, Awaited
<1>b. Created(o)
  BY <1>a DEF UnbornOk
<1>c. p \in Scope
  BY <1>b DEF TypeOK, Created
<1>d. /\ \A s \in Scope : children'[s] = IF s = p THEN children[s] \ {o} ELSE children[s]
      /\ \A s \in Scope : object_state'[s] =
           IF s = p /\ again
             THEN IF p = Root THEN "Destroyed" ELSE "StartedDestruction"
             ELSE IF s = o THEN "Destroyed" ELSE object_state[s]
      /\ \A x \in Obj : pending'[x] =
           IF x = o THEN pending[x] - 1
           ELSE IF x = p /\ again THEN pending[x] + 1 ELSE pending[x]
  BY <1>a, <1>c DEF TypeOK, FinishDestroy
<1>e. again = (/\ children'[p] = {}
               /\ user_state[p] # "Locked"
               /\ parent_triggered_destroy[p])
  BY <1>c, <1>d DEF StartsParent, TypeOK
<1>f. /\ object_state[o] # "Valid"
      /\ children[o] = {}
      /\ user_state[o] # "Locked"
      /\ parent_triggered_destroy[o] \/ user_state[o] = "Detached"
  BY <1>a DEF StartedOk, PendingOk
<1>g. again /\ p \in Obj => Created(p)
  BY <1>e DEF UnbornOk
<1> HIDE DEF again
<1>1. TypeOK'
  <2>1. children' \in [Scope -> SUBSET Obj]
    BY <1>a DEF TypeOK
  <2>2. object_state' \in [Scope -> AsyncObjectState]
    <3>1. \A s \in Scope : object_state'[s] \in AsyncObjectState
      BY <1>d DEF TypeOK, AsyncObjectState
    <3> QED BY <3>1 DEF FinishDestroy
  <2>3. pending' \in [Obj -> Nat]
    <3>1. \A x \in Obj : pending'[x] \in Nat
      BY <1>a, <1>d DEF TypeOK
    <3> QED BY <3>1 DEF FinishDestroy
  <2> QED BY <1>a, <2>1, <2>2, <2>3 DEF TypeOK
<1>2. ChildrenOk'
  BY <1>a, <1>d DEF ChildrenOk
<1>3. UnbornOk'
  BY <1>a, <1>b, <1>d, <1>g DEF UnbornOk, Created
<1>4. StartedOk'
  BY <1>a, <1>d, <1>e, <1>f DEF StartedOk
<1>5. PendingOk'
  BY <1>d, ScopeAssumption DEF PendingOk, TypeOK
<1>6. RootOk'
  BY <1>a DEF RootOk
<1>7. NoLostRequest'
  BY <1>a, <1>d DEF NoLostRequest
<1>8. NothingForgotten'
  <2> SUFFICES ASSUME NEW x \in Obj, parent_triggered_destroy[x],
                      user_state[x] = "Unlocked", children'[x] = {}
               PROVE  object_state'[x] # "Valid"
    BY <1>a DEF NothingForgotten
  <2>1. CASE x = p
    BY <2>1, <1>c, <1>d, <1>e, ScopeAssumption
  <2>2. CASE x # p
    BY <2>2, <1>d DEF NothingForgotten
  <2> QED BY <2>1, <2>2
<1> QED BY <1>1, <1>2, <1>3, <1>4, <1>5, <1>6, <1>7, <1>8

\* The request of the root reaches everything that no lock holds up.
LEMMA DestroyRootInv ==
  ASSUME Inv, DestroyRoot
  PROVE  Inv'
<1> USE DEF Inv, Scope
<1> DEFINE N == Notified(Root)
           S == Ready(N)
<1>a. /\ Trigger(N \cup {Root})
      /\ StartDestroy(S)
      /\ UNCHANGED <<parent, children, user_state>>
  BY DEF DestroyRoot
<1>b. /\ N \subseteq Obj
      /\ Spreads(Root, N)
      /\ \A n \in N : Fresh(n) /\ \E q \in Scope : n \in children[q]
  BY NotifiedFacts
<1>c. \A n \in N : Created(n)
  BY <1>b, ScopeAssumption DEF ChildrenOk, Created
<1> HIDE DEF N, S
<1>d. S = {n \in N : user_state[n] = "Unlocked" /\ children[n] = {}}
  BY DEF S, Ready
<1>1. /\ \A s \in Scope : parent_triggered_destroy'[s] = (s \in N \cup {Root} \/ parent_triggered_destroy[s])
      /\ \A s \in Scope : object_state'[s] = IF s \in S THEN "StartedDestruction" ELSE object_state[s]
      /\ \A x \in Obj : pending'[x] = IF x \in S THEN pending[x] + 1 ELSE pending[x]
  BY <1>a DEF TypeOK, Trigger, StartDestroy
<1>2. TypeOK'
  <2>1. parent_triggered_destroy' \in [Scope -> BOOLEAN]
    BY <1>a DEF TypeOK, Trigger
  <2>2. object_state' \in [Scope -> AsyncObjectState]
    BY <1>a DEF TypeOK, StartDestroy, AsyncObjectState
  <2>3. pending' \in [Obj -> Nat]
    BY <1>a DEF TypeOK, StartDestroy
  <2> QED BY <1>a, <2>1, <2>2, <2>3 DEF TypeOK
<1>3. ChildrenOk'
  BY <1>a DEF ChildrenOk
<1>4. UnbornOk'
  BY <1>a, <1>1, <1>c, <1>d, ScopeAssumption DEF UnbornOk, Created
<1>5. StartedOk'
  BY <1>a, <1>1, <1>d DEF StartedOk
<1>6. RootOk'
  BY <1>a DEF RootOk
<1>7. NoLostRequest'
  <2> SUFFICES ASSUME NEW s \in Scope, NEW c \in Obj, c \in children[s],
                      user_state[s] # "Locked",
                      parent_triggered_destroy'[s] \/ user_state[s] = "Detached"
               PROVE  parent_triggered_destroy'[c]
    BY <1>a DEF NoLostRequest
  <2>1. CASE s \in N \cup {Root}
    <3>1. (s = Root \/ user_state[s] = "Unlocked") /\ Fresh(c) => c \in N
      BY <2>1, <1>b DEF Spreads
    <3>2. user_state[s] \in AsyncUserState
      BY DEF TypeOK
    <3>3. user_state[s] = "Detached" => parent_triggered_destroy[c]
      BY DEF NoLostRequest
    <3> QED BY <3>1, <3>2, <3>3, <2>1, <1>1 DEF Fresh, AsyncUserState, RootOk
  <2>2. CASE s \notin N \cup {Root}
    BY <2>2, <1>1 DEF NoLostRequest
  <2> QED BY <2>1, <2>2
<1>8. NothingForgotten'
  BY <1>a, <1>1, <1>d, ScopeAssumption DEF NothingForgotten
<1>9. PendingOk'
  BY <1>1 DEF PendingOk
<1> QED BY <1>2, <1>3, <1>4, <1>5, <1>6, <1>7, <1>8, <1>9

\* The invariant is inductive.
LEMMA NextInv == Inv /\ [Next]_vars => Inv'
<1> SUFFICES ASSUME Inv, [Next]_vars PROVE Inv'
  OBVIOUS
<1>1. CASE UNCHANGED vars
  BY <1>1 DEF vars, Inv, TypeOK, ChildrenOk, UnbornOk, StartedOk, PendingOk,
              RootOk, NoLostRequest, NothingForgotten, Created
<1> QED
  BY <1>1, CreateInv, LockInv, UnlockInv, DetachInv, FinishDestroyInv,
     DestroyRootInv DEF Next

\* Every reachable state satisfies the inductive invariant.
THEOREM Invariance == Spec => []Inv
<1> QED BY InitInv, NextInv, PTL DEF Spec

\* The variables keep their types, for any use of the holders and any tree.
THEOREM TypeCorrect == Spec => []TypeOK
<1>1. Inv => TypeOK
  BY DEF Inv
<1> QED BY <1>1, Invariance, PTL

\* What a locked pointer refers to is alive (LockedPtr), for any use of the
\* holders.
THEOREM LocksAreSafe == Spec => []LockedIsAlive
<1>1. Inv => LockedIsAlive
  BY DEF Inv, LockedIsAlive, StartedOk
<1> QED BY <1>1, Invariance, PTL

\* No request of destruction is lost (Detach, handleParentStartDestroy), for
\* any use of the holders.
THEOREM RequestsArrive == Spec => []NoLostRequest
<1>1. Inv => NoLostRequest
  BY DEF Inv
<1> QED BY <1>1, Invariance, PTL

\* No scope that could start its destruction is forgotten (Unlock, Remove),
\* for any use of the holders.
THEOREM NobodyForgotten == Spec => []NothingForgotten
<1>1. Inv => NothingForgotten
  BY DEF Inv
<1> QED BY <1>1, Invariance, PTL
-----------------------------------------------------------------------------
(***************************************************************************)
(* From here on no holder is dropped once the destruction of its object    *)
(* has started: the users keep LateDrop = FALSE.                           *)
(***************************************************************************)

\* A started object awaits exactly one answer of its T.
AwaitedOnce ==
  \A o \in Obj :
    pending[o] = IF object_state[o] = "StartedDestruction" THEN 1 ELSE 0

\* An object stays in children_ of its parent until it is destroyed.
InParent ==
  \A o \in Obj : Created(o) /\ object_state[o] # "Destroyed"
                    => o \in children[parent[o]]

OnceInv == Inv /\ AwaitedOnce /\ InParent

\* The calls of StartDestroy that a step makes are made on valid objects.
LEMMA Notifying ==
  ASSUME Inv, NEW s \in Scope, NEW N, N = Notified(s) \/ N = {}
  PROVE  \A o \in Ready(N) : o \in Obj /\ object_state[o] = "Valid" /\ Created(o)
<1> SUFFICES ASSUME NEW o \in Ready(N)
             PROVE  o \in Obj /\ object_state[o] = "Valid" /\ Created(o)
  OBVIOUS
<1>1. o \in Obj /\ Fresh(o) /\ \E q \in Scope : o \in children[q]
  BY NotifiedFacts DEF Ready, Inv
<1>2. user_state[o] = "Unlocked"
  BY DEF Ready
<1> QED BY <1>1, <1>2, ScopeAssumption
        DEF Inv, StartedOk, Fresh, ChildrenOk, Created, Scope

\* The effect of StartDestroy(S) on valid objects.
LEMMA StartingOnce ==
  ASSUME OnceInv, NEW S, StartDestroy(S), UNCHANGED <<parent, children>>,
         \A o \in S : o \in Obj /\ object_state[o] = "Valid"
  PROVE  /\ \A o \in Obj : pending'[o] > pending[o] => object_state[o] = "Valid"
         /\ AwaitedOnce'
         /\ InParent'
<1> USE DEF OnceInv, Inv, StartDestroy, Scope
<1>1. /\ \A o \in Obj : pending'[o] = IF o \in S THEN pending[o] + 1 ELSE pending[o]
      /\ \A o \in Obj : object_state'[o] = IF o \in S THEN "StartedDestruction"
                                           ELSE object_state[o]
      /\ \A o \in Obj : pending[o] \in Nat
  BY DEF TypeOK
<1>2. AwaitedOnce'
  BY <1>1 DEF AwaitedOnce
<1>3. InParent'
  BY <1>1 DEF InParent, Created
<1> QED BY <1>1, <1>2, <1>3

\* Where no holder outlives its object, a started object has no one left to
\* start it again, and no child that is alive.
LEMMA OnceNext ==
  ASSUME LateDrop = FALSE, OnceInv, [Next]_vars
  PROVE  /\ \A o \in Obj : pending'[o] > pending[o] => object_state[o] = "Valid"
         /\ AwaitedOnce'
         /\ InParent'
<1> USE DEF OnceInv, Inv
<1>0. \A o \in Obj : pending[o] \in Nat
  BY DEF TypeOK
<1>1. ASSUME NEW o \in Obj, NEW p \in Scope, Create(o, p)
      PROVE  AwaitedOnce' /\ InParent' /\ UNCHANGED pending
  <2>1. AwaitedOnce' /\ UNCHANGED pending
    BY <1>1 DEF Create, AwaitedOnce
  <2>2. \A s \in Scope : children[s] \subseteq children'[s]
    BY <1>1 DEF Create, TypeOK
  <2>3. /\ o \in children'[p]
        /\ \A x \in Obj : parent'[x] = IF x = o THEN p ELSE parent[x]
        /\ object_state' = object_state
    BY <1>1 DEF Create, TypeOK
  <2>4. \A x \in Obj : Created(x) => parent[x] \in Scope
    BY DEF TypeOK, Created
  <2>5. InParent'
    BY <2>2, <2>3, <2>4, <1>1 DEF InParent, Created
  <2> QED BY <2>1, <2>5
<1>2. ASSUME NEW o \in Obj, Lock(o)
      PROVE  AwaitedOnce' /\ InParent' /\ UNCHANGED pending
  BY <1>2 DEF Lock, AwaitedOnce, InParent, Created
<1>3. ASSUME NEW o \in Obj, Unlock(o)
      PROVE  \E S : /\ StartDestroy(S)
                    /\ UNCHANGED <<parent, children>>
                    /\ \A x \in S : x \in Obj /\ object_state[x] = "Valid"
  <2> DEFINE told == parent_triggered_destroy[o]
             N == IF told THEN Notified(o) ELSE {}
             S == IF told /\ children[o] = {} THEN {o} ELSE Ready(N)
  <2>1. StartDestroy(S) /\ UNCHANGED <<parent, children>> /\ user_state[o] = "Locked"
    BY <1>3 DEF Unlock
  <2>2. \A x \in Ready(N) : x \in Obj /\ object_state[x] = "Valid"
    BY Notifying DEF Scope
  <2>3. object_state[o] = "Valid"
    BY <2>1 DEF StartedOk
  <2>4. \A x \in S : x \in Obj /\ object_state[x] = "Valid"
    BY <2>2, <2>3
  <2> HIDE DEF S
  <2> QED BY <2>1, <2>4
<1>4. ASSUME NEW o \in Obj, Detach(o)
      PROVE  \E S : /\ StartDestroy(S)
                    /\ UNCHANGED <<parent, children>>
                    /\ \A x \in S : x \in Obj /\ object_state[x] = "Valid"
  <2> DEFINE N == IF parent_triggered_destroy[o] THEN {} ELSE Notified(o)
             S == IF children[o] = {} THEN {o} ELSE Ready(N)
  <2>1. /\ StartDestroy(S) /\ UNCHANGED <<parent, children>>
        /\ object_state[o] = "Valid"
    BY <1>4 DEF Detach
  <2>2. \A x \in Ready(N) : x \in Obj /\ object_state[x] = "Valid"
    BY Notifying DEF Scope
  <2>3. \A x \in S : x \in Obj /\ object_state[x] = "Valid"
    BY <2>1, <2>2
  <2> HIDE DEF S
  <2> QED BY <2>1, <2>3
<1>5. ASSUME DestroyRoot
      PROVE  \E S : /\ StartDestroy(S)
                    /\ UNCHANGED <<parent, children>>
                    /\ \A x \in S : x \in Obj /\ object_state[x] = "Valid"
  BY <1>5, Notifying DEF DestroyRoot, Scope
<1>6. ASSUME NEW o \in Obj, FinishDestroy(o)
      PROVE  /\ \A x \in Obj : pending'[x] > pending[x] => object_state[x] = "Valid"
             /\ AwaitedOnce'
             /\ InParent'
  <2> DEFINE p == parent[o]
             again == StartsParent(o)
  <2>1. /\ pending[o] > 0
        /\ children' = [children EXCEPT ![p] = @ \ {o}]
        /\ UNCHANGED parent
    BY <1>6 DEF FinishDestroy, Awaited
  <2>2. Created(o) /\ p \in Scope
    BY <2>1 DEF UnbornOk, TypeOK, Created
  <2>3. /\ \A x \in Obj : pending'[x] =
             IF x = o THEN pending[x] - 1
             ELSE IF x = p /\ again THEN pending[x] + 1 ELSE pending[x]
        /\ \A x \in Obj : object_state'[x] =
             IF x = p /\ again
               THEN IF p = Root THEN "Destroyed" ELSE "StartedDestruction"
             ELSE IF x = o THEN "Destroyed" ELSE object_state[x]
        /\ \A s \in Scope : children'[s] = IF s = p THEN children[s] \ {o} ELSE children[s]
    BY <1>6, <2>1, <2>2 DEF FinishDestroy, TypeOK, Scope
  <2>4. pending[o] = 1 /\ object_state[o] = "StartedDestruction"
    BY <2>1 DEF AwaitedOnce
  <2>5. o \in children[p]
    BY <2>2, <2>4 DEF InParent
  <2>6. p \in Obj => object_state[p] = "Valid" /\ pending[p] = 0 /\ p # o
    BY <2>4, <2>5 DEF StartedOk, AwaitedOnce
  <2> HIDE DEF again
  <2>7. AwaitedOnce'
    BY <2>3, <2>4, <2>6, ScopeAssumption DEF AwaitedOnce
  <2>8. InParent'
    BY <2>1, <2>2, <2>3, <2>6, ScopeAssumption DEF InParent, Created, TypeOK, Scope
  <2>9. \A x \in Obj : pending'[x] > pending[x] => object_state[x] = "Valid"
    BY <1>0, <2>3, <2>6
  <2> QED BY <2>7, <2>8, <2>9
<1>7. CASE UNCHANGED vars
  BY <1>0, <1>7 DEF vars, AwaitedOnce, InParent, Created
<1>8. ASSUME NEW S, StartDestroy(S), UNCHANGED <<parent, children>>,
             \A x \in S : x \in Obj /\ object_state[x] = "Valid"
      PROVE  /\ \A x \in Obj : pending'[x] > pending[x] => object_state[x] = "Valid"
             /\ AwaitedOnce'
             /\ InParent'
  BY <1>8, StartingOnce
<1>9. UNCHANGED pending =>
        \A x \in Obj : pending'[x] > pending[x] => object_state[x] = "Valid"
  BY <1>0
<1> QED
  <2>1. CASE \E o \in Obj, p \in Scope : Create(o, p)
    BY <2>1, <1>1, <1>9
  <2>2. CASE \E o \in Obj : Lock(o)
    BY <2>2, <1>2, <1>9
  <2>3. CASE \E o \in Obj : Unlock(o)
    BY <2>3, <1>3, <1>8
  <2>4. CASE \E o \in Obj : Detach(o)
    BY <2>4, <1>4, <1>8
  <2>5. CASE \E o \in Obj : FinishDestroy(o)
    BY <2>5, <1>6
  <2>6. CASE DestroyRoot
    BY <2>6, <1>5, <1>8
  <2> QED BY <2>1, <2>2, <2>3, <2>4, <2>5, <2>6, <1>7 DEF Next

\* The same, of every reachable state.
LEMMA OnceInvariance ==
  ASSUME LateDrop = FALSE
  PROVE  Spec => []OnceInv
<1>1. Init => OnceInv
  <2>1. Init => AwaitedOnce
    BY DEF Init, AwaitedOnce, Scope
  <2>2. Init => InParent
    BY DEF Init, InParent, Created
  <2> QED BY InitInv, <2>1, <2>2 DEF OnceInv
<1>2. OnceInv /\ [Next]_vars => OnceInv'
  BY NextInv, OnceNext DEF OnceInv
<1> QED BY <1>1, <1>2, PTL DEF Spec

\* Nothing is destroyed before what was created in it, provided holders are
\* not dropped after the destruction of their object has started.
THEOREM DestroyedInsideOut ==
  ASSUME LateDrop = FALSE
  PROVE  Spec => []ChildrenFirst
<1>1. OnceInv => ChildrenFirst
  BY ScopeAssumption
     DEF OnceInv, Inv, InParent, StartedOk, ChildrenFirst, Created, Scope
<1> QED BY <1>1, OnceInvariance, PTL

\* T::StartDestroy is called at most once on every object, under the same
\* condition.
THEOREM DestroyedOnce ==
  ASSUME LateDrop = FALSE
  PROVE  Spec => DestroyOnce
<1>1. OnceInv /\ [Next]_vars =>
        [\A o \in Obj : pending'[o] > pending[o] => object_state[o] = "Valid"]_vars
  BY OnceNext
<1> QED BY <1>1, OnceInvariance, PTL DEF Spec, DestroyOnce
-----------------------------------------------------------------------------
(***************************************************************************)
(* The comment on a detached scope is right when no holder is dropped      *)
(* while its scope has children nobody asked to end: EarlyDrop = FALSE.    *)
(***************************************************************************)

\* A detached scope that has not started has been told, and has children.
DetachedWaits ==
  \A o \in Obj : user_state[o] = "Detached" /\ object_state[o] = "Valid"
                    => parent_triggered_destroy[o] /\ children[o] # {}

\* Where no holder is dropped before the request, a detached scope that was
\* told waits for a child.
LEMMA WaitingNext ==
  ASSUME EarlyDrop = FALSE, Inv, DetachedWaits, [Next]_vars
  PROVE  DetachedWaits'
<1> USE DEF Inv, Scope
<1> SUFFICES ASSUME NEW x \in Obj, user_state'[x] = "Detached",
                    object_state'[x] = "Valid"
             PROVE  parent_triggered_destroy'[x] /\ children'[x] # {}
  BY DEF DetachedWaits
<1>1. ASSUME NEW o \in Obj, NEW p \in Scope, Create(o, p)
      PROVE  parent_triggered_destroy'[x] /\ children'[x] # {}
  BY <1>1 DEF Create, TypeOK, DetachedWaits
<1>2. ASSUME NEW o \in Obj, Lock(o)
      PROVE  parent_triggered_destroy'[x] /\ children'[x] # {}
  BY <1>2 DEF Lock, TypeOK, DetachedWaits
<1>3. ASSUME NEW o \in Obj, Unlock(o)
      PROVE  parent_triggered_destroy'[x] /\ children'[x] # {}
  <2>1. user_state[x] = "Detached" /\ children' = children
    BY <1>3 DEF Unlock, TypeOK
  <2>2. object_state[x] = "Valid"
    BY <1>3 DEF Unlock, StartDestroy
  <2>3. parent_triggered_destroy[x] => parent_triggered_destroy'[x]
    BY <1>3 DEF Unlock, Trigger
  <2> QED BY <2>1, <2>2, <2>3 DEF DetachedWaits
<1>4. ASSUME NEW o \in Obj, Detach(o)
      PROVE  parent_triggered_destroy'[x] /\ children'[x] # {}
  <2>1. children' = children /\ object_state[x] = "Valid"
    BY <1>4 DEF Detach, StartDestroy
  <2>2. parent_triggered_destroy[x] => parent_triggered_destroy'[x]
    BY <1>4 DEF Detach, Trigger
  <2>3. CASE x = o
    <3>1. children[o] # {}
      BY <1>4, <2>3 DEF Detach, StartDestroy
    <3>2. parent_triggered_destroy[o]
      BY <1>4, <3>1 DEF Detach
    <3> QED BY <3>1, <3>2, <2>1, <2>2, <2>3
  <2>4. CASE x # o
    <3>1. user_state[x] = "Detached"
      BY <1>4, <2>4 DEF Detach, TypeOK
    <3> QED BY <3>1, <2>1, <2>2 DEF DetachedWaits
  <2> QED BY <2>3, <2>4
<1>5. ASSUME NEW o \in Obj, FinishDestroy(o)
      PROVE  parent_triggered_destroy'[x] /\ children'[x] # {}
  <2>1. user_state[x] = "Detached" /\ UNCHANGED parent_triggered_destroy
    BY <1>5 DEF FinishDestroy
  <2>2. ~(x = parent[o] /\ StartsParent(o)) /\ x # o /\ object_state[x] = "Valid"
    BY <1>5, ScopeAssumption DEF FinishDestroy
  <2>3. parent_triggered_destroy[x] /\ children[x] # {}
    BY <2>1, <2>2 DEF DetachedWaits
  <2>4. CASE x = parent[o]
    <3>1. children'[x] = children[x] \ {o}
      BY <1>5, <2>4 DEF FinishDestroy, TypeOK
    <3>2. ~(children[x] \subseteq {o})
      BY <2>1, <2>2, <2>3, <2>4 DEF StartsParent
    <3> QED BY <3>1, <3>2, <2>1, <2>3
  <2>5. CASE x # parent[o]
    <3>1. children'[x] = children[x]
      BY <1>5, <2>5 DEF FinishDestroy, TypeOK
    <3> QED BY <3>1, <2>1, <2>3
  <2> QED BY <2>4, <2>5
<1>6. CASE DestroyRoot
  <2>1. user_state[x] = "Detached" /\ children' = children
    BY <1>6 DEF DestroyRoot
  <2>2. object_state[x] = "Valid"
    BY <1>6 DEF DestroyRoot, StartDestroy
  <2>3. parent_triggered_destroy[x] => parent_triggered_destroy'[x]
    BY <1>6 DEF DestroyRoot, Trigger
  <2> QED BY <2>1, <2>2, <2>3 DEF DetachedWaits
<1>7. CASE UNCHANGED vars
  BY <1>7 DEF vars, DetachedWaits
<1> QED BY <1>1, <1>2, <1>3, <1>4, <1>5, <1>6, <1>7 DEF Next

\* A detached scope that has been told is just waiting for its children.
THEOREM DetachedJustWaiting ==
  ASSUME EarlyDrop = FALSE
  PROVE  Spec => []JustWaiting
<1>1. Init => DetachedWaits
  <2>1. Init => \A o \in Obj : user_state[o] = "Unlocked"
    BY DEF Init, Scope
  <2> QED BY <2>1 DEF DetachedWaits
<1>2. Inv /\ DetachedWaits /\ [Next]_vars => DetachedWaits'
  BY WaitingNext
<1>3. DetachedWaits => JustWaiting
  BY DEF DetachedWaits, JustWaiting
<1> QED BY <1>1, <1>2, <1>3, Invariance, PTL DEF Spec
-----------------------------------------------------------------------------
(***************************************************************************)
(* Refinement: the scopes live as StructuredLifetime says.                 *)
(***************************************************************************)

\* phaseBar, point by point.
LEMMA PhaseOf ==
  /\ phaseBar = [o \in Obj |-> phaseBar[o]]
  /\ \A o \in Obj : phaseBar[o] =
       IF ~Created(o) THEN "unborn"
       ELSE IF object_state[o] = "Valid" THEN "alive"
       ELSE IF object_state[o] = "StartedDestruction" THEN "destroying"
       ELSE "dead"
BY DEF phaseBar

\* A valid object without children has only dead ones below it.
LEMMA EmptyIsEmpty ==
  ASSUME OnceInv, NEW o \in Obj, children[o] = {}
  PROVE  Lifetime!Empty(o)
<1> SUFFICES ASSUME NEW c \in Obj, parent[c] = o
             PROVE  phaseBar[c] = "dead"
  BY DEF Lifetime!Empty
<1>1. Created(c) /\ object_state[c] = "Destroyed"
  BY ScopeAssumption DEF OnceInv, InParent, Created, Scope
<1> QED BY <1>1, PhaseOf

\* Calls of StartDestroy on valid, childless objects are one Begin.
LEMMA StartingBegins ==
  ASSUME OnceInv, NEW S \in SUBSET Obj, StartDestroy(S),
         UNCHANGED <<parent, children>>,
         \A o \in S : Created(o) /\ object_state[o] = "Valid" /\ children[o] = {}
  PROVE  Lifetime!Begin(S)
<1>1. \A o \in S : phaseBar[o] = "alive" /\ Lifetime!Empty(o)
  BY EmptyIsEmpty, PhaseOf
<1>2. phaseBar' = [o \in Obj |-> IF o \in S THEN "destroying" ELSE phaseBar[o]]
  <2>1. \A o \in Obj : object_state'[o] = IF o \in S THEN "StartedDestruction"
                                          ELSE object_state[o]
    BY DEF StartDestroy, Scope
  <2>2. \A o \in Obj : phaseBar'[o] = IF o \in S THEN "destroying" ELSE phaseBar[o]
    BY <2>1 DEF phaseBar, Created
  <2> QED BY <2>2 DEF phaseBar
<1> QED BY <1>1, <1>2 DEF Lifetime!Begin

\* Nothing is born at first, in either specification.
LEMMA LifetimeInit == Init => Lifetime!Init
<1> SUFFICES ASSUME Init PROVE Lifetime!Init
  OBVIOUS
<1>1. phaseBar = [o \in Obj |-> "unborn"]
  BY DEF Init, phaseBar, Created
<1>2. parent_triggered_destroy[Root] = FALSE
  BY DEF Init, Scope
<1> QED BY <1>1, <1>2 DEF Init, Lifetime!Init

\* Every step is a step of StructuredLifetime, or changes nothing there.
LEMMA LifetimeNext ==
  ASSUME LateDrop = FALSE, OnceInv, [Next]_vars
  PROVE  [Lifetime!Next]_(Lifetime!vars)
<1> USE DEF OnceInv, Inv
<1> DEFINE closing == parent_triggered_destroy[Root]
<1>1. ASSUME NEW o \in Obj, NEW p \in Scope, Create(o, p)
      PROVE  Lifetime!Create(o, p)
  <2>1. /\ ~Created(o)
        /\ \A x \in Obj : parent'[x] = IF x = o THEN p ELSE parent[x]
        /\ UNCHANGED object_state
        /\ parent' = [parent EXCEPT ![o] = p]
    BY <1>1 DEF Create, TypeOK
  <2>2. phaseBar[o] = "unborn" /\ p # NoParent /\ object_state[o] = "Valid"
    BY <2>1, PhaseOf, ScopeAssumption DEF UnbornOk
  <2>3. (p = Root /\ ~closing) \/ (p \in Obj /\ phaseBar[p] = "alive")
    BY <1>1, PhaseOf, ScopeAssumption DEF Create, UnbornOk, StartedOk, RootOk
  <2>4. \A x \in Obj : phaseBar'[x] = IF x = o THEN "alive" ELSE phaseBar[x]
    BY <2>1, <2>2 DEF phaseBar, Created
  <2>5. phaseBar' = [phaseBar EXCEPT ![o] = "alive"]
    BY <2>4 DEF phaseBar
  <2> QED BY <1>1, <2>1, <2>2, <2>3, <2>5 DEF Lifetime!Create, Create
<1>2. ASSUME NEW o \in Obj, Lock(o)
      PROVE  UNCHANGED <<phaseBar, parent, closing>>
  BY <1>2 DEF Lock, phaseBar, Created
<1>3. ASSUME NEW o \in Obj, Unlock(o)
      PROVE  \E S \in SUBSET Obj : Lifetime!Begin(S) /\ UNCHANGED closing
  <2> DEFINE told == parent_triggered_destroy[o]
             N == IF told THEN Notified(o) ELSE {}
             S == IF told /\ children[o] = {} THEN {o} ELSE Ready(N)
  <2>1. /\ StartDestroy(S) /\ UNCHANGED <<parent, children>>
        /\ user_state[o] = "Locked" /\ Trigger(N)
    BY <1>3 DEF Unlock
  <2>2. \A x \in Ready(N) : x \in Obj /\ object_state[x] = "Valid" /\ Created(x) /\ children[x] = {}
    BY Notifying DEF Scope, Ready
  <2>3. object_state[o] = "Valid" /\ Created(o)
    BY <2>1 DEF StartedOk, UnbornOk
  <2>4. /\ S \in SUBSET Obj
        /\ \A x \in S : Created(x) /\ object_state[x] = "Valid" /\ children[x] = {}
    BY <2>2, <2>3
  <2>5. N \subseteq Obj
    BY DEF Notified
  <2>6. UNCHANGED closing
    BY <2>1, <2>5, ScopeAssumption DEF Trigger, TypeOK, Scope
  <2> HIDE DEF S
  <2> QED BY <2>1, <2>4, <2>6, StartingBegins
<1>4. ASSUME NEW o \in Obj, Detach(o)
      PROVE  \E S \in SUBSET Obj : Lifetime!Begin(S) /\ UNCHANGED closing
  <2> DEFINE N == IF parent_triggered_destroy[o] THEN {} ELSE Notified(o)
             S == IF children[o] = {} THEN {o} ELSE Ready(N)
  <2>1. /\ StartDestroy(S) /\ UNCHANGED <<parent, children>>
        /\ object_state[o] = "Valid" /\ Created(o) /\ Trigger(N)
    BY <1>4 DEF Detach
  <2>2. \A x \in Ready(N) : x \in Obj /\ object_state[x] = "Valid" /\ Created(x) /\ children[x] = {}
    BY Notifying DEF Scope, Ready
  <2>4. /\ S \in SUBSET Obj
        /\ \A x \in S : Created(x) /\ object_state[x] = "Valid" /\ children[x] = {}
    BY <2>1, <2>2
  <2>5. N \subseteq Obj
    BY DEF Notified
  <2>6. UNCHANGED closing
    BY <2>1, <2>5, ScopeAssumption DEF Trigger, TypeOK, Scope
  <2> HIDE DEF S
  <2> QED BY <2>1, <2>4, <2>6, StartingBegins
<1>5. CASE DestroyRoot
  <2> DEFINE S == Ready(Notified(Root))
  <2>1. /\ StartDestroy(S) /\ UNCHANGED <<parent, children>>
        /\ ~closing /\ Trigger(Notified(Root) \cup {Root})
    BY <1>5 DEF DestroyRoot
  <2>2. \A x \in S : x \in Obj /\ object_state[x] = "Valid" /\ Created(x) /\ children[x] = {}
    BY Notifying DEF Scope, Ready
  <2>3. closing' = TRUE
    BY <2>1 DEF Trigger, Scope
  <2> HIDE DEF S
  <2>4. S \in SUBSET Obj /\ Lifetime!Begin(S)
    BY <2>1, <2>2, StartingBegins
  <2> QED BY <2>1, <2>3, <2>4 DEF Lifetime!Close, Lifetime!Next
<1>6. ASSUME NEW o \in Obj, FinishDestroy(o)
      PROVE  \E S \in SUBSET Obj : Lifetime!End(o, S)
  <2> DEFINE p == parent[o]
             again == StartsParent(o)
             S == IF again /\ p \in Obj THEN {p} ELSE {}
  <2>1. pending[o] > 0 /\ UNCHANGED <<parent, parent_triggered_destroy>>
    BY <1>6 DEF FinishDestroy, Awaited
  <2>2. Created(o) /\ object_state[o] = "StartedDestruction" /\ p \in Scope
    BY <2>1 DEF UnbornOk, TypeOK, Created, AwaitedOnce
  <2>3. o \in children[p]
    BY <2>2 DEF InParent
  <2>4. p \in Obj => object_state[p] = "Valid" /\ p # o
    BY <2>2, <2>3 DEF StartedOk
  <2>5. p \in Obj /\ again => Created(p) /\ phaseBar[p] = "alive"
    BY <2>4, PhaseOf DEF StartsParent, UnbornOk
  <2>6. again => \A c \in Obj \ {o} : parent[c] = p => phaseBar[c] = "dead"
    <3> SUFFICES ASSUME again, NEW c \in Obj \ {o}, parent[c] = p
                 PROVE  phaseBar[c] = "dead"
      OBVIOUS
    <3>1. Created(c) /\ c \notin children[p]
      BY <2>2, ScopeAssumption DEF StartsParent, Created, Scope
    <3> QED BY <3>1, PhaseOf DEF InParent
  <2>7. \A x \in Obj : object_state'[x] =
          IF x \in S THEN "StartedDestruction"
          ELSE IF x = o THEN "Destroyed" ELSE object_state[x]
    BY <1>6, ScopeAssumption DEF FinishDestroy, Scope
  <2>8. \A x \in Obj : phaseBar'[x] = IF x = o THEN "dead"
                          ELSE IF x \in S THEN "destroying" ELSE phaseBar[x]
    <3>1. \A x \in S : x # o /\ Created(x)
      BY <2>4, <2>5
    <3> QED BY <2>1, <2>2, <2>7, <3>1 DEF phaseBar, Created
  <2>9. phaseBar' = [x \in Obj |-> IF x = o THEN "dead"
                          ELSE IF x \in S THEN "destroying" ELSE phaseBar[x]]
    BY <2>8 DEF phaseBar
  <2>10. phaseBar[o] = "destroying"
    BY <2>2, PhaseOf
  <2>11. \A x \in S : /\ p = x
                      /\ phaseBar[x] = "alive"
                      /\ \A c \in Obj \ {o} : parent[c] = x => phaseBar[c] = "dead"
    BY <2>5, <2>6
  <2>12. S \in SUBSET Obj
    OBVIOUS
  <2> HIDE DEF S
  <2> QED BY <2>1, <2>9, <2>10, <2>11, <2>12 DEF Lifetime!End
<1>7. CASE UNCHANGED vars
  BY <1>7 DEF vars, Lifetime!vars, phaseBar, Created
<1>8. UNCHANGED <<phaseBar, parent, closing>> => UNCHANGED Lifetime!vars
  BY DEF Lifetime!vars
<1> QED
  <2>1. CASE \E o \in Obj, p \in Scope : Create(o, p)
    BY <2>1, <1>1 DEF Lifetime!Next, Scope
  <2>2. CASE \E o \in Obj : Lock(o)
    BY <2>2, <1>2, <1>8
  <2>3. CASE \E o \in Obj : Unlock(o) \/ Detach(o)
    BY <2>3, <1>3, <1>4 DEF Lifetime!Next
  <2>4. CASE \E o \in Obj : FinishDestroy(o)
    BY <2>4, <1>6 DEF Lifetime!Next
  <2> QED BY <2>1, <2>2, <2>3, <2>4, <1>5, <1>7 DEF Next

\* The scopes implement the abstract lifetimes: every object is destroyed
\* once, after everything below it, whatever the tree and the order of calls.
THEOREM Refinement ==
  ASSUME LateDrop = FALSE
  PROVE  Spec => ImplementsLifetime
<1>1. OnceInv /\ [Next]_vars => [Lifetime!Next]_(Lifetime!vars)
  BY LifetimeNext
<1> QED BY <1>1, LifetimeInit, OnceInvariance, PTL
        DEF Spec, ImplementsLifetime, Lifetime!Safety
-----------------------------------------------------------------------------
(***************************************************************************)
(* The handles.  The locks protect, for any number of objects, holders and *)
(* pointers.  The invariant says who is locked by whom: holders hold       *)
(* different objects, pointers point to different ones, and an object is   *)
(* locked exactly when one pointer points to it, through the holder that   *)
(* holds it.                                                               *)
(***************************************************************************)

HandleTypes ==
  /\ parent \in [Obj -> Scope \cup {NoParent}]
  /\ user_state \in [Scope -> AsyncUserState]
  /\ holds \in [Holder -> Obj \cup {None}]
  /\ lock \in [Pointer -> (Obj \X Holder) \cup {None}]
  /\ stopped \in BOOLEAN
  /\ misused \in BOOLEAN

\* Holders hold objects that exist, were not detached, and differ.
HoldersApart ==
  \A h \in Holder : holds[h] # None =>
    /\ Created(holds[h])
    /\ user_state[holds[h]] # "Detached"
    /\ \A g \in Holder : holds[g] = holds[h] => g = h

\* Each pointer has locked the object its holder holds, alone.
PointersAtHome ==
  \A p \in Pointer : lock[p] # None =>
    /\ user_state[lock[p][1]] = "Locked"
    /\ holds[lock[p][2]] = lock[p][1]
    /\ \A q \in Pointer : lock[q] # None /\ lock[q][1] = lock[p][1] => q = p

\* What is locked has a pointer to it.
LocksHeld ==
  \A o \in Obj : user_state[o] = "Locked" =>
    \E p \in Pointer : lock[p] # None /\ lock[p][1] = o

\* Nobody has used an object that does not exist.
UnbornUnused == \A o \in Obj : Created(o) \/ user_state[o] = "Unlocked"

HandlesInv ==
  /\ HandleTypes
  /\ misused \/ (~stopped /\ HoldersApart /\ PointersAtHome /\ LocksHeld
                            /\ UnbornUnused)

\* At the start nothing is held and nothing is locked.
LEMMA HandlesInit == HoldersInit => HandlesInv
BY HolderAssumption
   DEF HoldersInit, Init, HandlesInv, HandleTypes, HoldersApart,
       PointersAtHome, LocksHeld, UnbornUnused, AsyncUserState, Scope, Created

\* Each operation on the handles keeps the invariant.
LEMMA HandlesStep == HandlesInv /\ [HoldersNext]_<<vars, handles>> => HandlesInv'
<1> SUFFICES ASSUME HandlesInv, [HoldersNext]_<<vars, handles>>
             PROVE  HandlesInv'
  OBVIOUS
<1> USE HolderAssumption, ScopeAssumption DEF HandlesInv, HandleTypes, Scope
<1>1. ASSUME NEW h \in Holder, NEW o \in Obj, NEW p \in Scope, Make(h, o, p)
      PROVE  HandlesInv'
  <2>1. /\ parent[o] = NoParent /\ holds[h] = None
        /\ parent' = [parent EXCEPT ![o] = p]
        /\ holds' = [holds EXCEPT ![h] = o]
        /\ UNCHANGED <<user_state, lock, stopped, misused>>
        /\ \A q \in Pointer : lock[q] # None => lock[q][2] # h
    BY <1>1 DEF Make, Create, Created, Through
  <2>2. HandleTypes'
    BY <2>1
  <2>3. ASSUME ~misused
        PROVE  HoldersApart' /\ PointersAtHome' /\ LocksHeld' /\ UnbornUnused'
    <3>1. user_state[o] = "Unlocked"
      BY <2>1, <2>3 DEF UnbornUnused, Created
    <3>2. \A g \in Holder : holds[g] # o
      BY <2>1, <2>3 DEF HoldersApart, Created
    <3>3. HoldersApart'
      BY <2>1, <2>2, <2>3, <3>1, <3>2 DEF HoldersApart, Created
    <3>4. PointersAtHome' /\ LocksHeld'
      BY <2>1, <2>2, <2>3 DEF PointersAtHome, LocksHeld
    <3>5. UnbornUnused'
      BY <2>1, <2>2, <2>3, <3>1 DEF UnbornUnused, Created
    <3>. QED
      BY <3>3, <3>4, <3>5
  <2>. QED
    BY <2>1, <2>2, <2>3
<1>2. ASSUME NEW h \in Holder, NEW p \in Pointer, TakeLock(h, p)
      PROVE  HandlesInv'
  <2> DEFINE o == holds[h]
  <2>1. /\ o \in Obj /\ lock[p] = None /\ user_state[o] = "Unlocked"
        /\ user_state' = [user_state EXCEPT ![o] = "Locked"]
        /\ lock' = [lock EXCEPT ![p] = <<o, h>>]
        /\ UNCHANGED <<parent, holds, stopped, misused>>
        /\ Created(o)
    BY <1>2 DEF TakeLock, Lock
  <2>2. HandleTypes' /\ <<o, h>> # None
    BY <2>1 DEF AsyncUserState
  <2>3. ASSUME ~misused
        PROVE  HoldersApart' /\ PointersAtHome' /\ LocksHeld' /\ UnbornUnused'
    <3>1. HoldersApart' /\ UnbornUnused'
      BY <2>1, <2>2, <2>3 DEF HoldersApart, UnbornUnused, Created
    <3>2. \A q \in Pointer : lock[q] # None => lock[q][1] # o
      BY <2>1, <2>3 DEF PointersAtHome
    <3>3. PointersAtHome'
      BY <2>1, <2>2, <2>3, <3>2 DEF PointersAtHome
    <3>4. LocksHeld'
      BY <2>1, <2>2, <2>3 DEF LocksHeld
    <3>. QED
      BY <3>1, <3>3, <3>4
  <2>. QED
    BY <2>1, <2>2, <2>3
<1>3. ASSUME NEW p \in Pointer, ReturnLock(p)
      PROVE  HandlesInv'
  <2> DEFINE o == holds[lock[p][2]]
  <2>1. /\ lock[p] # None
        /\ lock' = [lock EXCEPT ![p] = None]
        /\ UNCHANGED <<holds, misused, parent>>
        /\ stopped' \in BOOLEAN
        /\ \/ /\ o \in Obj
              /\ user_state' = [user_state EXCEPT ![o] = "Unlocked"]
              /\ UNCHANGED stopped
           \/ ~Unlocks(o) /\ UNCHANGED user_state
    BY <1>3 DEF ReturnLock, Unlocks, Unlock, vars
  <2>2. HandleTypes'
    BY <2>1 DEF AsyncUserState
  <2>3. ASSUME ~misused
        PROVE  /\ ~stopped' /\ HoldersApart' /\ PointersAtHome' /\ LocksHeld'
               /\ UnbornUnused'
    <3>1. /\ o = lock[p][1] /\ o \in Obj /\ user_state[o] = "Locked"
          /\ \A q \in Pointer : lock[q] # None /\ lock[q][1] = o => q = p
      BY <2>1, <2>3 DEF PointersAtHome
    <3>2. user_state' = [user_state EXCEPT ![o] = "Unlocked"] /\ ~stopped'
      BY <2>1, <2>3, <3>1 DEF Unlocks
    <3>3. HoldersApart' /\ UnbornUnused'
      BY <2>1, <2>2, <2>3, <3>1, <3>2 DEF HoldersApart, UnbornUnused, Created
    <3>4. PointersAtHome'
      BY <2>1, <2>2, <2>3, <3>1, <3>2 DEF PointersAtHome
    <3>5. LocksHeld'
      BY <2>1, <2>2, <2>3, <3>1, <3>2 DEF LocksHeld
    <3>. QED
      BY <3>2, <3>3, <3>4, <3>5
  <2>. QED
    BY <2>1, <2>2, <2>3
<1>4. ASSUME NEW p \in Pointer, NEW q \in Pointer, CopyLock(p, q)
      PROVE  HandlesInv'
  BY <1>4 DEF CopyLock, vars
<1>5. ASSUME NEW h \in Holder, NEW g \in Holder, Move(h, g)
      PROVE  HandlesInv'
  <2>1. /\ holds[h] # None
        /\ holds' = [holds EXCEPT ![g] = holds[h], ![h] = None]
        /\ UNCHANGED <<parent, user_state, lock, stopped>>
        /\ misused' = (misused \/ Through(h) \cup Through(g) # {})
    BY <1>5 DEF Move, MovedFrom, vars
  <2>2. HandleTypes'
    BY <2>1
  <2>3. ASSUME ~misused'
        PROVE  HoldersApart' /\ PointersAtHome' /\ LocksHeld' /\ UnbornUnused'
    <3>1. ~misused /\ \A p \in Pointer :
            lock[p] # None => lock[p][2] # h /\ lock[p][2] # g
      BY <2>1, <2>3 DEF Through
    <3>2. HoldersApart'
      BY <2>1, <2>2, <3>1 DEF HoldersApart, Created
    <3>3. PointersAtHome' /\ LocksHeld' /\ UnbornUnused'
      BY <2>1, <2>2, <3>1 DEF PointersAtHome, LocksHeld, UnbornUnused, Created
    <3>. QED
      BY <3>2, <3>3
  <2>. QED
    BY <2>1, <2>2, <2>3
<1>6. ASSUME NEW h \in Holder, Drop(h)
      PROVE  HandlesInv'
  <2> DEFINE o == holds[h]
  <2>1. /\ o \in Obj
        /\ holds' = [holds EXCEPT ![h] = None]
        /\ UNCHANGED <<parent, lock>>
        /\ misused' = (misused \/ Through(h) # {})
        /\ stopped' \in BOOLEAN
        /\ \/ /\ user_state' = [user_state EXCEPT ![o] = "Detached"]
              /\ user_state[o] = "Unlocked" /\ Created(o)
              /\ UNCHANGED stopped
           \/ user_state[o] # "Unlocked" /\ UNCHANGED user_state
    BY <1>6 DEF Drop, Detach, vars
  <2>2. HandleTypes'
    BY <2>1 DEF AsyncUserState
  <2>3. ASSUME ~misused'
        PROVE  /\ ~stopped' /\ HoldersApart' /\ PointersAtHome' /\ LocksHeld'
               /\ UnbornUnused'
    <3>1. ~misused /\ \A p \in Pointer : lock[p] # None => lock[p][2] # h
      BY <2>1, <2>3 DEF Through
    <3>2. \A p \in Pointer : lock[p] # None => lock[p][1] # o
      BY <2>1, <3>1 DEF PointersAtHome, HoldersApart
    <3>3. user_state[o] = "Unlocked"
      BY <2>1, <3>1, <3>2 DEF LocksHeld, HoldersApart, AsyncUserState
    <3>4. user_state' = [user_state EXCEPT ![o] = "Detached"] /\ ~stopped'
      BY <2>1, <3>1, <3>3
    <3>5. HoldersApart'
      BY <2>1, <2>2, <3>1, <3>4 DEF HoldersApart, Created
    <3>6. PointersAtHome'
      BY <2>1, <2>2, <3>1, <3>2, <3>4 DEF PointersAtHome
    <3>7. LocksHeld' /\ UnbornUnused'
      BY <2>1, <2>2, <3>1, <3>4 DEF LocksHeld, UnbornUnused, Created
    <3>. QED
      BY <3>4, <3>5, <3>6, <3>7
  <2>. QED
    BY <2>1, <2>2, <2>3
<1>7. ASSUME DestroyRoot \/ \E o \in Obj : FinishDestroy(o), UNCHANGED handles
      PROVE  HandlesInv'
  <2>1. UNCHANGED <<parent, user_state>>
    BY <1>7 DEF DestroyRoot, FinishDestroy
  <2>. QED
    BY <1>7, <2>1 DEF handles, HoldersApart, PointersAtHome, LocksHeld,
                      UnbornUnused, Created
<1>8. ASSUME UNCHANGED <<vars, handles>>
      PROVE  HandlesInv'
  BY <1>8 DEF vars, handles, HoldersApart, PointersAtHome, LocksHeld,
              UnbornUnused, Created
<1>. QED
  BY <1>1, <1>2, <1>3, <1>4, <1>5, <1>6, <1>7, <1>8 DEF HoldersNext

\* For any number of objects, holders and pointers: a lock protects until a
\* holder is moved, assigned or dropped while the lock is out, or a pointer is
\* copied, and no transition is incorrect before that.
THEOREM LocksAreKept == HoldersSpec => []LocksProtect
<1>1. HandlesInv => LocksProtect
  BY DEF HandlesInv, PointersAtHome, LocksProtect
<1>. QED
  BY <1>1, HandlesInit, HandlesStep, PTL DEF HoldersSpec
=============================================================================
