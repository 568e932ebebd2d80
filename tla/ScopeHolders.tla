---------------------------- MODULE ScopeHolders ----------------------------
(***************************************************************************)
(* The handles of src/lang/random/test_async_scopes_1.cpp: the holders     *)
(* (UniqueAsyncHolder) through which the users of AsyncScope reach its     *)
(* objects, and the pointers (LockedPtr and LockedScopePtr) their locks    *)
(* give.  A pointer keeps the address of the holder it came from and       *)
(* returns the lock to whatever that holder holds by then.  Holders can be *)
(* moved and assigned to, and pointers are copied by default.              *)
(***************************************************************************)
EXTENDS AsyncScope

CONSTANTS
  Holder,   \* variables that hold an object, or nothing
  Pointer,  \* variables that hold a locked pointer, or nothing
  None      \* nothing

ASSUME HolderAssumption == None \notin Obj /\ None \notin Obj \X Holder

VARIABLES
  holds,    \* ptr_ of each holder
  lock,     \* ptr_ and holder_ of each locked pointer
  stopped,  \* has the program crashed or failed an assertion?
  misused   \* was a lock out, or copied, when its holder changed?

handles == <<holds, lock, stopped, misused>>

HoldersInit ==
  /\ Init
  /\ holds = [h \in Holder |-> None]
  /\ lock = [p \in Pointer |-> None]
  /\ stopped = FALSE
  /\ misused = FALSE

\* The pointers that return their lock through h.
Through(h) == {p \in Pointer : lock[p] # None /\ lock[p][2] = h}
-----------------------------------------------------------------------------
\* MakeUniqueAsyncScoped.
Make(h, o, p) ==
  /\ holds[h] = None /\ Through(h) = {}
  /\ Create(o, p)
  /\ holds' = [holds EXCEPT ![h] = o]
  /\ UNCHANGED <<lock, stopped, misused>>

\* Holder::Lock and LockScope, when they succeed.
TakeLock(h, p) ==
  /\ holds[h] # None /\ lock[p] = None
  /\ Lock(holds[h])
  /\ lock' = [lock EXCEPT ![p] = <<holds[h], h>>]
  /\ UNCHANGED <<holds, stopped, misused>>

\* ReturnLock: a holder that was moved from is a null pointer, and unlocking
\* what is not locked an incorrect transition.
Unlocks(o) == o # None /\ user_state[o] = "Locked"

ReturnLock(p) ==
  /\ lock[p] # None
  /\ lock' = [lock EXCEPT ![p] = None]
  /\ LET o == holds[lock[p][2]]
     IN  \/ Unlocks(o) /\ Unlock(o) /\ UNCHANGED stopped
         \/ ~Unlocks(o) /\ stopped' = TRUE /\ UNCHANGED vars
  /\ UNCHANGED <<holds, misused>>

\* A locked pointer is copied: two of them will return one lock.
CopyLock(p, q) ==
  /\ lock[p] # None /\ lock[q] = None
  /\ lock' = [lock EXCEPT ![q] = lock[p]]
  /\ misused' = TRUE
  /\ UNCHANGED <<vars, holds, stopped>>

\* A slip: the holder that was moved from keeps the pointer.
CopiedFrom(h) == holds[h]

MovedFrom(h) == None

\* The move constructor and the move assignment of g from h: whatever g held
\* is forgotten, its own object too when g is h.
Move(h, g) ==
  /\ holds[h] # None
  /\ holds' = [holds EXCEPT ![g] = holds[h], ![h] = MovedFrom(h)]
  /\ misused' = (misused \/ Through(h) \cup Through(g) # {})
  /\ UNCHANGED <<vars, lock, stopped>>

\* The destructor of a holder.  To detach a locked or detached object is an
\* incorrect transition.
Drop(h) ==
  LET o == holds[h]
  IN  /\ o # None
      /\ holds' = [holds EXCEPT ![h] = None]
      /\ \/ Detach(o) /\ UNCHANGED stopped
         \/ user_state[o] # "Unlocked" /\ stopped' = TRUE /\ UNCHANGED vars
      /\ misused' = (misused \/ Through(h) # {})
      /\ UNCHANGED lock

HoldersNext ==
  /\ ~stopped
  /\ \/ \E h \in Holder, o \in Obj, p \in Scope : Make(h, o, p)
     \/ \E h \in Holder, p \in Pointer : TakeLock(h, p)
     \/ \E p \in Pointer : ReturnLock(p)
     \/ \E p, q \in Pointer : CopyLock(p, q)
     \/ \E h, g \in Holder : Move(h, g)
     \/ \E h \in Holder : Drop(h)
     \/ (DestroyRoot \/ \E o \in Obj : FinishDestroy(o)) /\ UNCHANGED handles

\* As in AsyncScope: ~BlockingScope runs what was enqueued, and locked
\* pointers do not outlive their block.
HoldersSpec ==
  /\ HoldersInit /\ [][HoldersNext]_<<vars, handles>>
  /\ \A o \in Obj :
       WF_<<vars, handles>>(~stopped /\ Polling /\ FinishDestroy(o)
                                     /\ UNCHANGED handles)
  /\ \A p \in Pointer : WF_<<vars, handles>>(~stopped /\ ReturnLock(p))
-----------------------------------------------------------------------------
\* The TODO at ReturnLock ("protect against return after move!") is all that
\* is missing: as long as no holder is moved, assigned or destroyed while a
\* lock taken through it is out, and no locked pointer is copied, every
\* locked pointer protects its object and will unlock that object, and no
\* transition is incorrect.
LocksProtect ==
  misused \/ /\ ~stopped
             /\ \A p \in Pointer : lock[p] # None =>
                  /\ user_state[lock[p][1]] = "Locked"
                  /\ holds[lock[p][2]] = lock[p][1]

\* The lock of o went to another object: nothing will unlock o any more.
Stranded(o) ==
  user_state[o] = "Locked" /\ \A p \in Pointer : lock[p] = None \/ lock[p][1] # o

\* Whatever is moved, assigned over and forgotten, ~BlockingScope ends every
\* scope, also one that no holder holds any more; unless a lock returned to
\* the wrong place stops the program or leaves a scope locked for ever, or a
\* dropped scope was forgotten (JustWaiting).
ReturnsOrStops ==
  parent_triggered_destroy[Root] ~>
    \/ children[Root] = {}
    \/ stopped \/ (\E o \in Obj : Stranded(o)) \/ ~JustWaiting
=============================================================================
