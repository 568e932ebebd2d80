--------------------------- MODULE ResultsProofs ---------------------------
(***************************************************************************)
(* Results for any number of variables and objects: ownership, and what    *)
(* access can meet.                                                        *)
(***************************************************************************)
EXTENDS Results, TLAPS

\* A null pointer where something is owned is the trace of a move.
NullIfMoved ==
  \A i \in Slot : Owns(is[i]) /\ ptr[i] = Null => i \in moved

\* A copy followed a null pointer.
CrashedByCopy == crashed => moved # {}

IInv == TypeOK /\ OneOwner /\ NullIfMoved /\ CrashedByCopy

LEMMA Initially == Init => IInv
  BY DEF Init, IInv, TypeOK, OneOwner, NullIfMoved, CrashedByCopy, Owns, Kinds

\* What is stored is null, or an object that nobody owned.
LEMMA Storing ==
  ASSUME IInv, NEW i \in Slot, NEW o \in (Obj \ used) \cup {Null},
         NEW a \in {"no_variable", "value", "error", "valueless"},
         Owns(a) => o # Null,
         Store(i, a, o), UNCHANGED <<kind, user>>, crashed' = crashed,
         ~crashed
  PROVE  IInv'
<1>1. TypeOK'
  <2>1. ptr[i] \notin user
    BY ResultsAssumption DEF IInv, TypeOK, OneOwner
  <2> QED BY <2>1, ResultsAssumption DEF Store, Without, IInv, TypeOK
<1>2. OneOwner'
  <2>1. ptr' = [ptr EXCEPT ![i] = o] /\ user' = user
    BY DEF Store
  <2>2. used' = (used \ {ptr[i]}) \cup ({o} \ {Null})
    BY DEF Store, Without
  <2>3. used' = user \cup {ptr'[k] : k \in {j \in Slot : ptr'[j] # Null}}
    BY <2>1, <2>2, ResultsAssumption DEF IInv, TypeOK, OneOwner
  <2>4. \A k, j \in Slot : ptr'[k] # Null => /\ k # j => ptr'[k] # ptr'[j]
                                             /\ ptr'[k] \notin user'
    BY <2>1, ResultsAssumption DEF IInv, TypeOK, OneOwner
  <2> QED BY <2>3, <2>4 DEF OneOwner
<1>3. NullIfMoved'
  BY ResultsAssumption DEF Store, IInv, TypeOK, NullIfMoved, Owns
<1>4. CrashedByCopy'
  BY DEF CrashedByCopy
<1> QED BY <1>1, <1>2, <1>3, <1>4 DEF IInv

\* Making a result, and losing its value.
LEMMA Making ==
  ASSUME IInv, ~crashed, UNCHANGED kind, NEW i \in Slot,
         \/ MakeNoexcept(i) \/ Destroy(i)
         \/ \E j \in Slot : AssignThrows(i, j)
  PROVE  IInv'
<1>1. ASSUME NEW a \in Holding, Construct(i, a) PROVE IInv'
  <2>1. PICK o \in Fresh(a) : Store(i, a, o)
    BY <1>1 DEF Construct
  <2>2. o \in (Obj \ used) \cup {Null} /\ (Owns(a) => o # Null)
    BY ResultsAssumption DEF Fresh
  <2> QED BY <1>1, <2>1, <2>2, Storing DEF Construct, Holding
<1>2. CASE Destroy(i)
  BY <1>2, Storing DEF Destroy, Owns
<1>3. ASSUME NEW j \in Slot, AssignThrows(i, j) PROVE IInv'
  BY <1>3, Storing DEF AssignThrows, Owns
<1> QED BY <1>1, <1>2, <1>3 DEF MakeNoexcept, MakeValue, MakeError, Holding

\* Copies own clones.
LEMMA Copying ==
  ASSUME IInv, ~crashed, UNCHANGED kind, NEW i \in Slot, NEW j \in Slot,
         CopyConstruct(i, j) \/ CopyAssign(i, j)
  PROVE  IInv'
<1>0. Alive(j) /\ CopyTo(i, j) /\ user' = user
  BY DEF CopyConstruct, CopyAssign, Copyable
<1>1. ASSUME NEW o \in Cloned(j), Store(i, is[j], o), UNCHANGED crashed
      PROVE  IInv'
  <2>1. o \in (Obj \ used) \cup {Null} /\ (Owns(is[j]) => o # Null)
    BY ResultsAssumption DEF Cloned, Fresh
  <2>2. is[j] \in {"no_variable", "value", "error", "valueless"}
    BY DEF IInv, TypeOK
  <2> QED BY <1>0, <1>1, <2>1, <2>2, Storing
<1>2. CASE /\ Owns(is[j]) /\ ptr[j] = Null
           /\ crashed' = TRUE
           /\ UNCHANGED <<is, ptr, used, moved>>
  <2>1. j \in moved
    BY <1>2 DEF IInv, NullIfMoved
  <2> QED BY <1>0, <1>2, <2>1
          DEF IInv, TypeOK, OneOwner, NullIfMoved, CrashedByCopy, Owns
<1> QED BY <1>0, <1>1, <1>2 DEF CopyTo

\* A move hands over, and leaves null behind.
LEMMA Moving ==
  ASSUME IInv, ~crashed, UNCHANGED kind, NEW i \in Slot, NEW j \in Slot,
         MoveConstruct(i, j) \/ MoveAssign(i, j)
  PROVE  IInv'
<1>1. CASE i # j /\ MoveTo(i, j)
  <2>1. TypeOK'
    <3>1. ptr[i] \notin user
      BY ResultsAssumption DEF IInv, TypeOK, OneOwner
    <3> QED BY <1>1, <3>1 DEF MoveTo, DeletedOf, Without, IInv, TypeOK
  <2>2. OneOwner'
    <3>1. /\ ptr' = [ptr EXCEPT ![i] = ptr[j], ![j] = Null]
          /\ used' = used \ {ptr[i]} /\ user' = user
      BY <1>1 DEF MoveTo, DeletedOf, Without
    <3>2. used' = user \cup {ptr'[k] : k \in {l \in Slot : ptr'[l] # Null}}
      <4>1. ASSUME NEW o \in used' \ user
            PROVE  \E k \in Slot : ptr'[k] = o /\ ptr'[k] # Null
        <5>1. PICK k \in Slot : ptr[k] # Null /\ o = ptr[k]
          BY <3>1, <4>1 DEF IInv, OneOwner
        <5>2. CASE k = j
          BY <1>1, <3>1, <5>1, <5>2 DEF IInv, TypeOK
        <5>3. CASE k # j
          BY <3>1, <4>1, <5>1, <5>3 DEF IInv, TypeOK
        <5> QED BY <5>2, <5>3
      <4>2. ASSUME NEW k \in Slot, ptr'[k] # Null
            PROVE  ptr'[k] \in used'
        <5>1. PICK l \in Slot : l # i /\ ptr'[k] = ptr[l]
          BY <1>1, <3>1, <4>2 DEF IInv, TypeOK
        <5>2. ptr[l] \in used /\ ptr[l] # ptr[i]
          BY <4>2, <5>1 DEF IInv, OneOwner
        <5> QED BY <3>1, <5>1, <5>2
      <4>3. user \subseteq used'
        BY <3>1, ResultsAssumption DEF IInv, TypeOK, OneOwner
      <4> QED BY <4>1, <4>2, <4>3
    <3>3. \A k, l \in Slot : ptr'[k] # Null => /\ k # l => ptr'[k] # ptr'[l]
                                               /\ ptr'[k] \notin user'
      BY <1>1, <3>1 DEF IInv, TypeOK, OneOwner
    <3> QED BY <3>1, <3>2, <3>3 DEF OneOwner
  <2>3. NullIfMoved'
    BY <1>1 DEF MoveTo, IInv, TypeOK, NullIfMoved, Owns
  <2>4. CrashedByCopy'
    BY <1>1 DEF MoveTo, CrashedByCopy
  <2> QED BY <2>1, <2>2, <2>3, <2>4 DEF IInv
<1>2. CASE UNCHANGED <<is, ptr, used, user, moved, crashed>>
  BY <1>2 DEF IInv, TypeOK, OneOwner, NullIfMoved, CrashedByCopy, Owns
<1> QED BY <1>1, <1>2 DEF MoveConstruct, MoveAssign

\* What a user takes is the user's.
LEMMA Taking ==
  ASSUME IInv, ~crashed, UNCHANGED kind,
         (\E i \in Slot : Take(i)) \/ (\E o \in Obj : Drop(o))
  PROVE  IInv'
<1>1. ASSUME NEW i \in Slot, Take(i) PROVE IInv'
  <2>1. TypeOK'
    <3>1. ptr[i] # Null => ptr[i] \in used
      BY DEF IInv, OneOwner
    <3> QED BY <1>1, <3>1 DEF Take, IInv, TypeOK
  <2>2. OneOwner'
    <3>1. /\ ptr' = [ptr EXCEPT ![i] = Null] /\ used' = used
          /\ user' = user \cup ({ptr[i]} \ {Null})
      BY <1>1 DEF Take
    <3> QED BY <3>1 DEF IInv, TypeOK, OneOwner
  <2>3. NullIfMoved' /\ CrashedByCopy'
    BY <1>1 DEF Take, IInv, TypeOK, NullIfMoved, CrashedByCopy, Owns
  <2> QED BY <2>1, <2>2, <2>3 DEF IInv
<1>2. ASSUME NEW o \in Obj, Drop(o) PROVE IInv'
  BY <1>2 DEF Drop, IInv, TypeOK, OneOwner, NullIfMoved, CrashedByCopy, Owns
<1> QED BY <1>1, <1>2

LEMMA Stuttering == IInv /\ UNCHANGED vars => IInv'
  BY DEF IInv, TypeOK, OneOwner, NullIfMoved, CrashedByCopy, Owns, vars

\* What access answers follows from the invariant.
LEMMA Accessing == IInv => CheckedAccess
<1> SUFFICES ASSUME IInv, NEW i \in Slot, Alive(i)
    PROVE  /\ "null" \in Answers(i) => i \in moved
           /\ "ends the program" \in Answers(i) => is[i] = "valueless"
  BY DEF CheckedAccess, IInv, CrashedByCopy
<1> USE DEF Answers, Value, Error, ValueOrNothing, ErrorOrNothing, Get,
            Details, HasValue, HasError
<1>1. "null" \in Answers(i) => i \in moved
  BY DEF IInv, NullIfMoved
<1>2. "ends the program" \in Answers(i) => is[i] = "valueless"
  BY DEF IInv, TypeOK, Alive
<1> QED BY <1>1, <1>2

LEMMA Invariance == Spec => []IInv
<1>1. Init => IInv
  BY Initially
<1>2. IInv /\ [Next]_vars => IInv'
  BY Making, Copying, Moving, Taking, Stuttering DEF Next
<1> QED BY <1>1, <1>2, PTL DEF Spec

\* The variables keep their types.
THEOREM TypeCorrect == Spec => []TypeOK
<1>1. IInv => TypeOK
  BY DEF IInv
<1> QED BY <1>1, Invariance, PTL

\* Results, errors and references never leak, share or delete twice what they
\* own on the heap (result.h, error.h, unique_ref.h).
THEOREM Ownership == Spec => []OneOwner
<1>1. IInv => OneOwner
  BY DEF IInv
<1> QED BY <1>1, Invariance, PTL

\* Value() and Error() meet null only in what was moved from, and end the
\* program only after an assignment has thrown (result.h).
THEOREM AccessIsSafe == Spec => []CheckedAccess
<1>1. IInv => CheckedAccess
  BY Accessing
<1> QED BY <1>1, Invariance, PTL
=============================================================================
