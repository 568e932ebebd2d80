------------------------ MODULE SmallFunctionProofs ------------------------
(***************************************************************************)
(* SmallFunction for any number of variables and callables.  The three     *)
(* invariants are inductive together: that policy_ tells the truth about   *)
(* the variable copied or moved from is what makes it do so for the new    *)
(* one, and that nothing spoilt is relied on is what spoilt is for.        *)
(***************************************************************************)
EXTENDS SmallFunction, TLAPS

IInv == TypeOK /\ Owned /\ CallsWhatItHolds

\* What is copied or moved is an object, if there is one.
LEMMA SameIsObject ==
  ASSUME TypeOK, NEW j \in Slot
  PROVE  Same(j) \in [of : Callable \cup {None},
                      is : {"dead", "whole", "moved", "garbage"}]
  BY DEF TypeOK, Same, Object, Dead

LEMMA Initially == Init => IInv
  BY DEF Init, IInv, TypeOK, Owned, CallsWhatItHolds, Dead

\* Making a variable, of nothing, of a callable, or of another variable.
LEMMA Making ==
  ASSUME IInv, NEW i \in Slot,
         \/ Default(i)
         \/ \E c \in Callable : Make(i, c)
         \/ \E j \in Slot : CopyConstruct(i, j)
  PROVE  IInv'
<1> USE DEF Begin, Becomes, Dead, Object
<1>1. CASE Default(i)
  BY <1>1 DEF Default, IInv, TypeOK, Owned, CallsWhatItHolds
<1>2. ASSUME NEW c \in Callable, Make(i, c) PROVE IInv'
  BY <1>2, SmallFunctionAssumption
     DEF Make, IInv, TypeOK, Owned, CallsWhatItHolds
<1>3. ASSUME NEW j \in Slot, CopyConstruct(i, j) PROVE IInv'
  <2>1. TypeOK'
    BY <1>3 DEF CopyConstruct, Same, IInv, TypeOK
  <2>2. Owned'
    BY <1>3 DEF CopyConstruct, Same, IInv, TypeOK, Owned
  <2>3. CallsWhatItHolds'
    BY <1>3 DEF CopyConstruct, Same, IInv, TypeOK, Owned, CallsWhatItHolds
  <2> QED BY <2>1, <2>2, <2>3 DEF IInv
<1> QED BY <1>1, <1>2, <1>3

\* What is moved takes its policy_ along and leaves one behind.
LEMMA Moving ==
  ASSUME IInv, NEW i \in Slot, NEW j \in Slot,
         MoveConstruct(i, j) \/ MoveAssign(i, j)
  PROVE  IInv'
<1> USE DEF Dead, Object
<1>1. CASE MoveConstruct(i, j)
  <2>1. TypeOK'
    BY <1>1, SameIsObject
       DEF MoveConstruct, Begin, Moved, CallerMoved, IInv, TypeOK
  <2>2. Owned'
    BY <1>1 DEF MoveConstruct, Begin, Moved, Same, IInv, TypeOK, Owned
  <2>3. CallsWhatItHolds'
    BY <1>1 DEF MoveConstruct, Begin, Moved, CallerMoved, Same, IInv, TypeOK,
                Owned, CallsWhatItHolds
  <2> QED BY <2>1, <2>2, <2>3 DEF IInv
<1>2. CASE MoveAssign(i, j) /\ i # j
  <2>1. TypeOK'
    <3>1. alive' \subseteq Slot /\ wrong' \subseteq Slot
      BY <1>2 DEF MoveAssign, Assign, IInv, TypeOK
    <3>2. spoilt' \subseteq Slot
      BY <1>2 DEF MoveAssign, Spoils, IInv, TypeOK
    <3>3. Moved(i, j)
      BY <1>2 DEF MoveAssign
    <3>4. /\ policy' \in [Slot -> Callable \cup {None}]
          /\ caller' \in [Slot -> Callable \cup {None}]
          /\ held' \in [Slot -> Callable \cup {None}]
      BY <3>3 DEF Moved, CallerMoved, IInv, TypeOK
    <3>5. object' \in [Slot -> [of : Callable \cup {None},
                               is : {"dead", "whole", "moved", "garbage"}]]
      BY <3>3, SameIsObject DEF Moved, IInv, TypeOK
    <3> QED BY <3>1, <3>2, <3>4, <3>5 DEF TypeOK
  <2>2. Owned'
    BY <1>2 DEF MoveAssign, Assign, Destructed, Misled, Moved, Same, Spoils,
                IInv, TypeOK, Owned
  <2>3. CallsWhatItHolds'
    BY <1>2 DEF MoveAssign, Assign, Moved, CallerMoved, Same, Spoils, IInv,
                TypeOK, Owned, CallsWhatItHolds
  <2> QED BY <2>1, <2>2, <2>3 DEF IInv
<1>3. CASE MoveAssign(i, j) /\ i = j
  <2>1. TypeOK'
    BY <1>3 DEF MoveAssign, Assign, Becomes, Spoils, IInv, TypeOK
  <2>2. Owned'
    BY <1>3 DEF MoveAssign, Assign, Destructed, Misled, Becomes, Spoils,
                IInv, TypeOK, Owned
  <2>3. CallsWhatItHolds'
    BY <1>3 DEF MoveAssign, Assign, Becomes, Spoils, IInv, TypeOK,
                CallsWhatItHolds
  <2> QED BY <2>1, <2>2, <2>3 DEF IInv
<1> QED BY <1>1, <1>2, <1>3

\* The other assignments, and the end.
LEMMA Assigning ==
  ASSUME IInv, NEW i \in Slot,
         \/ \E c \in Callable : AssignCallable(i, c) \/ AssignThrows(i, c)
         \/ \E j \in Slot : CopyAssign(i, j)
         \/ Destroy(i)
  PROVE  IInv'
<1> USE DEF Dead, Object, Becomes
<1>1. ASSUME NEW c \in Callable, AssignCallable(i, c) PROVE IInv'
  <2>1. TypeOK'
    BY <1>1 DEF AssignCallable, Assign, IInv, TypeOK
  <2>2. Owned' /\ CallsWhatItHolds'
    BY <1>1, SmallFunctionAssumption
       DEF AssignCallable, Assign, Destructed, Misled, IInv, TypeOK, Owned,
           CallsWhatItHolds
  <2> QED BY <2>1, <2>2 DEF IInv
<1>2. ASSUME NEW c \in Callable, AssignThrows(i, c) PROVE IInv'
  <2>1. TypeOK'
    BY <1>2 DEF AssignThrows, Assign, Spoils, IInv, TypeOK
  <2>2. Owned' /\ CallsWhatItHolds'
    BY <1>2 DEF AssignThrows, Assign, Spoils, IInv, TypeOK, Owned,
                CallsWhatItHolds
  <2> QED BY <2>1, <2>2 DEF IInv
<1>3. ASSUME NEW j \in Slot, CopyAssign(i, j) PROVE IInv'
  <2>1. TypeOK'
    <3>1. alive' \subseteq Slot /\ wrong' \subseteq Slot
      BY <1>3 DEF CopyAssign, Assign, IInv, TypeOK
    <3>2. spoilt' \subseteq Slot
      BY <1>3 DEF CopyAssign, Spoils, IInv, TypeOK
    <3>3. CASE i = j
      <4>1. /\ policy' = [policy EXCEPT ![i] = None]
            /\ object' = [object EXCEPT ![i] = Dead]
            /\ UNCHANGED <<caller, held>>
        BY <1>3, <3>3 DEF CopyAssign, IInv, TypeOK
      <4> QED BY <3>1, <3>2, <4>1 DEF IInv, TypeOK
    <3>4. CASE i # j
      <4> DEFINE o == IF policy[j] = None THEN Dead
                      ELSE Object(policy[j], "garbage")
      <4>1. /\ policy' = [policy EXCEPT ![i] = policy[j]]
            /\ caller' = [caller EXCEPT ![i] = caller[j]]
            /\ object' = [object EXCEPT ![i] = o]
            /\ held' = [held EXCEPT ![i] = held[j]]
        BY <1>3, <3>4 DEF CopyAssign
      <4>2. o \in [of : Callable \cup {None},
                  is : {"dead", "whole", "moved", "garbage"}]
        BY DEF IInv, TypeOK
      <4> HIDE DEF o
      <4> QED BY <3>1, <3>2, <4>1, <4>2 DEF IInv, TypeOK
    <3> QED BY <3>3, <3>4
  <2>2. Owned'
    BY <1>3 DEF CopyAssign, Assign, Destructed, Misled, Spoils, IInv, TypeOK,
                Owned, CallsWhatItHolds
  <2>3. CallsWhatItHolds'
    BY <1>3 DEF CopyAssign, Assign, Spoils, IInv, TypeOK, Owned,
                CallsWhatItHolds
  <2> QED BY <2>1, <2>2, <2>3 DEF IInv
<1>4. CASE Destroy(i)
  <2>1. TypeOK'
    BY <1>4 DEF Destroy, IInv, TypeOK
  <2>2. Owned' /\ CallsWhatItHolds'
    BY <1>4 DEF Destroy, Destructed, Misled, IInv, TypeOK, Owned,
                CallsWhatItHolds
  <2> QED BY <2>1, <2>2 DEF IInv
<1> QED BY <1>1, <1>2, <1>3, <1>4

LEMMA Stuttering == IInv /\ UNCHANGED vars => IInv'
  BY DEF IInv, TypeOK, Owned, CallsWhatItHolds, vars

LEMMA Invariance == Spec => []IInv
<1>1. Init => IInv
  BY Initially
<1>2. IInv /\ [Next]_vars => IInv'
  BY Making, Moving, Assigning, Stuttering DEF Next
<1> QED BY <1>1, <1>2, PTL DEF Spec

\* The variables keep their types.
THEOREM TypeCorrect == Spec => []TypeOK
<1>1. IInv => TypeOK
  BY DEF IInv
<1> QED BY <1>1, Invariance, PTL

\* policy_ tells what lives in data_, so that destruct() destroys each object
\* once (small_type_erased_base.h).
THEOREM DestroyedOnce == Spec => []Owned
<1>1. IInv => Owned
  BY DEF IInv
<1> QED BY <1>1, Invariance, PTL

\* caller_ tells what can be called, as for a std::function (small_function.h).
THEOREM ValueSemantics == Spec => []CallsWhatItHolds
<1>1. IInv => CallsWhatItHolds
  BY DEF IInv
<1> QED BY <1>1, Invariance, PTL
=============================================================================
