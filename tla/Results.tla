------------------------------ MODULE Results ------------------------------
(***************************************************************************)
(* Result (src/core/result.h) with what it is used to carry: Error         *)
(* (error.h), which owns its details, and UniqueRef (unique_ref.h), which  *)
(* owns its object.  Both own something on the heap; a Result that was     *)
(* moved from still says that it holds the one or the other, and what it   *)
(* holds has become null.                                                  *)
(*                                                                         *)
(* kind says which Result it is: "ref" is Result<UniqueRef<T>, Error>,     *)
(* "plain" is Result<V, Error> for a V that can be copied and whose copy   *)
(* and move may throw, "no_value" is Result<void, Error> and "no_error" is *)
(* Result<V, void>.  Users check which one they have, by Value() or Ok(),  *)
(* and move from a result only to use what they took.                      *)
(***************************************************************************)
EXTENDS FiniteSets

CONSTANTS
  Slot,   \* the variables of type Result
  Obj,    \* the objects on the heap, owned or free
  Null

ASSUME ResultsAssumption == Null \notin Obj

VARIABLES
  kind,
  is,       \* what each variable holds
  ptr,      \* ptr_ of the UniqueRef, details_ of the Error it holds
  used,     \* the objects that have been made and not deleted
  user,     \* the objects that users own themselves
  moved,    \* ghost: the variables moved from and not assigned since
  crashed   \* has a null pointer been followed?

vars == <<kind, is, ptr, used, user, moved, crashed>>

Kinds == {"ref", "plain", "no_value", "no_error"}

\* "no_variable" before and after its life.
Holding == {"value", "error"}

Init ==
  /\ kind \in Kinds
  /\ is = [i \in Slot |-> "no_variable"]
  /\ ptr = [i \in Slot |-> Null]
  /\ used = {} /\ user = {} /\ moved = {}
  /\ crashed = FALSE

Alive(i) == is[i] # "no_variable"

\* Does this alternative own something on the heap?
Owns(alternative) ==
  \/ alternative = "value" /\ kind = "ref"
  \/ alternative = "error" /\ kind # "no_error"

\* delete of what i points to; deleting null does nothing.
Without(i) == used \ {ptr[i]}

\* i becomes what it says, after what it owned has been deleted; o is new.
Store(i, alternative, o) ==
  /\ is' = [is EXCEPT ![i] = alternative]
  /\ ptr' = [ptr EXCEPT ![i] = o]
  /\ used' = Without(i) \cup ({o} \ {Null})
  /\ moved' = moved \ {i}

Fresh(alternative) == IF Owns(alternative) THEN Obj \ used ELSE {Null}
-----------------------------------------------------------------------------
\* The constructors of Result.
Construct(i, alternative) ==
  /\ ~Alive(i)
  /\ \E o \in Fresh(alternative) : Store(i, alternative, o)
  /\ UNCHANGED <<user, crashed>>

\* UniqueRef<T>(*new T), or a value; TCPP_MAKE_ERROR.
MakeValue(i) == Construct(i, "value")

MakeError(i) == Construct(i, "error")

\* make_noexcept_impl: what the call returns, or an error with what it throws.
MakeNoexcept(i) == MakeValue(i) \/ MakeError(i)

\* Result(Result const&), operator=(Result const&): the details are cloned,
\* by a call through details_.  UniqueRef cannot be copied.
Copyable(j) == kind # "ref" /\ Alive(j)

\* A slip: the copy shares the details.
Shared(j) == {ptr[j]}

Cloned(j) == Fresh(is[j])

CopyTo(i, j) ==
  \/ /\ Owns(is[j]) => ptr[j] # Null
     /\ \E o \in Cloned(j) : Store(i, is[j], o)
     /\ UNCHANGED crashed
  \/ /\ Owns(is[j]) /\ ptr[j] = Null
     /\ crashed' = TRUE
     /\ UNCHANGED <<is, ptr, used, moved>>

CopyConstruct(i, j) ==
  ~Alive(i) /\ Copyable(j) /\ CopyTo(i, j) /\ UNCHANGED user

\* A variable assigned to itself keeps its value, and its error is replaced
\* by a clone.
CopyAssign(i, j) ==
  Alive(i) /\ Copyable(j) /\ CopyTo(i, j) /\ UNCHANGED user

\* A slip: what i owned is not deleted.
Kept(i) == used

DeletedOf(i) == Without(i)

\* i takes over what j points to, and j keeps its alternative, with nothing
\* in it.
MoveTo(i, j) ==
  /\ is' = [is EXCEPT ![i] = is[j]]
  /\ ptr' = [ptr EXCEPT ![i] = ptr[j], ![j] = Null]
  /\ used' = DeletedOf(i)
  /\ moved' = IF j \in moved THEN moved \cup {i} ELSE (moved \ {i}) \cup {j}
  /\ UNCHANGED <<user, crashed>>

MoveConstruct(i, j) == ~Alive(i) /\ Alive(j) /\ MoveTo(i, j)

\* Both UniqueRef and unique_ptr survive being moved to themselves.
MoveAssign(i, j) ==
  /\ Alive(i) /\ Alive(j)
  /\ \/ i # j /\ MoveTo(i, j)
     \/ i = j /\ UNCHANGED <<is, ptr, used, user, moved, crashed>>

\* The copy or the move of a value throws during an assignment: the variant
\* has destroyed its error by then, and holds nothing.  An optional still
\* holds none, and a value assigned to a value leaves a value.
AssignThrows(i, j) ==
  /\ kind = "plain" /\ i # j
  /\ is[i] \in {"error", "valueless"} /\ is[j] = "value"
  /\ Store(i, "valueless", Null)
  /\ UNCHANGED <<user, crashed>>

\* What follows std::move(r).ValueUnsafe() and ErrorUnsafe(): the user keeps
\* what the result held.  UniqueRef::release() does the same.
Take(i) ==
  /\ is[i] \in Holding /\ i \notin moved
  /\ user' = user \cup ({ptr[i]} \ {Null})
  /\ ptr' = [ptr EXCEPT ![i] = Null]
  /\ moved' = moved \cup {i}
  /\ UNCHANGED <<is, used, crashed>>

\* A slip: what was deleted is still owned.
DroppedStill(o) ==
  /\ o \in user
  /\ used' = used \ {o}
  /\ UNCHANGED <<is, ptr, user, moved, crashed>>

\* The user is done with it.
Drop(o) ==
  /\ o \in user
  /\ user' = user \ {o} /\ used' = used \ {o}
  /\ UNCHANGED <<is, ptr, moved, crashed>>

Destroy(i) ==
  /\ Alive(i)
  /\ Store(i, "no_variable", Null)
  /\ UNCHANGED <<user, crashed>>

Next ==
  /\ ~crashed /\ UNCHANGED kind
  /\ \/ \E i \in Slot :
          \/ MakeNoexcept(i)
          \/ Take(i) \/ Destroy(i)
          \/ \E j \in Slot : \/ CopyConstruct(i, j) \/ CopyAssign(i, j)
                             \/ MoveConstruct(i, j) \/ MoveAssign(i, j)
                             \/ AssignThrows(i, j)
     \/ \E o \in Obj : Drop(o)

Spec == Init /\ [][Next]_vars
-----------------------------------------------------------------------------
HasValue(i) == is[i] = "value"

HasError(i) == is[i] = "error"

\* UniqueRef::get() and its like follow ptr_; so do Error's getters details_.
Get(i) == IF Owns("value") /\ ptr[i] = Null THEN "null" ELSE "value"

Details(i) == IF Owns("error") /\ ptr[i] = Null THEN "null" ELSE "error"

\* A slip: there is no check, as in ValueUnsafe().
ValueUnchecked(i) == IF HasValue(i) THEN Get(i) ELSE "ends the program"

\* Value() and Error(), and what one does next.  The getters behind them are
\* noexcept and complain of a variant that holds something else.
Value(i) ==
  IF HasError(i) THEN "throws"
  ELSE IF HasValue(i) THEN Get(i) ELSE "ends the program"

Error(i) ==
  IF HasValue(i) THEN "throws"
  ELSE IF HasError(i) THEN Details(i) ELSE "ends the program"

\* Value() of Result<T, void> and Error() of Result<void, E>, which are
\* optionals.
ValueOrNothing(i) == IF HasValue(i) THEN Get(i) ELSE "throws"

ErrorOrNothing(i) == IF HasError(i) THEN Details(i) ELSE "throws"

Answers(i) == CASE kind = "no_error" -> {ValueOrNothing(i)}
                [] kind = "no_value" -> {ErrorOrNothing(i)}
                [] OTHER -> {Value(i), Error(i)}
-----------------------------------------------------------------------------
TypeOK ==
  /\ kind \in Kinds
  /\ is \in [Slot -> {"no_variable", "value", "error", "valueless"}]
  /\ ptr \in [Slot -> Obj \cup {Null}]
  /\ used \subseteq Obj
  /\ user \subseteq used
  /\ moved \subseteq Slot
  /\ crashed \in BOOLEAN

\* Whatever is copied, moved, assigned and dropped, each object on the heap
\* has one owner for as long as it lives: nothing leaks, is deleted twice, or
\* is reached by a variable after it was deleted.
OneOwner ==
  /\ used = user \cup {ptr[i] : i \in {j \in Slot : ptr[j] # Null}}
  /\ \A i, j \in Slot : ptr[i] # Null => /\ i # j => ptr[i] # ptr[j]
                                         /\ ptr[i] \notin user

\* Value() and Error() answer or throw std::logic_error.  They meet a null
\* pointer only in what was moved from, and end the program only when the
\* assignment of a value has thrown; copying is as safe.
CheckedAccess ==
  /\ \A i \in Slot : Alive(i) =>
       /\ "null" \in Answers(i) => i \in moved
       /\ "ends the program" \in Answers(i) => is[i] = "valueless"
  /\ crashed => moved # {}
=============================================================================
