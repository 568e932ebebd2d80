--------------------------- MODULE SmallFunction ---------------------------
(***************************************************************************)
(* SmallFunction and SmallTypeErasedBase of src/core: a callable of any    *)
(* type kept inside the variable that holds it, with two pointers beside   *)
(* it: policy_ knows how to copy, move and destroy the callable, caller_   *)
(* how to call it.  The bytes of data_ do not know whether an object lives *)
(* in them: everything rests on the two pointers telling the truth.        *)
(*                                                                         *)
(* Ghosts: held is the callable that a std::function treated alike would   *)
(* hold; spoilt are the variables that met one of two operations that the  *)
(* class does not survive.  These are the assignment of a copy, which      *)
(* copies from its own destroyed object, and any assignment whose          *)
(* constructor throws, since policy_ has been set before.                  *)
(***************************************************************************)
EXTENDS FiniteSets

CONSTANTS
  Slot,       \* the variables
  Callable,   \* the callables; each has a type of its own, like a lambda
  None        \* a null pointer

ASSUME SmallFunctionAssumption == None \notin Callable

VARIABLES
  alive,    \* the variables within their lifetime
  policy,   \* policy_, as the type that it manages
  caller,   \* caller_, as the type that it calls
  object,   \* what lives in data_
  held, spoilt,
  wrong     \* ghost: where an object was destroyed twice, or overwritten

vars == <<alive, policy, caller, object, held, spoilt, wrong>>

\* An object has been destroyed or never made; or it is one of a type, and
\* whole, or moved from, or made from the bytes of a destroyed one.
Dead == [of |-> None, is |-> "dead"]

Object(t, state) == [of |-> t, is |-> state]

Init ==
  /\ alive = {}
  /\ policy = [i \in Slot |-> None]
  /\ caller = [i \in Slot |-> None]
  /\ object = [i \in Slot |-> Dead]
  /\ held = [i \in Slot |-> None]
  /\ spoilt = {}
  /\ wrong = {}

\* A variable that is assigned to runs destruct() first.  It must find an
\* object exactly when there is one.
Misled(i) == (policy[i] # None) # (object[i].is \in {"whole", "moved"})

\* A slip: what was there is not destroyed.
NotDestructed(i) == object[i].is # "dead"

\* destruct(): does it go wrong?
Destructed(i) == Misled(i)
-----------------------------------------------------------------------------
\* i now has these members, with what they ought to say.
Becomes(i, p, c, o, h) ==
  /\ policy' = [policy EXCEPT ![i] = p]
  /\ caller' = [caller EXCEPT ![i] = c]
  /\ object' = [object EXCEPT ![i] = o]
  /\ held' = [held EXCEPT ![i] = h]

\* A variable begins to live, and with it a clean record.
Begin(i) ==
  /\ i \notin alive
  /\ alive' = alive \cup {i}
  /\ wrong' = wrong \ {i}

Spoils(i, B) == spoilt' = IF B THEN spoilt \cup {i} ELSE spoilt

\* A slip: policy_ has no initializer.
Uninitialized(i) ==
  /\ Begin(i)
  /\ Becomes(i, "anything", None, Dead, None)
  /\ spoilt' = spoilt \ {i}

\* SmallFunction(), and SmallFunction(F&&).  When the constructor of the
\* callable throws there is no variable, and nothing has happened.
Default(i) ==
  /\ Begin(i)
  /\ Becomes(i, None, None, Dead, None)
  /\ spoilt' = spoilt \ {i}

Make(i, c) ==
  /\ Begin(i)
  /\ Becomes(i, c, c, Object(c, "whole"), c)
  /\ spoilt' = spoilt \ {i}

\* What a copy of an object of type t in state is turns out to be; a callable
\* that was moved from can be copied and moved again.
Same(i) ==
  IF policy[i] = None THEN Dead
  ELSE Object(policy[i], IF object[i].is = "dead" THEN "garbage"
                         ELSE object[i].is)

CopyConstruct(i, j) ==
  /\ j \in alive /\ Begin(i)
  /\ Becomes(i, policy[j], caller[j], Same(j), held[j])
  /\ spoilt' = IF j \in spoilt THEN spoilt \cup {i} ELSE spoilt \ {i}

\* A slip: the variable moved from can still be called.
StillCallable(i, j) == [caller EXCEPT ![i] = caller[j]]

CallerMoved(i, j) == [caller EXCEPT ![i] = caller[j], ![j] = None]

\* The callable of j is moved to i; j keeps policy_, so that what is left of
\* the callable is destroyed in time, and loses caller_.
Moved(i, j) ==
  /\ policy' = [policy EXCEPT ![i] = policy[j]]
  /\ object' = [object EXCEPT ![i] = Same(j),
                              ![j] = IF policy[j] = None THEN @
                                     ELSE Object(policy[j], "moved")]
  /\ caller' = CallerMoved(i, j)
  /\ held' = [held EXCEPT ![i] = held[j], ![j] = None]

MoveConstruct(i, j) ==
  /\ j \in alive /\ Begin(i)
  /\ Moved(i, j)
  /\ spoilt' = IF j \in spoilt THEN spoilt \cup {i} ELSE spoilt \ {i}

\* The assignments begin with the destruction of what is there.
Assign(i) ==
  /\ i \in alive
  /\ wrong' = IF Destructed(i) THEN wrong \cup {i} ELSE wrong
  /\ UNCHANGED alive

\* operator=(SmallFunction const&): the copy is made from data_ of *this,
\* which has just been destroyed, and not from data_ of r.  When both are the
\* same variable policy_ is null by then, and caller_ stays.
CopyAssign(i, j) ==
  /\ j \in alive /\ Assign(i)
  /\ \/ /\ i = j
        /\ Becomes(i, None, caller[i], Dead, held[i])
     \/ /\ i # j
        /\ Becomes(i, policy[j], caller[j],
                   IF policy[j] = None THEN Dead
                   ELSE Object(policy[j], "garbage"),
                   held[j])
  /\ Spoils(i, j \in spoilt \/ (IF i = j THEN caller[i] ELSE policy[j]) # None)

\* operator=(SmallFunction&&).  A variable moved to itself is empty then.
MoveAssign(i, j) ==
  /\ j \in alive /\ Assign(i)
  /\ \/ i = j /\ Becomes(i, None, None, Dead, None)
     \/ i # j /\ Moved(i, j)
  /\ Spoils(i, j \in spoilt)

\* operator=(F&&), by way of a temporary variable that is moved from and
\* destroyed.
AssignCallable(i, c) ==
  /\ Assign(i)
  /\ Becomes(i, c, c, Object(c, "whole"), c)
  /\ UNCHANGED spoilt

\* Any assignment whose copy or move throws, of a callable of type c: that of
\* another variable, or the one in the temporary variable.
AssignThrows(i, c) ==
  /\ Assign(i)
  /\ Becomes(i, c, caller[i], Dead, held[i])
  /\ Spoils(i, TRUE)

\* ~SmallFunction and ~SmallTypeErasedBase.
Destroy(i) ==
  /\ i \in alive
  /\ alive' = alive \ {i}
  /\ wrong' = IF Destructed(i) THEN wrong \cup {i} ELSE wrong
  /\ Becomes(i, None, None, Dead, None)
  /\ UNCHANGED spoilt

Next ==
  \E i \in Slot :
    \/ Default(i) \/ Destroy(i)
    \/ \E c \in Callable : Make(i, c) \/ AssignCallable(i, c)
                             \/ AssignThrows(i, c)
    \/ \E j \in Slot : \/ CopyConstruct(i, j) \/ MoveConstruct(i, j)
                       \/ CopyAssign(i, j) \/ MoveAssign(i, j)

Spec == Init /\ [][Next]_vars
-----------------------------------------------------------------------------
TypeOK ==
  /\ alive \subseteq Slot
  /\ policy \in [Slot -> Callable \cup {None}]
  /\ caller \in [Slot -> Callable \cup {None}]
  /\ object \in [Slot -> [of : Callable \cup {None},
                          is : {"dead", "whole", "moved", "garbage"}]]
  /\ held \in [Slot -> Callable \cup {None}]
  /\ spoilt \subseteq Slot
  /\ wrong \subseteq Slot

\* policy_ tells whether there is an object, and of which type: nothing is
\* destroyed twice or overwritten by an assignment, and a variable that ends
\* leaves nothing behind.  It is so whatever was moved to where, a variable
\* to itself and one moved from included, but for the variables spoilt.
Owned ==
  \A i \in Slot \ spoilt :
    /\ i \notin wrong
    /\ policy[i] = object[i].of
    /\ (policy[i] # None) = (object[i].is \in {"whole", "moved"})
    /\ i \notin alive => policy[i] = None

\* A variable can be called when and only when a std::function could, and the
\* callable is the same, whole, and of the type that caller_ expects.
CallsWhatItHolds ==
  \A i \in alive \ spoilt :
    /\ caller[i] = held[i]
    /\ caller[i] # None => object[i] = Object(caller[i], "whole")
=============================================================================
