--------------------------- MODULE SpscPoolProofs ---------------------------
(***************************************************************************)
(* A message of the pools of SpscPool has one owner at most, for every     *)
(* number and size of the pools and every capacity of the queue.           *)
(***************************************************************************)
EXTENDS SpscPool, FiniteSetTheorems, TLAPS

\* The producer looks for a message only when it holds none.
ScansEmptyHanded == at # 0 => msg = NoMsg

Inv == TypeOK /\ ScansEmptyHanded /\ OwnedOnce

\* A message is a pool and a place in that pool; the null pointer is none.
LEMMA Messages ==
  /\ \A p \in 0 .. NPools - 1 : \A k \in 1 .. PoolSize[p] : <<p, k>> \in Msg
  /\ NoMsg \notin Msg
<1>1. \A p \in 0 .. NPools - 1 : \A k \in 1 .. PoolSize[p] : <<p, k>> \in Msg
  BY DEF Msg
<1>2. ASSUME NEW p \in 0 .. NPools - 1, NEW m \in {p} \X (1 .. PoolSize[p])
      PROVE  m # NoMsg
  <2>1. PoolSize[p] \in Nat
    BY SpscAssumption
  <2>2. m \in (0 .. NPools - 1) \X (Nat \ {0})
    BY <2>1
  <2> QED
    BY <2>2, SpscAssumption
<1> QED
  BY <1>1, <1>2 DEF Msg

\* The program starts with every message in its pool.
LEMMA InitInv == Init => Inv
<1> SUFFICES ASSUME Init PROVE Inv
  OBVIOUS
<1>1. queue = <<>> /\ DOMAIN queue = {}
  BY DEF Init
<1>2. TypeOK
  <2>1. 0 \in 0 .. NPools - 1 /\ 0 \in 0 .. PoolSize[0] + 1
    BY SpscAssumption
  <2>2. queue \in Seq(Msg) /\ Len(queue) <= QueueCapacity
    BY <1>1, SpscAssumption
  <2>3. in_use \in [Msg -> BOOLEAN]
    BY DEF Init
  <2> QED
    BY <2>1, <2>2, <2>3 DEF Init, TypeOK
<1>3. ScansEmptyHanded
  BY DEF Init, ScansEmptyHanded
<1>4. OwnedOnce
  <2>1. \A n \in Msg : n # NoMsg /\ ~in_use[n]
    BY Messages DEF Init
  <2> QED
    BY <1>1, <2>1 DEF Init, OwnedOnce, Queued
<1> QED
  BY <1>2, <1>3, <1>4 DEF Inv

\* The place the producer looks at is a message of its pool.
LEMMA ScannedIsMsg ==
  ASSUME Inv, at \in 1 .. PoolSize[i]
  PROVE  <<i, at>> \in Msg
  BY Messages DEF Inv, TypeOK

\* Entering the scan, and passing over a message, touch no flag.
LEMMA ScanInv ==
  ASSUME Inv, Allocate \/ Skip
  PROVE  Inv'
<1>1. at' \in 0 .. PoolSize[i] + 1
  BY SpscAssumption DEF Inv, TypeOK, Allocate, Skip
<1>2. UNCHANGED <<i, msg, queue, got, in_use, crashed>> /\ msg = NoMsg
  BY SpscAssumption DEF Inv, ScansEmptyHanded, Allocate, Skip
<1> QED
  BY <1>1, <1>2 DEF Inv, TypeOK, ScansEmptyHanded, OwnedOnce, Queued

\* A message is taken when its flag is clear, so nobody else has it.
LEMMA ClaimInv ==
  ASSUME Inv, Claim
  PROVE  Inv'
<1> DEFINE m == <<i, at>>
<1>1. m \in Msg /\ m # NoMsg
  BY ScannedIsMsg, Messages DEF Claim
<1>2. msg = NoMsg /\ msg' = m
  BY SpscAssumption DEF Claim, Inv, ScansEmptyHanded
<1>3. UNCHANGED <<queue, got, crashed>> /\ at' = 0
  BY DEF Claim
<1>4. in_use' = [in_use EXCEPT ![m] = TRUE] /\ ~in_use[m]
  BY DEF Claim
<1>5. ~Queued(m) /\ m # got
  BY <1>1, <1>4 DEF Inv, OwnedOnce
<1>6. i' \in 0 .. NPools - 1
  BY SpscAssumption DEF Claim, Inv, TypeOK
<1> HIDE DEF m
<1>7. TypeOK'
  BY <1>1, <1>2, <1>3, <1>4, <1>6, SpscAssumption DEF Inv, TypeOK
<1>8. ScansEmptyHanded'
  BY <1>3 DEF ScansEmptyHanded
<1>9. OwnedOnce'
  <2>1. \A n \in Msg : in_use'[n] <=> (n = m \/ in_use[n])
    BY <1>1, <1>4 DEF Inv, TypeOK
  <2>2. \A n \in Msg : in_use[n] <=> (n = got \/ Queued(n))
    BY <1>2, Messages DEF Inv, OwnedOnce
  <2> QED
    BY <1>2, <1>3, <1>5, <2>1, <2>2 DEF Inv, OwnedOnce, Queued
<1> QED
  BY <1>7, <1>8, <1>9 DEF Inv

\* Running off the end of a pool changes nothing but the fate of the thread.
LEMMA ExhaustedInv ==
  ASSUME Inv, Exhausted
  PROVE  Inv'
  BY DEF Inv, TypeOK, ScansEmptyHanded, OwnedOnce, Queued, Exhausted

\* The message goes to the end of the queue or back to its pool.
LEMMA PushInv ==
  ASSUME Inv, Push
  PROVE  Inv'
<1>1. /\ msg \in Msg /\ msg # NoMsg /\ msg' = NoMsg
      /\ UNCHANGED <<i, at, got, crashed>>
  BY DEF Push, Inv, TypeOK
<1>2. ScansEmptyHanded'
  BY <1>1 DEF ScansEmptyHanded
<1>3. ~Queued(msg) /\ msg # got
  BY <1>1 DEF Inv, OwnedOnce
<1>4. CASE /\ Len(queue) < QueueCapacity
           /\ queue' = Append(queue, msg)
           /\ UNCHANGED in_use
  <2>1. queue' \in Seq(Msg) /\ Len(queue') = Len(queue) + 1
    BY <1>1, <1>4 DEF Inv, TypeOK
  <2>2. \A k \in DOMAIN queue' :
          \/ k \in DOMAIN queue /\ queue'[k] = queue[k]
          \/ k = Len(queue) + 1 /\ queue'[k] = msg
    BY <1>1, <1>4 DEF Inv, TypeOK
  <2>3. \A k \in DOMAIN queue : k \in DOMAIN queue' /\ queue'[k] = queue[k]
    BY <1>1, <1>4 DEF Inv, TypeOK
  <2>4. Len(queue) + 1 \in DOMAIN queue' /\ queue'[Len(queue) + 1] = msg
    BY <1>1, <1>4 DEF Inv, TypeOK
  <2>5. \A n : Queued(n)' <=> (Queued(n) \/ n = msg)
    BY <2>2, <2>3, <2>4 DEF Queued
  <2>6. \A j, k \in DOMAIN queue' : queue'[j] = queue'[k] => j = k
    BY <1>3, <2>2 DEF Inv, OwnedOnce, Queued
  <2>7. TypeOK'
    BY <1>1, <1>4, <2>1, SpscAssumption DEF Inv, TypeOK
  <2>8. OwnedOnce'
    <3>1. \A n \in Msg : n # NoMsg
      BY Messages
    <3>2. got' # NoMsg => ~Queued(got)'
      BY <1>1, <1>3, <2>5 DEF Inv, OwnedOnce
    <3>3. \A n \in Msg :
            in_use'[n] <=> (n = msg' \/ n = got' \/ Queued(n)')
      BY <1>1, <1>4, <2>5, <3>1 DEF Inv, OwnedOnce
    <3> QED
      BY <1>1, <2>6, <3>2, <3>3 DEF OwnedOnce, Queued
  <2> QED
    BY <1>2, <2>7, <2>8 DEF Inv
<1>5. CASE in_use' = Dropped(in_use, msg) /\ UNCHANGED queue
  <2>1. \A n \in Msg : in_use'[n] <=> (n # msg /\ in_use[n])
    BY <1>1, <1>5 DEF Inv, TypeOK, Dropped
  <2>2. TypeOK'
    BY <1>1, <1>5, SpscAssumption DEF Inv, TypeOK, Dropped
  <2>3. OwnedOnce'
    BY <1>1, <1>3, <1>5, <2>1, Messages
       DEF Inv, OwnedOnce, Queued
  <2> QED
    BY <1>2, <2>2, <2>3 DEF Inv
<1> QED
  BY <1>4, <1>5 DEF Push, Room

\* The message at the front changes hands.
LEMMA PopInv ==
  ASSUME Inv, Pop
  PROVE  Inv'
<1>1. /\ got = NoMsg /\ queue # <<>> /\ queue \in Seq(Msg)
      /\ got' = queue[1] /\ queue' = Tail(queue)
      /\ UNCHANGED <<i, at, msg, in_use, crashed>>
  BY DEF Pop, Popped, Inv, TypeOK
<1>2. 1 \in DOMAIN queue /\ queue[1] \in Msg
  BY <1>1
<1>3. /\ queue' \in Seq(Msg) /\ Len(queue') = Len(queue) - 1
      /\ \A k \in DOMAIN queue' :
           k + 1 \in DOMAIN queue /\ queue'[k] = queue[k + 1] /\ k \in Nat
  BY <1>1
<1>4. \A k \in DOMAIN queue : k # 1 =>
         k - 1 \in DOMAIN queue' /\ queue'[k - 1] = queue[k]
  BY <1>1
<1>5. ~Queued(got)'
  BY <1>1, <1>2, <1>3 DEF Queued, Inv, OwnedOnce
<1>6. \A n : Queued(n) <=> (n = got' \/ Queued(n)')
  <2> SUFFICES ASSUME NEW n
               PROVE  Queued(n) <=> (n = got' \/ Queued(n)')
    OBVIOUS
  <2>1. ASSUME NEW k \in DOMAIN queue, queue[k] = n
        PROVE  n = got' \/ \E j \in DOMAIN queue' : queue'[j] = n
    <3>1. CASE k = 1
      BY <1>1, <2>1, <3>1
    <3>2. CASE k # 1
      BY <1>4, <2>1, <3>2
    <3> QED
      BY <3>1, <3>2
  <2>2. ASSUME NEW k \in DOMAIN queue', queue'[k] = n
        PROVE  \E j \in DOMAIN queue : queue[j] = n
    BY <1>3, <2>2
  <2>3. n = got' => \E j \in DOMAIN queue : queue[j] = n
    BY <1>1, <1>2
  <2> QED
    BY <2>1, <2>2, <2>3 DEF Queued
<1>7. TypeOK'
  BY <1>1, <1>2, <1>3, SpscAssumption DEF Inv, TypeOK
<1>8. ScansEmptyHanded'
  BY <1>1 DEF Inv, ScansEmptyHanded
<1>9. OwnedOnce'
  <2>1. \A j, k \in DOMAIN queue' : queue'[j] = queue'[k] => j = k
    <3> SUFFICES ASSUME NEW j \in DOMAIN queue', NEW k \in DOMAIN queue',
                        queue'[j] = queue'[k]
                 PROVE  j = k
      OBVIOUS
    <3>1. j + 1 = k + 1
      BY <1>3 DEF Inv, OwnedOnce
    <3> QED
      BY <1>3, <3>1
  <2>2. msg' # NoMsg => ~Queued(msg)' /\ msg' # got'
    BY <1>1, <1>6 DEF Inv, OwnedOnce
  <2>3. \A n \in Msg : n # NoMsg
    BY Messages
  <2>4. \A n \in Msg :
          in_use'[n] <=> (n = msg' \/ n = got' \/ Queued(n)')
    BY <1>1, <1>6, <2>3 DEF Inv, OwnedOnce
  <2> QED
    BY <1>5, <2>1, <2>2, <2>4 DEF OwnedOnce, Queued
<1> QED
  BY <1>7, <1>8, <1>9 DEF Inv

\* The message goes back to its pool.
LEMMA DropInv ==
  ASSUME Inv, Drop
  PROVE  Inv'
<1>1. /\ got \in Msg /\ got # NoMsg /\ got' = NoMsg
      /\ in_use' = [in_use EXCEPT ![got] = FALSE]
      /\ UNCHANGED <<i, at, msg, queue, crashed>>
  BY DEF Drop, Dropped, Inv, TypeOK
<1>2. \A n \in Msg : in_use'[n] <=> (n # got /\ in_use[n])
  BY <1>1 DEF Inv, TypeOK
<1>3. ~Queued(got) /\ msg # got
  BY <1>1 DEF Inv, OwnedOnce
<1>4. TypeOK'
  BY <1>1, SpscAssumption DEF Inv, TypeOK
<1>5. ScansEmptyHanded'
  BY <1>1 DEF Inv, ScansEmptyHanded
<1>6. OwnedOnce'
  BY <1>1, <1>2, <1>3, Messages DEF Inv, OwnedOnce, Queued
<1> QED
  BY <1>4, <1>5, <1>6 DEF Inv

\* Every step keeps the invariant.
LEMMA NextInv == Inv /\ [Next]_vars => Inv'
<1> SUFFICES ASSUME Inv, [Next]_vars PROVE Inv'
  OBVIOUS
<1>1. CASE Allocate \/ Skip
  BY <1>1, ScanInv
<1>2. CASE Claim
  BY <1>2, ClaimInv
<1>3. CASE Exhausted
  BY <1>3, ExhaustedInv
<1>4. CASE Push
  BY <1>4, PushInv
<1>5. CASE Pop
  BY <1>5, PopInv
<1>6. CASE Drop
  BY <1>6, DropInv
<1>7. CASE UNCHANGED vars
  BY <1>7 DEF Inv, TypeOK, ScansEmptyHanded, OwnedOnce, Queued, vars
<1> QED
  BY <1>1, <1>2, <1>3, <1>4, <1>5, <1>6, <1>7 DEF Next, Producer, Consumer

LEMMA Invariance == Spec => []Inv
  BY InitInv, NextInv, PTL DEF Spec

\* The variables keep their types, the bound of the queue included.
THEOREM TypeCorrect == Spec => []TypeOK
<1>1. Inv => TypeOK
  BY DEF Inv
<1> QED BY <1>1, Invariance, PTL

\* A message is never handed out while somebody has it, and none leaks: its
\* flag is clear exactly when neither thread and no place of the queue holds
\* it, whatever the two threads' pace.
THEOREM SingleOwner == Spec => []OwnedOnce
<1>1. Inv => OwnedOnce
  BY DEF Inv
<1> QED BY <1>1, Invariance, PTL
-----------------------------------------------------------------------------
(***************************************************************************)
(* Why the end of a large pool is not reached: while the producer scans it *)
(* nothing is pushed, so that what it has passed over and what is in use   *)
(* ahead of it were all in the queue, or with the consumer, when the scan  *)
(* began.                                                                  *)
(***************************************************************************)
Ahead == {m \in Msg : m[1] = i /\ at <= m[2] /\ in_use[m]}

ScanBound ==
  at # 0 => /\ IsFiniteSet(Ahead)
            /\ at - 1 + Cardinality(Ahead) <= QueueCapacity + 1

CountInv == Inv /\ ScanBound /\ NeverExhausted

\* A producer that holds nothing leaves at most one message more in use than
\* the queue can hold.
LEMMA FewInUse ==
  ASSUME Inv, msg = NoMsg
  PROVE  LET used == {m \in Msg : in_use[m]}
         IN  IsFiniteSet(used) /\ Cardinality(used) <= QueueCapacity + 1
<1> DEFINE used == {m \in Msg : in_use[m]}
           n == Len(queue) + 1
           owners == {queue[k] : k \in 1 .. Len(queue)} \cup {got}
           owner == [k \in 1 .. n |-> IF k = n THEN got ELSE queue[k]]
<1>1. n \in Nat /\ Len(queue) \in Nat /\ n <= QueueCapacity + 1
      /\ DOMAIN queue = 1 .. Len(queue)
  BY SpscAssumption DEF Inv, TypeOK
<1>2. owner \in Surjection(1 .. n, owners)
  <2>1. owner \in [1 .. n -> owners]
    BY <1>1
  <2>2. ASSUME NEW m \in owners
        PROVE  \E k \in 1 .. n : owner[k] = m
    <3>1. CASE m = got
      <4>1. n \in 1 .. n /\ owner[n] = got
        BY <1>1
      <4>. QED
        BY <3>1, <4>1
    <3>2. ASSUME NEW k \in 1 .. Len(queue), m = queue[k]
          PROVE  \E j \in 1 .. n : owner[j] = m
      <4>1. k \in 1 .. n /\ owner[k] = queue[k]
        BY <1>1
      <4>. QED
        BY <3>2, <4>1
    <3>. QED
      BY <3>1, <3>2
  <2>. QED
    BY <2>1, <2>2 DEF Surjection
<1>3. ExistsSurjection(1 .. n, owners)
  BY <1>2 DEF ExistsSurjection
<1> HIDE DEF n, owners, owner
<1>4. IsFiniteSet(owners) /\ Cardinality(owners) <= n
  BY <1>1, <1>3, FS_NatSurjection, FS_SurjCardinalityBound
<1>5. used \in SUBSET owners
  BY <1>1, Messages DEF Inv, OwnedOnce, Queued, owners
<1>6. IsFiniteSet(used) /\ Cardinality(used) <= Cardinality(owners)
  BY <1>4, <1>5, FS_Subset
<1>7. Cardinality(used) \in Nat /\ Cardinality(owners) \in Nat
  BY <1>4, <1>6, FS_CardinalityType
<1>. QED
  BY <1>1, <1>4, <1>6, <1>7, SpscAssumption

\* A set that is not larger satisfies the bound at the same place.
LEMMA FewerAhead ==
  ASSUME Inv, ScanBound, at # 0, at' = at, Ahead' \in SUBSET Ahead
  PROVE  ScanBound'
<1>1. IsFiniteSet(Ahead') /\ Cardinality(Ahead') <= Cardinality(Ahead)
  BY FS_Subset DEF ScanBound
<1>2. Cardinality(Ahead) \in Nat /\ Cardinality(Ahead') \in Nat /\ at \in Nat
  BY <1>1, FS_CardinalityType, SpscAssumption DEF ScanBound, Inv, TypeOK
<1>. QED
  BY <1>1, <1>2, SpscAssumption DEF ScanBound

\* The scan begins with no more in use than the queue and the consumer have.
LEMMA AllocateBound ==
  ASSUME CountInv, Allocate
  PROVE  ScanBound'
<1> DEFINE used == {m \in Msg : in_use[m]}
<1>1. IsFiniteSet(used) /\ Cardinality(used) <= QueueCapacity + 1
  BY FewInUse DEF CountInv, Allocate
<1>2. Ahead' \in SUBSET used /\ at' = 1
  BY DEF Ahead, Allocate
<1>3. IsFiniteSet(Ahead') /\ Cardinality(Ahead') <= Cardinality(used)
  BY <1>1, <1>2, FS_Subset
<1>4. Cardinality(Ahead') \in Nat /\ Cardinality(used) \in Nat
  BY <1>1, <1>3, FS_CardinalityType
<1>. QED
  BY <1>1, <1>2, <1>3, <1>4, SpscAssumption DEF ScanBound

\* A message that is passed over is not ahead any more.
LEMMA SkipBound ==
  ASSUME CountInv, Skip
  PROVE  ScanBound'
<1> DEFINE m == <<i, at>>
<1>1. m \in Msg /\ at \in Nat \ {0} /\ at' = at + 1
  BY ScannedIsMsg, SpscAssumption DEF Skip, CountInv, Inv, TypeOK
<1>2. m \in Ahead
  BY <1>1 DEF Ahead, Skip
<1>3. \A n \in Msg : n = <<n[1], n[2]>> /\ n[2] \in Nat
  BY SpscAssumption DEF Msg
<1>4. Ahead' = Ahead \ {m}
  BY <1>1, <1>3 DEF Ahead, Skip
<1>5. IsFiniteSet(Ahead) /\ at - 1 + Cardinality(Ahead) <= QueueCapacity + 1
  BY <1>1 DEF CountInv, ScanBound
<1>6. IsFiniteSet(Ahead') /\ Cardinality(Ahead') = Cardinality(Ahead) - 1
  BY <1>2, <1>4, <1>5, FS_RemoveElement
<1>7. Cardinality(Ahead) \in Nat
  BY <1>5, FS_CardinalityType
<1>. QED
  BY <1>1, <1>5, <1>6, <1>7, SpscAssumption DEF ScanBound

\* Every other step ends the scan, or clears flags, or changes nothing.
LEMMA BoundStep == CountInv /\ [Next]_vars => CountInv'
<1> SUFFICES ASSUME CountInv, [Next]_vars
             PROVE  CountInv'
  OBVIOUS
<1>1. Inv'
  BY NextInv DEF CountInv
<1>2. NeverExhausted'
  <2>1. CASE Exhausted
    <3>1. at = PoolSize[i] + 1 /\ PoolSize[i] \in Nat
      BY <2>1, SpscAssumption DEF Exhausted, CountInv, Inv, TypeOK
    <3>2. /\ at - 1 + Cardinality(Ahead) <= QueueCapacity + 1
          /\ Cardinality(Ahead) \in Nat
      BY <3>1, FS_CardinalityType DEF CountInv, ScanBound
    <3>3. PoolSize[i] < QueueCapacity + 2
      BY <3>1, <3>2, SpscAssumption
    <3>. QED
      BY <2>1, <3>3 DEF NeverExhausted, Exhausted
  <2>2. CASE ~Exhausted
    BY <2>2 DEF CountInv, NeverExhausted, Next, Producer, Consumer, Allocate,
                Skip, Claim, Push, Pop, Drop, Up, vars
  <2>. QED
    BY <2>1, <2>2
<1>3. ScanBound'
  <2>1. CASE at' = 0
    BY <2>1 DEF ScanBound
  <2>2. CASE Allocate
    BY <2>2, AllocateBound
  <2>3. CASE Skip
    BY <2>3, SkipBound
  <2>4. CASE at' # 0 /\ (Claim \/ Push)
    BY <2>4 DEF Claim, Push, CountInv, Inv, ScansEmptyHanded
  <2>5. CASE at' # 0 /\ (Exhausted \/ Pop \/ UNCHANGED vars)
    <3>1. at' = at /\ Ahead' = Ahead
      BY <2>5 DEF Exhausted, Pop, vars, Ahead
    <3>. QED
      BY <2>5, <3>1, FewerAhead DEF CountInv
  <2>6. CASE at' # 0 /\ Drop
    <3>1. at' = at /\ Ahead' \in SUBSET Ahead
      BY <2>6 DEF Drop, Dropped, Ahead, CountInv, Inv, TypeOK
    <3>. QED
      BY <2>6, <3>1, FewerAhead DEF CountInv
  <2>. QED
    BY <2>1, <2>2, <2>3, <2>4, <2>5, <2>6 DEF Next, Producer, Consumer
<1>. QED
  BY <1>1, <1>2, <1>3 DEF CountInv

\* A pool with two messages more than the queue holds is never exhausted,
\* although the consumer clears flags behind the producer's back.
THEOREM LargePoolsSuffice == Spec => []NeverExhausted
<1>1. Init => CountInv
  BY InitInv DEF Init, CountInv, ScanBound, NeverExhausted
<1>2. CountInv => NeverExhausted
  BY DEF CountInv
<1>. QED
  BY <1>1, <1>2, BoundStep, PTL DEF Spec
=============================================================================
