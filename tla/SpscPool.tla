------------------------------ MODULE SpscPool ------------------------------
(***************************************************************************)
(* Test1 of src/boost_test/common/test_spsc_queue_0.cpp: a producer thread *)
(* takes messages from pools in turn and pushes them on a bounded          *)
(* single-producer single-consumer queue; a consumer thread pops, visits   *)
(* and drops them.  A message is never freed: its deleter clears in_use_,  *)
(* an atomic flag through which the threads hand the message back.         *)
(***************************************************************************)
EXTENDS Naturals, Sequences

CONSTANTS
  NPools,         \* the pools, used in turn (i % 3)
  PoolSize,       \* messages of each pool (100 in each)
  QueueCapacity,  \* capacity of the queue (100000)
  NoMsg           \* the null pointer

ASSUME SpscAssumption ==
  /\ NPools \in Nat \ {0}
  /\ PoolSize \in [0 .. NPools - 1 -> Nat]
  /\ QueueCapacity \in Nat
  /\ NoMsg \notin (0 .. NPools - 1) \X (Nat \ {0})

Msg == UNION {{p} \X (1 .. PoolSize[p]) : p \in 0 .. NPools - 1}

VARIABLES
  i,        \* i % 3: the pool of the producer's next message
  at,       \* where the producer's scan of that pool is, 0 when not scanning
  msg,      \* the message the producer has taken and not pushed yet
  queue,    \* the queue
  got,      \* the message the consumer has popped and not dropped yet
  in_use,   \* in_use_ of each message
  crashed   \* the producer has dereferenced the null it added to the pool

vars == <<i, at, msg, queue, got, in_use, crashed>>

Init ==
  /\ i = 0
  /\ at = 0
  /\ msg = NoMsg
  /\ queue = <<>>
  /\ got = NoMsg
  /\ in_use = [m \in Msg |-> FALSE]
  /\ crashed = FALSE

Up == ~crashed
-----------------------------------------------------------------------------
\* The producer enters AllocateAndConstruct of the pool whose turn it is.
Allocate ==
  /\ Up /\ at = 0 /\ msg = NoMsg
  /\ at' = 1
  /\ UNCHANGED <<i, msg, queue, got, in_use, crashed>>

\* The message looked at is in use: look at the next one.
Skip ==
  /\ Up /\ at \in 1 .. PoolSize[i]
  /\ in_use[<<i, at>>]
  /\ at' = at + 1
  /\ UNCHANGED <<i, msg, queue, got, in_use, crashed>>

\* It is not: take it.  Only this thread ever sets the flag, so nothing can
\* come between the test and the store.
Claim ==
  /\ Up /\ at \in 1 .. PoolSize[i]
  /\ ~in_use[<<i, at>>]
  /\ in_use' = [in_use EXCEPT ![<<i, at>>] = TRUE]
  /\ msg' = <<i, at>>
  /\ i' = (i + 1) % NPools
  /\ at' = 0
  /\ UNCHANGED <<queue, got, crashed>>

\* All were: data_.emplace_back() adds a null unique_ptr, which the next line
\* dereferences.
Exhausted ==
  /\ Up /\ at > PoolSize[i]
  /\ crashed' = TRUE
  /\ UNCHANGED <<i, at, msg, queue, got, in_use>>

\* Slip: the deleter does nothing.
Forgotten(flags, m) == flags

\* The deleter of m.
Dropped(flags, m) == [flags EXCEPT ![m] = FALSE]

\* Slip: one message more than the queue holds.
RoomForOneMore == Len(queue) <= QueueCapacity

\* What push asks of the queue.
Room == Len(queue) < QueueCapacity

\* The message moves into the queue; if the queue is full, the temporary
\* wrapper that holds it drops it.
Push ==
  /\ Up /\ msg # NoMsg
  /\ msg' = NoMsg
  /\ \/ /\ Room
        /\ queue' = Append(queue, msg)
        /\ UNCHANGED in_use
     \/ /\ ~Room
        /\ in_use' = Dropped(in_use, msg)
        /\ UNCHANGED queue
  /\ UNCHANGED <<i, at, got, crashed>>

\* Slip: the message pushed last comes out first.
PoppedLast == [msg |-> queue[Len(queue)],
               rest |-> SubSeq(queue, 1, Len(queue) - 1)]

Popped == [msg |-> Head(queue), rest |-> Tail(queue)]

Pop ==
  /\ Up /\ got = NoMsg /\ queue # <<>>
  /\ got' = Popped.msg
  /\ queue' = Popped.rest
  /\ UNCHANGED <<i, at, msg, in_use, crashed>>

\* The consumer has visited the message, which goes out of scope.
Drop ==
  /\ Up /\ got # NoMsg
  /\ in_use' = Dropped(in_use, got)
  /\ got' = NoMsg
  /\ UNCHANGED <<i, at, msg, queue, crashed>>

Producer == Allocate \/ Skip \/ Claim \/ Exhausted \/ Push

Consumer == Pop \/ Drop

Next == Producer \/ Consumer

Spec == Init /\ [][Next]_vars

\* Two threads, both of which the operating system runs.
FairSpec == Spec /\ WF_vars(Producer) /\ WF_vars(Consumer)
-----------------------------------------------------------------------------
TypeOK ==
  /\ i \in 0 .. NPools - 1
  /\ at \in 0 .. PoolSize[i] + 1
  /\ msg \in Msg \cup {NoMsg}
  /\ queue \in Seq(Msg) /\ Len(queue) <= QueueCapacity
  /\ got \in Msg \cup {NoMsg}
  /\ in_use \in [Msg -> BOOLEAN]
  /\ crashed \in BOOLEAN

Queued(m) == \E k \in DOMAIN queue : queue[k] = m

\* A message has one owner at most: the producer, one place of the queue, or
\* the consumer; and the flag that lets the producer take it is clear exactly
\* when it has none.  So no message is overwritten while it waits or is
\* visited, and none leaks from its pool.
OwnedOnce ==
  /\ \A j, k \in DOMAIN queue : queue[j] = queue[k] => j = k
  /\ msg # NoMsg => ~Queued(msg) /\ msg # got
  /\ got # NoMsg => ~Queued(got)
  /\ \A m \in Msg : in_use[m] <=> (m = msg \/ m = got \/ Queued(m))

\* The null message is never reached, although the scan of the pool is not
\* atomic and the consumer clears flags behind it, in a pool with two messages
\* more than the queue can hold.
NeverExhausted == crashed => PoolSize[i] < QueueCapacity + 2

\* Every message handed out comes back to its pool, if the producer lives.
Recycled == \A m \in Msg : in_use[m] ~> ~in_use[m] \/ crashed
=============================================================================
