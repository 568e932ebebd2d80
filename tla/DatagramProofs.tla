--------------------------- MODULE DatagramProofs ---------------------------
(***************************************************************************)
(* Proofs about the datagram sockets and the reactor, for any number of    *)
(* sockets and descriptors: moving and closing never leaves a descriptor   *)
(* without an owner or with two, a completion finds the callback it is     *)
(* meant for, everything keeps its type while the reactor walks its table, *)
(* and an event is handled once.                                           *)
(***************************************************************************)
EXTENDS DatagramSockets, FiniteSetTheorems, WellFoundedInduction, TLAPS

OwnerTypes ==
  /\ state \in [Sockets -> States \cup {Null}]
  /\ open \in [States -> BOOLEAN]

OwnerInv == OwnerTypes /\ OneOwner

\* Each socket begins with a state of its own.
LEMMA OwnerInit == Init => OwnerInv
BY DatagramAssumption DEF Init, OwnerInv, OwnerTypes, OneOwner, States

\* Close, the destructor and the assignments.
LEMMA ReplaceKeeps ==
  ASSUME OwnerInv, NEW o \in Sockets, NEW new,
         Replace(o, new),
         \/ new = [state EXCEPT ![o] = Null]
         \/ \E p \in Sockets : state[p] # Null /\ new = MovedTo(o, p)
  PROVE  OwnerInv'
<1> USE DatagramAssumption DEF States, OwnerInv, OwnerTypes
<1>1. /\ state' = new
      /\ \/ state[o] = Null /\ UNCHANGED open
         \/ state[o] # Null /\ open' = [open EXCEPT ![state[o]] = FALSE]
  BY DEF Replace, CloseState
<1>2. CASE new = [state EXCEPT ![o] = Null]
  <2>1. OwnerTypes'
    BY <1>1, <1>2
  <2>2. OneOwner'
    BY <1>1, <1>2, <2>1 DEF OneOwner
  <2>. QED
    BY <2>1, <2>2
<1>3. ASSUME NEW p \in Sockets, state[p] # Null, new = MovedTo(o, p)
      PROVE  OwnerInv'
  <2>1. OwnerTypes'
    BY <1>1, <1>3 DEF MovedTo
  <2>2. \A q \in Sockets : state'[q] = IF q = p THEN Null
                                       ELSE IF q = o THEN state[p] ELSE state[q]
    BY <1>1, <1>3 DEF MovedTo
  <2>3. \A a, b \in Sockets : state'[a] = state'[b] /\ state'[a] # Null => a = b
    BY <1>3, <2>2 DEF OneOwner
  <2>4. ASSUME NEW s \in States
        PROVE  open'[s] <=> \E q \in Sockets : state'[q] = s
    BY <1>1, <1>3, <2>2 DEF OneOwner
  <2>. QED
    BY <2>1, <2>3, <2>4 DEF OneOwner
<1>. QED
  BY <1>2, <1>3

\* A descriptor that poll reports as closed takes its state from its socket.
LEMMA EventKeeps ==
  ASSUME OwnerInv, NEW s \in States, NEW e, HandleEvent(s, e)
  PROVE  OwnerInv'
<1> USE DatagramAssumption DEF States, OwnerInv, OwnerTypes
<1>1. \/ UNCHANGED <<state, open>>
      \/ /\ state' = [o \in Sockets |-> IF state[o] = s THEN Null ELSE state[o]]
         /\ open' = [open EXCEPT ![s] = FALSE]
  BY DEF HandleEvent, CloseState
<1>2. CASE UNCHANGED <<state, open>>
  BY <1>2 DEF OneOwner
<1>3. CASE /\ state' = [o \in Sockets |-> IF state[o] = s THEN Null ELSE state[o]]
           /\ open' = [open EXCEPT ![s] = FALSE]
  <2>1. OwnerTypes'
    BY <1>3
  <2>2. OneOwner'
    BY <1>3, <2>1 DEF OneOwner
  <2>. QED
    BY <2>1, <2>2
<1>. QED
  BY <1>1, <1>2, <1>3

\* Nothing else touches the states of the sockets.
LEMMA OwnerStep == OwnerInv /\ [Next]_vars => OwnerInv'
<1> SUFFICES ASSUME OwnerInv, [Next]_vars
             PROVE  OwnerInv'
  OBVIOUS
<1>1. ASSUME UNCHANGED <<state, open>>
      PROVE  OwnerInv'
  BY <1>1 DEF OwnerInv, OwnerTypes, OneOwner
<1>2. ASSUME NEW o \in Sockets, Close(o)
      PROVE  OwnerInv'
  BY <1>2, ReplaceKeeps DEF Close
<1>3. ASSUME NEW o \in Sockets, NEW p \in Sockets, Move(o, p)
      PROVE  OwnerInv'
  BY <1>3, ReplaceKeeps DEF Move
<1>4. ASSUME NEW o \in Sockets,
             AsyncOnClosed(o) \/ AsyncReadFrom(o) \/ AsyncWriteTo(o)
      PROVE  UNCHANGED <<state, open>>
  BY <1>4 DEF AsyncOnClosed, AsyncReadFrom, AsyncWriteTo
<1>5. ASSUME UserAdds \/ UserRemoves \/ UserStops \/ UserThrows \/ Arrive
      PROVE  UNCHANGED <<state, open>>
  BY <1>5 DEF UserAdds, UserRemoves, UserTable, UserStops, UserThrows, Arrive,
              sockets
<1>6. ASSUME Poll \/ RunClosed \/ RunCompletion \/ ReactorStarts
                  \/ ReactorReturns
      PROVE  UNCHANGED <<state, open>>
  BY <1>6 DEF Poll, RunClosed, RunCompletion, ReactorStarts, ReactorReturns,
              sockets
<1>7. ASSUME ReactorHandles
      PROVE  OwnerInv'
  <2>1. CASE fd_data[at].fd \in States
    BY <1>7, <2>1, EventKeeps DEF ReactorHandles
  <2>2. CASE fd_data[at].fd \notin States
    <3>1. UserHandler
      BY <1>7, <2>2 DEF ReactorHandles
    <3>2. UNCHANGED <<state, open>>
      BY <3>1 DEF UserHandler
    <3>. QED
      BY <1>1, <3>2
  <2>. QED
    BY <2>1, <2>2
<1>8. ASSUME UNCHANGED vars
      PROVE  UNCHANGED <<state, open>>
  BY <1>8 DEF vars, sockets
<1>. QED
  BY <1>1, <1>2, <1>3, <1>4, <1>5, <1>6, <1>7, <1>8 DEF Next, User, Loop

\* Whatever is moved, assigned to itself, closed or closed by the peer, each
\* open descriptor has one socket and each socket at most one descriptor.
THEOREM SocketsOwn == Spec => []OneOwner
<1>1. OwnerInv => OneOwner
  BY DEF OwnerInv
<1>. QED
  BY <1>1, OwnerInit, OwnerStep, PTL DEF Spec
-----------------------------------------------------------------------------
(***************************************************************************)
(* Completions and callbacks.  The queue holds one completion at most for  *)
(* each direction of a state, and the callback it is for is still set.     *)
(***************************************************************************)
Op ==
  [kind : {"reactor", "closed"}]
    \cup [kind : {"completion"}, of : States, dir : Dir, cb : Nat]

QueueTypes ==
  /\ ops \in Seq(Op)
  /\ left \in 0 .. Len(ops)
  /\ at = 0 \/ left > 0
  /\ calls \in Nat
  /\ ch \in [States -> [Dir -> Nat \cup {Null}]]
  /\ state \in [Sockets -> States \cup {Null}]

Same(a, b) ==
  /\ a.kind = "completion" /\ b.kind = "completion"
  /\ a.of = b.of /\ a.dir = b.dir

EachOnce(q) == \A j, k \in DOMAIN q : Same(q[j], q[k]) => j = k

EachSet(q, callbacks) ==
  \A k \in DOMAIN q :
    q[k].kind = "completion" => q[k].cb = callbacks[q[k].of][q[k].dir]

Orderly(q, callbacks) == q \in Seq(Op) /\ EachOnce(q) /\ EachSet(q, callbacks)

MatchInv ==
  \/ rushed = TRUE
  \/ rushed = FALSE /\ wrong = "no" /\ QueueTypes /\ Orderly(ops, ch)

\* A direction of which no completion is in the queue.
Free(q, s, d) == \A k \in DOMAIN q :
  ~(q[k].kind = "completion" /\ q[k].of = s /\ q[k].dir = d)

\* At the start nothing is queued.
LEMMA MatchInit == Init => MatchInv
<1> SUFFICES ASSUME Init
             PROVE  MatchInv
  OBVIOUS
<1>1. /\ ops = <<>> /\ left = 0 /\ at = 0 /\ calls = 0 /\ rushed = FALSE /\ wrong = "no"
      /\ ch = [s \in States |-> [d \in Dir |-> Null]]
      /\ state = [o \in Sockets |-> o]
  BY DEF Init, ContextInit, ReactorInit
<1>2. ops \in Seq(Op) /\ left \in 0 .. Len(ops) /\ DOMAIN ops = {}
  BY <1>1
<1>3. QueueTypes
  BY <1>1, <1>2 DEF QueueTypes, States
<1>. QED
  BY <1>1, <1>2, <1>3 DEF MatchInv, Orderly, EachOnce, EachSet

\* What is queued for a direction that is free keeps the queue in order.
LEMMA OneMore ==
  ASSUME NEW q \in Seq(Op), NEW s \in States, NEW d \in Dir, NEW c \in Nat,
         NEW callbacks, callbacks[s][d] = c,
         Free(q, s, d), Orderly(q, callbacks)
  PROVE  LET r == q \o Completed(s, d, c)
         IN  /\ Orderly(r, callbacks)
             /\ \A x \in Dir : x # d /\ Free(q, s, x) => Free(r, s, x)
<1> DEFINE r == q \o Completed(s, d, c)
<1>1. Completion(s, d, c) \in Op
  BY DEF Op, Completion
<1>2. /\ r \in Seq(Op) /\ Len(r) = Len(q) + 1
      /\ r[Len(q) + 1] = Completion(s, d, c)
      /\ \A k \in DOMAIN q : r[k] = q[k]
      /\ DOMAIN r = 1 .. Len(q) + 1 /\ DOMAIN q = 1 .. Len(q)
  BY <1>1 DEF Completed
<1>3. EachOnce(r)
  BY <1>2 DEF Orderly, EachOnce, Same, Free, Completion
<1>4. EachSet(r, callbacks)
  BY <1>2 DEF Orderly, EachSet, Completion
<1>5. \A x \in Dir : x # d /\ Free(q, s, x) => Free(r, s, x)
  BY <1>2 DEF Free, Completion
<1>. QED
  BY <1>2, <1>3, <1>4, <1>5 DEF Orderly

\* What is enqueued for a direction is a sequence of operations.
LEMMA MoreTyped ==
  ASSUME NEW s \in States, NEW d \in Dir,
         NEW callbacks \in [States -> [Dir -> Nat \cup {Null}]],
         NEW b \in BOOLEAN, b => callbacks[s][d] # Null
  PROVE  If(b, Completed(s, d, callbacks[s][d])) \in Seq(Op)
<1>1. \A c \in Op : <<c>> \in Seq(Op)
  OBVIOUS
<1>2. CASE b
  <2>1. callbacks[s][d] \in Nat
    BY <1>2
  <2>2. Completion(s, d, callbacks[s][d]) \in Op
    BY <2>1 DEF Op, Completion
  <2>3. If(b, Completed(s, d, callbacks[s][d]))
          = <<Completion(s, d, callbacks[s][d])>>
    BY <1>2 DEF If, Completed
  <2>. QED
    BY <1>1, <2>2, <2>3, Zenon
<1>3. CASE ~b
  BY <1>3 DEF If
<1>. QED
  BY <1>2, <1>3

\* Completions for free directions, if any, with the callbacks that are set.
LEMMA SomeMore ==
  ASSUME NEW q \in Seq(Op), NEW s \in States, NEW callbacks,
         callbacks \in [States -> [Dir -> Nat \cup {Null}]],
         NEW rx \in BOOLEAN, NEW tx \in BOOLEAN,
         rx => Free(q, s, "rx") /\ callbacks[s]["rx"] # Null,
         tx => Free(q, s, "tx") /\ callbacks[s]["tx"] # Null,
         Orderly(q, callbacks)
  PROVE  LET r == q \o (If(rx, Completed(s, "rx", callbacks[s]["rx"]))
                          \o If(tx, Completed(s, "tx", callbacks[s]["tx"])))
         IN  Orderly(r, callbacks)
<1> DEFINE A == If(rx, Completed(s, "rx", callbacks[s]["rx"]))
           B == If(tx, Completed(s, "tx", callbacks[s]["tx"]))
           p == q \o A
<1>1. /\ Orderly(p, callbacks)
      /\ tx => Free(p, s, "tx")
  <2>1. CASE rx
    <3>1. /\ callbacks[s]["rx"] \in Nat /\ "rx" \in Dir /\ "tx" \in Dir
          /\ A = Completed(s, "rx", callbacks[s]["rx"])
      BY <2>1 DEF Dir, If
    <3>2. "tx" # "rx"
      OBVIOUS
    <3>. QED
      BY <2>1, <3>1, <3>2, OneMore
  <2>2. CASE ~rx
    <3>1. A = <<>> /\ p = q
      BY <2>2 DEF If, Orderly
    <3>. QED
      BY <3>1
  <2>. QED
    BY <2>1, <2>2
<1>2. Orderly(p \o B, callbacks)
  <2>1. CASE tx
    <3>1. /\ callbacks[s]["tx"] \in Nat /\ "tx" \in Dir
          /\ B = Completed(s, "tx", callbacks[s]["tx"])
          /\ p \in Seq(Op)
      BY <1>1, <2>1 DEF Dir, If, Orderly
    <3>. HIDE DEF B, p
    <3>. QED
      BY <1>1, <2>1, <3>1, OneMore
  <2>2. CASE ~tx
    <3>1. B = <<>> /\ p \in Seq(Op)
      BY <1>1, <2>2 DEF If, Orderly
    <3>. HIDE DEF B, p
    <3>2. p \o B = p
      BY <3>1
    <3>. QED
      BY <1>1, <3>2
  <2>. QED
    BY <2>1, <2>2
<1>3. q \o (A \o B) = p \o B
  <2>1. A \in Seq(Op) /\ B \in Seq(Op)
    BY MoreTyped DEF Dir
  <2>. HIDE DEF A, B
  <2>. QED
    BY <2>1
<1>. QED
  BY <1>2, <1>3

\* The operation at the front is run: its direction is free, and the rest is
\* as it was.
LEMMA FrontRuns ==
  ASSUME NEW q \in Seq(Op), q # <<>>, NEW callbacks, Orderly(q, callbacks)
  PROVE  /\ Head(q) \in Op /\ Head(q) = q[1] /\ Len(Tail(q)) = Len(q) - 1
         /\ Orderly(Tail(q), callbacks)
         /\ Head(q).kind = "completion" =>
              /\ Head(q).cb = callbacks[Head(q).of][Head(q).dir]
              /\ Free(Tail(q), Head(q).of, Head(q).dir)
<1>1. /\ Head(q) \in Op /\ Head(q) = q[1] /\ Len(Tail(q)) = Len(q) - 1
      /\ Tail(q) \in Seq(Op)
      /\ DOMAIN Tail(q) = 1 .. Len(q) - 1 /\ DOMAIN q = 1 .. Len(q)
      /\ 1 \in DOMAIN q
      /\ \A k \in DOMAIN Tail(q) : Tail(q)[k] = q[k + 1] /\ k + 1 \in DOMAIN q
      /\ \A k \in DOMAIN Tail(q) : k + 1 # 1
  OBVIOUS
<1>2. EachOnce(Tail(q))
  BY <1>1 DEF Orderly, EachOnce
<1>3. EachSet(Tail(q), callbacks)
  BY <1>1 DEF Orderly, EachSet
<1>4. Head(q).kind = "completion" =>
        /\ Head(q).cb = callbacks[Head(q).of][Head(q).dir]
        /\ Free(Tail(q), Head(q).of, Head(q).dir)
  <2>. HAVE Head(q).kind = "completion"
  <2>1. Head(q).cb = callbacks[Head(q).of][Head(q).dir]
    BY <1>1 DEF Orderly, EachSet
  <2>2. Free(Tail(q), Head(q).of, Head(q).dir)
    BY <1>1 DEF Orderly, EachOnce, Same, Free
  <2>. QED
    BY <2>1, <2>2
<1>5. Orderly(Tail(q), callbacks)
  BY <1>1, <1>2, <1>3 DEF Orderly
<1>6. Head(q) \in Op /\ Head(q) = q[1] /\ Len(Tail(q)) = Len(q) - 1
  BY <1>1
<1>. QED
  BY <1>4, <1>5, <1>6

\* The callback of a free direction may change.
LEMMA OtherCallback ==
  ASSUME NEW q \in Seq(Op), NEW s \in States, NEW d \in Dir, NEW c,
         NEW callbacks \in [States -> [Dir -> Nat \cup {Null}]],
         Orderly(q, callbacks), Free(q, s, d)
  PROVE  Orderly(q, [callbacks EXCEPT ![s][d] = c])
<1> DEFINE new == [callbacks EXCEPT ![s][d] = c]
<1>1. \A x \in States, y \in Dir :
        x # s \/ y # d => new[x][y] = callbacks[x][y]
  OBVIOUS
<1>2. \A k \in DOMAIN q : q[k].kind = "completion" =>
        /\ q[k].of \in States /\ q[k].dir \in Dir
        /\ q[k].of # s \/ q[k].dir # d
  BY DEF Op, Free
<1>3. EachSet(q, new)
  BY <1>1, <1>2 DEF Orderly, EachSet
<1>. QED
  BY <1>3 DEF Orderly

\* Whoever enqueues completions for directions that are free.
LEMMA Enqueues ==
  ASSUME MatchInv, rushed = FALSE, NEW s \in States,
         NEW callbacks \in [States -> [Dir -> Nat \cup {Null}]],
         Orderly(ops, callbacks),
         NEW rx \in BOOLEAN, NEW tx \in BOOLEAN,
         rx => Free(ops, s, "rx") /\ callbacks[s]["rx"] # Null,
         tx => Free(ops, s, "tx") /\ callbacks[s]["tx"] # Null,
         Enqueue(If(rx, Completed(s, "rx", callbacks[s]["rx"]))
                   \o If(tx, Completed(s, "tx", callbacks[s]["tx"])))
  PROVE  Orderly(ops', callbacks) /\ left' \in 0 .. Len(ops')
<1>1. ops \in Seq(Op) /\ left \in 0 .. Len(ops)
  BY DEF MatchInv, QueueTypes
<1>2. Orderly(ops', callbacks)
  BY <1>1, SomeMore DEF Enqueue
<1>3. left' \in 0 .. Len(ops')
  <2> DEFINE A == If(rx, Completed(s, "rx", callbacks[s]["rx"]))
             B == If(tx, Completed(s, "tx", callbacks[s]["tx"]))
  <2>1. ops' = ops \o (A \o B) /\ left' = left
    BY DEF Enqueue
  <2>2. A \in Seq(Op) /\ B \in Seq(Op)
    BY MoreTyped DEF Dir
  <2> HIDE DEF A, B
  <2>3. Len(ops') = Len(ops) + Len(A \o B) /\ Len(A \o B) \in Nat
    BY <1>1, <2>1, <2>2
  <2>. QED
    BY <1>1, <2>1, <2>3
<1>. QED
  BY <1>2, <1>3

\* What does not touch queue, callbacks and sockets.
LEMMA Untouched ==
  ASSUME MatchInv,
         UNCHANGED <<ops, left, at, calls, ch, state, rushed, wrong>>
  PROVE  MatchInv'
BY DEF MatchInv, QueueTypes

\* A socket closed, destroyed or assigned to.
LEMMA ReplaceMatches ==
  ASSUME MatchInv, NEW o \in Sockets, NEW new,
         new \in [Sockets -> States \cup {Null}],
         Replace(o, new)
  PROVE  MatchInv'
<1>1. CASE rushed = TRUE
  BY <1>1 DEF Replace, Rushes, MatchInv
<1>2. CASE rushed = FALSE /\ state[o] = Null
  <2>1. UNCHANGED <<ops, left, at, calls, ch, rushed, wrong>> /\ state' = new
    BY <1>2 DEF Replace, UserRuns, context, reactor
  <2>. QED
    BY <1>2, <2>1 DEF MatchInv, QueueTypes
<1>3. CASE rushed = FALSE /\ state[o] # Null
  <2> DEFINE s == state[o]
  <2>1. s \in States /\ QueueTypes /\ Orderly(ops, ch) /\ wrong = "no"
    BY <1>3 DEF MatchInv, QueueTypes
  <2>2. /\ state' = new /\ UNCHANGED <<at, ch, calls, wrong>> /\ at = 0
        /\ Enqueue(CloseOps(s))
        /\ rushed' = (rushed \/ FALSE \/ \E d \in Dir : Queued(s, d))
    BY <1>3 DEF Replace, Rushes, UserRuns
  <2>3. CASE \E d \in Dir : Queued(s, d)
    BY <2>2, <2>3 DEF MatchInv
  <2>4. CASE \A d \in Dir : ~Queued(s, d)
    <3>1. Free(ops, s, "rx") /\ Free(ops, s, "tx") /\ rushed' = FALSE
      BY <1>3, <2>2, <2>4 DEF Dir, Free, Queued
    <3>2. Orderly(ops', ch) /\ left' \in 0 .. Len(ops')
      <4> DEFINE rx == ch[s]["rx"] # Null
                 tx == ch[s]["tx"] # Null
      <4>1. Enqueue(If(rx, Completed(s, "rx", ch[s]["rx"]))
                      \o If(tx, Completed(s, "tx", ch[s]["tx"])))
        BY <2>2 DEF CloseOps
      <4>2. ch \in [States -> [Dir -> Nat \cup {Null}]]
        BY <2>1 DEF QueueTypes
      <4>3. rx \in BOOLEAN /\ tx \in BOOLEAN
        OBVIOUS
      <4>4. /\ rx => Free(ops, s, "rx") /\ ch[s]["rx"] # Null
            /\ tx => Free(ops, s, "tx") /\ ch[s]["tx"] # Null
        BY <3>1
      <4>. HIDE DEF rx, tx, s
      <4>. QED
        BY <1>3, <2>1, <4>1, <4>2, <4>3, <4>4, Enqueues
    <3>. QED
      BY <2>1, <2>2, <3>1, <3>2 DEF MatchInv, QueueTypes, Orderly
  <2>. QED
    BY <2>3, <2>4
<1>. QED
  BY <1>1, <1>2, <1>3 DEF MatchInv

\* An operation of a socket that is open, in either direction.
LEMMA StartMatches ==
  ASSUME MatchInv, NEW s \in States, NEW d \in Dir, NEW done \in BOOLEAN,
         calls' = calls + 1,
         ch' = [ch EXCEPT ![s][d] = calls'],
         Enqueue(If(done, Completed(s, d, calls'))),
         Rushes(s, {d}, FALSE),
         UNCHANGED <<at, state, wrong>>, at = 0
  PROVE  MatchInv'
<1>1. CASE rushed = TRUE
  BY <1>1 DEF Rushes, MatchInv
<1>2. CASE rushed = FALSE /\ Queued(s, d)
  BY <1>2 DEF Rushes, MatchInv
<1>3. CASE rushed = FALSE /\ ~Queued(s, d)
  <2>1. QueueTypes /\ Orderly(ops, ch) /\ wrong = "no"
    BY <1>3 DEF MatchInv
  <2>2. Free(ops, s, d) /\ rushed' = FALSE
    BY <1>3 DEF Rushes, Free, Queued
  <2>3. /\ calls' \in Nat /\ ch'[s][d] = calls'
        /\ ch' \in [States -> [Dir -> Nat \cup {Null}]]
    BY <2>1 DEF QueueTypes
  <2>4. Orderly(ops, ch')
    BY <2>1, <2>2, OtherCallback DEF QueueTypes
  <2>5. Orderly(ops', ch') /\ left' \in 0 .. Len(ops')
    <3>1. CASE done
      <4>1. ops' = ops \o Completed(s, d, calls') /\ left' = left
        BY <3>1 DEF Enqueue, If
      <4>2. Orderly(ops', ch')
        BY <2>1, <2>2, <2>3, <2>4, <4>1, OneMore DEF QueueTypes
      <4>3. Len(ops') = Len(ops) + 1
        BY <2>1, <4>1 DEF QueueTypes, Completed
      <4>. QED
        BY <2>1, <4>1, <4>2, <4>3 DEF QueueTypes
    <3>2. CASE ~done
      <4>1. ops' = ops /\ left' = left
        BY <2>1, <3>2 DEF Enqueue, If, QueueTypes
      <4>. QED
        BY <2>1, <2>4, <4>1 DEF QueueTypes
    <3>. QED
      BY <3>1, <3>2
  <2>. QED
    BY <2>1, <2>2, <2>3, <2>5 DEF MatchInv, QueueTypes, Orderly
<1>. QED
  BY <1>1, <1>2, <1>3 DEF MatchInv

\* An attempt to read ends, or does not.
LEMMA ReadReports ==
  ASSUME NEW n, NEW r \in StartRead(n)
  PROVE  r.done \in BOOLEAN
<1>1. \E b \in BOOLEAN : \E m : r = [done |-> b, waiting |-> m]
  <2>1. CASE n > 0
    <3>1. \/ r = [done |-> TRUE, waiting |-> n]
          \/ r = [done |-> TRUE, waiting |-> n - 1]
      BY <2>1 DEF StartRead
    <3>. QED
      BY <3>1
  <2>2. CASE ~(n > 0)
    <3>1. \/ r = [done |-> TRUE, waiting |-> n]
          \/ r = [done |-> FALSE, waiting |-> n]
      BY <2>2 DEF StartRead
    <3>. QED
      BY <3>1
  <2>. QED
    BY <2>1, <2>2
<1>. QED
  BY <1>1

\* The user of the sockets.
LEMMA UserMatches == MatchInv /\ User => MatchInv'
<1> SUFFICES ASSUME MatchInv, User
             PROVE  MatchInv'
  OBVIOUS
<1>1. ASSUME NEW o \in Sockets, AsyncOnClosed(o)
      PROVE  MatchInv'
  <2>1. CASE rushed = TRUE
    BY <1>1, <2>1 DEF AsyncOnClosed, MatchInv
  <2>2. CASE rushed = FALSE
    <3> DEFINE more == <<[kind |-> "closed"]>>
    <3>1. /\ QueueTypes /\ Orderly(ops, ch) /\ wrong = "no"
          /\ ops' = ops \o more /\ calls' = calls + 1
          /\ UNCHANGED <<left, at, ch, state, rushed, wrong>>
      BY <1>1, <2>2 DEF AsyncOnClosed, Enqueue, reactor, MatchInv
    <3>2. [kind |-> "closed"] \in Op
      BY DEF Op
    <3>3. /\ ops' \in Seq(Op) /\ Len(ops') = Len(ops) + 1
          /\ ops'[Len(ops) + 1] = [kind |-> "closed"]
          /\ \A k \in DOMAIN ops : ops'[k] = ops[k]
          /\ DOMAIN ops' = 1 .. Len(ops) + 1 /\ DOMAIN ops = 1 .. Len(ops)
      BY <3>1, <3>2 DEF QueueTypes
    <3>4. EachOnce(ops')
      BY <3>1, <3>3 DEF Orderly, EachOnce, Same
    <3>5. EachSet(ops', ch)
      BY <3>1, <3>3 DEF Orderly, EachSet
    <3>6. QueueTypes'
      BY <3>1, <3>3 DEF QueueTypes
    <3>. QED
      BY <2>2, <3>1, <3>3, <3>4, <3>5, <3>6 DEF MatchInv, Orderly
  <2>. QED
    BY <2>1, <2>2 DEF MatchInv
<1>2. ASSUME NEW o \in Sockets, AsyncReadFrom(o)
      PROVE  MatchInv'
  <2>1. CASE rushed = TRUE
    BY <1>2, <2>1 DEF AsyncReadFrom, Rushes, MatchInv
  <2>2. CASE rushed = FALSE
    <3>1. state[o] \in States /\ "rx" \in Dir
      BY <1>2, <2>2 DEF AsyncReadFrom, MatchInv, QueueTypes, Dir
    <3>2. PICK r \in StartRead(waiting[state[o]]) :
            Enqueue(If(r.done, Completed(state[o], "rx", calls')))
      BY <1>2 DEF AsyncReadFrom
    <3>3. r.done \in BOOLEAN
      BY ReadReports
    <3>4. /\ calls' = calls + 1 /\ ch' = [ch EXCEPT ![state[o]]["rx"] = calls']
          /\ Rushes(state[o], {"rx"}, FALSE)
          /\ UNCHANGED <<at, state, wrong>> /\ at = 0
      BY <1>2 DEF AsyncReadFrom, UserRuns, reactor
    <3>. QED
      BY <3>1, <3>2, <3>3, <3>4, StartMatches
  <2>. QED
    BY <2>1, <2>2 DEF MatchInv
<1>3. ASSUME NEW o \in Sockets, AsyncWriteTo(o)
      PROVE  MatchInv'
  <2>1. CASE rushed = TRUE
    BY <1>3, <2>1 DEF AsyncWriteTo, Rushes, MatchInv
  <2>2. CASE rushed = FALSE
    <3>1. state[o] \in States /\ "tx" \in Dir
      BY <1>3, <2>2 DEF AsyncWriteTo, MatchInv, QueueTypes, Dir
    <3>2. PICK done \in BOOLEAN :
            Enqueue(If(done, Completed(state[o], "tx", calls')))
      BY <1>3 DEF AsyncWriteTo, StartWrite
    <3>3. /\ calls' = calls + 1 /\ ch' = [ch EXCEPT ![state[o]]["tx"] = calls']
          /\ Rushes(state[o], {"tx"}, FALSE)
          /\ UNCHANGED <<at, state, wrong>> /\ at = 0
      BY <1>3 DEF AsyncWriteTo, UserRuns, reactor
    <3>. QED
      BY <3>1, <3>2, <3>3, StartMatches
  <2>. QED
    BY <2>1, <2>2 DEF MatchInv
<1>4. ASSUME NEW o \in Sockets, Close(o)
      PROVE  MatchInv'
  <2>1. CASE rushed = TRUE
    BY <1>4, <2>1 DEF Close, Replace, Rushes, MatchInv
  <2>2. CASE rushed = FALSE
    <3>1. [state EXCEPT ![o] = Null] \in [Sockets -> States \cup {Null}]
      BY <2>2 DEF MatchInv, QueueTypes
    <3>. QED
      BY <1>4, <3>1, ReplaceMatches DEF Close
  <2>. QED
    BY <2>1, <2>2 DEF MatchInv
<1>5. ASSUME NEW o \in Sockets, NEW p \in Sockets, Move(o, p)
      PROVE  MatchInv'
  <2>1. CASE rushed = TRUE
    BY <1>5, <2>1 DEF Move, Replace, Rushes, MatchInv
  <2>2. CASE rushed = FALSE
    <3>1. MovedTo(o, p) \in [Sockets -> States \cup {Null}]
      BY <2>2 DEF MatchInv, QueueTypes, MovedTo
    <3>. QED
      BY <1>5, <3>1, ReplaceMatches DEF Move
  <2>. QED
    BY <2>1, <2>2 DEF MatchInv
<1>6. ASSUME UserAdds \/ UserRemoves \/ UserStops
      PROVE  MatchInv'
  <2>1. UNCHANGED <<ops, left, at, calls, ch, state, rushed, wrong>>
    BY <1>6 DEF UserAdds, UserRemoves, UserTable, UserStops, Stop, context,
                reactor, sockets
  <2>. QED
    BY <2>1, Untouched
<1>7. ASSUME UserThrows
      PROVE  MatchInv'
  <2>1. /\ UNCHANGED <<ops, at, calls, ch, state, rushed, wrong>>
        /\ left' = 0 /\ at = 0
    BY <1>7 DEF UserThrows, UserRuns, Thrown, reactor, sockets
  <2>. QED
    BY <2>1 DEF MatchInv, QueueTypes
<1>. QED
  BY <1>1, <1>2, <1>3, <1>4, <1>5, <1>6, <1>7 DEF User

\* A descriptor's event: what it starts again and what it closes.
LEMMA EventMatches ==
  ASSUME MatchInv, NEW s \in States, NEW e, HandleEvent(s, e),
         at > 0, UNCHANGED <<ch, calls, wrong>>
  PROVE  MatchInv'
<1>1. CASE rushed = TRUE
  BY <1>1 DEF HandleEvent, Rushes, MatchInv
<1>2. CASE rushed = FALSE
  <2>1. /\ QueueTypes /\ Orderly(ops, ch) /\ wrong = "no"
        /\ left > 0 /\ ch \in [States -> [Dir -> Nat \cup {Null}]]
    BY <1>2 DEF MatchInv, QueueTypes
  <2>2. PICK r \in IF "rx" \in Restarted(s, e) THEN StartRead(waiting[s])
                   ELSE {[done |-> FALSE, waiting |-> waiting[s]]},
             w \in IF "tx" \in Restarted(s, e) THEN StartWrite ELSE {FALSE} :
           LET more == If(r.done, Completed(s, "rx", ch[s]["rx"]))
                         \o If(w, Completed(s, "tx", ch[s]["tx"]))
           IN  \/ /\ Enqueue(more)
                  /\ Rushes(s, Restarted(s, e), FALSE)
                  /\ UNCHANGED state
               \/ /\ Enqueue(more \o CloseOps(s))
                  /\ state' = [o \in Sockets |->
                                 IF state[o] = s THEN Null ELSE state[o]]
                  /\ Rushes(s, Dir, r.done \/ w)
    BY DEF HandleEvent
  <2> DEFINE more == If(r.done, Completed(s, "rx", ch[s]["rx"]))
                       \o If(w, Completed(s, "tx", ch[s]["tx"]))
  <2>3. /\ r.done \in BOOLEAN /\ w \in BOOLEAN
        /\ r.done => "rx" \in Restarted(s, e)
        /\ w => "tx" \in Restarted(s, e)
    <3>1. w \in BOOLEAN /\ (w => "tx" \in Restarted(s, e))
      BY DEF StartWrite
    <3>2. CASE "rx" \in Restarted(s, e)
      BY <3>1, <3>2, ReadReports
    <3>3. CASE "rx" \notin Restarted(s, e)
      <4>1. r = [done |-> FALSE, waiting |-> waiting[s]]
        BY <3>3
      <4>2. r.done = FALSE
        BY <4>1
      <4>. QED
        BY <3>1, <4>2
    <3>. QED
      BY <3>2, <3>3
  <2>4. \A d \in Restarted(s, e) : d \in Dir /\ ch[s][d] # Null
    BY DEF Restarted
  <2>5. CASE rushed' = TRUE
    BY <2>5 DEF MatchInv
  <2>6. CASE /\ rushed' # TRUE /\ Enqueue(more)
             /\ Rushes(s, Restarted(s, e), FALSE) /\ UNCHANGED state
    <3>1. rushed' = FALSE /\ \A d \in Restarted(s, e) : Free(ops, s, d)
      BY <1>2, <2>6 DEF Rushes, Free, Queued
    <3>2. Orderly(ops', ch) /\ left' \in 0 .. Len(ops')
      <4>1. /\ r.done => Free(ops, s, "rx") /\ ch[s]["rx"] # Null
            /\ w => Free(ops, s, "tx") /\ ch[s]["tx"] # Null
        BY <2>3, <2>4, <3>1
      <4>2. Enqueue(If(r.done, Completed(s, "rx", ch[s]["rx"]))
                      \o If(w, Completed(s, "tx", ch[s]["tx"])))
        BY <2>6
      <4>3. r.done \in BOOLEAN /\ w \in BOOLEAN
        BY <2>3
      <4>. QED
        BY <1>2, <2>1, <4>1, <4>2, <4>3, Enqueues
    <3>3. left' = left
      BY <2>6 DEF Enqueue
    <3>. QED
      BY <2>1, <2>6, <3>1, <3>2, <3>3 DEF MatchInv, QueueTypes, Orderly
  <2>7. CASE /\ rushed' # TRUE /\ Enqueue(more \o CloseOps(s))
             /\ state' = [o \in Sockets |->
                            IF state[o] = s THEN Null ELSE state[o]]
             /\ Rushes(s, Dir, r.done \/ w)
    <3>1. /\ rushed' = FALSE /\ r.done = FALSE /\ w = FALSE
          /\ Free(ops, s, "rx") /\ Free(ops, s, "tx")
      BY <1>2, <2>3, <2>7 DEF Rushes, Free, Queued, Dir
    <3>2. Enqueue(CloseOps(s))
      <4>1. more = <<>> /\ CloseOps(s) \in Seq(Op)
        <5>1. more = <<>>
          BY <3>1 DEF If
        <5> DEFINE rx == ch[s]["rx"] # Null
                   tx == ch[s]["tx"] # Null
        <5>2. /\ If(rx, Completed(s, "rx", ch[s]["rx"])) \in Seq(Op)
              /\ If(tx, Completed(s, "tx", ch[s]["tx"])) \in Seq(Op)
          BY <2>1, MoreTyped DEF Dir
        <5>3. CloseOps(s) \in Seq(Op)
          BY <5>2 DEF CloseOps
        <5>. QED
          BY <5>1, <5>3
      <4>2. more \o CloseOps(s) = CloseOps(s)
        BY <4>1
      <4>. QED
        BY <2>7, <4>2
    <3>3. Orderly(ops', ch) /\ left' \in 0 .. Len(ops')
      <4> DEFINE rx == ch[s]["rx"] # Null
                 tx == ch[s]["tx"] # Null
      <4>1. Enqueue(If(rx, Completed(s, "rx", ch[s]["rx"]))
                      \o If(tx, Completed(s, "tx", ch[s]["tx"])))
        BY <3>2 DEF CloseOps
      <4>2. rx \in BOOLEAN /\ tx \in BOOLEAN
        OBVIOUS
      <4>3. /\ rx => Free(ops, s, "rx") /\ ch[s]["rx"] # Null
            /\ tx => Free(ops, s, "tx") /\ ch[s]["tx"] # Null
        BY <3>1
      <4>. HIDE DEF rx, tx
      <4>. QED
        BY <1>2, <2>1, <4>1, <4>2, <4>3, Enqueues
    <3>4. left' = left
      BY <2>7 DEF Enqueue
    <3>5. state' \in [Sockets -> States \cup {Null}]
      BY <2>1, <2>7 DEF QueueTypes
    <3>. QED
      BY <2>1, <3>1, <3>3, <3>4, <3>5 DEF MatchInv, QueueTypes, Orderly
  <2>. QED
    BY <2>2, <2>5, <2>6, <2>7
<1>. QED
  BY <1>1, <1>2 DEF MatchInv

\* An operation at the front of the queue, run in its turn.
LEMMA FrontLeaves ==
  ASSUME MatchInv, rushed = FALSE, left > 0, Ran(<<>>)
  PROVE  /\ ops # <<>> /\ ops' = Tail(ops) /\ left' \in 0 .. Len(ops')
         /\ ops' \in Seq(Op)
<1>1. ops \in Seq(Op) /\ left \in 0 .. Len(ops)
  BY DEF MatchInv, QueueTypes
<1>2. ops # <<>>
  BY <1>1
<1>3. Tail(ops) \in Seq(Op) /\ Len(Tail(ops)) = Len(ops) - 1
  BY <1>1, <1>2
<1>4. ops' = Tail(ops) /\ left' = left - 1
  BY <1>3 DEF Ran
<1>. QED
  BY <1>1, <1>2, <1>3, <1>4

\* The loop: every operation but a completion leaves the callbacks alone, and
\* a completion finds its own.
LEMMA LoopMatches == MatchInv /\ Loop => MatchInv'
<1> SUFFICES ASSUME MatchInv, Loop
             PROVE  MatchInv'
  OBVIOUS
<1>1. CASE rushed = TRUE
  <2>1. CASE ReactorHandles
    <3>1. CASE fd_data[at].fd \in States
      BY <2>1, <3>1, EventMatches DEF ReactorHandles
    <3>2. CASE fd_data[at].fd \notin States
      BY <1>1, <2>1, <3>2 DEF ReactorHandles, UserHandler, MatchInv
    <3>. QED
      BY <3>1, <3>2
  <2>2. CASE Poll \/ RunClosed \/ RunCompletion \/ ReactorStarts
             \/ ReactorReturns
    BY <1>1, <2>2 DEF Poll, RunClosed, RunCompletion, ReactorStarts,
                      ReactorReturns, sockets, MatchInv
  <2>. QED
    BY <2>1, <2>2 DEF Loop
<1>2. CASE rushed = FALSE
  <2>1. /\ QueueTypes /\ Orderly(ops, ch) /\ wrong = "no" /\ ops \in Seq(Op)
        /\ ch \in [States -> [Dir -> Nat \cup {Null}]]
    BY <1>2 DEF MatchInv, QueueTypes
  <2>2. CASE Poll
    <3>1. /\ ops' = Append(ops, ReactorTurn) /\ left' = Len(ops')
          /\ UNCHANGED <<calls, ch, state, rushed, wrong>>
      BY <2>2 DEF Poll, PollBegin, sockets
    <3>2. ReactorTurn \in Op /\ ReactorTurn.kind = "reactor"
      BY DEF Op, ReactorTurn
    <3>3. /\ ops' \in Seq(Op) /\ Len(ops') = Len(ops) + 1
          /\ ops'[Len(ops) + 1] = ReactorTurn
          /\ \A k \in DOMAIN ops : ops'[k] = ops[k]
          /\ DOMAIN ops' = 1 .. Len(ops) + 1 /\ DOMAIN ops = 1 .. Len(ops)
          /\ Len(ops) \in Nat
      BY <2>1, <3>1, <3>2
    <3>4. EachOnce(ops')
      BY <2>1, <3>2, <3>3 DEF Orderly, EachOnce, Same
    <3>5. EachSet(ops', ch)
      BY <2>1, <3>2, <3>3 DEF Orderly, EachSet
    <3>6. left' \in 0 .. Len(ops') /\ left' > 0
      BY <3>1, <3>3
    <3>. QED
      BY <1>2, <2>1, <3>1, <3>3, <3>4, <3>5, <3>6
      DEF MatchInv, QueueTypes, Orderly
  <2>3. CASE RunClosed \/ ReactorReturns
             \/ (ReactorStarts /\ Ran(<<>>) /\ UNCHANGED reactor)
    <3>1. /\ Ran(<<>>) /\ left > 0 /\ at' = 0
          /\ UNCHANGED <<calls, ch, state, rushed, wrong>>
      <4>1. CASE RunClosed \/ (ReactorStarts /\ Ran(<<>>) /\ UNCHANGED reactor)
        BY <4>1 DEF RunClosed, ReactorStarts, Turn, reactor, sockets
      <4>2. CASE ReactorReturns
        BY <2>1, <4>2 DEF ReactorReturns, ReactorEnd, QueueTypes, sockets
      <4>. QED
        BY <2>3, <4>1, <4>2
    <3>2. /\ ops # <<>> /\ ops' = Tail(ops) /\ left' \in 0 .. Len(ops')
          /\ ops' \in Seq(Op)
      BY <1>2, <3>1, FrontLeaves
    <3>3. Orderly(ops', ch)
      BY <2>1, <3>2, FrontRuns
    <3>. QED
      BY <1>2, <2>1, <3>1, <3>2, <3>3 DEF MatchInv, QueueTypes
  <2>4. CASE RunCompletion
    <3> DEFINE c == Head(ops)
    <3>1. /\ Ran(<<>>) /\ left > 0 /\ at = 0 /\ c.kind = "completion"
          /\ ch' = [ch EXCEPT ![c.of][c.dir] = Null]
          /\ wrong' = IF ch[c.of][c.dir] = Null THEN "crashed"
                      ELSE IF ch[c.of][c.dir] # c.cb THEN "misdelivered"
                      ELSE wrong
          /\ UNCHANGED <<at, calls, state, rushed>>
      BY <2>4 DEF RunCompletion, Turn, reactor
    <3>2. /\ ops # <<>> /\ ops' = Tail(ops) /\ left' \in 0 .. Len(ops')
          /\ ops' \in Seq(Op)
      BY <1>2, <3>1, FrontLeaves
    <3>3. /\ c \in Op /\ Orderly(ops', ch) /\ c.cb = ch[c.of][c.dir]
          /\ Free(ops', c.of, c.dir)
      BY <2>1, <3>1, <3>2, FrontRuns
    <3>4. c.of \in States /\ c.dir \in Dir /\ c.cb \in Nat
      BY <3>1, <3>3 DEF Op
    <3>. HIDE DEF c
    <3>5. wrong' = "no"
      BY <2>1, <3>1, <3>3, <3>4, DatagramAssumption
    <3>6. Orderly(ops', ch')
      BY <2>1, <3>1, <3>2, <3>3, <3>4, OtherCallback
    <3>7. ch' \in [States -> [Dir -> Nat \cup {Null}]]
      BY <2>1, <3>1
    <3>. QED
      BY <1>2, <2>1, <3>1, <3>2, <3>5, <3>6, <3>7 DEF MatchInv, QueueTypes
  <2>5. CASE ReactorStarts /\ UNCHANGED context
    <3>1. /\ UNCHANGED <<ops, left, calls, ch, state, rushed, wrong>>
          /\ left > 0
      BY <2>5 DEF ReactorStarts, Turn, context, sockets
    <3>. QED
      BY <1>2, <2>1, <3>1 DEF MatchInv, QueueTypes
  <2>6. CASE ReactorHandles
    <3>1. CASE fd_data[at].fd \in States
      BY <2>6, <3>1, EventMatches DEF ReactorHandles
    <3>2. CASE fd_data[at].fd \notin States
      <4>1. /\ UNCHANGED <<left, calls, ch, state, rushed, wrong>>
            /\ ops' = ops \o <<>> /\ at > 0
        BY <2>6, <3>2 DEF ReactorHandles, UserHandler, Enqueue
      <4>2. ops' = ops
        BY <2>1, <4>1
      <4>3. left > 0
        BY <2>1, <4>1 DEF QueueTypes
      <4>. QED
        BY <1>2, <2>1, <4>1, <4>2, <4>3 DEF MatchInv, QueueTypes
    <3>. QED
      BY <3>1, <3>2
  <2>7. ReactorStarts => \/ Ran(<<>>) /\ UNCHANGED reactor
                         \/ UNCHANGED context
    BY DEF ReactorStarts
  <2>. QED
    BY <2>2, <2>3, <2>4, <2>5, <2>6, <2>7 DEF Loop
<1>. QED
  BY <1>1, <1>2 DEF MatchInv

\* Every step of the sockets and of the loop keeps callbacks matched.
LEMMA MatchStep == MatchInv /\ [Next]_vars => MatchInv'
<1> SUFFICES ASSUME MatchInv, [Next]_vars
             PROVE  MatchInv'
  OBVIOUS
<1>1. CASE User
  BY <1>1, UserMatches
<1>2. CASE Loop
  BY <1>2, LoopMatches
<1>3. CASE Arrive \/ UNCHANGED vars
  <2>1. UNCHANGED <<ops, left, at, calls, ch, state, rushed, wrong>>
    BY <1>3 DEF Arrive, vars, context, reactor, sockets
  <2>. QED
    BY <2>1, Untouched
<1>. QED
  BY <1>1, <1>2, <1>3 DEF Next

\* A completion that is run finds the callback it was enqueued for, through
\* any moves, closes, events and exceptions, unless an operation of its
\* direction was started, or closed, while it was queued.
THEOREM CompletionsMatch == Spec => []Matched
<1>1. MatchInv => Matched
  BY DEF MatchInv, Matched
<1>. QED
  BY <1>1, MatchInit, MatchStep, PTL DEF Spec
-----------------------------------------------------------------------------
(***************************************************************************)
(* Removing descriptors from the table: what the recursion of Without      *)
(* computes, by induction on how much of the table it has seen.            *)
(***************************************************************************)

\* Induction up to a number, for the numbers of a set.
LEMMA Upto ==
  ASSUME NEW N \in Nat, NEW T, 0 \in T,
         \A n \in 1 .. N : n - 1 \in T => n \in T
  PROVE  0 .. N \subseteq T
<1> DEFINE U == (0 .. N) \ T
<1>1. ASSUME U # {}
      PROVE  FALSE
  <2>0. U \subseteq Nat
    OBVIOUS
  <2>1. PICK n \in U : \A m \in U : <<m, n>> \notin OpToRel(<, Nat)
    BY <1>1, <2>0, WFMin, NatLessThanWellFounded
  <2>2. n \in 1 .. N /\ n - 1 \in 0 .. N
    OBVIOUS
  <2>3. <<n - 1, n>> \in OpToRel(<, Nat)
    <3>1. n - 1 \in Nat /\ n \in Nat /\ n - 1 < n
      BY <2>2
    <3>. QED
      BY <3>1, Zenon DEF OpToRel
  <2>. QED
    BY <2>1, <2>2, <2>3
<1>. QED
  BY <1>1

\* A recursion that gives each number a value from the one before it.
Steps(S, N) == [1 .. N -> [S -> S]]

Follow(f, S, v, N, step) ==
  /\ f \in [0 .. N -> S]
  /\ f[0] = v
  /\ \A n \in 1 .. N : f[n] = step[n][f[n - 1]]

\* A recursion that gives each number a value from the one before it exists.
LEMMA Recursion ==
  ASSUME NEW S, NEW v \in S, NEW N \in Nat, NEW step \in Steps(S, N)
  PROVE  \E f : Follow(f, S, v, N, step)
<1> DEFINE Done(f, m) == f[0] = v /\ \A n \in 1 .. m : f[n] = step[n][f[n - 1]]
           T == {m \in 0 .. N : \E f \in [0 .. m -> S] : Done(f, m)}
<1>1. 0 \in T
  <2> DEFINE f == [k \in 0 .. 0 |-> v]
  <2>1. f \in [0 .. 0 -> S] /\ Done(f, 0)
    OBVIOUS
  <2>. HIDE DEF f, Done
  <2>2. 0 \in 0 .. N /\ \E h \in [0 .. 0 -> S] : Done(h, 0)
    BY <2>1
  <2>. QED
    BY <2>2
<1>2. ASSUME NEW m \in 1 .. N, m - 1 \in T
      PROVE  m \in T
  <2>1. PICK f \in [0 .. m - 1 -> S] : Done(f, m - 1)
    BY <1>2
  <2> DEFINE g == [k \in 0 .. m |-> IF k = m THEN step[m][f[m - 1]] ELSE f[k]]
  <2>2. step[m][f[m - 1]] \in S
    BY <2>1 DEF Steps
  <2>3. g \in [0 .. m -> S]
    BY <2>2
  <2>4. /\ g[m] = step[m][f[m - 1]]
        /\ \A k \in 0 .. m - 1 : g[k] = f[k]
    OBVIOUS
  <2>. HIDE DEF g
  <2>5. g[0] = v
    BY <2>1, <2>4
  <2>6. \A n \in 1 .. m : g[n] = step[n][g[n - 1]]
    <3>. TAKE n \in 1 .. m
    <3>1. CASE n = m
      BY <2>4, <3>1
    <3>2. CASE n # m
      <4>1. n \in 1 .. m - 1 /\ n \in 0 .. m - 1 /\ n - 1 \in 0 .. m - 1
        BY <3>2
      <4>. QED
        BY <2>1, <2>4, <4>1
    <3>. QED
      BY <3>1, <3>2
  <2>. QED
    BY <2>3, <2>5, <2>6
<1> HIDE DEF T
<1>3. N \in T
  <2>1. 0 .. N \subseteq T
    BY <1>1, <1>2, Upto
  <2>. QED
    BY <2>1
<1>. QED
  BY <1>3 DEF T, Follow

Entries == [fd : States \cup UserFd, revents : SUBSET {"in", "out", "close"}]

\* What Without has kept of the first entries.
Kept(f, t, gone) ==
  /\ f \in [0 .. Len(t) -> Seq(Entries)]
  /\ f[0] = <<>>
  /\ \A n \in 1 .. Len(t) :
       f[n] = IF t[n].fd \in gone THEN f[n - 1] ELSE Append(f[n - 1], t[n])

\* Without is what the recursion reaches at the last entry.
LEMMA WithoutKeeps ==
  ASSUME NEW t \in Seq(Entries), NEW gone
  PROVE  \E f : Kept(f, t, gone) /\ Without(t, gone) = f[Len(t)]
<1> DEFINE S == Seq(Entries)
           N == Len(t)
           step == [n \in 1 .. N |-> [q \in S |->
                      IF t[n].fd \in gone THEN q ELSE Append(q, t[n])]]
           Is(f) == f = [n \in 0 .. N |->
                           IF n = 0 THEN <<>>
                           ELSE IF t[n].fd \in gone THEN f[n - 1]
                           ELSE Append(f[n - 1], t[n])]
<1>1. N \in Nat /\ <<>> \in S
  OBVIOUS
<1>2. \A n \in 1 .. N : t[n] \in Entries
  OBVIOUS
<1>3. \A q \in S, n \in 1 .. N : Append(q, t[n]) \in S
  BY <1>2
<1>4. step \in [1 .. N -> [S -> S]]
  BY <1>3
<1>5. \A q \in S, n \in 1 .. N :
        step[n][q] = IF t[n].fd \in gone THEN q ELSE Append(q, t[n])
  OBVIOUS
<1> HIDE DEF S, step, N
<1>6. PICK f \in [0 .. N -> S] :
        f[0] = <<>> /\ \A n \in 1 .. N : f[n] = step[n][f[n - 1]]
  <2>1. step \in Steps(S, N)
    BY <1>4 DEF Steps
  <2>2. \E f : Follow(f, S, <<>>, N, step)
    BY <1>1, <2>1, Recursion
  <2>. QED
    BY <2>2 DEF Follow
<1>7. \A n \in 1 .. N :
        f[n] = IF t[n].fd \in gone THEN f[n - 1] ELSE Append(f[n - 1], t[n])
  <2>. TAKE n \in 1 .. N
  <2>1. n - 1 \in 0 .. N
    BY <1>1
  <2>. QED
    BY <1>5, <1>6, <2>1
<1>8. Is(f)
  <2>1. \A n \in 0 .. N :
          f[n] = IF n = 0 THEN <<>>
                 ELSE IF t[n].fd \in gone THEN f[n - 1]
                 ELSE Append(f[n - 1], t[n])
    <3>1. f[0] = <<>>
      BY <1>6
    <3>2. \A n \in 0 .. N : n # 0 => n \in 1 .. N
      BY <1>1
    <3>. QED
      BY <1>7, <3>1, <3>2, Zenon
  <2>2. f = [n \in 0 .. N |-> f[n]]
    BY <1>6
  <2>. QED
    BY <2>1, <2>2, Zenon
<1> DEFINE g == CHOOSE h : Is(h)
<1>9. Is(g)
  BY <1>8
<1>10. Without(t, gone) = g[N]
  BY DEF Without, N
<1> HIDE DEF g
<1>11. /\ g[0] = <<>>
       /\ \A n \in 1 .. N :
            g[n] = IF t[n].fd \in gone THEN g[n - 1] ELSE Append(g[n - 1], t[n])
       /\ DOMAIN g = 0 .. N
  <2>1. \A n \in 0 .. N :
          g[n] = IF n = 0 THEN <<>>
                 ELSE IF t[n].fd \in gone THEN g[n - 1]
                 ELSE Append(g[n - 1], t[n])
    BY <1>9, Zenon
  <2>2. DOMAIN g = 0 .. N
    BY <1>9, Zenon
  <2>3. 0 \in 0 .. N /\ \A n \in 1 .. N : n \in 0 .. N /\ n # 0
    BY <1>1
  <2>. QED
    BY <2>1, <2>2, <2>3, Zenon
<1>12. \A n \in 0 .. N : g[n] = f[n]
  <2> DEFINE T == {n \in 0 .. N : g[n] = f[n]}
  <2>1. 0 \in T
    BY <1>1, <1>6, <1>11
  <2>2. \A n \in 1 .. N : n - 1 \in T => n \in T
    BY <1>1, <1>7, <1>11
  <2>. HIDE DEF T
  <2>3. 0 .. N \subseteq T
    BY <1>1, <2>1, <2>2, Upto
  <2>. QED
    BY <2>3 DEF T
<1>. QED
  BY <1>1, <1>6, <1>7, <1>10, <1>12 DEF Kept, S, N

Distinct(t) == \A j, k \in DOMAIN t : t[j].fd = t[k].fd => j = k

Table(t) == t \in Seq(Entries) /\ Distinct(t)

\* What is left of a table is a table.
LEMMA WithoutTable ==
  ASSUME NEW t, Table(t), NEW gone
  PROVE  Table(Without(t, gone))
<1> DEFINE N == Len(t)
<1>0. t \in Seq(Entries) /\ N \in Nat /\ DOMAIN t = 1 .. N
  BY DEF Table
<1>1. PICK f : Kept(f, t, gone) /\ Without(t, gone) = f[N]
  BY <1>0, WithoutKeeps
<1> HIDE DEF N
<1>2. /\ \A n \in 0 .. N : f[n] \in Seq(Entries)
      /\ f[0] = <<>>
      /\ \A n \in 1 .. N :
           f[n] = IF t[n].fd \in gone THEN f[n - 1] ELSE Append(f[n - 1], t[n])
  BY <1>1 DEF Kept, N
<1> DEFINE Good(n) ==
      /\ Distinct(f[n])
      /\ \A k \in DOMAIN f[n] : \E j \in 1 .. n : f[n][k] = t[j]
           T == {n \in 0 .. N : Good(n)}
<1>3. 0 \in T
  <2>1. DOMAIN f[0] = {}
    BY <1>2
  <2>2. 0 \in 0 .. N
    BY <1>0
  <2>. QED
    BY <2>1, <2>2 DEF Distinct
<1>4. ASSUME NEW n \in 1 .. N, n - 1 \in T
      PROVE  n \in T
  <2>1. n \in Nat /\ n \in 0 .. N /\ n - 1 \in 0 .. N /\ n \in DOMAIN t
    BY <1>0
  <2>2. Good(n - 1) /\ f[n - 1] \in Seq(Entries)
    BY <1>2, <1>4, <2>1
  <2>3. CASE t[n].fd \in gone
    <3>1. f[n] = f[n - 1]
      BY <1>2, <2>3
    <3>. QED
      BY <2>1, <2>2, <3>1
  <2>4. CASE t[n].fd \notin gone
    <3> DEFINE q == f[n - 1]
    <3>1. f[n] = Append(q, t[n])
      BY <1>2, <2>4
    <3>2. q \in Seq(Entries) /\ Good(n - 1)
      BY <2>2
    <3>3. Distinct(q) /\ \A k \in DOMAIN q : \E j \in 1 .. n - 1 : q[k] = t[j]
      BY <2>2
    <3>4. t[n] \in Entries
      BY <1>0, <2>1
    <3>. HIDE DEF q
    <3>5. /\ DOMAIN f[n] = (DOMAIN q) \cup {Len(q) + 1}
          /\ f[n][Len(q) + 1] = t[n]
          /\ \A k \in DOMAIN q : f[n][k] = q[k]
      BY <3>1, <3>2, <3>4
    <3>6. \A k \in DOMAIN q : q[k].fd # t[n].fd
      <4>. SUFFICES ASSUME NEW k \in DOMAIN q
                    PROVE  q[k].fd # t[n].fd
        OBVIOUS
      <4>1. PICK j \in 1 .. n - 1 : q[k] = t[j]
        BY <3>3
      <4>2. j \in DOMAIN t /\ j # n
        BY <1>0, <2>1
      <4>. QED
        BY <2>1, <4>1, <4>2 DEF Table, Distinct
    <3>7. Distinct(f[n])
      BY <3>3, <3>5, <3>6 DEF Distinct
    <3>8. \A k \in DOMAIN f[n] : \E j \in 1 .. n : f[n][k] = t[j]
      <4>. TAKE k \in DOMAIN f[n]
      <4>1. CASE k \in DOMAIN q
        <5>1. PICK j \in 1 .. n - 1 : q[k] = t[j]
          BY <3>3, <4>1
        <5>2. j \in 1 .. n
          BY <2>1
        <5>. QED
          BY <3>5, <4>1, <5>1, <5>2
      <4>2. CASE k = Len(q) + 1
        <5>1. n \in 1 .. n
          BY <2>1
        <5>. QED
          BY <3>5, <4>2, <5>1
      <4>. QED
        BY <3>5, <4>1, <4>2
    <3>. QED
      BY <2>1, <3>7, <3>8
  <2>. QED
    BY <2>3, <2>4
<1>5. N \in T
  <2>. HIDE DEF T
  <2>1. 0 .. N \subseteq T
    BY <1>0, <1>3, <1>4, Upto
  <2>. QED
    BY <1>0, <2>1
<1>. QED
  BY <1>0, <1>1, <1>2, <1>5 DEF Table, N

\* Removing a descriptor of a table closes the gap it leaves.
LEMMA RemovedSkips ==
  ASSUME NEW t, Table(t), NEW k \in DOMAIN t
  PROVE  LET r == Removed(t, t[k].fd)
         IN  /\ Len(r) = Len(t) - 1
             /\ \A i \in 1 .. Len(t) - 1 :
                  r[i] = t[IF i < k THEN i ELSE i + 1]
<1> DEFINE N == Len(t)
           gone == {t[k].fd}
<1>0. t \in Seq(Entries) /\ N \in Nat /\ DOMAIN t = 1 .. N /\ k \in 1 .. N
  BY DEF Table
<1>1. PICK f : Kept(f, t, gone) /\ Without(t, gone) = f[N]
  BY <1>0, WithoutKeeps
<1>2. \A n \in 1 .. N : t[n].fd \in gone <=> n = k
  BY <1>0 DEF Table, Distinct
<1> HIDE DEF N, gone
<1>3. /\ \A n \in 0 .. N : f[n] \in Seq(Entries)
      /\ f[0] = <<>>
      /\ \A n \in 1 .. N :
           f[n] = IF n = k THEN f[n - 1] ELSE Append(f[n - 1], t[n])
  BY <1>1, <1>2 DEF Kept, N
<1> DEFINE size(n) == IF n < k THEN n ELSE n - 1
           Good(n) == /\ Len(f[n]) = size(n)
                      /\ \A i \in 1 .. size(n) :
                           f[n][i] = t[IF i < k THEN i ELSE i + 1]
           T == {n \in 0 .. N : Good(n)}
<1>4. 0 \in T
  <2>1. Len(f[0]) = 0 /\ size(0) = 0 /\ 0 \in 0 .. N
    BY <1>0, <1>3
  <2>. QED
    BY <2>1
<1>5. ASSUME NEW n \in 1 .. N, n - 1 \in T
      PROVE  n \in T
  <2>1. n \in Nat /\ n \in 0 .. N /\ n - 1 \in 0 .. N /\ n \in DOMAIN t
    BY <1>0
  <2> DEFINE q == f[n - 1]
  <2>2. /\ q \in Seq(Entries) /\ Len(q) = size(n - 1)
        /\ \A i \in 1 .. size(n - 1) : q[i] = t[IF i < k THEN i ELSE i + 1]
    BY <1>3, <1>5, <2>1
  <2>. HIDE DEF q
  <2>3. CASE n = k
    <3>1. f[n] = q /\ size(n) = size(n - 1)
      BY <1>0, <1>3, <2>1, <2>3 DEF q
    <3>. QED
      BY <2>1, <2>2, <3>1
  <2>4. CASE n # k
    <3>1. f[n] = Append(q, t[n]) /\ t[n] \in Entries
      <4>1. f[n] = Append(f[n - 1], t[n])
        BY <1>3, <2>4, Zenon
      <4>2. t[n] \in Entries
        BY <1>0, <2>1
      <4>. QED
        BY <4>1, <4>2, Zenon DEF q
    <3>2. /\ size(n) = size(n - 1) + 1
          /\ n = IF size(n) < k THEN size(n) ELSE size(n) + 1
          /\ size(n - 1) \in Nat
      BY <1>0, <2>1, <2>4
    <3>. HIDE DEF size
    <3>3. /\ Len(f[n]) = size(n - 1) + 1 /\ f[n][size(n - 1) + 1] = t[n]
          /\ \A i \in 1 .. size(n - 1) : f[n][i] = q[i]
      BY <2>2, <3>1
    <3>4. \A i \in 1 .. size(n) : f[n][i] = t[IF i < k THEN i ELSE i + 1]
      <4>. TAKE i \in 1 .. size(n)
      <4>1. CASE i = size(n)
        BY <3>2, <3>3, <4>1
      <4>2. CASE i # size(n)
        <5>1. i \in 1 .. size(n - 1)
          BY <3>2, <4>2
        <5>. QED
          BY <2>2, <3>3, <5>1
      <4>. QED
        BY <4>1, <4>2
    <3>. QED
      BY <2>1, <3>2, <3>3, <3>4
  <2>. QED
    BY <2>3, <2>4
<1>6. N \in T
  <2>. HIDE DEF T
  <2>1. 0 .. N \subseteq T
    BY <1>0, <1>4, <1>5, Upto
  <2>. QED
    BY <1>0, <2>1
<1>7. size(N) = N - 1
  BY <1>0
<1>. QED
  BY <1>1, <1>6, <1>7 DEF Removed, N, gone

FD == States \cup UserFd

\* A descriptor that is not in a table can be added to it.
LEMMA AddedTable ==
  ASSUME NEW t, Table(t), NEW fd \in FD \ Fds(t)
  PROVE  Table(Added(t, fd))
<1> DEFINE e == Entry(fd)
           r == Append(t, e)
<1>1. t \in Seq(Entries) /\ DOMAIN t = 1 .. Len(t) /\ Len(t) \in Nat
  BY DEF Table
<1>2. e \in Entries /\ e.fd = fd
  BY DEF Entry, Entries, FD
<1>3. \A k \in DOMAIN t : t[k].fd # fd
  BY DEF Fds
<1> HIDE DEF e
<1>4. /\ r \in Seq(Entries)
      /\ DOMAIN r = (DOMAIN t) \cup {Len(t) + 1}
      /\ r[Len(t) + 1] = e
      /\ \A k \in DOMAIN t : r[k] = t[k]
  BY <1>1, <1>2
<1> HIDE DEF r
<1>5. Distinct(r)
  BY <1>2, <1>3, <1>4 DEF Distinct, Table
<1>. QED
  BY <1>4, <1>5 DEF Table, Added, r, e

\* The positions and entries of a table.
LEMMA TableEntries ==
  ASSUME NEW t, Table(t)
  PROVE  /\ Len(t) \in Nat /\ DOMAIN t = 1 .. Len(t)
         /\ \A k \in DOMAIN t : t[k] \in Entries /\ t[k].fd \in FD
<1>1. t \in Seq(Entries)
  BY DEF Table
<1>2. Len(t) \in Nat /\ DOMAIN t = 1 .. Len(t)
  BY <1>1
<1>3. \A k \in DOMAIN t : t[k] \in Entries
  BY <1>1
<1>4. \A x \in Entries : x.fd \in FD
  BY DEF Entries, FD
<1>. QED
  BY <1>2, <1>3, <1>4

\* A table has no more entries than there are descriptors.
LEMMA TableSize ==
  ASSUME NEW t, Table(t)
  PROVE  Cardinality(FD) \in Nat /\ Len(t) \in 0 .. Cardinality(FD)
<1> DEFINE N == Len(t)
           C == Cardinality(FD)
<1>1. IsFiniteSet(FD) /\ C \in Nat
  BY DatagramAssumption, FS_CardinalityType DEF FD, States
<1>2. N \in Nat /\ DOMAIN t = 1 .. N /\ \A k \in 1 .. N : t[k].fd \in FD
  BY TableEntries
<1> HIDE DEF N, C
<1>3. ASSUME N > C
      PROVE  FALSE
  <2> DEFINE f == [k \in 1 .. N |-> t[k].fd]
  <2>1. f \in [1 .. N -> FD]
    BY <1>2
  <2>2. IsFiniteSet(1 .. N) /\ Cardinality(1 .. N) = N
    BY <1>2, FS_Interval
  <2>. HIDE DEF f
  <2>3. \E x, y \in 1 .. N : x # y /\ f[x] = f[y]
    BY <1>1, <1>3, <2>1, <2>2, FS_PigeonHole DEF C
  <2>. QED
    BY <1>2, <2>3 DEF f, Table, Distinct
<1>. QED
  BY <1>1, <1>2, <1>3 DEF N, C

CalledTypes ==
  /\ at \in 0 .. Cardinality(FD) + 1
  /\ called \in [FD -> 0 .. 2]
  /\ meddled \in BOOLEAN

ReactorInv ==
  /\ Table(fd_data)
  /\ CalledTypes
  /\ at = 0 => ~meddled /\ \A fd \in FD : called[fd] = 0
  /\ HandledOnce

\* A handler that leaves a table behind.
LEMMA HandledKeeps ==
  ASSUME ReactorInv, NEW table, Table(table), Handled(table)
  PROVE  ReactorInv' /\ at' > 0
<1> DEFINE N == Len(fd_data)
           t == fd_data
<1>0. /\ N \in 0 .. Cardinality(FD) /\ Cardinality(FD) \in Nat
      /\ DOMAIN t = 1 .. N /\ \A k \in 1 .. N : t[k].fd \in FD
      /\ at \in 1 .. N
  <2>1. N \in 0 .. Cardinality(FD) /\ Cardinality(FD) \in Nat
    BY TableSize DEF ReactorInv
  <2>2. DOMAIN t = 1 .. N /\ \A k \in 1 .. N : t[k].fd \in FD
    BY TableEntries DEF ReactorInv
  <2>3. at \in DOMAIN t
    BY DEF Handled
  <2>. QED
    BY <2>1, <2>2, <2>3
<1>1. /\ fd_data' = table
      /\ at' = NextIndex(table)
      /\ called' = [called EXCEPT ![t[at].fd] = IF @ = 0 THEN 1 ELSE 2]
      /\ meddled' = (meddled \/ ~Harmless(table))
  BY DEF Handled
<1>2. at' \in {at, at + 1}
  BY <1>1 DEF NextIndex
<1>3. called \in [FD -> 0 .. 2] /\ meddled \in BOOLEAN /\ t[at].fd \in FD
  BY <1>0 DEF ReactorInv, CalledTypes
<1>4. CalledTypes'
  <2>1. called' \in [FD -> 0 .. 2]
    BY <1>1, <1>3
  <2>2. meddled' \in BOOLEAN
    BY <1>1, <1>3
  <2>3. at' \in 0 .. Cardinality(FD) + 1
    BY <1>0, <1>2
  <2>. QED
    BY <2>1, <2>2, <2>3 DEF CalledTypes, FD
<1>5. ASSUME ~meddled'
      PROVE  \A i \in DOMAIN table :
               called'[table[i].fd] = IF i < at' THEN 1 ELSE 0
  <2>1. ~meddled /\ Harmless(table)
    BY <1>1, <1>3, <1>5
  <2>2. \A k \in 1 .. N : called[t[k].fd] = IF k < at THEN 1 ELSE 0
    BY <1>0, <2>1 DEF ReactorInv, HandledOnce
  <2>3. \A k \in 1 .. N : t[k].fd = t[at].fd => k = at
    BY <1>0 DEF ReactorInv, Table, Distinct
  <2>4. \A k \in 1 .. N : called'[t[k].fd] = IF k <= at THEN 1 ELSE 0
    <3>. TAKE k \in 1 .. N
    <3>1. CASE k = at
      BY <1>0, <1>1, <1>3, <2>2, <3>1
    <3>2. CASE k # at
      <4>1. called'[t[k].fd] = called[t[k].fd]
        BY <1>0, <1>1, <1>3, <2>3, <3>2
      <4>. QED
        BY <1>0, <2>2, <3>2, <4>1
    <3>. QED
      BY <3>1, <3>2
  <2>5. CASE table = t
    <3>1. at' = at + 1
      BY <1>1, <2>5 DEF NextIndex
    <3>. QED
      BY <1>0, <2>4, <2>5, <3>1
  <2>6. ASSUME NEW k \in 1 .. at, table = Removed(t, t[k].fd)
        PROVE  \A i \in DOMAIN table :
                 called'[table[i].fd] = IF i < at' THEN 1 ELSE 0
    <3>1. k \in 1 .. N /\ k \in DOMAIN t
      BY <1>0
    <3>2. /\ Len(table) = N - 1
          /\ \A i \in 1 .. N - 1 : table[i] = t[IF i < k THEN i ELSE i + 1]
      BY <2>6, <3>1, RemovedSkips DEF ReactorInv
    <3>3. DOMAIN table = 1 .. N - 1
      BY <3>2 DEF Table
    <3>4. at' = at
      <4>0. N \in Nat /\ \A m \in Nat : m - 1 # m
        BY <1>0
      <4>1. Len(table) # N
        BY <3>2, <4>0, Zenon
      <4>. QED
        BY <1>1, <4>1, Zenon DEF NextIndex
    <3>. SUFFICES ASSUME NEW i \in 1 .. N - 1
                  PROVE  called'[table[i].fd] = IF i < at THEN 1 ELSE 0
      BY <3>3, <3>4
    <3>5. CASE i < k
      <4>1. table[i] = t[i] /\ i \in 1 .. N /\ i < at /\ i <= at
        BY <1>0, <3>1, <3>2, <3>5
      <4>. QED
        BY <2>4, <4>1
    <3>6. CASE ~(i < k)
      <4>1. table[i] = t[i + 1] /\ i + 1 \in 1 .. N /\ (i + 1 <= at <=> i < at)
        BY <1>0, <3>1, <3>2, <3>6
      <4>. QED
        BY <2>4, <4>1
    <3>. QED
      BY <3>5, <3>6
  <2>. QED
    BY <2>1, <2>5, <2>6 DEF Harmless
<1>6. at' > 0
  BY <1>0, <1>2
<1>. QED
  BY <1>1, <1>4, <1>5, <1>6 DEF ReactorInv, HandledOnce, FD, Table
\* Each descriptor of a socket is in the first table once, or none is.
LEMMA ReactorInits == Init => ReactorInv
<1> SUFFICES ASSUME Init
             PROVE  ReactorInv
  OBVIOUS
<1>1. PICK registered \in Registers :
        LET all == IF registered THEN SetToSeq(States) ELSE <<>>
        IN  ReactorInit([k \in DOMAIN all |-> Entry(all[k])], FD)
  BY DEF Init, FD
<1> DEFINE all == IF registered THEN SetToSeq(States) ELSE <<>>
           C == Cardinality(States)
<1>2. /\ at = 0 /\ called = [fd \in FD |-> 0] /\ meddled = FALSE
      /\ fd_data = [k \in DOMAIN all |-> Entry(all[k])]
  BY <1>1 DEF ReactorInit
<1>3. IsFiniteSet(FD) /\ IsFiniteSet(States)
  BY DatagramAssumption, FS_Subset DEF FD, States
<1>4. /\ C \in Nat
      /\ \E f \in [1 .. C -> States] : IsInjective(f)
  BY <1>3, FS_CardinalityType DEF ExistsBijection, Bijection, Injection
<1>5. SetToSeq(States) \in [1 .. C -> States] /\ IsInjective(SetToSeq(States))
  BY <1>4 DEF SetToSeq
<1>6. \E n \in Nat : all \in [1 .. n -> States] /\ IsInjective(all)
  <2>1. CASE registered
    BY <1>4, <1>5, <2>1
  <2>2. CASE ~registered
    <3>1. all = <<>> /\ all \in [1 .. 0 -> States] /\ DOMAIN all = {}
      BY <2>2
    <3>2. IsInjective(all)
      BY <3>1 DEF IsInjective
    <3>. QED
      BY <3>1, <3>2
  <2>. QED
    BY <2>1, <2>2
<1> HIDE DEF all, C
<1>7. PICK n \in Nat : all \in [1 .. n -> States] /\ IsInjective(all)
  BY <1>6
<1>8. /\ DOMAIN fd_data = 1 .. n
      /\ \A k \in 1 .. n : fd_data[k] \in Entries /\ fd_data[k].fd = all[k]
  BY <1>2, <1>7 DEF Entry, Entries
<1>9. fd_data \in Seq(Entries)
  BY <1>2, <1>7, <1>8
<1>10. Table(fd_data)
  BY <1>7, <1>8, <1>9 DEF Table, Distinct, IsInjective
<1>11. CalledTypes
  <2>1. 0 \in 0 .. Cardinality(FD) + 1
    BY <1>3, FS_CardinalityType
  <2>2. called \in [FD -> 0 .. 2]
    BY <1>2
  <2>3. meddled \in BOOLEAN
    BY <1>2
  <2>. QED
    BY <1>2, <2>1, <2>2, <2>3 DEF CalledTypes
<1>. QED
  BY <1>2, <1>10, <1>11 DEF ReactorInv, HandledOnce

\* Between two walks the table may be changed.
LEMMA TableOnly ==
  ASSUME ReactorInv, at = 0, Table(fd_data'), UNCHANGED <<at, called, meddled>>
  PROVE  ReactorInv'
BY DEF ReactorInv, CalledTypes, HandledOnce, Table, FD

\* The same entries with other events are a table.
LEMMA SameDescriptors ==
  ASSUME NEW t, Table(t), NEW u, DOMAIN u = DOMAIN t,
         \A k \in DOMAIN t : u[k] \in Entries /\ u[k].fd = t[k].fd,
         u = [k \in DOMAIN t |-> u[k]]
  PROVE  Table(u)
<1>1. t \in Seq(Entries) /\ DOMAIN t = 1 .. Len(t) /\ Len(t) \in Nat
  BY DEF Table
<1>2. u \in [1 .. Len(t) -> Entries]
  BY <1>1
<1>3. u \in Seq(Entries)
  BY <1>1, <1>2
<1>. QED
  BY <1>3 DEF Table, Distinct

\* The walk begins and ends.
LEMMA WalkKeeps ==
  ASSUME ReactorInv,
         \/ at = 0 /\ \E e \in Events : ReactorBegin(e)
         \/ ReactorEnd
  PROVE  ReactorInv'
<1>0. /\ fd_data \in Seq(Entries) /\ Table(fd_data)
      /\ \A k \in DOMAIN fd_data : fd_data[k] \in Entries
  BY DEF ReactorInv, Table
<1>1. CASE at = 0 /\ \E e \in Events : ReactorBegin(e)
  <2>1. PICK e \in Events : ReactorBegin(e)
    BY <1>1
  <2>2. /\ fd_data' = [k \in DOMAIN fd_data |->
                         [fd_data[k] EXCEPT !.revents = e[fd_data[k].fd]]]
        /\ at' = 1 /\ UNCHANGED <<called, meddled>>
    BY <2>1 DEF ReactorBegin
  <2>3. \A k \in DOMAIN fd_data :
          e[fd_data[k].fd] \in SUBSET {"in", "out", "close"}
    BY <2>1 DEF Events, Fds
  <2>4. \A k \in DOMAIN fd_data :
          fd_data'[k] \in Entries /\ fd_data'[k].fd = fd_data[k].fd
    BY <1>0, <2>2, <2>3 DEF Entries
  <2>5. DOMAIN fd_data' = DOMAIN fd_data
    BY <2>2
  <2>6. fd_data' = [k \in DOMAIN fd_data |-> fd_data'[k]]
    BY <2>2
  <2>7. Table(fd_data')
    BY <1>0, <2>4, <2>5, <2>6, SameDescriptors
  <2>8. \A k \in DOMAIN fd_data : fd_data[k].fd \in FD
    BY <1>0 DEF Entries, FD
  <2>9. Cardinality(FD) \in Nat
    BY TableSize DEF ReactorInv
  <2>10. CalledTypes'
    BY <1>1, <2>2, <2>9 DEF ReactorInv, CalledTypes, FD
  <2>11. HandledOnce'
    <3>1. \A k \in DOMAIN fd_data : called[fd_data[k].fd] = 0
      BY <1>1, <2>8 DEF ReactorInv
    <3>2. \A k \in DOMAIN fd_data : ~(k < 1)
      BY <1>0
    <3>. QED
      BY <2>2, <2>4, <2>5, <3>1, <3>2 DEF HandledOnce
  <2>. QED
    BY <2>2, <2>7, <2>10, <2>11 DEF ReactorInv, Table
<1>2. CASE ReactorEnd
  <2>1. /\ fd_data' = [k \in DOMAIN fd_data |-> Entry(fd_data[k].fd)]
        /\ at' = 0 /\ called' = [fd \in DOMAIN called |-> 0] /\ meddled' = FALSE
    BY <1>2 DEF ReactorEnd
  <2>2. \A k \in DOMAIN fd_data :
          fd_data'[k] \in Entries /\ fd_data'[k].fd = fd_data[k].fd
    BY <1>0, <2>1 DEF Entries, Entry
  <2>3. DOMAIN fd_data' = DOMAIN fd_data
    BY <2>1
  <2>4. fd_data' = [k \in DOMAIN fd_data |-> fd_data'[k]]
    BY <2>1
  <2>5. Table(fd_data')
    BY <1>0, <2>2, <2>3, <2>4, SameDescriptors
  <2>6. called' = [fd \in FD |-> 0]
    BY <2>1 DEF ReactorInv, CalledTypes
  <2>7. Cardinality(FD) \in Nat
    BY TableSize DEF ReactorInv
  <2>8. CalledTypes'
    <3>1. called' \in [FD -> 0 .. 2]
      BY <2>6
    <3>2. at' \in 0 .. Cardinality(FD) + 1
      BY <2>1, <2>7
    <3>3. meddled' \in BOOLEAN
      BY <2>1
    <3>. QED
      BY <3>1, <3>2, <3>3 DEF CalledTypes, FD
  <2>. QED
    BY <2>1, <2>5, <2>6, <2>8 DEF ReactorInv, HandledOnce, Table, FD
<1>. QED
  BY <1>1, <1>2
-----------------------------------------------------------------------------
(***************************************************************************)
(* Types: what is queued, and the table, whatever the callbacks found.     *)
(***************************************************************************)
QueueInv ==
  /\ ops \in Seq(Op)
  /\ left \in 0 .. Len(ops)
  /\ poll_in_progress \in BOOLEAN
  /\ poll_in_progress <=> left > 0
  /\ at > 0 => left > 0 /\ Head(ops) = ReactorTurn

SocketTypes ==
  /\ state \in [Sockets -> States \cup {Null}]
  /\ calls \in Nat
  /\ ch \in [States -> [Dir -> 1 .. calls \cup {Null}]]
  /\ waiting \in [States -> 0 .. MaxWaiting]
  /\ wrong \in {"no", "misdelivered", "crashed"}

TypesInv == QueueInv /\ SocketTypes /\ ReactorInv

\* The types at the start.
LEMMA TypesInit == Init => TypesInv
<1> SUFFICES ASSUME Init
             PROVE  TypesInv
  OBVIOUS
<1>1. /\ ops = <<>> /\ left = 0 /\ at = 0 /\ poll_in_progress = FALSE
      /\ ops \in Seq(Op) /\ Len(ops) = 0
  BY DEF Init, ContextInit, ReactorInit
<1>2. QueueInv
  <2>1. left \in 0 .. Len(ops) /\ ~(left > 0) /\ ~(at > 0)
    BY <1>1
  <2>2. poll_in_progress \in BOOLEAN /\ ~poll_in_progress
    BY <1>1
  <2>. QED
    BY <1>1, <2>1, <2>2 DEF QueueInv
<1>3. SocketTypes
  <2>1. MaxWaiting \in Nat
    BY DatagramAssumption
  <2>. QED
    BY <2>1 DEF Init, SocketTypes, States
<1>. QED
  BY <1>2, <1>3, ReactorInits DEF TypesInv

\* Whoever enqueues leaves the front of the queue alone.
LEMMA QueueGrows ==
  ASSUME QueueInv, NEW more \in Seq(Op), Enqueue(more), at' > 0 => at > 0
  PROVE  QueueInv'
<1>1. /\ ops' = ops \o more /\ ops \in Seq(Op)
      /\ UNCHANGED <<left, poll_in_progress>>
  BY DEF Enqueue, QueueInv
<1>2. /\ ops' \in Seq(Op) /\ Len(ops') = Len(ops) + Len(more)
      /\ Len(ops) \in Nat /\ Len(more) \in Nat
  BY <1>1
<1>3. ops # <<>> => Head(ops') = Head(ops)
  <2>. HAVE ops # <<>>
  <2>1. Len(ops) > 0
    BY <1>1
  <2>2. ops'[1] = ops[1]
    BY <1>1, <2>1
  <2>3. Head(ops) = ops[1] /\ Head(ops') = ops'[1]
    OBVIOUS
  <2>. QED
    BY <2>2, <2>3
<1>4. left > 0 => ops # <<>>
  BY <1>1 DEF QueueInv
<1>. QED
  BY <1>1, <1>2, <1>3, <1>4 DEF QueueInv

\* Whoever runs the front of the queue leaves the reactor at rest.
LEMMA QueueShrinks ==
  ASSUME QueueInv, left > 0, Ran(<<>>), at' = 0
  PROVE  QueueInv'
<1>1. ops \in Seq(Op) /\ left \in 1 .. Len(ops)
  BY DEF QueueInv
<1>2. ops # <<>>
  BY <1>1
<1>3. Tail(ops) \in Seq(Op) /\ Len(Tail(ops)) = Len(ops) - 1
  BY <1>1, <1>2
<1>4. ops' = Tail(ops) /\ left' = left - 1
  BY <1>3 DEF Ran
<1>5. poll_in_progress' = (left - 1 > 0)
  BY DEF Ran, InProgress
<1>6. left' \in 0 .. Len(ops')
  BY <1>1, <1>3, <1>4
<1>7. poll_in_progress' \in BOOLEAN /\ (poll_in_progress' <=> left' > 0)
  <2>1. CASE left - 1 > 0
    BY <1>4, <1>5, <2>1
  <2>2. CASE ~(left - 1 > 0)
    <3>1. ~(left' > 0)
      BY <1>4, <2>2
    <3>2. poll_in_progress' \in BOOLEAN
      BY <1>5
    <3>3. ~poll_in_progress'
      BY <1>5, <2>2, Zenon
    <3>. QED
      BY <3>1, <3>2, <3>3
  <2>. QED
    BY <2>1, <2>2
<1>8. ~(at' > 0) /\ ops' \in Seq(Op)
  BY <1>3, <1>4
<1>. QED
  BY <1>6, <1>7, <1>8 DEF QueueInv

\* A step that leaves the context alone keeps its queue.
LEMMA QueueSame ==
  ASSUME QueueInv, UNCHANGED context, at' > 0 => at > 0
  PROVE  QueueInv'
BY DEF QueueInv, context

\* One completion, or none.
LEMMA OneTyped ==
  ASSUME NEW s \in States, NEW d \in Dir, NEW c \in Nat, NEW b \in BOOLEAN
  PROVE  If(b, Completed(s, d, c)) \in Seq(Op)
<1>1. \A x \in Op : <<x>> \in Seq(Op)
  OBVIOUS
<1>2. Completion(s, d, c) \in Op
  BY DEF Op, Completion
<1>. QED
  BY <1>1, <1>2 DEF If, Completed

\* Closing queues completions and nothing else.
LEMMA CloseTyped ==
  ASSUME SocketTypes, NEW s \in States
  PROVE  CloseOps(s) \in Seq(Op)
<1> DEFINE A == If(ch[s]["rx"] # Null, Completed(s, "rx", ch[s]["rx"]))
           B == If(ch[s]["tx"] # Null, Completed(s, "tx", ch[s]["tx"]))
<1>1. ch \in [States -> [Dir -> Nat \cup {Null}]]
  BY DEF SocketTypes
<1>2. A \in Seq(Op) /\ B \in Seq(Op)
  BY <1>1, MoreTyped DEF Dir
<1> HIDE DEF A, B
<1>3. A \o B \in Seq(Op)
  BY <1>2
<1>. QED
  BY <1>3 DEF CloseOps, A, B

\* What an attempt to read leaves waiting.
LEMMA ReadTakes ==
  ASSUME NEW n \in 0 .. MaxWaiting, NEW r \in StartRead(n)
  PROVE  r.done \in BOOLEAN /\ r.waiting \in 0 .. MaxWaiting
<1>0. MaxWaiting \in Nat
  BY DatagramAssumption
<1>1. \E b \in BOOLEAN, m \in 0 .. MaxWaiting : r = [done |-> b, waiting |-> m]
  <2>1. CASE n > 0
    <3>1. \/ r = [done |-> TRUE, waiting |-> n]
          \/ r = [done |-> TRUE, waiting |-> n - 1]
      BY <2>1 DEF StartRead
    <3>2. n - 1 \in 0 .. MaxWaiting
      BY <1>0, <2>1
    <3>. QED
      BY <3>1, <3>2
  <2>2. CASE ~(n > 0)
    <3>1. \/ r = [done |-> TRUE, waiting |-> n]
          \/ r = [done |-> FALSE, waiting |-> n]
      BY <2>2 DEF StartRead
    <3>. QED
      BY <3>1
  <2>. QED
    BY <2>1, <2>2
<1>. QED
  BY <1>1
\* The user of the sockets, whoever he is: the reactor is at rest.
LEMMA UserTypes == TypesInv /\ User => TypesInv'
<1> SUFFICES ASSUME TypesInv, User
             PROVE  TypesInv'
  OBVIOUS
<1> USE DEF TypesInv
<1>0. /\ QueueInv /\ SocketTypes /\ ReactorInv /\ Table(fd_data)
      /\ MaxWaiting \in Nat
  BY DatagramAssumption DEF ReactorInv
<1>1. ASSUME NEW o \in Sockets, AsyncOnClosed(o)
      PROVE  TypesInv'
  <2>1. /\ at = 0 /\ calls' = calls + 1
        /\ Enqueue(<<[kind |-> "closed"]>>)
        /\ UNCHANGED <<reactor, state, ch, waiting, wrong>>
    BY <1>1 DEF AsyncOnClosed, UserRuns
  <2>2. <<[kind |-> "closed"]>> \in Seq(Op)
    <3>1. [kind |-> "closed"] \in Op
      BY DEF Op
    <3>. QED
      BY <3>1
  <2>3. QueueInv'
    BY <1>0, <2>1, <2>2, QueueGrows DEF reactor
  <2>4. SocketTypes'
    <3>1. ch \in [States -> [Dir -> 1 .. calls + 1 \cup {Null}]]
      BY <1>0 DEF SocketTypes
    <3>. QED
      BY <1>0, <2>1, <3>1 DEF SocketTypes, States
  <2>. QED
    BY <1>0, <2>1, <2>3, <2>4, TableOnly DEF reactor
<1>2. ASSUME NEW o \in Sockets, AsyncReadFrom(o) \/ AsyncWriteTo(o)
      PROVE  TypesInv'
  <2> DEFINE s == state[o]
  <2>1. s \in States
    BY <1>0, <1>2 DEF AsyncReadFrom, AsyncWriteTo, SocketTypes
  <2>2. \E d \in Dir, b \in BOOLEAN, w \in 0 .. MaxWaiting :
          /\ calls' = calls + 1
          /\ ch' = [ch EXCEPT ![s][d] = calls']
          /\ Enqueue(If(b, Completed(s, d, calls')))
          /\ waiting' = [waiting EXCEPT ![s] = w]
    <3>0. waiting \in [States -> 0 .. MaxWaiting]
      BY <1>0 DEF SocketTypes
    <3>. HIDE DEF s
    <3>1. CASE AsyncReadFrom(o)
      <4>1. /\ calls' = calls + 1 /\ ch' = [ch EXCEPT ![s]["rx"] = calls']
        BY <3>1 DEF AsyncReadFrom, s
      <4>2. PICK r \in StartRead(waiting[s]) :
              /\ Enqueue(If(r.done, Completed(s, "rx", calls')))
              /\ waiting' = [waiting EXCEPT ![s] = r.waiting]
        BY <3>1 DEF AsyncReadFrom, s
      <4>3. waiting[s] \in 0 .. MaxWaiting
        BY <2>1, <3>0
      <4>4. r.done \in BOOLEAN /\ r.waiting \in 0 .. MaxWaiting /\ "rx" \in Dir
        BY <4>3, ReadTakes DEF Dir
      <4>. QED
        BY <4>1, <4>2, <4>4
    <3>2. CASE AsyncWriteTo(o)
      <4>1. /\ calls' = calls + 1 /\ ch' = [ch EXCEPT ![s]["tx"] = calls']
            /\ waiting' = waiting /\ "tx" \in Dir
        BY <3>2 DEF AsyncWriteTo, s, Dir
      <4>2. PICK b \in BOOLEAN : Enqueue(If(b, Completed(s, "tx", calls')))
        BY <3>2 DEF AsyncWriteTo, StartWrite, s
      <4>3. /\ waiting' = [waiting EXCEPT ![s] = waiting[s]]
            /\ waiting[s] \in 0 .. MaxWaiting
        BY <2>1, <3>0, <4>1
      <4>. QED
        BY <4>1, <4>2, <4>3
    <3>. QED
      BY <1>2, <3>1, <3>2
  <2>3. /\ at = 0 /\ UNCHANGED <<reactor, state, wrong>>
    BY <1>2 DEF AsyncReadFrom, AsyncWriteTo, UserRuns
  <2>. HIDE DEF s
  <2>4. PICK d \in Dir, b \in BOOLEAN, w \in 0 .. MaxWaiting :
          /\ calls' = calls + 1
          /\ ch' = [ch EXCEPT ![s][d] = calls']
          /\ Enqueue(If(b, Completed(s, d, calls')))
          /\ waiting' = [waiting EXCEPT ![s] = w]
    BY <2>2
  <2>5. calls \in Nat /\ calls' \in Nat /\ calls' \in 1 .. calls'
    BY <1>0, <2>4 DEF SocketTypes
  <2>6. If(b, Completed(s, d, calls')) \in Seq(Op)
    BY <2>1, <2>5, OneTyped
  <2>7. QueueInv'
    BY <1>0, <2>3, <2>4, <2>6, QueueGrows DEF reactor
  <2>8. SocketTypes'
    <3>1. ch \in [States -> [Dir -> 1 .. calls' \cup {Null}]]
      BY <1>0, <2>4 DEF SocketTypes
    <3>2. ch' \in [States -> [Dir -> 1 .. calls' \cup {Null}]]
      BY <2>1, <2>4, <2>5, <3>1
    <3>3. waiting' \in [States -> 0 .. MaxWaiting]
      BY <1>0, <2>1, <2>4 DEF SocketTypes
    <3>. QED
      BY <1>0, <2>3, <2>5, <3>2, <3>3 DEF SocketTypes, States
  <2>. QED
    BY <1>0, <2>3, <2>7, <2>8, TableOnly DEF reactor
<1>3. ASSUME NEW o \in Sockets, NEW new \in [Sockets -> States \cup {Null}],
             Replace(o, new)
      PROVE  TypesInv'
  <2>1. at = 0 /\ state' = new /\ UNCHANGED <<ch, calls, wrong>>
    BY <1>3 DEF Replace, UserRuns
  <2>2. CASE state[o] = Null
    <3>1. UNCHANGED <<context, reactor, waiting>>
      BY <1>3, <2>2 DEF Replace
    <3>2. QueueInv'
      BY <1>0, <3>1, QueueSame DEF reactor
    <3>3. SocketTypes'
      BY <1>0, <1>3, <2>1, <3>1 DEF SocketTypes, States
    <3>. QED
      BY <1>0, <2>1, <3>1, <3>2, <3>3, TableOnly DEF reactor
  <2>3. CASE state[o] # Null
    <3> DEFINE s == state[o]
    <3>1. s \in States
      BY <1>0, <2>3 DEF SocketTypes
    <3>2. /\ Enqueue(CloseOps(s)) /\ fd_data' = Removed(fd_data, s)
          /\ waiting' = [waiting EXCEPT ![s] = 0]
          /\ UNCHANGED <<at, called, meddled>>
      BY <1>3, <2>3 DEF Replace, CloseState
    <3>. HIDE DEF s
    <3>3. QueueInv'
      BY <1>0, <3>1, <3>2, CloseTyped, QueueGrows
    <3>4. SocketTypes'
      BY <1>0, <1>3, <2>1, <3>1, <3>2 DEF SocketTypes, States
    <3>5. Table(fd_data')
      BY <1>0, <3>2, WithoutTable DEF Removed
    <3>. QED
      BY <1>0, <2>1, <3>2, <3>3, <3>4, <3>5, TableOnly
  <2>. QED
    BY <2>2, <2>3
<1>4. ASSUME NEW o \in Sockets, NEW p \in Sockets, Close(o) \/ Move(o, p)
      PROVE  TypesInv'
  <2>1. /\ [state EXCEPT ![o] = Null] \in [Sockets -> States \cup {Null}]
        /\ MovedTo(o, p) \in [Sockets -> States \cup {Null}]
    BY <1>0 DEF SocketTypes, MovedTo
  <2>. QED
    BY <1>3, <1>4, <2>1 DEF Close, Move
<1>5. ASSUME NEW table, Table(table), UserTable(table)
      PROVE  TypesInv'
  <2>1. /\ at = 0 /\ fd_data' = table
        /\ UNCHANGED <<context, at, called, meddled, state, ch, waiting, calls,
                       wrong>>
    BY <1>5 DEF UserTable, UserRuns
  <2>2. Table(fd_data')
    BY <1>5, <2>1
  <2>3. ReactorInv'
    BY <1>0, <2>1, <2>2, TableOnly
  <2>4. QueueInv'
    BY <1>0, <2>1, QueueSame
  <2>5. SocketTypes'
    BY <1>0, <2>1 DEF SocketTypes, States
  <2>. QED
    BY <2>3, <2>4, <2>5
<1>6. CASE UserAdds
  <2>1. PICK f \in UserFd \ Fds(fd_data) : UserTable(Added(fd_data, f))
    BY <1>6 DEF UserAdds
  <2>2. Table(Added(fd_data, f))
    BY <1>0, AddedTable DEF FD
  <2>. QED
    BY <1>5, <2>1, <2>2
<1>7. CASE UserRemoves
  <2>1. PICK f \in UserFd \cap Fds(fd_data) : UserTable(Removed(fd_data, f))
    BY <1>7 DEF UserRemoves
  <2>2. Table(Removed(fd_data, f))
    BY <1>0, WithoutTable DEF Removed
  <2>. QED
    BY <1>5, <2>1, <2>2
<1>8. CASE UserStops \/ UserThrows
  <2>1. /\ at = 0 /\ UNCHANGED <<ops, reactor, sockets>>
        /\ \/ UNCHANGED <<left, poll_in_progress>>
           \/ left' = 0 /\ poll_in_progress' = FALSE
    BY <1>8 DEF UserStops, UserThrows, UserRuns, Stop, Thrown, InProgress
  <2>2. QueueInv'
    <3>1. at' = 0 /\ ops' = ops /\ ops \in Seq(Op) /\ ~(at' > 0)
      BY <1>0, <2>1 DEF QueueInv, reactor
    <3>2. CASE UNCHANGED <<left, poll_in_progress>>
      BY <1>0, <3>1, <3>2 DEF QueueInv
    <3>3. CASE left' = 0 /\ poll_in_progress' = FALSE
      <4>1. left' \in 0 .. Len(ops') /\ ~(left' > 0)
        BY <3>1, <3>3
      <4>2. poll_in_progress' \in BOOLEAN /\ ~poll_in_progress'
        BY <3>3
      <4>. QED
        BY <3>1, <4>1, <4>2 DEF QueueInv
    <3>. QED
      BY <2>1, <3>2, <3>3
  <2>3. SocketTypes'
    BY <1>0, <2>1 DEF SocketTypes, sockets, States
  <2>. QED
    BY <1>0, <2>1, <2>2, <2>3, TableOnly DEF reactor
<1>. QED
  BY <1>1, <1>2, <1>4, <1>6, <1>7, <1>8 DEF User
\* What an event comes to: a table, completions to come, datagrams left.
Answered(s, table, more, n) ==
  /\ Table(table) /\ Handled(table)
  /\ more \in Seq(Op) /\ Enqueue(more)
  /\ n \in 0 .. MaxWaiting
  /\ waiting' = [waiting EXCEPT ![s] = n]
  /\ state' \in [Sockets -> States \cup {Null}]

\* A descriptor's event.
LEMMA EventTypes ==
  ASSUME TypesInv, NEW s \in States, NEW e, HandleEvent(s, e),
         UNCHANGED <<ch, calls, wrong>>
  PROVE  TypesInv'
<1>0. /\ QueueInv /\ SocketTypes /\ ReactorInv /\ Table(fd_data)
      /\ MaxWaiting \in Nat
      /\ ch \in [States -> [Dir -> Nat \cup {Null}]]
      /\ waiting[s] \in 0 .. MaxWaiting
  BY DatagramAssumption DEF TypesInv, ReactorInv, SocketTypes
<1>1. PICK r \in IF "rx" \in Restarted(s, e) THEN StartRead(waiting[s])
                 ELSE {[done |-> FALSE, waiting |-> waiting[s]]},
           w \in IF "tx" \in Restarted(s, e) THEN StartWrite ELSE {FALSE} :
         LET more == If(r.done, Completed(s, "rx", ch[s]["rx"]))
                       \o If(w, Completed(s, "tx", ch[s]["tx"]))
         IN  \/ /\ Handled(fd_data)
                /\ Enqueue(more)
                /\ waiting' = [waiting EXCEPT ![s] = r.waiting]
                /\ UNCHANGED state
             \/ /\ Handled(Removed(fd_data, s))
                /\ Enqueue(more \o CloseOps(s))
                /\ state' = [o \in Sockets |->
                               IF state[o] = s THEN Null ELSE state[o]]
                /\ waiting' = [waiting EXCEPT ![s] = 0]
  BY DEF HandleEvent, CloseState
<1> DEFINE A == If(r.done, Completed(s, "rx", ch[s]["rx"]))
           B == If(w, Completed(s, "tx", ch[s]["tx"]))
<1>2. /\ w \in BOOLEAN /\ r.done \in BOOLEAN /\ r.waiting \in 0 .. MaxWaiting
      /\ w => "tx" \in Restarted(s, e)
      /\ r.done => "rx" \in Restarted(s, e)
  <2>1. w \in BOOLEAN /\ (w => "tx" \in Restarted(s, e))
    BY DEF StartWrite
  <2>2. CASE "rx" \in Restarted(s, e)
    BY <1>0, <2>1, <2>2, ReadTakes
  <2>3. CASE "rx" \notin Restarted(s, e)
    <3>1. r = [done |-> FALSE, waiting |-> waiting[s]]
      BY <2>3
    <3>2. r.done = FALSE /\ r.waiting = waiting[s]
      BY <3>1
    <3>. QED
      BY <1>0, <2>1, <3>2
  <2>. QED
    BY <2>2, <2>3
<1>3. \A d \in Restarted(s, e) : d \in Dir /\ ch[s][d] # Null
  BY DEF Restarted
<1>4. A \in Seq(Op) /\ B \in Seq(Op)
  BY <1>0, <1>2, <1>3, MoreTyped DEF Dir
<1> HIDE DEF A, B
<1>5. A \o B \in Seq(Op) /\ (A \o B) \o CloseOps(s) \in Seq(Op)
  <2>1. CloseOps(s) \in Seq(Op)
    BY <1>0, CloseTyped
  <2>. QED
    BY <1>4, <2>1
<1>6. \E table, more, n : Answered(s, table, more, n)
  <2>1. CASE /\ Handled(fd_data)
             /\ Enqueue(A \o B)
             /\ waiting' = [waiting EXCEPT ![s] = r.waiting]
             /\ UNCHANGED state
    <3>1. state' \in [Sockets -> States \cup {Null}]
      BY <1>0, <2>1 DEF SocketTypes
    <3> DEFINE more == A \o B
               n == r.waiting
    <3>2. Answered(s, fd_data, more, n)
      BY <1>0, <1>2, <1>5, <2>1, <3>1 DEF Answered
    <3>. QED
      BY <3>2, Zenon
  <2>2. CASE /\ Handled(Removed(fd_data, s))
             /\ Enqueue((A \o B) \o CloseOps(s))
             /\ state' = [o \in Sockets |->
                            IF state[o] = s THEN Null ELSE state[o]]
             /\ waiting' = [waiting EXCEPT ![s] = 0]
    <3>1. Table(Removed(fd_data, s))
      BY <1>0, WithoutTable DEF Removed
    <3>2. state' \in [Sockets -> States \cup {Null}]
      BY <1>0, <2>2 DEF SocketTypes
    <3>3. 0 \in 0 .. MaxWaiting
      BY <1>0
    <3> DEFINE more == (A \o B) \o CloseOps(s)
               table == Removed(fd_data, s)
    <3>4. Answered(s, table, more, 0)
      BY <1>5, <2>2, <3>1, <3>2, <3>3 DEF Answered
    <3>. QED
      BY <3>4, Zenon
  <2>. QED
    BY <1>1, <2>1, <2>2 DEF A, B
<1>7. PICK table, more, n : Answered(s, table, more, n)
  BY <1>6
<1>8. /\ Table(table) /\ Handled(table)
      /\ more \in Seq(Op) /\ Enqueue(more)
      /\ n \in 0 .. MaxWaiting
      /\ waiting' = [waiting EXCEPT ![s] = n]
      /\ state' \in [Sockets -> States \cup {Null}]
  BY <1>7 DEF Answered
<1>9. ReactorInv'
  BY <1>0, <1>8, HandledKeeps
<1>10. QueueInv'
  <2>1. at > 0
    BY <1>0, <1>8 DEF Handled, Table
  <2>. QED
    BY <1>0, <1>8, <2>1, QueueGrows
<1>11. SocketTypes'
  BY <1>0, <1>8 DEF SocketTypes, States
<1>. QED
  BY <1>9, <1>10, <1>11 DEF TypesInv

\* A turn of the loop keeps the types.
LEMMA LoopTypes == TypesInv /\ Loop => TypesInv'
<1> SUFFICES ASSUME TypesInv, Loop
             PROVE  TypesInv'
  OBVIOUS
<1>0. QueueInv /\ SocketTypes /\ ReactorInv /\ Table(fd_data)
  BY DEF TypesInv, ReactorInv
<1>1. ASSUME UNCHANGED reactor
      PROVE  ReactorInv'
  BY <1>0, <1>1 DEF ReactorInv, reactor, Table, CalledTypes, HandledOnce, FD
<1>2. ASSUME UNCHANGED sockets
      PROVE  SocketTypes'
  BY <1>0, <1>2 DEF SocketTypes, sockets, States
<1>3. CASE Poll
  <2>1. /\ ops' = Append(ops, ReactorTurn) /\ left' = Len(ops')
        /\ poll_in_progress' = TRUE /\ poll_in_progress = FALSE
        /\ UNCHANGED <<reactor, sockets>>
    BY <1>0, <1>3 DEF Poll, PollBegin, QueueInv
  <2>2. ReactorTurn \in Op
    BY DEF Op, ReactorTurn
  <2>3. ops' \in Seq(Op) /\ Len(ops') \in Nat /\ Len(ops') > 0
    BY <1>0, <2>1, <2>2 DEF QueueInv
  <2>4. ~(at > 0)
    BY <1>0, <2>1 DEF QueueInv
  <2>5. QueueInv'
    BY <2>1, <2>3, <2>4 DEF QueueInv, reactor
  <2>. QED
    BY <1>1, <1>2, <2>1, <2>5 DEF TypesInv
<1>4. CASE RunClosed \/ (ReactorStarts /\ Ran(<<>>) /\ UNCHANGED reactor)
  <2>1. /\ left > 0 /\ at' = 0 /\ Ran(<<>>) /\ UNCHANGED <<reactor, sockets>>
    BY <1>4 DEF RunClosed, ReactorStarts, Turn, reactor
  <2>2. QueueInv'
    BY <1>0, <2>1, QueueShrinks
  <2>. QED
    BY <1>1, <1>2, <2>1, <2>2 DEF TypesInv
<1>5. CASE RunCompletion
  <2> DEFINE c == Head(ops)
  <2>1. /\ left > 0 /\ at' = 0 /\ c.kind = "completion" /\ Ran(<<>>)
        /\ ch' = [ch EXCEPT ![c.of][c.dir] = Null]
        /\ wrong' = IF ch[c.of][c.dir] = Null THEN "crashed"
                    ELSE IF ch[c.of][c.dir] # c.cb THEN "misdelivered"
                    ELSE wrong
        /\ UNCHANGED <<reactor, state, waiting, calls>>
    BY <1>5 DEF RunCompletion, Turn, reactor
  <2>2. c \in Op
    BY <1>0, <2>1 DEF QueueInv
  <2>3. c.of \in States /\ c.dir \in Dir
    BY <2>1, <2>2 DEF Op
  <2>. HIDE DEF c
  <2>4. ch' \in [States -> [Dir -> 1 .. calls \cup {Null}]]
    BY <1>0, <2>1, <2>3 DEF SocketTypes
  <2>5. SocketTypes'
    BY <1>0, <2>1, <2>4 DEF SocketTypes, States
  <2>6. QueueInv'
    BY <1>0, <2>1, QueueShrinks
  <2>. QED
    BY <1>1, <2>1, <2>5, <2>6 DEF TypesInv
<1>6. CASE /\ ReactorStarts /\ \E e \in Events : ReactorBegin(e)
           /\ UNCHANGED context
  <2>1. /\ left > 0 /\ at = 0 /\ Head(ops).kind = "reactor"
        /\ UNCHANGED <<context, sockets>>
    BY <1>6 DEF ReactorStarts, Turn
  <2>2. ReactorInv'
    BY <1>0, <1>6, <2>1, WalkKeeps
  <2>3. Head(ops) = ReactorTurn
    <3>1. Head(ops) \in Op
      BY <1>0, <2>1 DEF QueueInv
    <3>2. Head(ops) \in [kind : {"reactor", "closed"}]
      BY <2>1, <3>1 DEF Op
    <3>. QED
      BY <2>1, <3>2 DEF ReactorTurn
  <2>4. QueueInv'
    BY <1>0, <2>1, <2>3 DEF QueueInv, context
  <2>. QED
    BY <1>2, <2>1, <2>2, <2>4 DEF TypesInv
<1>7. CASE ReactorHandles
  <2>1. UNCHANGED <<ch, calls, wrong>>
    BY <1>7 DEF ReactorHandles
  <2>2. CASE fd_data[at].fd \in States
    BY <1>7, <2>1, <2>2, EventTypes DEF ReactorHandles
  <2>3. CASE fd_data[at].fd \notin States
    <3>1. /\ UserHandler /\ at > 0
      BY <1>7, <2>3 DEF ReactorHandles
    <3>2. \E table : Table(table) /\ Handled(table)
      <4>1. PICK gone \in SUBSET (UserFd \cap Fds(fd_data)) :
              LET kept == Without(fd_data, gone)
              IN  \/ Handled(kept)
                  \/ \E f \in UserFd \ Fds(kept) : Handled(Added(kept, f))
        BY <3>1 DEF UserHandler
      <4> DEFINE kept == Without(fd_data, gone)
      <4>2. Table(kept)
        BY <1>0, WithoutTable
      <4>. HIDE DEF kept
      <4>3. \A f \in UserFd \ Fds(kept) : Table(Added(kept, f))
        BY <4>2, AddedTable DEF FD
      <4>. QED
        BY <4>1, <4>2, <4>3 DEF kept
    <3>3. ReactorInv'
      BY <1>0, <3>2, HandledKeeps
    <3>4. QueueInv'
      <4>1. Enqueue(<<>>) /\ <<>> \in Seq(Op)
        BY <3>1 DEF UserHandler
      <4>. QED
        BY <1>0, <3>1, <4>1, QueueGrows
    <3>5. SocketTypes'
      BY <1>0, <2>1, <3>1 DEF SocketTypes, UserHandler, States
    <3>. QED
      BY <3>3, <3>4, <3>5 DEF TypesInv
  <2>. QED
    BY <2>2, <2>3
<1>8. CASE ReactorReturns
  <2>1. /\ ReactorEnd /\ Ran(<<>>) /\ at > 0 /\ at' = 0 /\ UNCHANGED sockets
    BY <1>8 DEF ReactorReturns, ReactorEnd
  <2>2. left > 0
    BY <1>0, <2>1 DEF QueueInv
  <2>3. QueueInv'
    BY <1>0, <2>1, <2>2, QueueShrinks
  <2>4. ReactorInv'
    BY <1>0, <2>1, WalkKeeps
  <2>. QED
    BY <1>2, <2>1, <2>3, <2>4 DEF TypesInv
<1>9. ReactorStarts => \/ Ran(<<>>) /\ UNCHANGED reactor
                       \/ (\E e \in Events : ReactorBegin(e)) /\ UNCHANGED context
  BY DEF ReactorStarts
<1>. QED
  BY <1>3, <1>4, <1>5, <1>6, <1>7, <1>8, <1>9 DEF Loop

\* Every step keeps the types.
LEMMA TypesStep == TypesInv /\ [Next]_vars => TypesInv'
<1> SUFFICES ASSUME TypesInv, [Next]_vars
             PROVE  TypesInv'
  OBVIOUS
<1>1. CASE User
  BY <1>1, UserTypes
<1>2. CASE Loop
  BY <1>2, LoopTypes
<1>3. CASE Arrive \/ UNCHANGED vars
  <2>1. /\ UNCHANGED <<ops, left, poll_in_progress, reactor, state, ch, calls,
                       wrong>>
        /\ \/ UNCHANGED waiting
           \/ \E s \in States : /\ waiting[s] < MaxWaiting
                                /\ waiting' = [waiting EXCEPT ![s] = @ + 1]
    BY <1>3 DEF Arrive, vars, context, sockets
  <2>2. waiting' \in [States -> 0 .. MaxWaiting]
    <3>1. waiting \in [States -> 0 .. MaxWaiting] /\ MaxWaiting \in Nat
      BY DatagramAssumption DEF TypesInv, SocketTypes
    <3>. QED
      BY <2>1, <3>1
  <2>3. QueueInv'
    BY <2>1 DEF TypesInv, QueueInv, reactor
  <2>4. SocketTypes'
    BY <2>1, <2>2 DEF TypesInv, SocketTypes, States
  <2>5. ReactorInv'
    BY <2>1 DEF TypesInv, ReactorInv, reactor, Table, CalledTypes, HandledOnce,
                FD
  <2>. QED
    BY <2>3, <2>4, <2>5 DEF TypesInv
<1>. QED
  BY <1>1, <1>2, <1>3 DEF Next

\* What is queued and what is left of the batch, the callbacks, and the index
\* of the reactor's walk stay in their ranges; a walk is only on while the
\* reactor's own turn is at the front of the queue.
THEOREM SocketsTyped == Spec => []TypeOK
<1>1. TypesInv => TypeOK
  <2>. HAVE TypesInv
  <2>1. QueueInv /\ SocketTypes /\ CalledTypes
    BY DEF TypesInv, ReactorInv
  <2>. QED
    BY <2>1 DEF TypeOK, QueueInv, SocketTypes, CalledTypes, FD
<1>. QED
  BY <1>1, TypesInit, TypesStep, PTL DEF Spec

\* Each walk of the reactor calls the handler of every descriptor once, though
\* handlers take themselves, or one descriptor before them, out of the table.
THEOREM EachHandledOnce == Spec => []HandledOnce
<1>1. TypesInv => HandledOnce
  BY DEF TypesInv, ReactorInv
<1>. QED
  BY <1>1, TypesInit, TypesStep, PTL DEF Spec
=============================================================================
