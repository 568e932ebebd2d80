-------------------------- MODULE ConnectorProofs ---------------------------
(***************************************************************************)
(* Proofs about the accepting server, for any number of clients and        *)
(* whatever the connector on its context does: it keeps one accept in      *)
(* flight (LoopInv), its types (TypesInv), and the order of the            *)
(* connections (Ordered, which needs the two others: what is in flight is  *)
(* one connection at most, and a number of a client).                      *)
(***************************************************************************)
EXTENDS Connector, FiniteSetTheorems, TLAPS

HandlerType == {"accept", "connect"} \X Nat

LoopTypes ==
  /\ completions \in Seq(HandlerType)
  /\ backlog \in Seq(1 .. Clients)
  /\ ch \in BOOLEAN
  /\ connected \in Nat

LoopInv == LoopTypes /\ OneInFlight

\* Where a queue of handlers holds results of accept.
AcceptsIn(q) == {k \in DOMAIN q : q[k][1] = "accept"}

NoneIn(q) == \A k \in DOMAIN q : q[k][1] # "accept"

\* A result of accept that joins a queue without one is the only one there.
LEMMA AcceptQueued ==
  ASSUME NEW q \in Seq(HandlerType), NoneIn(q), NEW r \in Nat
  PROVE  /\ Append(q, Accepted(r)) \in Seq(HandlerType)
         /\ AcceptsIn(Append(q, Accepted(r))) = {Len(q) + 1}
BY DEF HandlerType, Accepted, NoneIn, AcceptsIn

\* A result of connect changes nothing for the accepts.
LEMMA ConnectQueued ==
  ASSUME NEW q \in Seq(HandlerType), NEW r \in Nat
  PROVE  /\ Append(q, <<"connect", r>>) \in Seq(HandlerType)
         /\ AcceptsIn(Append(q, <<"connect", r>>)) = AcceptsIn(q)
BY DEF HandlerType, AcceptsIn

\* When the only result of accept is at the front, popping it leaves none.
LEMMA AcceptPopped ==
  ASSUME NEW q \in Seq(HandlerType), q # <<>>, Head(q)[1] = "accept",
         \A j, k \in AcceptsIn(q) : j = k
  PROVE  /\ Tail(q) \in Seq(HandlerType)
         /\ NoneIn(Tail(q))
         /\ Head(q)[2] \in Nat
BY DEF HandlerType, AcceptsIn, NoneIn

\* Handle, on a queue without a result of accept if its callback is armed.
LEMMA HandleKeeps ==
  ASSUME LoopTypes, NEW armed \in BOOLEAN, NEW q \in Seq(HandlerType),
         \A j, k \in AcceptsIn(q) : j = k /\ ~armed,
         Handle(armed, q), UNCHANGED connected
  PROVE  /\ LoopTypes'
         /\ \A j, k \in QueuedAt' : j = k /\ ~ch'
         /\ ch' \/ QueuedAt' # {} \/ (~armed /\ AcceptsIn(q) = {})
<1>1. ASSUME armed, backlog # <<>>,
             completions' = Append(q, Accepted(Head(backlog))),
             backlog' = Tail(backlog), ch' = Taken
      PROVE  /\ LoopTypes'
             /\ \A j, k \in QueuedAt' : j = k /\ ~ch'
             /\ QueuedAt' # {}
  <2>1. NoneIn(q) /\ Head(backlog) \in Nat
    BY <1>1, AcceptorAssumption DEF NoneIn, AcceptsIn, LoopTypes
  <2>2. QueuedAt' = {Len(q) + 1} /\ completions' \in Seq(HandlerType)
    BY <1>1, <2>1, AcceptQueued DEF QueuedAt, AcceptsIn
  <2>3. backlog' \in Seq(1 .. Clients)
    BY <1>1 DEF LoopTypes
  <2>. QED
    BY <1>1, <2>2, <2>3 DEF LoopTypes, Taken
<1>2. ASSUME armed, completions' = Append(q, Accepted(Error)), ch' = Taken,
             UNCHANGED backlog
      PROVE  /\ LoopTypes'
             /\ \A j, k \in QueuedAt' : j = k /\ ~ch'
             /\ QueuedAt' # {}
  <2>1. NoneIn(q) /\ Error \in Nat
    BY <1>2 DEF NoneIn, AcceptsIn, Error
  <2>2. QueuedAt' = {Len(q) + 1} /\ completions' \in Seq(HandlerType)
    BY <1>2, <2>1, AcceptQueued DEF QueuedAt, AcceptsIn
  <2>. QED
    BY <1>2, <2>2 DEF LoopTypes, Taken
<1>3. ASSUME completions' = q, ch' = armed, UNCHANGED backlog
      PROVE  /\ LoopTypes'
             /\ \A j, k \in QueuedAt' : j = k /\ ~ch'
             /\ ch' \/ QueuedAt' # {} \/ (~armed /\ AcceptsIn(q) = {})
  <2>1. QueuedAt' = AcceptsIn(q)
    BY <1>3 DEF QueuedAt, AcceptsIn
  <2>. QED
    BY <1>3, <2>1 DEF LoopTypes
<1>. QED
  BY <1>1, <1>2, <1>3 DEF Handle

\* At the start the callback is armed and nothing is queued.
LEMMA LoopInit == ConnectInit => LoopInv
BY DEF ConnectInit, Init, LoopInv, LoopTypes, OneInFlight, QueuedAt

\* A completion handler of accept runs, and the server accepts again, closes
\* or gives up.
LEMMA CompleteKeeps == LoopInv /\ Complete => LoopInv'
<1> SUFFICES ASSUME LoopInv, Complete
             PROVE  LoopInv'
  OBVIOUS
<1>1. /\ completions \in Seq(HandlerType) /\ completions # <<>>
      /\ Head(completions)[1] = "accept"
      /\ \A j, k \in AcceptsIn(completions) : j = k
      /\ LoopTypes
      /\ UNCHANGED connected
  BY DEF LoopInv, LoopTypes, OneInFlight, QueuedAt, AcceptsIn, Complete
<1>2. Tail(completions) \in Seq(HandlerType) /\ NoneIn(Tail(completions))
  BY <1>1, AcceptPopped
<1>3. ~ch
  <2>1. 1 \in QueuedAt
    BY <1>1 DEF QueuedAt
  <2>. QED
    BY <2>1 DEF LoopInv, OneInFlight
<1>4. ASSUME failed' = TRUE, completions' = Tail(completions),
             UNCHANGED <<ch, backlog>>
      PROVE  LoopInv'
  <2>1. QueuedAt' = {}
    BY <1>2, <1>4 DEF QueuedAt, NoneIn
  <2>. QED
    BY <1>1, <1>2, <1>3, <1>4, <2>1 DEF LoopInv, LoopTypes, OneInFlight
<1>5. ASSUME pc' = "exited", UNCHANGED <<completions, ch, backlog>>
      PROVE  LoopInv'
  BY <1>1, <1>5 DEF LoopInv, LoopTypes, OneInFlight, QueuedAt
<1>6. ASSUME Handle(TRUE, Tail(completions))
      PROVE  LoopInv'
  <2>1. \A j, k \in AcceptsIn(Tail(completions)) : j = k /\ ~TRUE
    BY <1>2 DEF AcceptsIn, NoneIn
  <2>2. /\ LoopTypes'
        /\ \A j, k \in QueuedAt' : j = k /\ ~ch'
        /\ ch' \/ QueuedAt' # {}
    BY <1>1, <1>2, <1>6, <2>1, HandleKeeps
  <2>. QED
    BY <2>2 DEF LoopInv, OneInFlight
<1>7. ASSUME Close(Tail(completions))
      PROVE  LoopInv'
  <2>1. QueuedAt' = {}
    BY <1>2, <1>7 DEF QueuedAt, NoneIn, Close
  <2>2. completions' \in Seq(HandlerType) /\ backlog' \in Seq(1 .. Clients)
    BY <1>2, <1>7 DEF Close
  <2>3. ch' = FALSE /\ registered' = FALSE
    BY <1>7 DEF Close
  <2>. QED
    BY <1>1, <2>1, <2>2, <2>3 DEF LoopInv, LoopTypes, OneInFlight
<1>8. \/ /\ failed' = TRUE /\ completions' = Tail(completions)
         /\ UNCHANGED <<ch, backlog>>
      \/ pc' = "exited" /\ UNCHANGED <<completions, ch, backlog>>
      \/ Handle(TRUE, Tail(completions))
      \/ Close(Tail(completions))
  BY Zenon DEF Complete, Popped, AcceptsAgain
<1>. QED
  BY <1>4, <1>5, <1>6, <1>7, <1>8

\* Every step keeps the invariant.
LEMMA LoopStep ==
  LoopInv /\ [NextWithConnector]_<<vars, connector>> => LoopInv'
<1> SUFFICES ASSUME LoopInv, [NextWithConnector]_<<vars, connector>>
             PROVE  LoopInv'
  OBVIOUS
<1>1. CASE Connect
  <2>1. connected' \in 1 .. Clients
    BY <1>1, AcceptorAssumption DEF Connect, LoopInv, LoopTypes
  <2>2. Append(backlog, connected') \in Seq(1 .. Clients)
    BY <2>1 DEF LoopInv, LoopTypes
  <2>3. backlog' \in Seq(1 .. Clients)
    BY <1>1, <2>2 DEF Connect, LoopInv, LoopTypes
  <2>. QED
    BY <1>1, <2>1, <2>3 DEF Connect, LoopInv, LoopTypes, OneInFlight, QueuedAt
<1>2. CASE Complete
  BY <1>2, CompleteKeeps
<1>3. CASE ToEvents \/ NoEventsAtAll
  BY <1>3 DEF ToEvents, NoEventsAtAll, NoEvents, LoopInv, LoopTypes,
              OneInFlight, QueuedAt
<1>4. CASE Dispatch
  <2>1. /\ LoopTypes /\ ch \in BOOLEAN /\ completions \in Seq(HandlerType)
        /\ \A j, k \in AcceptsIn(completions) : j = k /\ ~ch
    BY DEF LoopInv, LoopTypes, OneInFlight, QueuedAt, AcceptsIn
  <2>2. /\ LoopTypes'
        /\ \A j, k \in QueuedAt' : j = k /\ ~ch'
        /\ ch' \/ QueuedAt' # {} \/ (~ch /\ AcceptsIn(completions) = {})
    BY <1>4, <2>1, HandleKeeps DEF Dispatch
  <2>. QED
    BY <1>4, <2>2 DEF LoopInv, OneInFlight, QueuedAt, AcceptsIn, Dispatch
<1>5. CASE HandleConnector
  <2>1. PICK r \in {Error, 1} : completions' = Append(completions, <<"connect", r>>)
    BY <1>5 DEF HandleConnector
  <2>2. /\ completions' \in Seq(HandlerType)
        /\ AcceptsIn(completions') = AcceptsIn(completions)
    BY <2>1, ConnectQueued DEF LoopInv, LoopTypes, Error
  <2>3. QueuedAt' = QueuedAt
    BY <2>2 DEF QueuedAt, AcceptsIn
  <2>. QED
    BY <1>5, <2>2, <2>3
       DEF HandleConnector, LoopInv, LoopTypes, OneInFlight
<1>6. CASE UNCHANGED <<vars, connector>>
  BY <1>6 DEF vars, LoopInv, LoopTypes, OneInFlight, QueuedAt
<1>. QED
  BY <1>1, <1>2, <1>3, <1>4, <1>5, <1>6
     DEF NextWithConnector, LoopWithConnector

\* For any number of clients: the one slot for a callback is never overwritten
\* while it is armed or its result is queued, and is never left empty by a
\* server that is open and has met no error.
THEOREM OneAccept == ConnectSpec => []OneInFlight
<1>1. LoopInv => OneInFlight
  BY DEF LoopInv
<1>. QED
  BY <1>1, LoopInit, LoopStep, PTL DEF ConnectSpec
-----------------------------------------------------------------------------
(***************************************************************************)
(* Types.  The completion handler of a connector, once it is queued, stays *)
(* the only one of its kind: the connector is open, so the loop over       *)
(* events does not end, and nothing sets ch_ again before it does.         *)
(***************************************************************************)
Handlers == ({"accept"} \X (0 .. Clients)) \cup ({"connect"} \X {Error, 1})

ConnectsIn(q) == {k \in DOMAIN q : q[k][1] = "connect"}

OneConnect ==
  \A j, k \in ConnectsIn(completions) :
    j = k /\ pc = "events" /\ open /\ ~pending

Types ==
  /\ pc \in {"completing", "events", "exited"}
  /\ connected \in 0 .. Clients
  /\ backlog \in Seq(1 .. Clients)
  /\ ch \in BOOLEAN
  /\ completions \in Seq(Handlers)
  /\ served \in Seq(1 .. Clients)
  /\ Len(served) <= Wanted
  /\ pc # "exited" => Len(served) < Wanted
  /\ failed \in BOOLEAN
  /\ registered \in BOOLEAN
  /\ open \in BOOLEAN
  /\ pending \in BOOLEAN
  /\ pending => open

TypesInv == Types /\ OneConnect

\* Sequences, for any set of elements.
LEMMA Front ==
  ASSUME NEW S, NEW q \in Seq(S), q # <<>>
  PROVE  /\ Head(q) \in S /\ Head(q) = q[1]
         /\ Tail(q) \in Seq(S) /\ Len(Tail(q)) = Len(q) - 1
         /\ Len(q) \in Nat /\ Len(q) > 0
         /\ \A k \in 1 .. Len(q) - 1 : Tail(q)[k] = q[k + 1]
OBVIOUS

\* A sequence with one element more at its end.
LEMMA Back ==
  ASSUME NEW S, NEW q \in Seq(S), NEW x \in S
  PROVE  /\ Append(q, x) \in Seq(S) /\ Len(Append(q, x)) = Len(q) + 1
         /\ Len(q) \in Nat
         /\ \A k \in 1 .. Len(q) : Append(q, x)[k] = q[k]
         /\ Append(q, x)[Len(q) + 1] = x
OBVIOUS

\* The empty sequence.
LEMMA Nothing ==
  ASSUME NEW S
  PROVE  <<>> \in Seq(S) /\ Len(<<>>) = 0 /\ DOMAIN <<>> = {}
OBVIOUS

\* A queue of handlers with one result of accept and one of connect at most.
LEMMA TwoAtMost ==
  ASSUME NEW q \in Seq(Handlers),
         \A j, k \in AcceptsIn(q) : j = k,
         \A j, k \in ConnectsIn(q) : j = k
  PROVE  Len(q) <= 2
<1>1. \A k \in 1 .. Len(q) : k \in AcceptsIn(q) \/ k \in ConnectsIn(q)
  <2>. TAKE k \in 1 .. Len(q)
  <2>1. q[k] \in Handlers /\ k \in DOMAIN q
    OBVIOUS
  <2>2. q[k][1] = "accept" \/ q[k][1] = "connect"
    BY <2>1 DEF Handlers
  <2>. QED
    BY <2>1, <2>2 DEF AcceptsIn, ConnectsIn
<1>2. Len(q) > 2 => 1 \in 1 .. Len(q) /\ 2 \in 1 .. Len(q) /\ 3 \in 1 .. Len(q)
  OBVIOUS
<1>3. Len(q) \in Nat
  OBVIOUS
<1>. QED
  BY <1>1, <1>2, <1>3

\* What joins the queue: a result of accept, or one of connect.
LEMMA Joins ==
  ASSUME NEW q \in Seq(Handlers), NEW h \in Handlers
  PROVE  /\ Append(q, h) \in Seq(Handlers)
         /\ Len(Append(q, h)) = Len(q) + 1
         /\ \A k \in 1 .. Len(q) : Append(q, h)[k] = q[k]
         /\ Append(q, h)[Len(q) + 1] = h
         /\ h[1] = "accept" => ConnectsIn(Append(q, h)) = ConnectsIn(q)
         /\ h[1] = "connect" =>
              ConnectsIn(Append(q, h)) = ConnectsIn(q) \cup {Len(q) + 1}
<1>1. /\ Append(q, h) \in Seq(Handlers)
      /\ Len(Append(q, h)) = Len(q) + 1
      /\ \A k \in 1 .. Len(q) : Append(q, h)[k] = q[k]
      /\ Append(q, h)[Len(q) + 1] = h
      /\ DOMAIN Append(q, h) = (1 .. Len(q)) \cup {Len(q) + 1}
      /\ DOMAIN q = 1 .. Len(q)
  OBVIOUS
<1>. QED
  BY <1>1 DEF ConnectsIn

\* Handle leaves handlers in the queue and nothing new of connect.
LEMMA HandleTypes ==
  ASSUME backlog \in Seq(1 .. Clients), NEW armed \in BOOLEAN,
         NEW q \in Seq(Handlers), Handle(armed, q)
  PROVE  /\ completions' \in Seq(Handlers)
         /\ backlog' \in Seq(1 .. Clients)
         /\ ch' \in BOOLEAN
         /\ ConnectsIn(completions') = ConnectsIn(q)
<1>1. ASSUME backlog # <<>>,
             completions' = Append(q, Accepted(Head(backlog))),
             backlog' = Tail(backlog), ch' = Taken
      PROVE  /\ completions' \in Seq(Handlers)
             /\ backlog' \in Seq(1 .. Clients)
             /\ ch' \in BOOLEAN
             /\ ConnectsIn(completions') = ConnectsIn(q)
  <2>1. Head(backlog) \in 1 .. Clients /\ Tail(backlog) \in Seq(1 .. Clients)
    BY <1>1, Front
  <2>2. Head(backlog) \in 0 .. Clients
    BY <2>1, AcceptorAssumption
  <2>3. /\ Accepted(Head(backlog)) \in Handlers
        /\ Accepted(Head(backlog))[1] = "accept"
    BY <2>2 DEF Accepted, Handlers
  <2>. QED
    BY <1>1, <2>1, <2>3, Joins DEF Taken
<1>2. ASSUME completions' = Append(q, Accepted(Error)), ch' = Taken,
             UNCHANGED backlog
      PROVE  /\ completions' \in Seq(Handlers)
             /\ backlog' \in Seq(1 .. Clients)
             /\ ch' \in BOOLEAN
             /\ ConnectsIn(completions') = ConnectsIn(q)
  <2>1. Error \in 0 .. Clients
    BY AcceptorAssumption DEF Error
  <2>2. Accepted(Error) \in Handlers /\ Accepted(Error)[1] = "accept"
    BY <2>1 DEF Accepted, Handlers
  <2>. QED
    BY <1>2, <2>2, Joins DEF Taken
<1>. QED
  BY <1>1, <1>2 DEF Handle

\* The types at the start.
LEMMA TypesInit == ConnectInit => TypesInv
<1> SUFFICES ASSUME ConnectInit
             PROVE  TypesInv
  OBVIOUS
<1>1. /\ pc = "completing" /\ connected = 0 /\ backlog = <<>> /\ ch = TRUE
      /\ completions = <<>> /\ served = <<>> /\ failed = FALSE
      /\ registered = TRUE /\ open \in BOOLEAN /\ pending \in BOOLEAN
      /\ pending => open
  BY DEF ConnectInit, Init
<1>2. /\ completions \in Seq(Handlers) /\ DOMAIN completions = {}
      /\ backlog \in Seq(1 .. Clients) /\ served \in Seq(1 .. Clients)
      /\ Len(served) = 0 /\ ConnectsIn(completions) = {}
  BY <1>1, Nothing DEF ConnectsIn
<1>3. /\ connected \in 0 .. Clients /\ Len(served) <= Wanted
      /\ Len(served) < Wanted
  BY <1>1, <1>2, AcceptorAssumption
<1>4. Types
  BY <1>1, <1>2, <1>3, Zenon DEF Types
<1>. QED
  BY <1>2, <1>4 DEF TypesInv, OneConnect

\* A completion handler of accept runs: none of connect is queued then.
LEMMA CompleteTypes ==
  ASSUME TypesInv, Complete, CallbackConnects
  PROVE  TypesInv'
<1>1. /\ pc = "completing" /\ completions \in Seq(Handlers)
      /\ completions # <<>> /\ connected' = connected
      /\ Head(completions)[1] = "accept" /\ Len(served) < Wanted
      /\ backlog \in Seq(1 .. Clients) /\ served \in Seq(1 .. Clients)
      /\ connected \in 0 .. Clients /\ ch \in BOOLEAN
      /\ failed \in BOOLEAN /\ registered \in BOOLEAN
  BY DEF Complete, TypesInv, Types
<1>2. ConnectsIn(completions) = {}
  BY <1>1 DEF TypesInv, OneConnect
<1>3. Tail(completions) \in Seq(Handlers) /\ ConnectsIn(Tail(completions)) = {}
  BY <1>1, <1>2 DEF ConnectsIn
<1>4. open' \in BOOLEAN /\ pending' \in BOOLEAN /\ (pending' => open')
  <2>1. open \in BOOLEAN /\ pending \in BOOLEAN /\ (pending => open)
    BY DEF TypesInv, Types
  <2>2. \/ open' = open /\ pending' = pending
        \/ open' = TRUE /\ pending' = TRUE
        \/ open' = FALSE /\ pending' = FALSE
    BY DEF CallbackConnects, AsyncConnect, CloseConnector, connector
  <2>3. CASE open' = open /\ pending' = pending
    BY <2>1, <2>3
  <2>4. CASE open' = TRUE /\ pending' = TRUE
    BY <2>4
  <2>5. CASE open' = FALSE /\ pending' = FALSE
    BY <2>5
  <2>. QED
    BY <2>2, <2>3, <2>4, <2>5
<1>5. ASSUME UNCHANGED <<pc, served, ch, backlog, registered>>, failed' = TRUE,
             completions' = Tail(completions)
      PROVE  TypesInv'
  <2>1. ConnectsIn(completions)' = {}
    BY <1>3, <1>5 DEF ConnectsIn
  <2>2. Types'
    BY <1>1, <1>3, <1>4, <1>5 DEF TypesInv, Types
  <2>. QED
    BY <2>1, <2>2 DEF TypesInv, OneConnect
<1>6. ASSUME Head(completions)[2] # Error, failed' = failed,
             served' = Append(served, Head(completions)[2]),
             \/ /\ Count = Wanted /\ pc' = "exited"
                /\ UNCHANGED <<completions, ch, backlog, registered>>
             \/ /\ Count # Wanted /\ Handle(TRUE, Tail(completions))
                /\ UNCHANGED <<pc, registered>>
             \/ Count # Wanted /\ Close(Tail(completions)) /\ UNCHANGED pc
      PROVE  TypesInv'
  <2>1. Head(completions)[2] \in 1 .. Clients
    <3>1. Head(completions) \in Handlers
      BY <1>1
    <3>. QED
      BY <1>1, <1>6, <3>1, AcceptorAssumption DEF Handlers, Error
  <2>2. /\ served' \in Seq(1 .. Clients) /\ Len(served') = Len(served) + 1
    BY <1>1, <1>6, <2>1
  <2>3. Count = Len(served') /\ Len(served) \in Nat /\ Wanted \in Nat
    BY <1>1, <2>2, AcceptorAssumption DEF Count
  <2>4. /\ pc' \in {"completing", "events", "exited"}
        /\ Len(served') <= Wanted
        /\ pc' # "exited" => Len(served') < Wanted
    <3>1. \/ pc' = "exited" /\ Count = Wanted
          \/ pc' = pc /\ Count # Wanted
      BY <1>6
    <3>2. Len(served) + 1 <= Wanted
      BY <1>1, <2>3
    <3>. QED
      BY <1>1, <2>2, <2>3, <3>1, <3>2
  <2>5. /\ completions' \in Seq(Handlers) /\ backlog' \in Seq(1 .. Clients)
        /\ ch' \in BOOLEAN /\ registered' \in BOOLEAN
        /\ ConnectsIn(completions') = {}
    <3>1. CASE UNCHANGED <<completions, ch, backlog, registered>>
      BY <1>1, <1>2, <3>1
    <3>2. CASE Handle(TRUE, Tail(completions)) /\ UNCHANGED registered
      BY <1>1, <1>3, <3>2, HandleTypes
    <3>3. CASE Close(Tail(completions))
      BY <1>3, <3>3, Nothing DEF Close
    <3>. QED
      BY <1>6, <3>1, <3>2, <3>3
  <2>6. ConnectsIn(completions)' = {}
    BY <2>5 DEF ConnectsIn
  <2>7. Types'
    BY <1>1, <1>4, <1>6, <2>2, <2>4, <2>5 DEF Types
  <2>. QED
    BY <2>6, <2>7 DEF TypesInv, OneConnect
<1>. QED
  BY <1>5, <1>6, Zenon DEF Complete, Popped, AcceptsAgain

\* Every step keeps the types, and one result of connect at most.
LEMMA TypesStep ==
  TypesInv /\ [NextWithConnector]_<<vars, connector>> => TypesInv'
<1> SUFFICES ASSUME TypesInv, [NextWithConnector]_<<vars, connector>>
             PROVE  TypesInv'
  OBVIOUS
<1>1. CASE Connect /\ UNCHANGED connector
  <2>1. connected' \in 1 .. Clients /\ connected' \in 0 .. Clients
    BY <1>1, AcceptorAssumption DEF Connect, TypesInv, Types
  <2>2. Append(backlog, connected') \in Seq(1 .. Clients)
    BY <2>1 DEF TypesInv, Types
  <2>3. backlog' \in Seq(1 .. Clients)
    BY <1>1, <2>2 DEF Connect, TypesInv, Types
  <2>. QED
    BY <1>1, <2>1, <2>3
       DEF Connect, connector, TypesInv, Types, OneConnect, ConnectsIn
<1>2. CASE Complete /\ CallbackConnects
  BY <1>2, CompleteTypes
<1>3. CASE (ToEvents \/ NoEventsAtAll) /\ UNCHANGED connector
  BY <1>3 DEF ToEvents, NoEventsAtAll, NoEvents, connector, TypesInv, Types,
              OneConnect, ConnectsIn
<1>4. CASE Dispatch /\ UNCHANGED connector
  <2>1. /\ completions' \in Seq(Handlers) /\ backlog' \in Seq(1 .. Clients)
        /\ ch' \in BOOLEAN
        /\ ConnectsIn(completions') = ConnectsIn(completions)
    BY <1>4, HandleTypes DEF Dispatch, TypesInv, Types
  <2>2. Types'
    BY <1>4, <2>1 DEF Dispatch, connector, TypesInv, Types
  <2>. QED
    BY <1>4, <2>1, <2>2
       DEF Dispatch, connector, TypesInv, OneConnect, ConnectsIn
<1>5. CASE HandleConnector
  <2>1. PICK r \in {Error, 1} : completions' = Append(completions, <<"connect", r>>)
    BY <1>5 DEF HandleConnector
  <2> DEFINE h == <<"connect", r>>
  <2>2. h \in Handlers /\ h[1] = "connect"
    BY DEF Handlers
  <2>3. ConnectsIn(completions) = {}
    BY <1>5 DEF HandleConnector, TypesInv, OneConnect
  <2>4. /\ completions' \in Seq(Handlers)
        /\ ConnectsIn(completions') = {Len(completions) + 1}
    <3>1. completions \in Seq(Handlers) /\ completions' = Append(completions, h)
      BY <2>1 DEF TypesInv, Types
    <3>. HIDE DEF h
    <3>2. /\ Append(completions, h) \in Seq(Handlers)
          /\ ConnectsIn(Append(completions, h))
               = ConnectsIn(completions) \cup {Len(completions) + 1}
      BY <2>2, <3>1, Joins
    <3>. QED
      BY <2>3, <3>1, <3>2
  <2>5. Types'
    <3>1. pending' = FALSE
      BY <1>5 DEF HandleConnector
    <3>2. /\ pc' = pc /\ connected' = connected /\ backlog' = backlog
          /\ ch' = ch /\ served' = served /\ failed' = failed
          /\ registered' = registered /\ open' = open
      BY <1>5 DEF HandleConnector
    <3>. QED
      BY <2>4, <3>1, <3>2, Zenon DEF TypesInv, Types
  <2>6. OneConnect'
    BY <1>5, <2>4 DEF HandleConnector, OneConnect, ConnectsIn
  <2>. QED
    BY <2>5, <2>6 DEF TypesInv
<1>6. CASE UNCHANGED <<vars, connector>>
  BY <1>6 DEF vars, connector, TypesInv, Types, OneConnect, ConnectsIn
<1>. QED
  BY <1>1, <1>2, <1>3, <1>4, <1>5, <1>6
     DEF NextWithConnector, LoopWithConnector

\* For any number of clients: the loop keeps its types, and never has more
\* than two completion handlers queued, one of accept and one of connect.
THEOREM TypesKept == ConnectSpec => []ConnectTypeOK
<1>1. LoopInv /\ TypesInv => ConnectTypeOK
  <2> SUFFICES ASSUME LoopInv, TypesInv
               PROVE  ConnectTypeOK
    OBVIOUS
  <2>1. \A j, k \in AcceptsIn(completions) : j = k
    BY DEF LoopInv, OneInFlight, QueuedAt, AcceptsIn
  <2>2. Len(completions) <= 2
    BY <2>1, TwoAtMost DEF TypesInv, Types, OneConnect
  <2>. QED
    BY <2>2 DEF ConnectTypeOK, TypeOK, TypesInv, Types, Handlers
<1>. QED
  BY <1>1, LoopInit, LoopStep, TypesInit, TypesStep, PTL DEF ConnectSpec
-----------------------------------------------------------------------------
(***************************************************************************)
(* Order.  Handed over, in flight and in the backlog: the connections are  *)
(* the numbers 1, 2, ... without a gap.                                    *)
(***************************************************************************)

\* The results in a queue that hold a connection.
FlightsIn(q) == {k \in AcceptsIn(q) : q[k][2] # Error}

\* Of one place at most, none or one is taken.
LEMMA OneOrNone ==
  ASSUME NEW q \in Seq(Handlers), \A j, k \in AcceptsIn(q) : j = k
  PROVE  \/ FlightsIn(q) = {} /\ Cardinality(FlightsIn(q)) = 0
         \/ \E p \in DOMAIN q : /\ FlightsIn(q) = {p}
                                /\ Cardinality(FlightsIn(q)) = 1
<1>1. CASE FlightsIn(q) = {}
  BY <1>1, FS_EmptySet
<1>2. CASE FlightsIn(q) # {}
  <2>1. PICK p \in FlightsIn(q) : TRUE
    BY <1>2
  <2>2. p \in DOMAIN q /\ FlightsIn(q) = {p}
    BY <2>1 DEF FlightsIn, AcceptsIn
  <2>. QED
    BY <2>2, FS_Singleton
<1>. QED
  BY <1>1, <1>2

\* Nothing else that joins the queue holds a connection.
LEMMA NoFlight ==
  ASSUME NEW q \in Seq(Handlers), NEW h \in Handlers,
         h[1] # "accept" \/ h[2] = Error
  PROVE  /\ FlightsIn(Append(q, h)) = FlightsIn(q)
         /\ \A k \in FlightsIn(q) : Append(q, h)[k] = q[k]
<1>1. /\ DOMAIN Append(q, h) = (1 .. Len(q)) \cup {Len(q) + 1}
      /\ DOMAIN q = 1 .. Len(q)
      /\ \A k \in 1 .. Len(q) : Append(q, h)[k] = q[k]
      /\ Append(q, h)[Len(q) + 1] = h
  OBVIOUS
<1>2. FlightsIn(q) \subseteq 1 .. Len(q)
  BY <1>1 DEF FlightsIn, AcceptsIn
<1>. QED
  BY <1>1, <1>2 DEF FlightsIn, AcceptsIn

\* The invariant, of a queue with n connections handed over before it.
Follows(n, q, waiting) ==
  /\ \A k \in FlightsIn(q) : q[k][2] = n + 1
  /\ \A k \in DOMAIN waiting :
       waiting[k] = n + Cardinality(FlightsIn(q)) + k

AllOf(n, q, waiting) == n + Cardinality(FlightsIn(q)) + Len(waiting)

\* Handle takes the connection that is next, if it takes one.
LEMMA HandleFollows ==
  ASSUME backlog \in Seq(1 .. Clients), NEW armed \in BOOLEAN,
         NEW q \in Seq(Handlers), NEW n \in Nat,
         \A j, k \in AcceptsIn(q) : j = k /\ ~armed,
         Follows(n, q, backlog), Handle(armed, q)
  PROVE  /\ Follows(n, completions', backlog')
         /\ AllOf(n, completions', backlog') = AllOf(n, q, backlog)
<1>1. ASSUME armed, backlog # <<>>,
             completions' = Append(q, Accepted(Head(backlog))),
             backlog' = Tail(backlog)
      PROVE  /\ Follows(n, completions', backlog')
             /\ AllOf(n, completions', backlog') = AllOf(n, q, backlog)
  <2> DEFINE c == Head(backlog)
  <2>1. AcceptsIn(q) = {} /\ FlightsIn(q) = {}
    BY <1>1 DEF FlightsIn
  <2>2. Cardinality(FlightsIn(q)) = 0
    BY <2>1, FS_EmptySet
  <2>3. /\ c \in 1 .. Clients /\ c = n + 1 /\ c \in 0 .. Clients
        /\ Len(backlog) \in Nat /\ Len(backlog) > 0
        /\ Len(backlog') = Len(backlog) - 1
        /\ \A k \in 1 .. Len(backlog) - 1 : backlog'[k] = backlog[k + 1]
        /\ backlog' \in Seq(1 .. Clients)
    <3>1. /\ c \in 1 .. Clients /\ c = backlog[1]
          /\ Len(backlog) \in Nat /\ Len(backlog) > 0
          /\ Len(backlog') = Len(backlog) - 1
          /\ \A k \in 1 .. Len(backlog) - 1 : backlog'[k] = backlog[k + 1]
          /\ backlog' \in Seq(1 .. Clients)
      BY <1>1, Front
    <3>2. backlog[1] = n + 0 + 1
      BY <2>2, <3>1 DEF Follows
    <3>. QED
      BY <3>1, <3>2, AcceptorAssumption
  <2> DEFINE h == Accepted(c)
  <2>4. h \in Handlers /\ h[1] = "accept" /\ h[2] = c /\ c # Error
    BY <2>3 DEF Accepted, Handlers, Error
  <2>. HIDE DEF h, c
  <2>5. /\ completions' \in Seq(Handlers)
        /\ Len(completions') = Len(q) + 1 /\ Len(q) \in Nat
        /\ \A k \in 1 .. Len(q) : completions'[k] = q[k]
        /\ completions'[Len(q) + 1] = h
    BY <1>1, <2>4, Back DEF h, c
  <2>6. FlightsIn(completions') = {Len(q) + 1}
    BY <2>1, <2>4, <2>5 DEF FlightsIn, AcceptsIn
  <2>7. Cardinality(FlightsIn(completions')) = 1
    BY <2>6, FS_Singleton
  <2>8. \A k \in FlightsIn(completions') : completions'[k][2] = n + 1
    BY <2>3, <2>4, <2>5, <2>6
  <2>9. \A k \in DOMAIN backlog' : backlog'[k] = n + 1 + k
    <3>. TAKE k \in DOMAIN backlog'
    <3>1. k \in 1 .. Len(backlog) - 1 /\ k + 1 \in DOMAIN backlog
      BY <2>3
    <3>2. backlog[k + 1] = n + 0 + (k + 1)
      BY <2>2, <3>1 DEF Follows
    <3>. QED
      BY <2>3, <3>1, <3>2
  <2>. QED
    BY <2>2, <2>3, <2>7, <2>8, <2>9 DEF Follows, AllOf
<1>2. ASSUME completions' = Append(q, Accepted(Error)), backlog' = backlog
      PROVE  /\ Follows(n, completions', backlog')
             /\ AllOf(n, completions', backlog') = AllOf(n, q, backlog)
  <2> DEFINE h == Accepted(Error)
  <2>1. h \in Handlers /\ h[2] = Error
    BY AcceptorAssumption DEF Accepted, Handlers, Error
  <2>. HIDE DEF h
  <2>2. /\ FlightsIn(completions') = FlightsIn(q)
        /\ \A k \in FlightsIn(q) : completions'[k] = q[k]
    BY <1>2, <2>1, NoFlight DEF h
  <2>. QED
    BY <1>2, <2>2 DEF Follows, AllOf
<1>. QED
  BY <1>1, <1>2 DEF Handle

Ordered ==
  /\ \A k \in DOMAIN served : served[k] = k
  /\ pc # "exited" =>
       /\ Follows(Len(served), completions, backlog)
       /\ registered => AllOf(Len(served), completions, backlog) = connected

\* No connection has been made.
LEMMA OrderedInit == ConnectInit => Ordered
<1> SUFFICES ASSUME ConnectInit
             PROVE  Ordered
  OBVIOUS
<1>1. connected = 0 /\ backlog = <<>> /\ completions = <<>> /\ served = <<>>
  BY DEF ConnectInit, Init
<1>2. FlightsIn(completions) = {} /\ DOMAIN served = {} /\ DOMAIN backlog = {}
  BY <1>1 DEF FlightsIn, AcceptsIn
<1>3. Cardinality(FlightsIn(completions)) = 0
  BY <1>2, FS_EmptySet
<1>4. Len(served) = 0 /\ Len(backlog) = 0
  BY <1>1
<1>. QED
  BY <1>1, <1>2, <1>3, <1>4 DEF Ordered, Follows, AllOf

\* The connection in flight is served, and another one may take its place.
LEMMA CompleteOrdered ==
  ASSUME LoopInv, TypesInv, Ordered, Complete
  PROVE  Ordered'
<1> DEFINE q == completions
           rest == Tail(completions)
           n == Len(served)
<1>1. /\ pc = "completing" /\ q \in Seq(Handlers) /\ q # <<>>
      /\ connected' = connected /\ Head(q)[1] = "accept"
      /\ backlog \in Seq(1 .. Clients) /\ served \in Seq(1 .. Clients)
  BY DEF Complete, TypesInv, Types
<1>2. /\ \A k \in DOMAIN served : served[k] = k
      /\ Follows(n, q, backlog)
      /\ registered => AllOf(n, q, backlog) = connected
  BY <1>1 DEF Ordered
<1>3. /\ Head(q) = q[1] /\ Head(q) \in Handlers /\ rest \in Seq(Handlers)
      /\ Len(rest) = Len(q) - 1 /\ Len(q) \in Nat /\ Len(q) > 0
      /\ \A k \in 1 .. Len(q) - 1 : rest[k] = q[k + 1]
  BY <1>1, Front
<1>4. AcceptsIn(q) = {1}
  BY <1>1, <1>3 DEF AcceptsIn, LoopInv, OneInFlight, QueuedAt
<1>5. AcceptsIn(rest) = {} /\ FlightsIn(rest) = {}
  <2>. SUFFICES AcceptsIn(rest) = {}
    BY DEF FlightsIn
  <2>1. \A k \in DOMAIN rest : k \in 1 .. Len(q) - 1 /\ k + 1 \in DOMAIN q
    BY <1>3
  <2>2. \A k \in DOMAIN rest : k + 1 \notin AcceptsIn(q)
    BY <1>4, <2>1
  <2>. QED
    BY <1>3, <2>1, <2>2 DEF AcceptsIn
<1>6. Cardinality(FlightsIn(rest)) = 0
  BY <1>5, FS_EmptySet
<1>7. n \in Nat /\ Len(backlog) \in Nat
  BY <1>1
<1>8. ASSUME Head(q)[2] = Error, completions' = rest,
             UNCHANGED <<pc, served, backlog, registered>>
      PROVE  Ordered'
  <2>1. FlightsIn(q) = {}
    BY <1>3, <1>4, <1>8 DEF FlightsIn
  <2>2. Cardinality(FlightsIn(q)) = 0
    BY <2>1, FS_EmptySet
  <2>3. Follows(n, rest, backlog) /\ AllOf(n, rest, backlog) = AllOf(n, q, backlog)
    BY <1>2, <1>5, <1>6, <2>2 DEF Follows, AllOf
  <2>. QED
    BY <1>1, <1>2, <1>8, <2>3 DEF Ordered
<1>9. ASSUME Head(q)[2] # Error, served' = Append(served, Head(q)[2])
      PROVE  /\ Len(served') = n + 1
             /\ \A k \in DOMAIN served' : served'[k] = k
             /\ Follows(n + 1, rest, backlog)
             /\ AllOf(n + 1, rest, backlog) = AllOf(n, q, backlog)
  <2>1. FlightsIn(q) = {1}
    BY <1>3, <1>4, <1>9 DEF FlightsIn
  <2>2. Cardinality(FlightsIn(q)) = 1
    BY <2>1, FS_Singleton
  <2>3. Head(q)[2] = n + 1
    BY <1>2, <1>3, <2>1 DEF Follows
  <2>4. Head(q)[2] \in 1 .. Clients
    BY <1>1, <1>3, <1>9, AcceptorAssumption DEF Handlers, Error
  <2>5. /\ Len(served') = n + 1
        /\ \A k \in 1 .. n : served'[k] = served[k]
        /\ served'[n + 1] = n + 1
        /\ served' \in Seq(1 .. Clients)
    BY <1>1, <1>9, <2>3, <2>4, Back
  <2>6. \A k \in DOMAIN served' : served'[k] = k
    BY <1>1, <1>2, <1>7, <2>5
  <2>. QED
    BY <1>2, <1>5, <1>6, <1>7, <2>2, <2>5, <2>6 DEF Follows, AllOf
<1>10. ASSUME Head(q)[2] # Error, served' = Append(served, Head(q)[2]),
              \/ pc' = "exited"
              \/ Handle(TRUE, rest) /\ UNCHANGED <<pc, registered>>
              \/ Close(rest) /\ UNCHANGED pc
       PROVE  Ordered'
  <2>1. CASE pc' = "exited"
    BY <1>9, <1>10, <2>1 DEF Ordered
  <2>2. CASE Handle(TRUE, rest) /\ UNCHANGED <<pc, registered>>
    <3>1. \A j, k \in AcceptsIn(rest) : j = k /\ ~TRUE
      BY <1>5
    <3>. HIDE DEF rest, q
    <3>2. /\ Follows(n + 1, completions', backlog')
          /\ AllOf(n + 1, completions', backlog') = AllOf(n + 1, rest, backlog)
      <4>1. n + 1 \in Nat /\ TRUE \in BOOLEAN
        BY <1>7
      <4>2. Follows(n + 1, rest, backlog)
        BY <1>9, <1>10
      <4>. HIDE DEF n
      <4>. QED
        BY <1>1, <1>3, <2>2, <3>1, <4>1, <4>2, HandleFollows
    <3>. QED
      BY <1>1, <1>2, <1>9, <1>10, <2>2, <3>2 DEF Ordered
  <2>3. CASE Close(rest) /\ UNCHANGED pc
    <3>1. registered' = FALSE /\ completions' = rest /\ DOMAIN backlog' = {}
      BY <2>3 DEF Close
    <3>2. Follows(n + 1, completions', backlog')
      BY <1>5, <3>1 DEF Follows
    <3>. QED
      BY <1>9, <1>10, <3>1, <3>2 DEF Ordered
  <2>. QED
    BY <1>10, <2>1, <2>2, <2>3
<1>. QED
  BY <1>8, <1>10, Zenon DEF Complete, Popped, AcceptsAgain

\* Every step keeps the order.
LEMMA OrderedStep ==
  LoopInv /\ TypesInv /\ Ordered /\ [NextWithConnector]_<<vars, connector>>
    => Ordered'
<1> SUFFICES ASSUME LoopInv, TypesInv, Ordered,
                    [NextWithConnector]_<<vars, connector>>
             PROVE  Ordered'
  OBVIOUS
<1>0. /\ completions \in Seq(Handlers) /\ backlog \in Seq(1 .. Clients)
      /\ served \in Seq(1 .. Clients) /\ Len(served) \in Nat
      /\ Len(backlog) \in Nat /\ connected \in Nat /\ ch \in BOOLEAN
  BY AcceptorAssumption DEF TypesInv, Types
<1>1. CASE Connect
  <2>1. /\ UNCHANGED <<pc, completions, served, registered>>
        /\ connected' = connected + 1
        /\ IF registered THEN backlog' = Append(backlog, connected')
           ELSE backlog' = backlog
    BY <1>1 DEF Connect
  <2>2. CASE pc = "exited" \/ ~registered
    BY <2>1, <2>2 DEF Ordered
  <2>3. CASE pc # "exited" /\ registered
    <3>1. connected' \in 1 .. Clients
      BY <1>0, <1>1, AcceptorAssumption DEF Connect
    <3>2. /\ Len(backlog') = Len(backlog) + 1
          /\ \A k \in 1 .. Len(backlog) : backlog'[k] = backlog[k]
          /\ backlog'[Len(backlog) + 1] = connected'
          /\ backlog' \in Seq(1 .. Clients)
      <4>1. backlog' = Append(backlog, connected')
        BY <2>1, <2>3
      <4>. QED
        BY <1>0, <3>1, <4>1, Back
    <3>3. PICK g \in Nat : g = Cardinality(FlightsIn(completions))
      <4>1. \A j, k \in AcceptsIn(completions) : j = k
        BY DEF LoopInv, OneInFlight, QueuedAt, AcceptsIn
      <4>. QED
        BY <1>0, <4>1, OneOrNone
    <3>4. /\ \A k \in 1 .. Len(backlog) : backlog[k] = Len(served) + g + k
          /\ Len(served) + g + Len(backlog) = connected
      BY <1>0, <2>3, <3>3 DEF Ordered, Follows, AllOf
    <3>5. \A k \in DOMAIN backlog' : backlog'[k] = Len(served) + g + k
      <4>. TAKE k \in DOMAIN backlog'
      <4>1. k \in 1 .. Len(backlog) \/ k = Len(backlog) + 1
        BY <1>0, <3>2
      <4>2. CASE k \in 1 .. Len(backlog)
        BY <3>2, <3>4, <4>2
      <4>3. CASE k = Len(backlog) + 1
        BY <1>0, <2>1, <3>2, <3>4, <4>3
      <4>. QED
        BY <4>1, <4>2, <4>3
    <3>6. Len(served) + g + Len(backlog') = connected'
      BY <1>0, <2>1, <3>2, <3>4
    <3>. QED
      BY <2>1, <2>3, <3>3, <3>5, <3>6 DEF Ordered, Follows, AllOf
  <2>. QED
    BY <2>2, <2>3
<1>2. CASE Complete
  BY <1>2, CompleteOrdered
<1>3. CASE ToEvents \/ NoEventsAtAll
  <2>1. /\ UNCHANGED <<completions, backlog, served, connected, registered>>
        /\ pc # "exited"
    BY <1>3 DEF ToEvents, NoEventsAtAll, NoEvents
  <2>. QED
    BY <2>1 DEF Ordered
<1>4. CASE Dispatch
  <2>1. \A j, k \in AcceptsIn(completions) : j = k /\ ~ch
    BY DEF LoopInv, OneInFlight, QueuedAt, AcceptsIn
  <2>2. /\ pc # "exited" /\ Handle(ch, completions)
        /\ UNCHANGED <<pc, connected, served, registered>>
    BY <1>4 DEF Dispatch
  <2>3. /\ Follows(Len(served), completions', backlog')
        /\ AllOf(Len(served), completions', backlog')
             = AllOf(Len(served), completions, backlog)
    <3>1. Follows(Len(served), completions, backlog)
      BY <2>2 DEF Ordered
    <3>. QED
      BY <1>0, <2>1, <2>2, <3>1, HandleFollows
  <2>. QED
    BY <2>2, <2>3 DEF Ordered
<1>5. CASE HandleConnector
  <2>1. PICK r \in {Error, 1} : completions' = Append(completions, <<"connect", r>>)
    BY <1>5 DEF HandleConnector
  <2>2. UNCHANGED <<pc, backlog, served, connected, registered>>
    BY <1>5 DEF HandleConnector
  <2> DEFINE h == <<"connect", r>>
  <2>3. h \in Handlers /\ h[1] # "accept"
    BY DEF Handlers
  <2>. HIDE DEF h
  <2>4. /\ FlightsIn(completions') = FlightsIn(completions)
        /\ \A k \in FlightsIn(completions) : completions'[k] = completions[k]
    BY <1>0, <2>1, <2>3, NoFlight DEF h
  <2>. QED
    BY <2>2, <2>4 DEF Ordered, Follows, AllOf
<1>6. CASE UNCHANGED <<vars, connector>>
  BY <1>6 DEF vars, Ordered
<1>. QED
  BY <1>1, <1>2, <1>3, <1>4, <1>5, <1>6
     DEF NextWithConnector, LoopWithConnector

\* For any number of clients: connections are handed over in the order they
\* came in, each one once, and none is skipped while the acceptor is open.
THEOREM HandedOverInOrder == ConnectSpec => []InOrder
<1>1. Ordered => InOrder
  BY DEF Ordered, InOrder, Follows, AllOf, InFlight, QueuedAt, FlightsIn,
         AcceptsIn
<1>. QED
  BY <1>1, LoopInit, LoopStep, TypesInit, TypesStep, OrderedInit, OrderedStep,
     PTL DEF ConnectSpec
=============================================================================
