------------------------------ MODULE Acceptor ------------------------------
(***************************************************************************)
(* The accepting server of src/minaio/v0: IOContext::Poll (io_context.h),  *)
(* the Acceptor and its reactor (acceptor.h), and the server that drives   *)
(* them (unittests/test_acceptor.cpp).  The loop is single-threaded; the   *)
(* clients connect on their own, between any two of its steps.  epoll is   *)
(* level-triggered: it reports the listening socket for as long as a       *)
(* connection waits to be accepted.                                        *)
(***************************************************************************)
EXTENDS Naturals, Sequences, FiniteSets

CONSTANTS
  Clients,      \* number of clients, which connect in the order 1, 2, ...
  Concurrent,   \* clients that may wait to be served at the same time
  Wanted,       \* connections after which the server exits (count_ == 5)
  AcceptFails,  \* may accept fail for a reason other than EAGAIN?
  MayClose      \* may the user close the acceptor instead of accepting again?

ASSUME AcceptorAssumption ==
  /\ Clients \in Nat /\ Concurrent \in Nat /\ Wanted \in Nat \ {0}
  /\ AcceptFails \in BOOLEAN /\ MayClose \in BOOLEAN

Error == 0   \* a result that holds no connection

\* A completion handler, with the result it is bound to.
Accepted(result) == <<"accept", result>>

VARIABLES
  pc,           \* the loop of Poll that is running, or "exited"
  connected,    \* how many clients have connected
  backlog,      \* connections the kernel holds for the listening socket
  ch,           \* is ch_ set?
  completions,  \* completion_handlers_
  served,       \* the connections given to the user
  failed,       \* has the user been given an error?
  registered    \* is the reactor in io_handlers_, its descriptor in epoll?

vars == <<pc, connected, backlog, ch, completions, served, failed, registered>>

\* The constructor of the server has called DoAccept: nobody was waiting.
Init ==
  /\ pc = "completing"
  /\ connected = 0
  /\ backlog = <<>>
  /\ ch = TRUE
  /\ completions = <<>>
  /\ served = <<>>
  /\ failed = FALSE
  /\ registered = TRUE

Waiting == connected - Len(served)

Connect ==
  /\ connected < Clients /\ Waiting < Concurrent
  /\ connected' = connected + 1
  /\ backlog' = IF registered THEN Append(backlog, connected') ELSE backlog
  /\ UNCHANGED <<pc, ch, completions, served, failed, registered>>
-----------------------------------------------------------------------------
\* A slip: ch_ stays set after its operation has completed.
StaysSet == TRUE

Taken == FALSE

\* AcceptorReactor::Handle, with the handler armed and the completions still
\* to run: accept a connection, meet an error, or wait again.
Handle(armed, rest) ==
  \/ /\ armed /\ backlog # <<>>
     /\ completions' = Append(rest, Accepted(Head(backlog)))
     /\ backlog' = Tail(backlog)
     /\ ch' = Taken
  \/ /\ armed /\ AcceptFails
     /\ completions' = Append(rest, Accepted(Error))
     /\ ch' = Taken
     /\ UNCHANGED backlog
  \/ /\ ~armed \/ backlog = <<>>
     /\ completions' = rest
     /\ ch' = armed
     /\ UNCHANGED backlog

\* Acceptor::Close, from the handler: nothing is left to wake up, and the
\* kernel drops the connections nobody accepted.
Close(rest) ==
  /\ registered' = FALSE
  /\ ch' = FALSE
  /\ backlog' = <<>>
  /\ completions' = rest

Count == Len(served) + 1

\* Slips: the handler that ran is not popped; the callback does not call
\* DoAccept (as the one of test_server.cpp does not).
NotPopped == completions

Popped == Tail(completions)

AcceptsOnce == FALSE

AcceptsAgain == TRUE

\* Poll runs the first completion handler, and so the callback of the server.
Complete ==
  LET result == Head(completions)[2]
      rest == Popped
  IN  /\ pc = "completing" /\ completions # <<>>
      /\ Head(completions)[1] = "accept"
      /\ IF result = Error
         THEN /\ failed' = TRUE
              /\ completions' = rest
              /\ UNCHANGED <<pc, served, ch, backlog, registered>>
         ELSE /\ served' = Append(served, result)
              /\ UNCHANGED failed
              /\ \/ /\ Count = Wanted
                    /\ pc' = "exited"
                    /\ UNCHANGED <<completions, ch, backlog, registered>>
                 \/ /\ Count # Wanted
                    /\ Handle(AcceptsAgain, rest)
                    /\ UNCHANGED <<pc, registered>>
                 \/ /\ Count # Wanted /\ MayClose
                    /\ Close(rest)
                    /\ UNCHANGED pc
      /\ UNCHANGED connected

\* while (MoreEvents()) begins.
ToEvents ==
  /\ pc = "completing" /\ completions = <<>>
  /\ pc' = "events"
  /\ UNCHANGED <<connected, backlog, ch, completions, served, failed,
                 registered>>

\* epoll_wait reports the listening socket.
Dispatch ==
  /\ pc = "events" /\ registered /\ backlog # <<>>
  /\ Handle(ch, completions)
  /\ UNCHANGED <<pc, connected, served, failed, registered>>

\* epoll_wait reports nothing: Poll returns, and is called again.
NoEvents ==
  /\ pc = "events" /\ backlog = <<>>
  /\ pc' = "completing"
  /\ UNCHANGED <<connected, backlog, ch, completions, served, failed,
                 registered>>

Loop == Complete \/ ToEvents \/ Dispatch \/ NoEvents

Next == Connect \/ Loop

Spec == Init /\ [][Next]_vars

\* The thread of the loop keeps running.
FairSpec == Spec /\ WF_vars(Loop)
-----------------------------------------------------------------------------
TypeOK ==
  /\ pc \in {"completing", "events", "exited"}
  /\ connected \in 0 .. Clients
  /\ backlog \in Seq(1 .. Clients)
  /\ ch \in BOOLEAN
  /\ completions \in Seq(({"accept"} \X (0 .. Clients))
                           \cup ({"connect"} \X {Error, 1}))
  /\ Len(completions) <= 2
  /\ served \in Seq(1 .. Clients) /\ Len(served) <= Wanted
  /\ failed \in BOOLEAN
  /\ registered \in BOOLEAN

QueuedAt == {k \in DOMAIN completions : completions[k][1] = "accept"}

\* The server has one accept in flight: its callback is armed, or queued with
\* a result, never both, so that no AsyncAccept overwrites a callback that was
\* not called.  It has none only once it has closed the acceptor or, after an
\* error, given up.
OneInFlight ==
  /\ \A j, k \in QueuedAt : j = k /\ ~ch
  /\ pc # "exited" /\ registered /\ ~failed => ch \/ QueuedAt # {}

\* The results among them that hold a connection.
InFlight == {k \in QueuedAt : completions[k][2] # Error}

\* Connections are handed over in the order they came in, each one once: first
\* the ones served, then the one in flight, then the ones in the backlog.
InOrder ==
  LET taken == Len(served) + Cardinality(InFlight)
  IN  /\ \A k \in DOMAIN served : served[k] = k
      /\ pc # "exited" =>
           /\ \A k \in InFlight : completions[k][2] = Len(served) + 1
           /\ \A k \in DOMAIN backlog : backlog[k] = taken + k
           /\ registered => taken + Len(backlog) = connected

\* A client that connects is served, unless the server has enough: the
\* callback of test_acceptor.cpp is called for each connection until it has
\* counted Wanted of them.
EveryoneServed ==
  \A c \in 1 .. Clients :
    connected >= c ~> Len(served) >= c \/ pc = "exited"
=============================================================================
