----------------------------- MODULE Connector -----------------------------
(***************************************************************************)
(* A Connector (src/minaio/v0/connector.h) on the context of an Acceptor,  *)
(* used as unittests/test_connector.cpp does.  Its initiation is an empty  *)
(* function that nobody calls, so that no connection is ever begun; but    *)
(* its constructor registers a socket to be told when it can be written,   *)
(* and epoll says so of a socket that is not connected too.  Being level-  *)
(* triggered it does not stop: the loop over events has no end then.       *)
(***************************************************************************)
EXTENDS Acceptor

VARIABLES
  open,     \* is there a connector, its reactor in io_handlers_?
  pending   \* is its ch_ set?

connector == <<open, pending>>

\* The program may have made a connector before it calls Poll.
ConnectInit ==
  /\ Init
  /\ open \in BOOLEAN
  /\ pending \in BOOLEAN /\ (pending => open)

\* Connector::Connector and AsyncConnect: Handle is called with no event, and
\* does nothing.
AsyncConnect == open' = TRUE /\ pending' = TRUE

\* Connector::Close: a callback that was not called is dropped.
CloseConnector == open /\ open' = FALSE /\ pending' = FALSE

\* What a callback may do with the connector.
CallbackConnects == UNCHANGED connector \/ AsyncConnect \/ CloseConnector

\* The connector's reactor is told that the socket can be written: it asks
\* for the error of the socket, and completes or not.  Its completion handler
\* will not run: the socket stays writable, and the loop over events goes on.
HandleConnector ==
  /\ pc = "events" /\ open /\ pending
  /\ \E result \in {Error, 1} :
       completions' = Append(completions, <<"connect", result>>)
  /\ pending' = FALSE
  /\ UNCHANGED <<pc, connected, backlog, ch, served, failed, registered, open>>

\* epoll_wait reports nothing only when there is no connector.
NoEventsAtAll == NoEvents /\ ~open

LoopWithConnector ==
  \/ Complete /\ CallbackConnects
  \/ (ToEvents \/ Dispatch \/ NoEventsAtAll) /\ UNCHANGED connector
  \/ HandleConnector

NextWithConnector ==
  (Connect /\ UNCHANGED connector) \/ LoopWithConnector

ConnectSpec ==
  /\ ConnectInit /\ [][NextWithConnector]_<<vars, connector>>
  /\ WF_<<vars, connector>>(LoopWithConnector)
-----------------------------------------------------------------------------
ConnectTypeOK ==
  /\ TypeOK
  /\ open \in BOOLEAN
  /\ pending \in BOOLEAN /\ (pending => open)

\* The loop over events never ends and a completion handler waits: for a
\* connection that nobody accepts until the handler has run, or because there
\* is a connector.
Starved ==
  /\ pc = "events" /\ completions # <<>>
  /\ open \/ (backlog # <<>> /\ ~ch)

\* A client that connects is served, unless the server has enough, met an
\* error or closed, or the loop over events starves its completion handler.
ServedOrStarved ==
  \A c \in 1 .. Clients :
    connected >= c ~> \/ Len(served) >= c \/ pc = "exited"
                      \/ failed \/ ~registered
                      \/ Starved
=============================================================================
