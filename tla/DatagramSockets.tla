--------------------------- MODULE DatagramSockets ---------------------------
(***************************************************************************)
(* DatagramSocket of src/minaio/v2/datagram_socket.cpp on a Context and a  *)
(* Reactor.  One thread runs everything; datagrams arrive between any two  *)
(* steps.  The sources of the socket do not compile at this commit (the    *)
(* header keeps the callbacks in the socket, the definitions in the state  *)
(* they share with the queued completions); the definitions are modelled.  *)
(***************************************************************************)
EXTENDS Context, Reactor, SequencesExt

CONSTANTS
  Sockets,    \* the sockets; each is constructed with a state of its own
  UserFd,     \* descriptors the user gives the reactor himself
  Registers,  \* whether the descriptors of sockets are in the reactor: the
              \* constructor prepares the flags for Add and does not call it
  MaxCalls,   \* calls of AsyncReadFrom and AsyncWriteTo
  MaxWaiting, \* datagrams that wait in the kernel for one socket
  MaxTable,   \* descriptors in the reactor when the user adds one
  Null        \* no state; no callback

ASSUME DatagramAssumption ==
  /\ Sockets \cap UserFd = {} /\ IsFiniteSet(Sockets \cup UserFd)
  /\ Null \notin Sockets \cup Nat
  /\ Registers \subseteq BOOLEAN
  /\ {MaxCalls, MaxWaiting, MaxTable} \subseteq Nat

\* States, and their descriptors, have the names of the sockets that made them.
States == Sockets

Dir == {"rx", "tx"}

VARIABLES
  state,       \* state_ of each socket
  open,        \* is the descriptor of each state open?
  ch,          \* rx_ch_ and tx_ch_ of each state: Null or a callback
  waiting,     \* datagrams in the kernel
  calls,       \* callbacks handed out: they are 1 .. calls
  user,        \* is the user running, in a callback or between two Polls?
  rushed,      \* has an operation been started, or closed, while a completion
               \* of its direction was queued, by the user or by an event?
  wrong        \* has a completion found another callback, or none ("crashed")?

sockets == <<state, open, ch, waiting, calls, rushed, wrong>>

vars == <<context, reactor, sockets, user>>

Init ==
  /\ ContextInit
  /\ \E registered \in Registers :
       LET all == IF registered THEN SetToSeq(States) ELSE <<>>
       IN  ReactorInit([k \in DOMAIN all |-> Entry(all[k])], States \cup UserFd)
  /\ state = [o \in Sockets |-> o]
  /\ open = [s \in States |-> TRUE]
  /\ ch = [s \in States |-> [d \in Dir |-> Null]]
  /\ waiting = [s \in States |-> 0]
  /\ calls = 0
  /\ user = TRUE
  /\ rushed = FALSE
  /\ wrong = "no"
-----------------------------------------------------------------------------
\* A completion: it moves the callback of s out and calls it.  cb is the
\* callback it is meant for, which the code does not record.
Completion(s, d, cb) ==
  [kind |-> "completion", of |-> s, dir |-> d, cb |-> cb]

\* A slip: the return after "end of file" is missing.
CompletedTwice(s, d, cb) == <<Completion(s, d, cb), Completion(s, d, cb)>>

Completed(s, d, cb) == <<Completion(s, d, cb)>>

Queued(s, d) ==
  \E k \in DOMAIN ops :
    ops[k].kind = "completion" /\ ops[k].of = s /\ ops[k].dir = d

\* StartRead, with n datagrams waiting: a datagram (an empty one is reported
\* as a closed descriptor), an error, or nothing to read yet.
StartRead(n) ==
  {[done |-> TRUE, waiting |-> n],
   IF n > 0 THEN [done |-> TRUE, waiting |-> n - 1]
            ELSE [done |-> FALSE, waiting |-> n]}

\* StartWrite: sent, failed or a bad address; or nothing to write yet.
StartWrite == BOOLEAN

If(b, seq) == IF b THEN seq ELSE <<>>

\* A slip: the writer's callback is forgotten.
CloseReader(s) == If(ch[s]["rx"] # Null, Completed(s, "rx", ch[s]["rx"]))

\* The errors Close enqueues for the callbacks that are set.
CloseOps(s) ==
  If(ch[s]["rx"] # Null, Completed(s, "rx", ch[s]["rx"]))
    \o If(ch[s]["tx"] # Null, Completed(s, "tx", ch[s]["tx"]))

Rushes(s, D, again) ==
  rushed' = (rushed \/ again \/ \E d \in D : Queued(s, d))
-----------------------------------------------------------------------------
(***************************************************************************)
(* What the user does, in a callback or between two calls of Poll.         *)
(***************************************************************************)
UserRuns ==
  user /\ at = 0 /\ wrong # "crashed" /\ UNCHANGED user

\* AsyncReadFrom and AsyncWriteTo on a closed socket.
AsyncOnClosed(o) ==
  /\ UserRuns /\ calls < MaxCalls /\ state[o] = Null
  /\ calls' = calls + 1
  /\ Enqueue(<<[kind |-> "closed"]>>)
  /\ UNCHANGED <<reactor, state, open, ch, waiting, rushed, wrong>>

AsyncReadFrom(o) ==
  LET s == state[o]
  IN  /\ UserRuns /\ calls < MaxCalls /\ s # Null
      /\ calls' = calls + 1
      /\ ch' = [ch EXCEPT ![s]["rx"] = calls']
      /\ \E r \in StartRead(waiting[s]) :
           /\ Enqueue(If(r.done, Completed(s, "rx", calls')))
           /\ waiting' = [waiting EXCEPT ![s] = r.waiting]
      /\ Rushes(s, {"rx"}, FALSE)
      /\ UNCHANGED <<reactor, state, open, wrong>>

AsyncWriteTo(o) ==
  LET s == state[o]
  IN  /\ UserRuns /\ calls < MaxCalls /\ s # Null
      /\ calls' = calls + 1
      /\ ch' = [ch EXCEPT ![s]["tx"] = calls']
      /\ \E done \in StartWrite : Enqueue(If(done, Completed(s, "tx", calls')))
      /\ Rushes(s, {"tx"}, FALSE)
      /\ UNCHANGED <<reactor, state, open, waiting, wrong>>

\* Close as far as the state goes: out of the reactor, descriptor closed.
CloseState(s) ==
  /\ open' = [open EXCEPT ![s] = FALSE]
  /\ waiting' = [waiting EXCEPT ![s] = 0]

\* The user closes o, or destroys it, or assigns p to it: o = std::move(p)
\* closes what o had, even if p is o.
Replace(o, new) ==
  LET s == state[o]
  IN  /\ UserRuns
      /\ state' = new
      /\ IF s = Null
         THEN UNCHANGED <<context, reactor, open, waiting, rushed>>
         ELSE /\ Enqueue(CloseOps(s))
              /\ fd_data' = Removed(fd_data, s)
              /\ CloseState(s)
              /\ Rushes(s, Dir, FALSE)
              /\ UNCHANGED <<at, called, meddled>>
      /\ UNCHANGED <<ch, calls, wrong>>

Close(o) == state[o] # Null /\ Replace(o, [state EXCEPT ![o] = Null])

\* A slip: the state is shared with the socket it is moved from.
SharedWith(o, p) == [state EXCEPT ![o] = state[p]]

MovedTo(o, p) == [state EXCEPT ![o] = state[p], ![p] = Null]

Move(o, p) == state[p] # Null /\ Replace(o, MovedTo(o, p))

\* The user gives the reactor a descriptor of his own, or takes it back.
UserTable(table) ==
  /\ UserRuns
  /\ fd_data' = table
  /\ UNCHANGED <<context, at, called, meddled, state, open, ch, waiting, calls,
                 rushed, wrong>>

UserAdds ==
  /\ Len(fd_data) < MaxTable
  /\ \E f \in UserFd \ Fds(fd_data) : UserTable(Added(fd_data, f))

UserRemoves == \E f \in UserFd \cap Fds(fd_data) : UserTable(Removed(fd_data, f))

UserStops == UserRuns /\ Stop /\ UNCHANGED <<reactor, sockets>>

UserThrows == UserRuns /\ Thrown /\ UNCHANGED <<reactor, sockets>>

User ==
  \/ \E o \in Sockets :
       AsyncOnClosed(o) \/ AsyncReadFrom(o) \/ AsyncWriteTo(o) \/ Close(o)
  \/ \E o, p \in Sockets : Move(o, p)
  \/ UserAdds \/ UserRemoves \/ UserStops \/ UserThrows

Arrive ==
  \E s \in States :
    /\ open[s] /\ waiting[s] < MaxWaiting
    /\ waiting' = [waiting EXCEPT ![s] = @ + 1]
    /\ UNCHANGED <<context, reactor, state, open, ch, calls, rushed, wrong,
                   user>>
-----------------------------------------------------------------------------
(***************************************************************************)
(* The loop: while (!ctx.IsStopped()) ctx.Poll().                          *)
(***************************************************************************)
Poll ==
  /\ wrong # "crashed"
  /\ PollBegin
  /\ user' = FALSE
  /\ UNCHANGED <<reactor, sockets>>

Turn(kind) ==
  left > 0 /\ at = 0 /\ wrong # "crashed" /\ Head(ops).kind = kind

RunClosed ==
  /\ Turn("closed")
  /\ Ran(<<>>)
  /\ user' = TRUE
  /\ UNCHANGED <<reactor, sockets>>

RunCompletion ==
  LET c == Head(ops)
      found == ch[c.of][c.dir]
  IN  /\ Turn("completion")
      /\ Ran(<<>>)
      /\ ch' = [ch EXCEPT ![c.of][c.dir] = Null]
      /\ wrong' = IF found = Null THEN "crashed"
                  ELSE IF found # c.cb THEN "misdelivered" ELSE wrong
      /\ user' = TRUE
      /\ UNCHANGED <<reactor, state, open, waiting, calls, rushed>>

\* What poll(2) may report.
Events ==
  {e \in [Fds(fd_data) -> SUBSET {"in", "out", "close"}] :
     \A f \in Fds(fd_data) :
       IF f \in States THEN "in" \in e[f] => waiting[f] > 0
                       ELSE e[f] \subseteq {"in"}}

ReactorStarts ==
  /\ Turn("reactor")
  /\ \/ Ran(<<>>) /\ UNCHANGED reactor
     \/ /\ \E e \in Events :
             (\E f \in Fds(fd_data) : e[f] # {}) /\ ReactorBegin(e)
        /\ UNCHANGED context
  /\ UNCHANGED <<sockets, user>>

\* HandleEvent of the state s: it starts again whatever has its callback set,
\* and closes then.
Restarted(s, e) ==
  {d \in Dir : ch[s][d] # Null /\ (IF d = "rx" THEN "in" ELSE "out") \in e}

HandleEvent(s, e) ==
  \E r \in IF "rx" \in Restarted(s, e) THEN StartRead(waiting[s])
           ELSE {[done |-> FALSE, waiting |-> waiting[s]]},
     w \in IF "tx" \in Restarted(s, e) THEN StartWrite ELSE {FALSE} :
    LET more == If(r.done, Completed(s, "rx", ch[s]["rx"]))
                  \o If(w, Completed(s, "tx", ch[s]["tx"]))
    IN  \/ /\ "close" \notin e
           /\ Handled(fd_data)
           /\ Enqueue(more)
           /\ waiting' = [waiting EXCEPT ![s] = r.waiting]
           /\ Rushes(s, Restarted(s, e), FALSE)
           /\ UNCHANGED <<state, open>>
        \/ /\ "close" \in e
           /\ Handled(Removed(fd_data, s))
           /\ Enqueue(more \o CloseOps(s))
           /\ state' = [o \in Sockets |-> IF state[o] = s THEN Null ELSE state[o]]
           /\ CloseState(s)
           /\ Rushes(s, Dir, r.done \/ w)

\* A handler of the user's removes and adds a descriptor of his.
UserHandler ==
  \E gone \in SUBSET (UserFd \cap Fds(fd_data)) :
    LET kept == Without(fd_data, gone)
    IN  /\ \/ Handled(kept)
           \/ /\ Len(kept) < MaxTable
              /\ \E f \in UserFd \ Fds(kept) : Handled(Added(kept, f))
        /\ Enqueue(<<>>)
        /\ UNCHANGED <<state, open, waiting, rushed>>

ReactorHandles ==
  /\ at > 0 /\ at \in DOMAIN fd_data
  /\ LET entry == fd_data[at]
     IN  IF entry.fd \in States THEN HandleEvent(entry.fd, entry.revents)
         ELSE UserHandler
  /\ UNCHANGED <<ch, calls, wrong, user>>

ReactorReturns ==
  /\ at > 0
  /\ ReactorEnd
  /\ Ran(<<>>)
  /\ UNCHANGED <<sockets, user>>

Loop == Poll \/ RunClosed \/ RunCompletion \/ ReactorStarts \/ ReactorHandles
        \/ ReactorReturns

Next == User \/ Arrive \/ Loop

Spec == Init /\ [][Next]_vars

\* The thread keeps running; the user's part of it comes back to the loop.
FairSpec == Spec /\ WF_vars(Loop)
-----------------------------------------------------------------------------
TypeOK ==
  /\ left \in 0 .. Len(ops)
  /\ poll_in_progress <=> left > 0
  /\ at \in 0 .. Cardinality(States \cup UserFd) + 1
  /\ at > 0 => poll_in_progress /\ Head(ops) = ReactorTurn
  /\ state \in [Sockets -> States \cup {Null}]
  /\ ch \in [States -> [Dir -> 1 .. calls \cup {Null}]]
  /\ waiting \in [States -> 0 .. MaxWaiting]
  /\ wrong \in {"no", "misdelivered", "crashed"}

\* Every completion finds the callback it was enqueued for, whatever was
\* closed, moved or thrown in between; unless an operation was started, by the
\* user or again by an event, or closed, while a completion of its direction
\* was queued: the code does not notice that.
Matched == wrong # "no" => rushed

\* One state has one socket at most, and is open exactly while it has one; a
\* socket that was moved from or closed has none.
OneOwner ==
  /\ \A o, p \in Sockets : state[o] = state[p] /\ state[o] # Null => o = p
  /\ \A s \in States : open[s] <=> \E o \in Sockets : state[o] = s

\* A callback that was waiting when its socket was closed is called.
ClosedIsAnswered ==
  \A s \in States, d \in Dir :
    ~open[s] /\ ch[s][d] # Null
      ~> ch[s][d] = Null \/ wrong = "crashed" \/ meddled

\* After Stop, the loop ends, exceptions or not, once what was enqueued has run.
StopEnds == stop_requested ~> IsStopped \/ wrong = "crashed" \/ meddled
=============================================================================
