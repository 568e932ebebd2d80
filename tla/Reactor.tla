------------------------------ MODULE Reactor -------------------------------
(***************************************************************************)
(* Reactor of src/minaio/v2/reactor.cpp: a table of descriptors that Poll  *)
(* walks by index while the handlers it calls may change the table.        *)
(***************************************************************************)
EXTENDS Naturals, Sequences

VARIABLES
  fd_data,   \* fd_data_: a sequence of [fd, revents]
  at,        \* the index of Poll in it, 0 outside of Poll
  called,    \* how often this Poll has called the handler of each descriptor
             \* (two stands for more)
  meddled    \* has a handler, during this Poll, done more to the table than
             \* removing itself or one descriptor before it?

reactor == <<fd_data, at, called, meddled>>

Fds(table) == {table[k].fd : k \in DOMAIN table}

Entry(fd) == [fd |-> fd, revents |-> {}]

Added(table, fd) == Append(table, Entry(fd))

\* erase_if, of the descriptors in gone.
Without(table, gone) ==
  LET upTo[n \in 0 .. Len(table)] ==
        IF n = 0 THEN <<>>
        ELSE IF table[n].fd \in gone THEN upTo[n - 1]
        ELSE Append(upTo[n - 1], table[n])
  IN  upTo[Len(table)]

Removed(table, fd) == Without(table, {fd})

ReactorInit(table, FD) ==
  /\ fd_data = table
  /\ at = 0
  /\ called = [fd \in FD |-> 0]
  /\ meddled = FALSE

\* poll(2) has reported some of these events: every entry is visited.
ReactorBegin(events) ==
  /\ fd_data' = [k \in DOMAIN fd_data |->
                   [fd_data[k] EXCEPT !.revents = events[fd_data[k].fd]]]
  /\ at' = 1
  /\ UNCHANGED <<called, meddled>>

\* Slip: the index moves on after every call.
AlwaysNext(table) == at + 1

\* if (size == fd_data_.size()) i++
NextIndex(table) == IF Len(table) = Len(fd_data) THEN at + 1 ELSE at

\* The handler at the index has removed nothing, or itself, or one descriptor
\* before it.
Harmless(table) ==
  \/ table = fd_data
  \/ \E k \in 1 .. at : table = Removed(fd_data, fd_data[k].fd)

\* That handler has run and has left the table like this.
Handled(table) ==
  /\ at \in DOMAIN fd_data
  /\ fd_data' = table
  /\ at' = NextIndex(table)
  /\ called' = [called EXCEPT ![fd_data[at].fd] = IF @ = 0 THEN 1 ELSE 2]
  /\ meddled' = (meddled \/ ~Harmless(table))

\* The index has run off the table.  What poll(2) reported is dropped here:
\* the next call writes it anew.
ReactorEnd ==
  /\ at > Len(fd_data)
  /\ fd_data' = [k \in DOMAIN fd_data |-> Entry(fd_data[k].fd)]
  /\ at' = 0
  /\ called' = [fd \in DOMAIN called |-> 0]
  /\ meddled' = FALSE

\* Poll calls the handler of each descriptor of its table exactly once, ready
\* or not, although the handlers remove entries of the table it walks; unless
\* one does more than remove itself or one descriptor before it.
HandledOnce ==
  at > 0 /\ ~meddled =>
    \A k \in DOMAIN fd_data : called[fd_data[k].fd] = IF k < at THEN 1 ELSE 0
=============================================================================
