------------------------------ MODULE Context -------------------------------
(***************************************************************************)
(* ContextImpl of src/minaio/v2/context.h: a queue of operations that one  *)
(* thread runs.  The operations themselves are the business of the module  *)
(* that extends this one.                                                  *)
(***************************************************************************)
EXTENDS Naturals, Sequences

VARIABLES
  ops,               \* ops_
  left,              \* n - i: what Poll has still to run of its batch
  poll_in_progress,  \* poll_in_progress_
  stop_requested     \* stop_requested_

context == <<ops, left, poll_in_progress, stop_requested>>

\* The operation by which Poll gives the reactor its turn.
ReactorTurn == [kind |-> "reactor"]

ContextInit ==
  /\ ops = <<>>
  /\ left = 0
  /\ poll_in_progress = FALSE
  /\ stop_requested = FALSE

IsStopped == ops = <<>> /\ stop_requested

\* Poll, called by a loop that runs while the context is not stopped.  A call
\* from inside an operation finds poll_in_progress_ and returns.  The batch
\* is what is queued now: what the operations enqueue is left to the next.
PollBegin ==
  /\ ~IsStopped
  /\ ~poll_in_progress
  /\ poll_in_progress' = TRUE
  /\ ops' = Append(ops, ReactorTurn)
  /\ left' = Len(ops')
  /\ UNCHANGED stop_requested

\* The flag when r of the batch is left, or the operation has thrown.  A slip:
\* the last line of Poll clears it, which an exception passes over.
ClearedAtEnd(r, thrown) == r > 0 \/ thrown

InProgress(r, thrown) == r > 0 /\ ~thrown

Enqueue(more) ==
  /\ ops' = ops \o more
  /\ UNCHANGED <<left, poll_in_progress, stop_requested>>

\* The operation at the front has run and has enqueued more.
Ran(more) ==
  /\ ops' = Tail(ops) \o more
  /\ left' = left - 1
  /\ poll_in_progress' = InProgress(left - 1, FALSE)
  /\ UNCHANGED stop_requested

\* It ends in an exception, which leaves Poll and the rest of its batch.
Thrown ==
  /\ poll_in_progress
  /\ left' = 0
  /\ poll_in_progress' = InProgress(left, TRUE)
  /\ UNCHANGED <<ops, stop_requested>>

Stop ==
  /\ ~stop_requested
  /\ stop_requested' = TRUE
  /\ UNCHANGED <<ops, left, poll_in_progress>>
=============================================================================
