--------------------------- MODULE OperationBatch ---------------------------
(***************************************************************************)
(* One operation batch of services/operation_batch.rs: the waiters that the *)
(* result consumer answers, one forwarder task per operation, the channel   *)
(* and the counter they share with the caller that waits for results, and   *)
(* the entry of the batch in the server's map.                              *)
(*                                                                          *)
(* Every access to a shared object is a step. A forwarder sends its result  *)
(* and then decrements the counter; the caller reads the two separately.    *)
(* Results are told apart by their operation alone.                         *)
(***************************************************************************)
EXTENDS Naturals, Sequences, FiniteSets

CONSTANT Ops   \* the operations of the batch

VARIABLES
  op,         \* where each operation stands
  chan,       \* the channel of the batch
  pending,    \* pending_count
  inMap,      \* the batch is in operation_batches
  starting,   \* start_operation_batch has not returned
  reader,     \* the caller of next_operation_result
  delivered   \* the operations whose result the caller got, in order

vars == <<op, chan, pending, inMap, starting, reader, delivered>>

\* "waiting": the waiter is registered. "published": so is the task. "answered",
\* "dropped": the oneshot was fired, or its sender dropped. "sent": the forwarder
\* has sent and not yet counted. "closed": it has ended.
OpStates == {"new", "waiting", "published", "answered", "dropped", "sent", "closed"}

\* The caller: between calls; about to receive; after a tick without a result;
\* about to drain, with the counter at zero or at the ceiling; with a result in
\* hand and the bookkeeping to do; gone with Ok(None) or an error.
ReaderStates == {"idle", "recv", "tick", "drain", "ceiling", "check",
                 "timeout", "expired", "error"}

TypeOK ==
  /\ op \in [Ops -> OpStates]
  /\ chan \in Seq(Ops) /\ delivered \in Seq(Ops)
  /\ pending \in 0..Cardinality(Ops)
  /\ inMap \in BOOLEAN /\ starting \in BOOLEAN
  /\ reader \in ReaderStates

Init ==
  /\ op = [o \in Ops |-> "new"]
  /\ chan = <<>> /\ delivered = <<>>
  /\ pending = Cardinality(Ops)
  /\ inMap = TRUE /\ starting = TRUE
  /\ reader = "idle"

Move(o, next) == op' = [op EXCEPT ![o] = next]

HasWaiter(o) == op[o] \in {"waiting", "published"}

WaitersRemoved == [o \in Ops |-> IF HasWaiter(o) THEN "dropped" ELSE op[o]]

-----------------------------------------------------------------------------
(* start_operation_batch *)

\* The waiter is registered and its forwarder spawned before the publish.
Register(o) ==
  /\ starting /\ op[o] = "new"
  /\ Move(o, "waiting")
  /\ UNCHANGED <<chan, pending, inMap, starting, reader, delivered>>

\* The task is published. One whose waiter was cancelled meanwhile is published
\* as well, and its reply finds no waiter.
Publish(o) ==
  /\ starting /\ op[o] = "waiting"
  /\ Move(o, "published")
  /\ UNCHANGED <<chan, pending, inMap, starting, reader, delivered>>

StartOk ==
  /\ starting /\ \A o \in Ops : op[o] \notin {"new", "waiting"}
  /\ starting' = FALSE
  /\ UNCHANGED <<op, chan, pending, inMap, reader, delivered>>

\* A blob store or publish error: cleanup_failed_operation_batch.
StartFails ==
  /\ starting
  /\ starting' = FALSE /\ inMap' = FALSE
  /\ op' = WaitersRemoved
  /\ reader' = "error"
  /\ UNCHANGED <<chan, pending, delivered>>

\* Mutant: a cancelled batch leaves its waiters registered.
CancelKeepingWaiters ==
  /\ inMap /\ inMap' = FALSE
  /\ UNCHANGED <<op, chan, pending, starting, reader, delivered>>

\* cancel_operation_batch: by the caller's session, or for the evaluate batch,
\* whose registry knows the batch from the first operation on.
Cancel ==
  /\ inMap /\ inMap' = FALSE
  /\ op' = WaitersRemoved
  /\ UNCHANGED <<chan, pending, starting, reader, delivered>>

-----------------------------------------------------------------------------
(* Replies and forwarders *)

\* consume_operation_results, Completed: the waiter is removed and fired. A
\* second reply, or one after a cancel, finds no waiter and changes nothing.
Answer(o) ==
  /\ op[o] = "published"
  /\ Move(o, "answered")
  /\ UNCHANGED <<chan, pending, inMap, starting, reader, delivered>>

\* spawn_waiter_forwarder: first the result (or an error result) is sent ...
Forward(o) ==
  /\ op[o] \in {"answered", "dropped"}
  /\ Move(o, "sent")
  /\ chan' = Append(chan, o)
  /\ UNCHANGED <<pending, inMap, starting, reader, delivered>>

\* Mutant: a forwarder ends without counting.
CountForgotten(o) ==
  /\ op[o] = "sent"
  /\ Move(o, "closed")
  /\ UNCHANGED <<chan, pending, inMap, starting, reader, delivered>>

\* ... then the counter goes down and the forwarder ends.
Count(o) ==
  /\ op[o] = "sent"
  /\ Move(o, "closed")
  /\ pending' = pending - 1
  /\ UNCHANGED <<chan, inMap, starting, reader, delivered>>

-----------------------------------------------------------------------------
(* next_operation_result, next_operation_result_async *)

ReaderMoves(next) ==
  /\ reader' = next
  /\ UNCHANGED <<op, chan, pending, inMap, starting, delivered>>

\* The channel and the counter are cloned from the map, or "Batch not found".
Call ==
  /\ reader = "idle" /\ ~starting /\ Len(delivered) < Cardinality(Ops)
  /\ ReaderMoves(IF inMap THEN "recv" ELSE "error")

Take ==
  /\ delivered' = Append(delivered, Head(chan)) /\ chan' = Tail(chan)
  /\ reader' = "check"
  /\ UNCHANGED <<op, pending, inMap, starting>>

Receive == reader = "recv" /\ chan # <<>> /\ Take

\* Every sender is gone and the channel is empty.
Disconnected ==
  /\ reader = "recv" /\ chan = <<>> /\ \A o \in Ops : op[o] = "closed"
  /\ ReaderMoves("error")

Tick == reader = "recv" /\ chan = <<>> /\ ReaderMoves("tick")

\* Keep waiting while an operation is in flight.
LoadPending ==
  /\ reader = "tick"
  /\ ReaderMoves(IF pending > 0 THEN "recv" ELSE "drain")

Ceiling == reader = "recv" /\ ReaderMoves("ceiling")

\* drain_delivered_before_giveup
Drain ==
  /\ reader \in {"drain", "ceiling"}
  /\ IF chan # <<>> THEN Take
     ELSE ReaderMoves(IF reader = "drain" THEN "timeout" ELSE "expired")

\* finish_operation_delivered: the entry is removed once nothing is left.
Finish ==
  /\ reader = "check"
  /\ inMap' = (inMap /\ ~(pending = 0 /\ chan = <<>>))
  /\ reader' = "idle"
  /\ UNCHANGED <<op, chan, pending, starting, delivered>>

\* wait_for_operation_results cancels a batch that timed out.
CancelTimedOut ==
  /\ reader \in {"timeout", "expired"} /\ inMap
  /\ inMap' = FALSE /\ op' = WaitersRemoved
  /\ UNCHANGED <<chan, pending, starting, reader, delivered>>

ReaderStep ==
  Call \/ Receive \/ Disconnected \/ Tick \/ LoadPending \/ Drain \/ Finish \/ CancelTimedOut

\* Mutant: the counter is decremented before the result is sent.
ForwarderCountingFirst(o) ==
  \/ /\ op[o] \in {"answered", "dropped"} /\ Move(o, "sent")
     /\ pending' = pending - 1
     /\ UNCHANGED <<chan, inMap, starting, reader, delivered>>
  \/ /\ op[o] = "sent" /\ Move(o, "closed")
     /\ chan' = Append(chan, o)
     /\ UNCHANGED <<pending, inMap, starting, reader, delivered>>

Forwarder(o) == Forward(o) \/ Count(o)

Next ==
  \/ \E o \in Ops : Register(o) \/ Publish(o) \/ Answer(o) \/ Forwarder(o)
  \/ StartOk \/ StartFails \/ Cancel \/ Ceiling \/ ReaderStep

Spec == Init /\ [][Next]_vars

-----------------------------------------------------------------------------
(* Properties *)

\* The caller never gives up on a result that has arrived: when it returns
\* Ok(None) below the ceiling, every operation was delivered to it before.
NoResultDropped ==
  reader = "timeout" => \A o \in Ops : \E i \in DOMAIN delivered : delivered[i] = o

\* The counter is the number of forwarders that have not ended, and never
\* wraps; every result is delivered at most once.
PendingExact ==
  /\ pending = Cardinality({o \in Ops : op[o] # "closed"})
  /\ LET all == delivered \o chan IN \A i, j \in DOMAIN all : all[i] = all[j] => i = j

\* A caller whose batch is cancelled under it returns without any reply and
\* long before the ceiling.
CancelEndsWait == (reader = "recv" /\ ~inMap) ~> (reader # "recv" /\ reader # "tick")
=============================================================================
