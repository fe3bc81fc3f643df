--------------------------- MODULE WindowedSession ---------------------------
(***************************************************************************)
(* A detached windowed session (services/windowed_session.rs) with the      *)
(* driver of evaluate batches (services/evaluate_batch/detached.rs): up to  *)
(* Window single-item batches in flight, one waiter task per batch that     *)
(* sends one outcome, a plugin callback per outcome that decides how to go  *)
(* on, and a bounded number of retries for what timed out.                  *)
(*                                                                          *)
(* The session is one task: what it does between two receives happens in    *)
(* one step per item started. Waiters run beside it. A batch is the slot    *)
(* and the number of its attempt. The callback may reply anything.          *)
(***************************************************************************)
EXTENDS Naturals, Sequences, FiniteSets

CONSTANTS
  Items,       \* the items in their order, distinct slot ids
  Window,      \* concurrency.max(1)
  MaxRetries,  \* MAX_DETACHED_OP_RETRIES
  Retained     \* the slots whose item was cheap enough to keep for a retry

SlotIds == {Items[i] : i \in DOMAIN Items}

Batches == SlotIds \X (0..MaxRetries)

VARIABLES
  phase,      \* where the session stands
  refill,     \* refill_enabled of the last decision
  todo,       \* pending
  active,     \* the batches in flight, as the session knows them
  waiting,    \* the waiter tasks that have not sent
  outcomes,   \* the channel from the waiters, <<batch, delivered>>
  retries,    \* op_retries
  reported,   \* events per slot handed to the callback
  withdrawn,  \* slots the callback has cancelled
  cancelled,  \* batches that were cancelled
  hooks       \* calls of on_terminal

vars == <<phase, refill, todo, active, waiting, outcomes, retries, reported,
          withdrawn, cancelled, hooks>>

TypeOK ==
  /\ phase \in {"fill", "receive", "refill", "exhausted", "ended"}
  /\ refill \in BOOLEAN
  /\ todo \in Seq(SlotIds)
  /\ active \subseteq Batches /\ waiting \subseteq Batches /\ cancelled \subseteq Batches
  /\ outcomes \in Seq(Batches \X BOOLEAN)
  /\ retries \in [SlotIds -> 0..MaxRetries] /\ reported \in [SlotIds -> Nat]
  /\ withdrawn \subseteq SlotIds
  /\ hooks \in Nat

Init ==
  /\ phase = "fill" /\ refill = TRUE
  /\ todo = Items
  /\ active = {} /\ waiting = {} /\ outcomes = <<>> /\ cancelled = {}
  /\ retries = [s \in SlotIds |-> 0] /\ reported = [s \in SlotIds |-> 0]
  /\ withdrawn = {}
  /\ hooks = 0

\* start_slot succeeds: the batch runs and its waiter is spawned.
Started(b, others) ==
  /\ active' = others \union {b}
  /\ waiting' = waiting \union {b}

\* The session ends after cancel_active; on_terminal runs unless a callback
\* failed.
Ends(others, terminal) ==
  /\ phase' = "ended"
  /\ active' = {} /\ cancelled' = cancelled \union others
  /\ hooks' = IF terminal THEN hooks + 1 ELSE hooks

Report(s) == reported' = [reported EXCEPT ![s] = @ + 1]

-----------------------------------------------------------------------------
\* The initial window: one more item is started ...
StartInitial ==
  /\ phase = "fill" /\ Cardinality(active) < Window /\ todo # <<>>
  /\ todo' = Tail(todo)
  /\ Started(<<Head(todo), 0>>, active)
  /\ UNCHANGED <<phase, refill, outcomes, retries, reported, withdrawn, cancelled, hooks>>

\* ... or cannot be, which ends the session after one callback.
StartInitialFails ==
  /\ phase = "fill" /\ Cardinality(active) < Window /\ todo # <<>>
  /\ todo' = Tail(todo)
  /\ Report(Head(todo))
  /\ Ends(active, TRUE)
  /\ UNCHANGED <<refill, waiting, outcomes, retries, withdrawn>>

WindowFilled ==
  /\ phase = "fill" /\ (Cardinality(active) >= Window \/ todo = <<>>)
  /\ phase' = IF active = {} THEN "exhausted" ELSE "receive"
  /\ UNCHANGED <<refill, todo, active, waiting, outcomes, retries, reported, withdrawn,
                 cancelled, hooks>>

\* A waiter sends its outcome: a result, or a timeout or error. The channel is
\* bounded; once the session is over nobody receives.
Outcome(b) ==
  /\ b \in waiting /\ phase # "ended" /\ Len(outcomes) < 2 * Window
  /\ waiting' = waiting \ {b}
  /\ \E delivered \in BOOLEAN : outcomes' = Append(outcomes, <<b, delivered>>)
  /\ UNCHANGED <<phase, refill, todo, active, retries, reported, withdrawn, cancelled, hooks>>

Batch == Head(outcomes)[1]

Receiving == phase = "receive" /\ outcomes # <<>> /\ outcomes' = Tail(outcomes)

\* remove_active_slot finds nothing: a result of a cancelled slot is dropped.
Removes == Batch \in active

IgnoreLate ==
  /\ Receiving /\ ~Removes
  /\ UNCHANGED <<phase, refill, todo, active, waiting, retries, reported, withdrawn,
                 cancelled, hooks>>

\* take_retry
MayRetry(s) == s \in Retained /\ retries[s] < MaxRetries

\* Mutant: the retry of a slot is counted and not started.
RetryNotStarted ==
  /\ Receiving /\ Removes /\ ~Head(outcomes)[2]
  /\ MayRetry(Batch[1])
  /\ retries' = [retries EXCEPT ![Batch[1]] = @ + 1]
  /\ active' = active \ {Batch}
  /\ UNCHANGED <<phase, refill, todo, waiting, reported, withdrawn, cancelled, hooks>>

\* Mutant: a slot that is retried is reported as well.
RetrySurfaced ==
  /\ Receiving /\ Removes /\ ~Head(outcomes)[2]
  /\ MayRetry(Batch[1])
  /\ retries' = [retries EXCEPT ![Batch[1]] = @ + 1]
  /\ Started(<<Batch[1], retries[Batch[1]] + 1>>, active \ {Batch})
  /\ Report(Batch[1])
  /\ UNCHANGED <<phase, refill, todo, withdrawn, cancelled, hooks>>

RetrySlot ==
  /\ Receiving /\ Removes /\ ~Head(outcomes)[2]
  /\ LET s == Batch[1] IN
       /\ MayRetry(s)
       /\ retries' = [retries EXCEPT ![s] = @ + 1]
       /\ Started(<<s, retries[s] + 1>>, active \ {Batch})
  /\ UNCHANGED <<phase, refill, todo, reported, withdrawn, cancelled, hooks>>

\* The outcome is surfaced: it is a result, or there is no retry left, or the
\* retry could not be started. The callback fails, ends the session, or goes on
\* with or without refilling, after withdrawing some slots.
Surface == Receiving /\ Removes /\ Report(Batch[1]) /\ UNCHANGED <<waiting, retries>>

InIds(ids) == {b \in active \ {Batch} : b[1] \in ids}

\* Mutant: a failed callback leaves the active batches running.
CallbackFailsKeepingActive ==
  /\ Surface
  /\ phase' = "ended" /\ active' = {}
  /\ UNCHANGED <<refill, todo, withdrawn, cancelled, hooks>>

CallbackFails ==
  /\ Surface
  /\ Ends(active \ {Batch}, FALSE)
  /\ UNCHANGED <<refill, todo, withdrawn>>

\* Mutant: pending items of withdrawn slots stay.
WithdrawActiveOnly(ids) == withdrawn' = withdrawn \union ids /\ UNCHANGED todo

\* cancel_selected and the filter of pending come before the action is looked at.
Withdraw(ids) ==
  /\ withdrawn' = withdrawn \union ids
  /\ todo' = SelectSeq(todo, LAMBDA s : s \notin ids)

CallbackEnds(ids) ==
  /\ Surface
  /\ Withdraw(ids)
  /\ Ends(active \ {Batch}, TRUE)
  /\ UNCHANGED refill

CallbackContinues(ids, more) ==
  /\ Surface
  /\ Withdraw(ids)
  /\ active' = (active \ {Batch}) \ InIds(ids)
  /\ cancelled' = cancelled \union InIds(ids)
  /\ refill' = more /\ phase' = "refill"
  /\ UNCHANGED hooks

-----------------------------------------------------------------------------
(* The refill loop *)

Refilling == phase = "refill" /\ refill /\ Cardinality(active) < Window /\ todo # <<>>

Refill ==
  /\ Refilling
  /\ todo' = Tail(todo)
  /\ Started(<<Head(todo), 0>>, active)
  /\ UNCHANGED <<phase, refill, outcomes, retries, reported, withdrawn, cancelled, hooks>>

\* Mutant: a failed start leaves the refill loop.
RefillBreaks ==
  /\ Refilling
  /\ todo' = Tail(todo) /\ Report(Head(todo))
  /\ phase' = "receive"
  /\ UNCHANGED <<refill, active, waiting, outcomes, retries, withdrawn, cancelled, hooks>>

\* The start fails: a callback is told, and may go on with the next item.
RefillFails ==
  /\ Refilling
  /\ todo' = Tail(todo) /\ Report(Head(todo))
  /\ UNCHANGED <<refill, waiting, outcomes, retries, withdrawn>>
  /\ \/ UNCHANGED <<phase, active, cancelled, hooks>>
     \/ \E terminal \in BOOLEAN : Ends(active, terminal)

RefillDone ==
  /\ phase = "refill" /\ ~Refilling
  /\ phase' = IF active = {} /\ (~refill \/ todo = <<>>) THEN "exhausted" ELSE "receive"
  /\ UNCHANGED <<refill, todo, active, waiting, outcomes, retries, reported, withdrawn,
                 cancelled, hooks>>

\* The Exhausted callback; on_terminal unless it fails.
Exhausted ==
  /\ phase = "exhausted"
  /\ \E terminal \in BOOLEAN : Ends({}, terminal)
  /\ UNCHANGED <<refill, todo, waiting, outcomes, retries, reported, withdrawn>>

-----------------------------------------------------------------------------
SessionStep ==
  \/ StartInitial \/ StartInitialFails \/ WindowFilled
  \/ IgnoreLate \/ RetrySlot \/ CallbackFails
  \/ \E ids \in SUBSET SlotIds :
       CallbackEnds(ids) \/ \E more \in BOOLEAN : CallbackContinues(ids, more)
  \/ Refill \/ RefillFails \/ RefillDone \/ Exhausted

Next == SessionStep \/ \E b \in Batches : Outcome(b)

Spec == Init /\ [][Next]_vars

-----------------------------------------------------------------------------
(* Properties *)

\* The plugin hears of a slot at most once, over retries, late results and
\* failed starts, and the hooks after judging run at most once.
ReportedOnce == hooks <= 1 /\ \A s \in SlotIds : reported[s] <= 1

\* A slot the plugin has withdrawn is not reported any more, even if its batch
\* had already answered, and no item of it is started.
SilentOnceWithdrawn ==
  \A s \in withdrawn :
    reported'[s] = reported[s] /\ \A b \in waiting' \ waiting : b[1] # s

WithdrawnStaysSilent == [][SilentOnceWithdrawn]_vars

\* When a session is over, every batch it was still waiting for was cancelled. A
\* batch whose waiter had timed out is not waited for any more, and may run on: only
\* its registry entry is removed.
NothingRunsOn == phase = "ended" => waiting \subseteq cancelled

\* A session that ran to exhaustion and was never told to stop refilling has
\* reported every item that was not withdrawn.
NothingForgotten ==
  phase = "exhausted" /\ refill =>
    \A s \in SlotIds : reported[s] = 1 \/ s \in withdrawn

\* A session ends, whatever fails to start, times out or is withdrawn.
SessionEnds == <>(phase = "ended")
=============================================================================
