---------------------------- MODULE EvaluateBatch ----------------------------
(***************************************************************************)
(* One evaluate batch of services/evaluate_batch: the dispatcher that hands *)
(* out fan-out permits, one task per test case, the aggregator that calls   *)
(* the evaluator back with several finished cases at a time, the channel    *)
(* and counter of the batch, and the caller that waits and asks the         *)
(* registry of operations whether to wait on.                               *)
(*                                                                          *)
(* The batch is one the batch evaluator serves by callbacks, or one whose   *)
(* evaluator is called once per case ("direct"). The semaphores are never   *)
(* closed outside of tests, so the branches for a closed one are left out.  *)
(* A case's operations are answered by the environment, or fail.            *)
(***************************************************************************)
EXTENDS Naturals, Sequences, FiniteSets

LOCAL INSTANCE SequencesExt

CONSTANTS
  NCases,     \* the number of test cases of the batch
  Fanout,     \* permits of the fan-out semaphore
  Slots,      \* permits of evaluator_slots
  Coalesce    \* BATCH_EVALUATOR_CALLBACK_COALESCE

VARIABLES
  path,       \* "callback" or "direct"
  stage,      \* where each case stands
  ready,      \* the channel to the aggregator
  flush,      \* the cases of the callback in progress
  verdicts,   \* the channel of the batch
  unanswered, \* pending_count
  registry,   \* what the registry of operations knows of each case
  known,      \* the registry has an entry for the batch
  listed,     \* the batch is in evaluate_batches
  caller,     \* the caller of next_evaluate_result
  got         \* the cases whose verdict the caller received, in order

CaseIds == 1..NCases

work == <<path, stage, ready, flush, verdicts, unanswered>>

vars == <<work, registry, known, listed, caller, got>>

\* "queued": the dispatcher has no permit for it yet. "spawned": its task waits
\* for an evaluator slot. "prepare": the evaluator runs. "ops": its operations
\* run. "ready": the task waits for room in the channel; "passed": it is there.
\* "held": with the aggregator. "sent": the verdict is sent and not yet counted.
Stages == {"queued", "spawned", "prepare", "ops", "ready", "passed", "held", "sent", "done"}

Callers == {"idle", "recv", "tick", "drain", "check", "timeout", "error"}

TypeOK ==
  /\ path \in {"callback", "direct"}
  /\ stage \in [CaseIds -> Stages]
  /\ ready \in Seq(CaseIds) /\ Len(ready) <= 2 * Coalesce
  /\ flush \subseteq CaseIds
  /\ verdicts \in Seq(CaseIds) /\ got \in Seq(CaseIds)
  /\ unanswered \in 0..NCases
  /\ registry \in [CaseIds -> {"none", "recorded", "overdue", "completed"}]
  /\ known \in BOOLEAN /\ listed \in BOOLEAN
  /\ caller \in Callers

Init ==
  /\ path \in {"callback", "direct"}
  /\ stage = [c \in CaseIds |-> "queued"]
  /\ ready = <<>> /\ flush = {}
  /\ verdicts = <<>> /\ unanswered = NCases /\ got = <<>>
  /\ registry = [c \in CaseIds |-> "none"] /\ known = FALSE
  /\ listed = TRUE
  /\ caller = "idle"

At(S) == {c \in CaseIds : stage[c] \in S}

Move(c, next) == stage' = [stage EXCEPT ![c] = next]

-----------------------------------------------------------------------------
(* The dispatcher and the tasks *)

\* A permit is acquired and the task of the next case spawned.
Dispatch(c) ==
  /\ stage[c] = "queued" /\ \A b \in At({"queued"}) : c <= b
  /\ Cardinality(At({"spawned", "prepare", "ops", "ready"})) < Fanout
  /\ Move(c, "spawned")
  /\ UNCHANGED <<path, ready, flush, verdicts, unanswered, registry, known, listed, caller, got>>

SlotFree == Cardinality(At({"prepare"})) + (IF flush = {} THEN 0 ELSE 1) < Slots

Prepare(c) ==
  /\ stage[c] = "spawned" /\ SlotFree
  /\ Move(c, "prepare")
  /\ UNCHANGED <<path, ready, flush, verdicts, unanswered, registry, known, listed, caller, got>>

\* record_ops, once the case's operation batch starts.
StartOps(c) ==
  /\ stage[c] = "prepare" /\ path = "callback"
  /\ Move(c, "ops")
  /\ registry' = [registry EXCEPT ![c] = "recorded"] /\ known' = TRUE
  /\ UNCHANGED <<path, ready, flush, verdicts, unanswered, listed, caller, got>>

\* mark_operation_started by the Started reply of a worker, and the ceiling for
\* a started operation passes.
Overdue(c) ==
  /\ registry[c] = "recorded"
  /\ registry' = [registry EXCEPT ![c] = "overdue"]
  /\ UNCHANGED <<work, known, listed, caller, got>>

\* wait_for_operation_results returns every result.
OpsDone(c) ==
  /\ stage[c] = "ops"
  /\ Move(c, "ready")
  /\ UNCHANGED <<path, ready, flush, verdicts, unanswered, registry, known, listed, caller, got>>

\* The result is passed to the aggregator; a full channel blocks the task,
\* which keeps its permit.
PassOn(c) ==
  /\ stage[c] = "ready" /\ Len(ready) < 2 * Coalesce
  /\ Move(c, "passed") /\ ready' = Append(ready, c)
  /\ UNCHANGED <<path, flush, verdicts, unanswered, registry, known, listed, caller, got>>

\* Mutant: a task that answered for a failed case goes on as if it had its results.
SendVerdictAndGoOn(c) ==
  /\ stage[c] = "prepare" \/ stage[c] = "ops"
  /\ Move(c, "ready") /\ verdicts' = Append(verdicts, c)
  /\ UNCHANGED <<path, ready, flush, unanswered, registry, known, listed, caller, got>>

\* The verdict of a direct evaluator, or SystemError for a case whose prepare,
\* start or wait failed.
SendVerdict(c) ==
  /\ stage[c] = "prepare" \/ stage[c] = "ops"
  /\ Move(c, "sent") /\ verdicts' = Append(verdicts, c)
  /\ UNCHANGED <<path, ready, flush, unanswered, registry, known, listed, caller, got>>

\* decrement_pending
Count(c) ==
  /\ stage[c] = "sent"
  /\ Move(c, "done") /\ unanswered' = unanswered - 1
  /\ UNCHANGED <<path, ready, flush, verdicts, registry, known, listed, caller, got>>

\* Drop of DispatchGuard: the cases the dispatcher did not hand out.
Unwind ==
  /\ At({"queued"}) # {}
  /\ stage' = [c \in CaseIds |-> IF stage[c] = "queued" THEN "sent" ELSE stage[c]]
  /\ \E order \in SetToSeqs(At({"queued"})) : verdicts' = verdicts \o order
  /\ UNCHANGED <<path, ready, flush, unanswered, registry, known, listed, caller, got>>

-----------------------------------------------------------------------------
(* run_batch_evaluator_callback_aggregator *)

\* push_ready_case_for_callback
Take(c) ==
  /\ flush = {} /\ Cardinality(At({"held"})) < Coalesce
  /\ ready # <<>> /\ c = Head(ready)
  /\ ready' = Tail(ready) /\ Move(c, "held")
  /\ UNCHANGED <<path, flush, verdicts, unanswered, registry, known, listed, caller, got>>

\* The buffer is full, or the channel is closed because the dispatcher and every
\* task have ended: the evaluator is called with what is held.
SendersGone == At({"queued", "spawned", "prepare", "ops", "ready"}) = {}

\* Mutant: cases are passed on in full groups only.
FlushFullOnly ==
  /\ flush = {} /\ SlotFree
  /\ Cardinality(At({"held"})) >= Coalesce
  /\ flush' = At({"held"})
  /\ UNCHANGED <<path, stage, ready, verdicts, unanswered, registry, known, listed, caller, got>>

Flush ==
  /\ flush = {} /\ SlotFree
  /\ \/ Cardinality(At({"held"})) >= Coalesce
     \/ SendersGone /\ ready = <<>> /\ At({"held"}) # {}
  /\ flush' = At({"held"})
  /\ UNCHANGED <<path, stage, ready, verdicts, unanswered, registry, known, listed, caller, got>>

\* The callback returned, or failed: each of its cases gets its verdict, or
\* SystemError, in turn.
Answer(c) ==
  /\ c \in flush
  /\ flush' = flush \ {c}
  /\ Move(c, "sent") /\ verdicts' = Append(verdicts, c)
  /\ UNCHANGED <<path, ready, unanswered, registry, known, listed, caller, got>>

-----------------------------------------------------------------------------
(* next_evaluate_result, next_evaluate_result_async *)

CallerMoves(next) == caller' = next /\ UNCHANGED <<work, registry, known, listed, got>>

Call ==
  /\ caller = "idle" /\ Len(got) < NCases
  /\ CallerMoves(IF listed THEN "recv" ELSE "error")

\* The verdict is received and its case marked completed in the registry.
Received ==
  /\ got' = Append(got, Head(verdicts)) /\ verdicts' = Tail(verdicts)
  /\ registry' = IF known THEN [registry EXCEPT ![Head(verdicts)] = "completed"] ELSE registry
  /\ caller' = "check"
  /\ UNCHANGED <<path, stage, ready, flush, unanswered, known, listed>>

Receive == caller = "recv" /\ verdicts # <<>> /\ Received

Tick == caller = "recv" /\ verdicts = <<>> /\ CallerMoves("tick")

\* should_extend_wait_for_execution_timeout
ShouldExtend == ~known \/ \E c \in CaseIds : registry[c] = "recorded"

Decide ==
  /\ caller = "tick"
  /\ CallerMoves(IF unanswered > 0 /\ ShouldExtend THEN "recv" ELSE "drain")

\* drain_evaluate_verdict_before_giveup
Drain ==
  /\ caller = "drain"
  /\ IF verdicts # <<>> THEN Received ELSE CallerMoves("timeout")

\* handle_evaluate_verdict: the entries go once nothing is left.
Finish ==
  /\ caller = "check" /\ caller' = "idle"
  /\ LET last == unanswered = 0 /\ verdicts = <<>> /\ listed IN
       /\ listed' = (listed /\ ~last)
       /\ known' = (known /\ ~last)
       /\ registry' = IF last THEN [c \in CaseIds |-> "none"] ELSE registry
  /\ UNCHANGED <<work, got>>

\* cancel_evaluate_batch. The senders stay with the tasks.
Cancel ==
  /\ listed /\ listed' = FALSE
  /\ known' = FALSE /\ registry' = [c \in CaseIds |-> "none"]
  /\ UNCHANGED <<work, caller, got>>

CallerStep == Call \/ Receive \/ Tick \/ Decide \/ Drain \/ Finish

Task(c) == Prepare(c) \/ StartOps(c) \/ PassOn(c) \/ Count(c)

Aggregator == Flush \/ \E c \in CaseIds : Take(c) \/ Answer(c)

Next ==
  \/ \E c \in CaseIds :
       Dispatch(c) \/ Task(c) \/ Overdue(c) \/ OpsDone(c) \/ SendVerdict(c)
  \/ Unwind \/ Aggregator \/ CallerStep \/ Cancel

Spec == Init /\ [][Next]_vars

-----------------------------------------------------------------------------
(* Properties *)

\* A case gets exactly one verdict, whoever produced it: its task, the callback,
\* the error path or the guard of the dispatcher.
OneVerdictPerCase ==
  /\ LET all == got \o verdicts IN \A i, j \in DOMAIN all : all[i] = all[j] => i = j
  /\ unanswered = Cardinality(CaseIds \ At({"done"}))

\* Every case of a batch is answered: no permit, slot or bounded channel is
\* waited for in a circle, and the callback for the last few cases is made.
AllAnswered == <>(At({"done"}) = CaseIds)

\* A caller gives a batch up only for what is overdue: while a case has not
\* even started, it waits on.
GivesUpOnlyOverdue ==
  caller = "timeout" =>
    \A c \in CaseIds : stage[c] \in {"queued", "spawned", "prepare"} => registry[c] = "overdue"
=============================================================================
