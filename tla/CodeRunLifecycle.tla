-------------------------- MODULE CodeRunLifecycle --------------------------
(***************************************************************************)
(* The life of one code_run row (a contestant's run against custom test     *)
(* cases) and its code_run_result rows. The row rides the lease protocol of *)
(* submissions (claim, refresh, steal, stuck-job detector) but has no        *)
(* judgement rows: epoch, outcome and lease all live in the one row, and    *)
(* the plugin writes it by SQL of its own (server-sdk evaluate_run).         *)
(*                                                                          *)
(* Every statement is a step, except that a transaction is one step. As in  *)
(* JudgingLifecycle, Compiling is folded into "Running", CompilationError   *)
(* into "Judged", and the age of a heartbeat into fresh and stale.          *)
(***************************************************************************)
EXTENDS Naturals

CONSTANTS
  Servers,             \* API server processes
  Tasks,               \* slots for in-memory dispatch tasks
  Cases,               \* the custom test cases (run_index)
  MaxEpoch,            \* bound: largest judge_epoch
  MaxDispatchRetries,  \* config.server.max_dispatch_retries
  MaxStuckRetries,     \* config.server.max_stuck_retries
  LeaseSteal,          \* config.server.dispatcher_lease_steal_enabled
  InflightCap          \* config.dlq.max_inflight_secs # 0

VARIABLES
  run,      \* the code_run row
  results,  \* code_run_result rows, as <<judge_epoch, run_index>>
  task,     \* the dispatch tasks in the memory of the servers
  up        \* the servers that are running

vars == <<run, results, task, up>>

None == "none"

Orphaned == "orphaned"

Statuses == {"Queued", "Pending", "Running", "Judged", "SystemError"}

Terminal == {"Judged", "SystemError"}

Leased == {"Pending", "Running"}

\* "call": the plugin is not yet called. "eval": it waits for results. "fill":
\* it writes a result for every case that has none. "mark": the dispatch failed
\* and the failure is not yet written.
Pcs == {"idle", "call", "eval", "fill", "mark"}

Idle == [pc |-> "idle", server |-> None, epoch |-> 0, got |-> {}]

TypeOK ==
  /\ run \in [status : Statuses, epoch : 0..MaxEpoch,
              owner : Servers \union {None, Orphaned},
              lease : {"fresh", "stale", None}, retry : Nat]
  /\ results \subseteq (0..MaxEpoch) \X Cases
  /\ task \in [Tasks -> [pc : Pcs, server : Servers \union {None},
                         epoch : 0..MaxEpoch, got : SUBSET Cases]]
  /\ up \subseteq Servers

\* run_code, run_contest_code: the row is inserted Queued.
Init ==
  /\ run = [status |-> "Queued", epoch |-> 0, owner |-> None,
            lease |-> "fresh", retry |-> 0]
  /\ results = {}
  /\ task = [t \in Tasks |-> Idle]
  /\ up = Servers

Free(t) == task[t].pc = "idle"

\* The slots are alike: a new task takes the first that is free.
NextFree(t) == Free(t) /\ t = CHOOSE u \in Tasks : Free(u)

Spawn(t, s, epoch) ==
  task' = [task EXCEPT ![t] = [pc |-> "call", server |-> s, epoch |-> epoch, got |-> {}]]

Goto(t, pc) == task' = [task EXCEPT ![t].pc = pc]

End(t) == task' = [task EXCEPT ![t] = Idle]

-----------------------------------------------------------------------------
(* Claim and dispatch *)

\* claim_queued_code_runs
Claim(s, t) ==
  /\ s \in up /\ NextFree(t)
  /\ run.status = "Queued"
  /\ run' = [run EXCEPT !.status = "Pending", !.owner = s, !.lease = "fresh", !.retry = @ + 1]
  /\ Spawn(t, s, run.epoch)
  /\ UNCHANGED <<results, up>>

\* The gate of CodeRuns::update and of mark_code_run_system_error_with_epoch.
Open(t) == run.epoch = task[t].epoch /\ run.status \notin Terminal

\* evaluate_run starts the batch and sets Compiling; a batch that does not
\* start goes on to write a result for every case.
StartBatch(t) ==
  /\ task[t].pc = "call"
  /\ \/ Goto(t, "eval") /\ run' = IF Open(t) THEN [run EXCEPT !.status = "Running"] ELSE run
     \/ Goto(t, "fill") /\ UNCHANGED run
  /\ UNCHANGED <<results, up>>

\* CodeRuns::insert_results: joined with the row by epoch only, so that rows
\* are stored for a run that has ended but not for one that moved on.
Inserted(t, c) ==
  IF run.epoch = task[t].epoch THEN results \union {<<task[t].epoch, c>>} ELSE results

\* A result arrives: it is stored, and a compile error ends the collection.
CaseResult(t, c) ==
  /\ task[t].pc = "eval" /\ c \notin task[t].got
  /\ results' = Inserted(t, c)
  /\ \E pc \in {"eval", "fill"} :
       task' = [task EXCEPT ![t].got = @ \union {c}, ![t].pc = pc]
  /\ UNCHANGED <<run, up>>

\* next_result times out or fails.
Timeout(t) ==
  /\ task[t].pc = "eval" /\ task[t].got # Cases
  /\ Goto(t, "fill")
  /\ UNCHANGED <<run, results, up>>

\* The cases without a result get one: skipped, or SystemError.
Fill(t, c) ==
  /\ task[t].pc = "fill" /\ c \notin task[t].got
  /\ results' = Inserted(t, c)
  /\ task' = [task EXCEPT ![t].got = @ \union {c}]
  /\ UNCHANGED <<run, up>>

\* Mutant: the run is finalized before its last results.
FinalizeEarly(t) ==
  /\ task[t].pc \in {"eval", "fill"}
  /\ run' = IF Open(t) THEN [run EXCEPT !.status = "Judged"] ELSE run
  /\ End(t)
  /\ UNCHANGED <<results, up>>

\* finalize_code_run, once every case has its result.
Finalize(t) ==
  /\ task[t].pc \in {"eval", "fill"} /\ task[t].got = Cases
  /\ run' = IF Open(t) THEN [run EXCEPT !.status = "Judged"] ELSE run
  /\ End(t)
  /\ UNCHANGED <<results, up>>

\* No handler, no problem row, invalid files, a plugin that traps, reports an
\* error, returns garbage or exceeds CODE_RUN_DISPATCH_TIMEOUT.
FailDispatch(t) ==
  /\ task[t].pc \in {"call", "eval", "fill"}
  /\ Goto(t, "mark")
  /\ UNCHANGED <<run, results, up>>

\* mark_code_run_error_or_log: gated by epoch and status.
MarkSystemError(t) ==
  /\ task[t].pc = "mark"
  /\ run' = IF Open(t) THEN [run EXCEPT !.status = "SystemError"] ELSE run
  /\ End(t)
  /\ UNCHANGED <<results, up>>

\* The task panics, or its last write fails and is only logged.
Wedge(t) ==
  /\ ~Free(t)
  /\ End(t)
  /\ UNCHANGED <<run, results, up>>

-----------------------------------------------------------------------------
(* Leases *)

ExpireLease ==
  /\ run.status \in Leased /\ run.lease = "fresh"
  /\ run' = [run EXCEPT !.lease = "stale"]
  /\ UNCHANGED <<results, task, up>>

RefreshLease(s) ==
  /\ s \in up /\ LeaseSteal
  /\ run.owner = s /\ run.status \in Leased
  /\ run' = [run EXCEPT !.lease = "fresh"]
  /\ UNCHANGED <<results, task, up>>

Redispatched(s, epoch) ==
  [run EXCEPT !.status = "Pending", !.epoch = epoch, !.owner = s,
              !.lease = "fresh", !.retry = @ + 1]

\* Mutant: a steal that does not bump the epoch.
StealAtSameEpoch(s, t) ==
  /\ LeaseSteal /\ s \in up /\ NextFree(t)
  /\ run.status \in Leased /\ run.lease # "fresh"
  /\ run.retry + 1 <= MaxDispatchRetries /\ run.epoch < MaxEpoch
  /\ run' = Redispatched(s, run.epoch)
  /\ Spawn(t, s, run.epoch)
  /\ UNCHANGED <<results, up>>

\* claim_code_runs, budget left. The result rows are not touched.
Steal(s, t) ==
  /\ LeaseSteal /\ s \in up /\ NextFree(t)
  /\ run.status \in Leased /\ run.lease # "fresh"
  /\ run.retry + 1 <= MaxDispatchRetries /\ run.epoch < MaxEpoch
  /\ run' = Redispatched(s, run.epoch + 1)
  /\ Spawn(t, s, run.epoch + 1)
  /\ UNCHANGED <<results, up>>

\* claim_code_runs, the budget is spent.
Exhaust(s) ==
  /\ LeaseSteal /\ s \in up
  /\ run.status \in Leased /\ run.lease # "fresh"
  /\ run.retry + 1 > MaxDispatchRetries
  /\ run' = [run EXCEPT !.status = "SystemError", !.retry = @ + 1]
  /\ UNCHANGED <<results, task, up>>

\* inflight_capped: only a row with an owner that was not orphaned has the
\* leased_at the cap is compared with.
InflightCapped == InflightCap /\ run.owner \in Servers

\* Mutant: a row whose server keeps its lease fresh is never stuck.
StuckLapsed == run.status \in Leased /\ run.lease # "fresh"

\* stuck_disposition = Recover
Stuck ==
  /\ run.status \in Leased
  /\ IF run.owner = None THEN run.status = "Pending" /\ run.lease # "fresh"
     ELSE run.lease # "fresh" \/ InflightCapped

RecoverStuck(s, t) ==
  /\ s \in up /\ NextFree(t)
  /\ Stuck /\ run.retry <= MaxStuckRetries
  /\ ~LeaseSteal \/ InflightCapped
  /\ run.epoch < MaxEpoch
  /\ run' = Redispatched(s, run.epoch + 1)
  /\ results' = {}
  /\ Spawn(t, s, run.epoch + 1)
  /\ UNCHANGED up

\* Mutant: a terminal row is terminated again.
TerminateStuckAlways(s) ==
  /\ s \in up
  /\ run.retry > MaxStuckRetries
  /\ run' = [run EXCEPT !.status = "SystemError"]
  /\ UNCHANGED <<results, task, up>>

\* handle_stuck_code_run, the budget is spent: dead letter and SystemError.
TerminateStuck(s) ==
  /\ s \in up
  /\ Stuck /\ run.retry > MaxStuckRetries
  /\ run' = [run EXCEPT !.status = "SystemError"]
  /\ UNCHANGED <<results, task, up>>

Crash(s) ==
  /\ s \in up
  /\ up' = up \ {s}
  /\ task' = [t \in Tasks |-> IF task[t].server = s THEN Idle ELSE task[t]]
  /\ UNCHANGED <<run, results>>

\* recover_orphaned_leases
Restart(s) ==
  /\ s \notin up
  /\ up' = up \union {s}
  /\ run' = IF LeaseSteal /\ run.owner = s /\ run.status \in Leased
            THEN [run EXCEPT !.owner = Orphaned, !.lease = None] ELSE run
  /\ UNCHANGED <<results, task>>

-----------------------------------------------------------------------------
Plugin(t) ==
  \/ StartBatch(t) \/ Timeout(t) \/ Finalize(t)
  \/ \E c \in Cases : CaseResult(t, c) \/ Fill(t, c)

TaskStep(t) == Plugin(t) \/ FailDispatch(t) \/ MarkSystemError(t) \/ Wedge(t)

FiberStep(s) ==
  \/ \E t \in Tasks : Claim(s, t) \/ Steal(s, t) \/ RecoverStuck(s, t)
  \/ Exhaust(s) \/ TerminateStuck(s) \/ RefreshLease(s) \/ Crash(s) \/ Restart(s)

Next ==
  \/ \E t \in Tasks : TaskStep(t)
  \/ \E s \in Servers : FiberStep(s)
  \/ ExpireLease

Spec == Init /\ [][Next]_vars

-----------------------------------------------------------------------------
(* Properties *)

\* The results that are stored belong to the attempt the row is on. The read
\* path (build_code_run_response) selects them by code_run_id alone, so rows of
\* an earlier attempt would be shown beside the new ones.
ResultsOfOneAttempt == \A r \in results : r[1] = run.epoch

\* A run that shows a verdict shows a result for each of its test cases: no
\* write of a superseded attempt is counted and none of the live one is lost.
JudgedIsComplete ==
  run.status = "Judged" => \A c \in Cases : <<run.epoch, c>> \in results

\* The outcome of a run stands: no steal, retry, detector or late task takes a
\* terminal status back, and its epoch moves no more.
OutcomeKept ==
  run.status \in Terminal => run'.status = run.status /\ run'.epoch = run.epoch

OutcomeStands == [][OutcomeKept]_vars

\* Two tasks never work on the same attempt, so a case has at most one result
\* per attempt (code_run_result has no unique index).
OneTaskPerAttempt ==
  \A t, u \in Tasks : ~Free(t) /\ ~Free(u) /\ task[t].epoch = task[u].epoch => t = u

\* With servers that stay up, a run ends, whatever wedges on the way.
RunEnds == <>[](up = Servers) => <>(run.status \in Terminal)
=============================================================================
