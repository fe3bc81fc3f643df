# Broccoli: a TLA+ verification of the judging pipeline

Broccoli is an online judge: an API server (several processes may run against
one PostgreSQL database), workers that compile and run programs in a sandbox, a
message broker between them, and WebAssembly plugins that decide how a
submission is judged. This directory models the parts of it where the hard
questions are: which process may write what about a submission while leases
expire, processes crash, plugins fail, retries overtake each other and an
administrator rejudges; how an operation travels to a worker and back; how a
worker turns the ends of its processes into a verdict; and how a bracket match is
decided while verdicts, timers, submissions and staff race. Beside them stand the
driver with which the contest formats judge, the gates before a submission and the
print queue.

Paths below are relative to `src/packages/server/src/` unless they say
otherwise.

## Contents

| file | what it is |
|---|---|
| `JudgingLifecycle.tla` | one submission, its judgements and results, and every actor that writes them |
| `JudgingInductive.tla` | the auxiliary invariants and the inductive invariant `IInv` |
| `VerdictSpec.tla`, `JudgingRefinement.tla` | what a contestant sees, and the refinement that shows it |
| `MCJudging.tla`, `steal.cfg`, `reaper.cfg`, `admin.cfg`, `settle.cfg`, `v_failure_local.cfg` | the TLC instances |
| `JudgingTypeProofs.tla`, `JudgingProofs.tla` | proofs: types, the inductive invariant and what follows from it |
| `RefinementProofs.tla`, `WriterProofs.tla` | proofs: the refinement; one writer per attempt |
| `OperationDelivery.tla`, `MCDelivery.tla`, `delivery.cfg`, `delivery_lapse.cfg`, `v_lost.cfg` | an operation task between server, broker, workers and the operation reaper |
| `DeliveryProofs.tla` | proofs: claim, dead letters, one worker at a time, nothing lost |
| `CodeRunLifecycle.tla` | a code run: claim, plugin, steal, stuck-job detector |
| `DispatcherPermits.tla` | admission control of the dispatcher |
| `OperationBatch.tla`, `EvaluateBatch.tla`, `WindowedSession.tla` | the three layers by which a plugin waits for workers |
| `PluginTimer.tla` | durable timers of plugins |
| `IdempotencyKeys.tla` | the idempotency middleware |
| `DetachedJudge.tla` | the judging driver with the policies of ICPC, IOI and the qualifier |
| `SubmissionGate.tla` | submission limit and cooldown |
| `PrintQueue.tla` | print jobs, staff and stations |
| `MCServer.tla`, `server.cfg` | the TLC instance of these ten |
| `ServerProofs.tla` | proofs about keys, timers, permits and code runs |
| `ExecutionOrder.tla`, `StepChannels.tla` | the steps of an operation and the FIFOs between them |
| `CacheLeader.tla` | leader election for the compile cache |
| `SandboxBoxes.tla` | isolate box ids and boxes |
| `FusedVerdict.tla` | from the ends of processes to a verdict |
| `MCWorker.tla`, `worker.cfg` | the TLC instance of these five |
| `WorkerProofs.tla` | proofs of their safety properties |
| `BracketMatch.tla`, `MCBracket.tla`, `bracket.cfg`, `v_winner.cfg` | a match of the CodeLink bracket plugin |
| `BracketProofs.tla` | proofs of its safety properties |
| `PROJECT.json` | components, runs, mutants, the map from definitions to source lines, findings, hazards, theorems |

To run: `tlc -config steal.cfg MCJudging`, and so on for each line of "runs" in
`PROJECT.json`; `tlapm JudgingProofs.tla` checks the proofs (`JudgingTypeProofs` and
`DeliveryProofs` separately).

## Inventory

### The judging core (modelled)

**State.** A `submission` row carries `status`, `verdict`, `judge_epoch`,
`dispatcher_id`, `dispatcher_heartbeat_at` and `retry_count`. Its
`submission_judgement` rows carry the same fields plus `version`, `is_current`
(at most one by a partial unique index) and `is_finalized`. `test_case_result`
rows carry the judgement id and the epoch they were written for. Each server
process keeps its dispatch tasks in memory and loses them in a crash.

**Operations and actors.**

* *Claim fiber* (`dispatcher/claim.rs`): queued submissions and queued deferred
  judgements become `Pending` under the server's lease and a detached task
  dispatches them.
* *Dispatch task* (`services/submission_dispatch.rs`): adopts or inserts the
  judgement (`ensure_active_judgement_id`), runs the plugin, records a failure.
* *Plugin writes* (`host_funcs/submissions.rs`): `submission_update` (two
  statements that are not one transaction), `submission_insert_results`,
  `submission_delete_results`, each gated on the judgement's epoch.
* *Lease fibers* (`dispatcher/lease.rs`, `dispatcher/steal.rs`): refresh, steal
  of expired leases with a retry budget, release of a restarted server's rows.
* *Stuck-job detector* (`dlq/stuck/`): recovers or terminates rows whose lease
  is stale or whose dispatch is older than the in-flight cap, and reconciles
  submissions that lag behind a finalized judgement.
* *SystemError reaper* (`dispatcher/system_error_retry.rs`): re-dispatches
  judgements that ended in SystemError.
* *Administrator* (`handlers/submission/rejudge.rs`, `handlers/dlq.rs`): rejudge
  now or deferred, apply, discard, retry of a dead letter.

**Interaction.** All of them meet in the database. A statement is gated by
`judge_epoch`, `is_finalized` and `is_current`; every dispatch that supersedes
another takes the next epoch, so that a stale task's writes match no row.

**What is hard.** Statements of different actors interleave between any two
statements of a task; a task can be slow without being dead; the same
`retry_count` is used by three retry loops; epochs of different judgements of
one submission may be equal numbers; a process may stop between two statements.

**What makes it correct.** One current judgement; submission and current
judgement on the same epoch; a shown verdict is the current judgement's; no
result of a superseded attempt is readable; a contestant verdict is never
reopened; every submission ends.

### Admission control (modelled)

`dispatcher/permits.rs`: a semaphore of permits and a bounded counter of queued
reservations, used by the steal scan and the reaper before they claim rows.
Correct when no permit or queue place leaks, no waiter is forgotten while a
permit is idle, and an admitted dispatch runs.

### Operation delivery (modelled)

A plugin's compile and run requests become operation tasks that travel through
Redis to a worker, and their results travel back through a reply queue.

**State.** In Redis: the shared queue and one private queue per worker, each with
a `_processing` list; a payload hash per message; the dedup key of a task, which
names the worker that claimed it; a heartbeat key per worker; the reaper's
`dead_since` clock per worker; the cancel key. In a worker: a handler per
consumed message and the retry counts. In the server: the waiter of the task.

**Operations and actors.** The server routes and publishes a task, consumes
results and cancels (`services/operation_batch.rs`,
`consumers/operation_result.rs`). A worker (`../../worker/src/`) consumes, claims
the task, checks for cancellation, executes with retries, reports the result or
the error and the dead letter, and acknowledges. The reaper
(`dispatcher/operation_reaper.rs`, one per server replica) requeues what workers
without a heartbeat left behind.

**What is hard.** The broker has no redelivery, so the reaper must decide from
heartbeats and claims what a dead worker left, one Redis command after another,
while workers consume, claim and acknowledge. A requeue makes a second copy of
the task; only the claim keeps two copies from being run. A worker restarts
under its old id.

**What makes it correct.** An operation somebody waits for is never lost and is
answered; two workers never execute it at once; nobody ends the claim of a live
worker; an exhausted operation is answered when it is dead-lettered.

### Around the core (modelled)

| component | state and operations | what is hard | what makes it correct |
|---|---|---|---|
| code runs (`services/code_run_dispatch.rs`, `../../server-sdk/src/evaluator/run.rs`) | one row and its results, the lease protocol without judgement versions | no judgement holds the outcome of an attempt | a shown verdict is complete, one task per attempt, an outcome stands, every run ends |
| operation batches (`services/operation_batch.rs`) | waiters by operation id, a channel, a pending counter | a result forwarded while its reader gives up; cancel under a waiting reader | no result dropped, the counter exact, a cancelled wait ends |
| evaluate batches (`services/evaluate_batch/`) | a task per case, permits, slots, a callback aggregator | a task unwinds; the last cases never fill the aggregator | exactly one verdict per case |
| windowed sessions (`services/windowed_session.rs`) | active slots, retries, items to do | late results of a replaced or withdrawn slot; a start that fails in a refill | each item reported once, nothing runs on, nothing forgotten, the session ends |
| plugin timers (`dispatcher/plugin_timer.rs`) | rows with claim and attempts | reschedule during delivery, a replica that dies in one | no wake-up lost, every timer ends |
| idempotency keys (`middleware/idempotency.rs`) | pending and completed keys | reclaiming a key whose request still runs | a request applied once unless it is reclaimed or fails halfway, replays are faithful |
| execution order, channels (`../../worker/src/models/operation/handler/execution.rs`) | a dependency graph; FIFOs with keep-alive writers | a consumer that has not opened its FIFO yet; a producer blocked on a full one; steps that feed each other | steps run after what they depend on, no output is lost, a resolved producer wedges no reader, the release ends once blocked programs time out |
| compile-cache leader (`../../worker/src/models/operation/cache_leader.rs`) | a lease in Redis, a cached result | expiry during a compile, a dead leader | no lease deleted by another, only successes cached, nobody waits for ever |
| sandbox boxes (`../../worker/src/models/operation/handler/box_id.rs`) | a slot per process, reserved offsets, initialized boxes | saturation, failed set-ups, death | a box has one owner, none leaks |
| verdicts (`../../server-sdk/src/evaluator/interpret.rs`, `sandbox/isolate.rs`) | the results of up to four steps | the many ways a step can fail to be a run | blame is earned, a score is checked |
| bracket match (`src/plugins/codelink-bracket/`) with feedback slots (`services/submission_feedback.rs`) | the stored match, held submissions, timers, the next round's slot | verdicts, timers, staff and submissions race in compare-and-set loops with work before and after the commit | the earliest accepted submission wins, nothing is scored twice or reopened, the match ends, the winner advances |
| judging driver (`../../server-sdk/src/evaluator/detached.rs`) with ICPC, IOI and the qualifier | outcomes recorded so far, carried from callback to callback | a call that fails in the middle; cases dropped while others answer in any order | Accepted is earned, skipped cases change no score, a submission is not left running |
| submission limit and cooldown (`src/plugins/submission-limit`, `cooldown`) | a row of claims each | both check before the submission exists; requests race, fail, and confirm late; a gate whose settings cannot be read is open | the limit and the cooldown hold, a refusal has a reason that passes |
| print queue (`src/plugins/print`) | jobs with a status and a target; stations with a snapshot and a job in hand | stations race, calls are lost, staff move jobs that are being printed | no more paper than asked for, a true status, a job that can be served is served |

### Parts that are not modelled

| component | why |
|---|---|
| reply-queue sweeper (`dispatcher/sweeper.rs`) | one scan with a delete; a candidate for the delivery module |
| plugin pool (`../../plugin-core/src/pool.rs`), file cache (`../../worker/src/models/operation/file_cacher.rs`) | bounded caches without a protocol between actors |
| visibility rules (`visibility/`) | a decision function over many record types without state; tested as data |
| standings of ICPC and IOI, the communication evaluator, the language and translation plugins | arithmetic over stored rows, tables and commands |
| SQL and storage host functions, HTTP handlers, authentication, configuration | request validation and single statements, no state shared between actors that a property here could be about |
| contestant CLI, web frontend, website | user interface |

Most of the repository's lines are in the last three rows: a map of every line
could only be had by modelling code that has no interesting states.

Hazards of the code that no property covers: `INSERT ... SELECT` of results is one
step in the model (`host_funcs/submissions.rs:238`); the reaper's scan takes the
lowest ids first, so rows that can never be requeued may starve later ones
(`dispatcher/system_error_retry.rs:178`, a matter of several submissions).

## JudgingLifecycle

Every statement of the code is keyed by a submission's id, so one submission is
modelled. The variables are the rows (`sub`, `jud`, `results`), the id sequence
(`serial`), the tasks in memory (`task`), the running servers (`up`) and whether
an unresolved `StuckSubmission` dead letter exists (`dlq`).

**Steps.** A database transaction is one step: the code takes its row locks
first (`FOR UPDATE`, or the conditional `UPDATE` itself) and the unique index
makes a second current row an error, which the model takes as the transaction
not happening. A single statement outside a transaction is a step of its own;
so `submission_update` is `UpdateJudgement` followed by `UpdateSubmission`, and
`record_dispatch_failure` is `FailDispatch`, `MarkSubmission`, `MarkMirror`,
with every other actor in between. The re-read of the submission after the
reaper's commit is a step (`RereadSubmission`).

**Tasks.** A task is a program counter and the parameters its code carries
(server, judgement id, epoch, and between the two statements of
`submission_update` the status and verdict). `Wedge` lets it disappear at any
point without a write: a silent worker, a lost reply, an error that is only
logged. `Crash` removes the tasks of a server; `Restart` brings the server back
under the same id and runs `recover_orphaned_leases`, which puts a sentinel owner
in the rows of the former life and clears both time stamps of their lease.

**Time.** A row's `lease` is `fresh`, `stale`, or `None` where the columns are NULL. `ExpireSubmission` and
`ExpireJudgement` may make it stale at any moment, also while the owner is
alive: a server that pauses long enough is a case of the code. The in-flight
cap compares the age of the dispatch (`leased_at`), which may have passed whatever
the heartbeat says; with `InflightCap` the detector may therefore fire on any row a
server owns (`InflightCapped`). An orphaned row has no `leased_at` and never trips the
cap: with lease steal on it is the steal sweeper that takes it up.

**Actions by code.** `Claim`, `ClaimDeferred`: the claim fiber. `EnsureAdopt`,
`EnsureInsert`, `EnsureFails`: `ensure_active_judgement_id` and the fallback to
id 0. `PluginProgress`, `PluginVerdict`, `UpdateSubmission`, `PluginStale`,
`InsertResults`, `DeleteResults`: the host functions. `RefreshLeases`,
`StealSubmission`, `ExhaustSubmission`, `StealJudgement`, `ExhaustJudgement`:
lease and steal. `RecoverStuckSubmission`, `TerminateStuckSubmission`,
`RecoverStuckJudgement`, `TerminateStuckJudgement`, `Reconcile`: the detector.
`RequeueSystemError`, `RereadSubmission`: the reaper. `RejudgeImmediate`,
`RejudgeDeferred`, `ApplyJudgement`, `DiscardJudgement`, `DlqRetry`: the
administrator. The line numbers are in `PROJECT.json`.

**Abstractions.** `Compiling` is folded into `Running`, `CompilationError` into
`Judged` with a contestant verdict (no gate tells them apart). Scores, times and
messages are left out. The plugin is a sequence of host calls in any order the
host allows. `INSERT ... SELECT` of results is one step; under PostgreSQL's read
committed level the select does not lock the judgement, so a requeue that
commits inside that one statement is not covered. `RequeueSystemError` is one step
too: the code reads the judgement without a lock and re-checks only ids and epochs
in its updates (`services/submission_dispatch.rs:393`), which tells apart everything
but an apply of another judgement at the same epoch between the two; that window is
a listed hazard and not covered.

**Bounds.** `MaxJudgements` and `MaxEpoch` cap the rows and the epochs; an
action that would pass them is disabled. The three retry budgets are the
configuration's own values.

## VerdictSpec and JudgingRefinement

`VerdictSpec` is what the service promises to a reader of a submission: it is
pending, or shows a contestant's verdict or SystemError; a verdict stands unless
an administrator replaces it; a SystemError may be retried. It knows nothing of
judgements, epochs, leases or tasks. `JudgingRefinement` maps the two rows to it
(`INSTANCE VerdictSpec WITH ...`) and `ShowsVerdicts` says that every step of
`JudgingLifecycle` is a step of it or a stutter. Runs `admin` and `reaper` check it.

## OperationDelivery

One operation task. A requeue publishes the task again as a new message, so the
task exists as numbered copies: `at` says which list points to a copy, `hash`
whether its payload is still stored, `job` which handler runs it. The two are
apart because the code writes and deletes them by different commands, and a
handler outlives the pointer that a reaper takes from under it.

**Actions by code.** `RouteTask`, `PublishTask`, `DeliverReply`, `SetCancelKey`,
`GiveUp`: the server. `Consume`, `TryClaim`, `CheckCancel`, `Complete`,
`FailAttempt`, `ReportError`, `DeadLetter`, `Release`, `Acknowledge`,
`DeletePayload`: the consume loop and `process_message`, one step per Redis or
broker call. `Crash`, `Shutdown`, `DrainExit`, `Start`, `Heartbeat`,
`HeartbeatExpires`, `ClaimExpires`: worker processes and the keys that stand for
their life. `BeginTick`, `ReapOwner`, `ReapShared`, `ListDone`, `Inspect`,
`Republish`, `Unhash`, `Unlink`, `AbortTick`, `GraceElapses`: a reaper tick. The
reads by which a tick starts (two scans), and those by which it judges one
strand (payload, owner, clock), are one step each; every write is a step.

**Failures.** `MaxFaults` calls to Redis or the broker fail: the claim and the
cancel check fail open, a failed report or dead letter is logged and passed
over, a failed acknowledgement leaves pointer or payload behind, a failed
publish may or may not have reached Redis, a tick ends where it is. `MaxLapses`
heartbeats or claims run out under a running worker. A claim's TTL covers one run
within its limits, so it expires only when no handler of its owner is in its
first attempt. `MaxCrashes` counts crashes and shutdowns, `MaxRestarts` starts
under the configured id (`worker.id`).

**Bounds.** `MaxCopies` caps the messages ever published. A requeue beyond it
behaves as a failed publish, so it hides no step, and `EventuallyAnswered`
stops asking there.

`DrainExit` clears the heartbeat and ends the process in one step, where
`runtime.rs:264` clears and then exits: the reaper acts on a missing heartbeat only
after its debounce, which the model takes to be longer than the exit.

**Not modelled.** The Started notification, dry runs, payloads that do not
deserialize (dead-lettered by the reaper), the permits of the consume loop, a
worker whose dedup could not be initialised, priorities, a result whose publish
reports an error after it was stored, and the cleanup of retry counts older than
an hour.

**What the model says of the reaper.** A copy that was requeued and consumed but
not yet claimed still carries the dead owner's claim, so the next tick takes it
for that owner's strand and requeues it again. That makes duplicates without any
second reaper; the claim then sorts them by worker, not by copy. With a second
death it can even cost the operation: the duplicate is skipped as held by the
worker that runs the first copy, whose pointer and payload the reaper has already
removed, and if that worker dies next no copy is left. `NeverLost` therefore
passes for one death and is not claimed for two.

## DispatcherPermits

A reservation is a state machine: `try_acquire`, the counting of the queue place
(a separate atomic operation), spawning, waiting in the semaphore's FIFO,
leaving the counter, finishing, or being dropped unused. The semaphore is
tokio's and is modelled from its documented use: a released permit goes to the
oldest waiter, and to the pool only when there is none.

## CodeRunLifecycle

The row of a code run (`run`), its results with the attempt that wrote them, the
dispatch tasks and the servers that are up. A task goes through `evaluate_run`:
`Open`, `StartBatch`, a `CaseResult` per case or `Timeout` and `Fill`, `Finalize`;
`FailDispatch`, `MarkSystemError` and `End` are the ends of
`dispatch_code_run_to_plugin`, `Wedge` a task that is never heard of again. Around
it `Claim`, `RefreshLease`, `ExpireLease`, `Steal`, `Exhaust`, `RecoverStuck`,
`TerminateStuck`, `Crash` and `Restart`; a restart orphans the row as it does a
submission's, with its lease NULL.

## OperationBatch, EvaluateBatch, WindowedSession

Three layers, each modelled against what it sees of the one below.

*OperationBatch.* `Register` and `Publish` per operation, `StartFails` with its
clean-up, `Answer` by the consumer, the forwarder's `Forward` and `Count` apart
(send, then `fetch_sub`), and the reader: `Call`, `Take`, `Tick`, `LoadPending`,
`Ceiling`, `Drain`, `Finish`. `Cancel` may come at any time.

*EvaluateBatch.* A case moves through dispatch permit, slot, preparation, its
operations, the bounded channel to the aggregator, the callback and the verdict
channel; `Unwind` is the drop of the dispatch guard. The caller waits with
`ShouldExtend`, which asks the registry whether some case is still within its time.

*WindowedSession.* `run_windowed_session` with the evaluate driver: the initial
window, outcomes in any order, retries under a new batch id, reports, the
plugin's decision (continue, stop refilling, withdraw slots, end), refills.
`NothingRunsOn` speaks of the waiters of slots: after the session no batch is left
that somebody waits for and nobody cancelled. A batch whose waiter timed out was
given up by its own wait and may still run on workers.

## PluginTimer, IdempotencyKeys

*PluginTimer* is one `plugin_timer` row and the replicas that claim it; `Delete`
compares the claim (`SameClaim`). *IdempotencyKeys* is one key and several requests
with it: claim by insert, replay, conflict, reclamation of an old pending key,
completion, deletion after an error, expiry, a request that dies. `HandleHalfway` is a
handler that takes effect and then fails (`create_submission` inserts the row and may
fail to build its response): the key is deleted all the same and the request can be
repeated, which `AppliedOnce` excepts together with deaths, failed statements and
handlers that outlive the limit (`disturbed`).

## ExecutionOrder, StepChannels

*ExecutionOrder* is `get_execution_order` by in-degrees over every dependency graph
on the given steps, with unknown names, and then the layers, in which a step whose
dependencies did not all succeed is skipped. Step ids are a set here; the code
refuses an operation with duplicate ids as well. *StepChannels* is one layer: programs
that open, read, write and exit, the kernel's FIFO rules (external), and the worker
that holds a keep-alive writer per channel and lets go of it when the producer is
done: while something is buffered it waits, then it drops the writer, and if the
consumer is not done it restores it and tries again. A keep-alive may be missing from
the start (`open_channel_keepalive` failed, which the code only warns of), and the
runaway guard of 900 s may end the loop (`GiveUp`). The keep-alive is a reader too, so a
producer whose consumer left the FIFO full and unread is blocked, and in turn holds up
the release of what that consumer produces. `TimeOut` (isolate's wall time or the
worker's hard timeout) is what ends this. `ReleaseEnds` therefore assumes that blocked
programs time out, and does fail without; `ReadersServed` says what needs no timeout: a
consumer does not hang in its open or read on a producer that has resolved.

## CacheLeader, SandboxBoxes

*CacheLeader*: hit, election by `SET NX`, following with polls, running, storing,
release by compare-and-delete, expiry, crash; an election whose answer is lost may
leave the worker's token in the key. *SandboxBoxes*: processes claim slots (a lock file
that cannot be opened is passed over, so that slot 0 may be used unlocked although
slots are free), operations reserve offsets (with the fallback when a slot is
saturated), create boxes, fail in set-up, and clean up. The `isolate --cleanup` that a
hard timeout makes during a run touches only the operation's own box and is left out.

## FusedVerdict

The steps of a fused operation (compile, compile_checker, exec, check), every way
each of them can end in the sandbox (`truth`), the `ExecutionResult` that
`isolate.rs` and `execution.rs` make of it, and `precheck_verdict` and
`interpret_fused_result` over these results. The properties compare the verdict
with the truth, which the interpreting code never sees.

## DetachedJudge

`DetachedEval` call by call. A plugin call in progress (`callback`) is the list of host
calls it still makes and its own copy of the state; the host holds the copy of the
last callback that returned (`saved`). `Result` and `Timeout` open a callback with the
calls `OnResult` and `GiveUp` ask for; `Record`, `Mark`, `ClearRows` and `StartSession`
are the calls, `MarkStale` one that finds a newer epoch, `Fail` one that fails: the
driver then recovers from `saved`, and a recovery that fails is not repeated. The
window is what the plugin sees of `WindowedSession`. The policies are `NextStep` (ICPC
and the qualifier stop at the first failure, IOI drops the cases `CancellableAfter`
names) and `Finalized`. An answer is a verdict of an evaluator; results that the host
cancelled or skipped (`interpret.rs:156`) are left out, because nothing in this commit
hands one to a driver.

## SubmissionGate

One contestant and problem. A request runs the hooks that are on, in the order of the
contest (`ClaimSlot`; `ReadStored` and then `ClaimCooldown`), is stored, and confirms its
slot in the background; it may break at any step, and the confirmation may be lost.
A hook whose settings cannot be resolved lets the request pass without check and claim
(`PassOpen`: "unlimited", "disabled"); such a submission is stored, confirms and counts,
and may take the place of another's claim. The cooldown's claim is made once more after
`ensure_schema` when it fails (`FailClaim`), also when the first one had taken effect. A
tick is half a second: the settings are whole seconds, and `::int` rounds the time since
the last submission (`ElapsedSeconds`). So `LimitHolds` and `CooldownHolds` are about
the submissions their gate could check, and two of them may be half a second closer than
the cooldown. A request is `Quick` if it takes one tick; `slow` remembers that one took
longer, `dropped` that a claim was never confirmed.

## PrintQueue

Jobs with status, target and `created_at` (jobs of one request share it, and the query
orders equal ones as it likes: `Oldest`), staff (`Approve`, `Cancel`, `Pin`, `Reprint`), and stations
that `Fetch` a snapshot, `Claim` in its order, report, `PrintJob` and report again.
`ClaimLost` is a claim whose call or answer is lost, `Stop` a station that is stopped and
started; a report is lost the same way. `requests`, `sheets`, `last` and `taken` are kept
for the properties.

## BracketMatch

One match: its stored value with a revision, the submissions with their held
results, the durable timers, and the slot of the next round. A *driver* is one run
of the transition, for a timer, for a verdict or for staff: `Look` reads the match
and sets timers (the code sets them before it writes), `Commit` writes if the
revision is still the one read, `Retry` starts over, `Publish` and `Finish` are
`finish_transition`. `Fail` and `Crash` stop a driver at any step. A submission is
`Ask`, `Count` and `Insert`: the gate of the plugin reads the match, then the
errors of the player and the clock; the server checks slot, match and deadline
again in one transaction. `GameOutcome` and `DecideMatch` are `decide.rs`.

Times are ticks. The last tick stands for all later times: every timer is due
there. The retry limit of the compare-and-set loop is left out.

## Runs

| run | instance | checks |
|---|---|---|
| `steal` | 2 servers, 2 tasks, 2 judgements, epoch <= 1, lease steal on | `TypeOK`, `ResultsMatchAttempt`, `OneWriterPerAttempt`, `IInv` (with `EpochLockstep` and `VerdictFromCurrent`) |
| `reaper` | 1 server, 2 tasks, 2 judgements, epoch <= 2, in-flight cap on | `ContestantVerdictStands`, `ShowsVerdicts` |
| `admin` | 1 server, 1 task, 2 judgements, epoch <= 2, all administrator operations | `OneCurrent`, `VerdictFromCurrent`, `EpochLockstep`, `ShowsVerdicts` |
| `settle` | 1 server, 2 tasks, steal and cap on, fair | `EventuallySettled` |
| `server` | see below, fair | `RunSound`, `PermitsSound`, `ResultsAccounted`, `CasesAnswered`, `SlotsAccounted`, `WakeupsKept`, `KeysHonest`, `JudgeSound`, `GateSound`, `PrintsSound` |
| `worker` | see below, fair | `OrderSound`, `NoOutputLost`, `CacheSound`, `BoxesSound`, `VerdictEarned`, `WaitsEnd` |
| `bracket` | 2 regular games and a tiebreak, 2 drivers, 2 requests, six scenarios, fair | `TypeOK`, `EarliestWins`, `PenaltyExact`, `ScoreExact`, `ShownIsWon`, `DecisionStands`, `MatchCompletes` |
| `delivery` | 2 workers, 1 reaper, a task pinned to one of them, 3 copies, 1 crash or shutdown, 1 failed call, fair | `TypeOK`, `NeverLost`, `OneWorker`, `DeadLetterAnswered`, `EventuallyAnswered` |
| `delivery_lapse` | 2 workers, 1 reaper, shared queue, 1 retry, 2 copies, 1 crash, 1 restart, 1 lapse | `ClaimSafe` |

`server` and `worker` check components that share no state. A behaviour picks one
of them (`focus`) and the others stand still, so the states are the sum of the
components' states and not their product, and every component has exactly the
behaviours of its own module. Their properties are one per promise of a component;
the parts (`JudgedIsComplete`, `PermitsConserved`, `NoWakeupLost` and so on) are
defined and explained in the component's module, and most parts have a mutant
of their own in `PROJECT.json`.

*Why the bounds are enough.* Two judgements and two tasks give every pair the
properties speak of: a live and a superseded task, a current and a demoted
judgement. Two servers are needed only where ownership differs (`steal`); in
`reaper` and `admin` a superseded task of the same server behaves as one of
another server would, because no gate of a task looks at the owner. Two epochs
above the first let a row be superseded twice, which is what it takes for a late
write of the first attempt to meet the third. The safety properties of these
runs are proved for every bound (see Proofs).

In `server` five reservations fill both permits and both places and leave one to
be refused; a code run has two tasks, so that one is superseded while it works,
and two cases; three operations have one answered, one failed to publish and one
late; two evaluate cases share one slot and a callback for two, so that a single
ready case must be flushed by the end of the channel; three items share a window
of two with one retry; a timer is scheduled three times and claimed four times, so
that a claim lapses and an attempt is given up; three requests with two paths share
a key. Three cases and two failed calls let one call fail in a recovery from another;
the contests of `MCContests` have subtasks that overlap with every scoring method, a
sample, and windows of one and two cases. Two or three submissions race for a limit
of one or two, meet a cooldown of three seconds where the grace of a claim is two, for as
long as it lasts, or both gates in either order. Two stations meet two jobs, one of which
may be for a printer nobody has; one station meets three jobs and fetches two, so that
the limit of a fetch binds. In `worker` three steps cover every shape of a cycle and of a
chain with a failed middle; two steps feed each other and one channel has no consumer that
reads it, and a program writes twice into a FIFO that holds one piece, so that it blocks;
three workers are a leader, its successor and a follower; two processes share two
slots of two boxes, and one of them may find no slot although one is free, so that slots
and offsets run out. In `bracket` each
scenario meets one thing at length (three submissions in a row, two overlapping
requests, two overlapping drivers, a failure with staff, extra time), since all
together are out of reach; the contest ends inside the second game, which makes
the cut-off and the escalation happen.

In the `delivery` runs two workers are the owner of a claim and the one that
takes over; one task is enough because every key, list entry and claim is the
task's own, and the budget `MaxRequeues = 1` ends a tick after its first requeue.
Three copies are the original, its requeue and a duplicate of it; two suffice
where the property compares one claim with the next.

*Fairness.* `FairSpec` of the judging module assumes that the scans run, the steal
sweeper's included (they are loops on a timer), that a task goes on to its next statement, that a plugin
stops reporting some day (the evaluator's deadline; strong fairness, because a
task that keeps reporting progress enables and disables the ending steps), and
that a stopped server is started again. Nothing is assumed of time, of lease
expiry, of progress reports or of administrators. The detector's in-flight cap
needs no expiry, and a row that a restart has orphaned is taken up by the sweeper. `EventuallySettled` speaks of the submission: a judgement that
is inserted after its submission was terminalised may stay unfinalised. In
`settle` the budgets let every row be dispatched again at most once, so
`MaxJudgements` and `MaxEpoch` never disable a recovery there. Larger budgets
would not bound the dispatches by themselves: each recovery may lower the
other's count (see below).

`MCServer` states fairness per component (steps that are never possible at the same time
share one condition): tasks, forwarders, fibers and loops are
scheduled, dispatched futures end, a caller spawns or drops what it reserved, a
waiter ends at its ceiling, a server that is down is started again. In `DetachedJudge` host calls return and
a case that is waited for is answered or times out; in `PrintQueue` stations poll and
printers end, while contestants and staff may do nothing. That a reply, an answer or
a new request comes is not assumed. In `MCWorker` a program that is not
blocked ends (its time limit), the kernel completes what can be completed, and the
reader's end of file has strong fairness: the release loop drops the writer again
and again, and the reader need not see one particular drop. That blocked programs time
out is no part of the specification but the premise of `ReleaseEnds` in `WaitsEnd`
(`BlockedTimeOut`). In `BracketMatch` runs
go on, timers fire and time passes; each driver's `Commit` has strong fairness,
because at the last tick all timers are due at once and two runs could take the
revision from each other for ever, which times further apart do not allow. No
submission, verdict or decision by staff is assumed.

`FairSpec` of `OperationDelivery` assumes that a running worker polls its queues
and writes its heartbeat, that every await of a handler or a tick returns, that
a dead worker's heartbeat runs out, that a drain ends (it has a timeout), and that
the reaper's interval fires. Nothing forces a crash, a restart, a lapse or a
cancellation. `EventuallyAnswered` makes one exception that the code documents:
a copy in the shared processing list whose consumer died before it claimed
cannot be attributed to anybody and is left to the waiter's timeout. It asks for
nothing after a failed call: the error result may then be missing, or a payload
that could not be read keeps its pointer in the list of a live worker. `NeverLost`
holds with the failed call too.

*Symmetry.* Servers and tasks are interchangeable; the safety runs use it, the
fair ones do not.

### Where code and comments disagree

Three runs check a sentence of the repository that the code does not keep. The
finding in `PROJECT.json` quotes the line.

| run | property | counterexample |
|---|---|---|
| `failure_local` | `FailureIsLocal` | a demoted judgement re-dispatched by the detector reaches the epoch of the live one; its failure mirrors onto the live one |
| `lost` | `NeverLost` | a dead worker's task is requeued, the worker restarts under its id, and the only copy is skipped as held by it and acknowledged |
| `winner` | `WinnerAdvances` | a match waits for a verdict, which takes its game timer away; the verdict decides it, the work after the commit fails, and nothing redelivers it: results stay held and the next round's slot empty |

Further disagreements were met on the way. The first group is defined as a property
in the modules (TLC finds it violated when a configuration names it); the others are
read off the code and the model's actions.

* `OneWriterPerAttempt` with a SystemError retry (`services/submission_dispatch.rs:520`):
  a recovery or a steal between the reaper's commit and its re-read gives both tasks the
  same epoch (the instance of `reaper` shows it in eight states), although `entity/submission_judgement.rs:55` says the epoch is "Bumped
  each time the judgement is sent to the worker so stale workers can be rejected".
  The proof attempt showed a second way to it without any retry: a rejudged submission
  is claimed at epoch 1; an older judgement is applied, which takes the submission back
  to epoch 0 (`handlers/submission/rejudge.rs:121`); the next rejudge and claim start at
  epoch 1 again, and the old and the new task both adopt the new judgement at epoch 1.
* `host_funcs/submissions.rs:189`: the second statement of `submission_update` fails after
  the first finalized the verdict, and the failure path writes SystemError into the
  submission, which hides it. The judgement keeps it (`ContestantVerdictStands`).
* `StrandAnswered` (`dispatcher/operation_reaper.rs:369`): a worker leaves a strand and
  restarts under its id before the debounce has run; it counts as live and the strand
  stays, although line 8 promises a requeue "within seconds".
* `CodeRunLifecycle!ResultsOfOneAttempt`, with lease steal on: `claim_code_runs`
  (`dispatcher/steal.rs:841`) moves to the next epoch without deleting
  `code_run_result` rows, which `dlq/stuck/recovery.rs:94` calls necessary because the
  response reads results "with no epoch filter".
* `EvaluateBatch!GivesUpOnlyOverdue`: whether a wait is extended is decided from the
  cases that have recorded operations (`host_funcs/evaluate_ops_registry.rs:116`); a case
  that still waits for its slot does not count.
* `FusedVerdict!OnlyRunsScored`: a program whose set-up failed has status "UNKNOWN",
  which `precheck_verdict` does not take for missing
  (`../../server-sdk/src/evaluator/interpret.rs:296`); without a checker it is Accepted,
  although line 145 says that it "Returns `None` only when a clean `exec` result is
  present". `FusedVerdict!CheckerFaultHeals`: a fault of the checker's own run is not
  retried.
* `services/evaluate_batch/result_wait.rs:113` says that the wait for a cancelled batch
  "returns `Disconnected` immediately"; cancel removes the batch from the map, but the
  senders stay with the tasks of its cases, and the wait goes on until they end.
* `services/operation_batch.rs:985`: when the last result is received between the
  forwarder's send and its decrement, the entry of the batch is never removed.
* `middleware/idempotency.rs:101`: a key deleted between the conflicting insert and the
  select lets the request through without protection; `delete_key` deletes whoever
  holds the key.
* `../../worker/src/models/operation/cache_leader.rs:3` says "at most one of them actually
  runs the expensive step"; a worker that misses, then is elected after the former
  leader released, runs it again: the cache is not looked at after the election.
* `src/plugins/icpc/src/evaluate.rs:38` says of an accepted result "True only if ALL test
  cases were evaluated and ALL returned Accepted." When a callback fails and then the
  recovery fails to record the remaining cases, `recover`
  (`../../server-sdk/src/evaluator/detached.rs:318`) still finalizes from the cases recorded
  so far, and ICPC counts them as accepted (`DetachedJudge!AcceptedIsEarned` allows one
  failed call for that reason; the qualifier counts the cases and is right with any
  number). The same recovery inserts a second row for a case whose row was written
  before the callback failed.
* `src/plugins/submission-limit/src/lib.rs:84` says "two racing POSTs can never both take
  the last slot". All pending claims share `oldest_pending_at`: an older claim that
  failed ages them, and at its grace a young claim in flight is forgotten with it
  (`SubmissionGate!LimitHolds` with `dropped`).
* `src/plugins/print/src/jobs.rs:358`: the guard of `set_status` does not look at
  `claimed_by`, so a late report of one station sets the status of a job that another
  prints (`PrintQueue!StatusTrue` excepts jobs that staff took back); and a job whose
  claim's answer was lost stays claimed until staff requeue it.
* `../../worker/src/models/operation/handler/execution.rs:142`: if `mkfifo` cannot be
  executed, the error returns past `cleanup_environments` and the boxes stay.
* `src/plugins/codelink-bracket/src/judge.rs`: `force_decide` arms its recovery timer
  before its commit, and a driver that finishes in between cancels it;
  `escalate_contest_ended` cancels the wait timer before its commit, and if that run
  fails the match waits without a timer. `MatchCompletes` excepts both (`flaws`).

* `services/submission_dispatch.rs:219`: a dispatch whose judgement could not be
  looked up goes on with id 0; when it fails, the submission is SystemError
  without a judgement that the reaper could select, although
  `dispatcher/system_error_retry.rs:93` says "no SystemError is ever abandoned".
* `handlers/submission/rejudge.rs:198`: discard renumbers nothing, although
  `entity/submission_judgement.rs:22` says of versions "Holes are not allowed".
* `services/submission_dispatch.rs:495`: the reaper sets the submission's retry
  count from the judgement's, which may be lower; `dispatcher/steal.rs:786` says
  "Never LOWER the submission's dispatch-retry count".
* `dispatcher/lease.rs:81`: only the judgement of the highest version is
  refreshed, so a deferred rejudge lets the lease of the live current one expire.
* `../../worker/src/dedup.rs:27`: the claim passes for the worker that holds it,
  so two copies consumed by one worker both run, although
  `dispatcher/operation_reaper.rs:391` says of duplicates "one runs, the rest get
  HeldByOther".

`OneWriterPerAttempt` passes in `steal`, where no SystemError retry is allowed. For all
settings, retries and applied judgements included, it is proved of the behaviours
in which a re-read after a retry still finds the epoch that was committed, and an apply
does not go back to an epoch a dispatch is about to start at (`Orderly`): these two
windows are the ways an epoch comes to be shared.

## Proofs

`JudgingProofs` proves, for every number of servers, tasks and judgements, every
budget and every setting of the switches, from the assumptions
`BoundsAssumption` (the bounds are natural numbers) and `MarksAssumption` (the
two marks are no server and no verdict, `SystemError` is no contestant verdict):

| theorem | statement |
|---|---|
| `Invariant` | `Spec => []IInv` |
| `TypeCorrect` | `Spec => []TypeOK` |
| `OneCurrentJudgement` | `Spec => []OneCurrent` |
| `EpochsInLockstep` | `Spec => []EpochLockstep` |
| `NoStaleVerdict` | `Spec => []VerdictFromCurrent` |
| `NoStaleResults` | `Spec => []ResultsMatchAttempt` |
| `VerdictStands` | `Spec => ContestantVerdictStands` |

**The inductive invariant** is the conjunction of `TypeOK` and:

* `RowsAllocated`: only ids that were handed out name a row, and a version never
  exceeds them. Without it an insert could overwrite a row, inherit its results,
  or have no next version (`NextVersionBound` shows that MAX + 1 exists).
* `OneCurrent`.
* `EpochLockstep` and `StartsInLockstep`: before the first judgement exists
  there is no row to compare with, so it is the tasks about to insert it that
  must be on the submission's epoch. A claim does not move the epoch, and every
  operation that does also leaves a current judgement behind.
* `SubWriteKnown`: between the two statements of `submission_update` the
  judgement still holds what the first wrote, or has moved to a later epoch, or
  is gone. Together with the second statement's join on the current judgement
  and its epoch this gives `VerdictFromCurrent`, which the two statements alone
  do not.
* `VerdictMeansJudged`: a contestant verdict comes with the final judged status,
  so the reaper's candidate test cannot match it.
* `FinalMeansEnded`: a finalized row has ended, so no step that looks for open rows
  touches the verdict of one.
* `VerdictFromCurrent` and `ResultsMatchAttempt`.

**The argument.** The steps are grouped by what they do to the rows
(`StepKinds`): quiet steps keep every row on its attempt and every finalized
outcome (`QuietStepRows`), advances put one row on the next epoch and clear it
(`AdvanceStepRows`), inserts add an open row and at most retire the current one
(`InsertStepRows`), apply moves the current mark (`ApplyRows`), discard removes
a row. `TaskEffects` and `QuietSubmission` say how tasks and submission move.
Each conjunct then has one case per kind.

**The refinement.** `RefinementProofs` proves `LifecycleShowsVerdicts`, `Spec =>
ShowsVerdicts`, from `IInv`. Under it the record of a judgement is the contestant
verdict of an existing row, whatever its other columns say. A quiet step of any actor
either records one verdict and leaves the submission alone, or leaves every record
alone and moves a submission that showed nothing yet; advances, inserts, apply and
discard map to the rejudge and administrator steps of `VerdictSpec`.

**One writer per attempt.** `WriterProofs` proves `OneWriter`: `Spec /\
[][Orderly]_vars => []OneWriterPerAttempt`, for every value of the constants. `Orderly`
restricts two steps and nothing else: the reaper's `RereadSubmission` comes while the
submission is still at the epoch the reaper committed, and `ApplyJudgement` comes while
no dispatch is about to start at the applied judgement's epoch or a later one. The code
checks neither, so these are exactly the two windows described above, and the theorem
says that there is no third: with any number of retries, claims, steals, recoveries,
crashes, restarts, rejudges, applies, discards and dead-letter retries an attempt has one
writer. The invariant `WriterInv`: at most one task starts at the submission's epoch
(`OneStarter`), none while the submission is queued (`QueuedIsFree`), and while one
starts nobody works on the current attempt (`StarterIsFirst`), so whoever adopts or
inserts the judgement is alone on it (`OneHolder`).

**Delivery of an operation.** `DeliveryProofs`, for any number of workers, reapers,
copies, crashes, restarts, lapses and failed calls, from `DeliveryAssumption` (the
bounds are natural numbers, the mark for no worker is no worker):

| theorem | statement | what it needs |
|---|---|---|
| `ClaimIsItsOwners` | `Spec => ClaimSafe` | `HandlersTyped`: three actions change the claim, and `TryClaim` takes it from another worker only without a heartbeat |
| `DeliveryTypeCorrect` | `Spec => []TypeOK` | `Basic` (a copy that was not published is nowhere, a copy is consumed once, a tick holds what it read) and `ReplyBound`: a silent copy for every reply, so the replies never exceed the copies |
| `DeadLettersAnswered` | `Spec => []DeadLetterAnswered` | `DeadKnown`: a handler about to write the dead letter, or past it, has reported the error |
| `OneWorkerAtATime` | `Spec => [](Steady => OneWorker)` | `BeatsKnown`: whoever has no heartbeat is down, also for a reaper that looked earlier; `ClaimKnown`: the claim names every worker that runs the operation |
| `NeverLostUnderFewFailures` | `Spec => [](FewFailures => NeverLost)` | `Kept`: some copy is good, that is, in the hands of a handler that will answer, or in the broker with nobody about to remove it; `Holder`: a copy skipped as claimed has a handler elsewhere |

`Steady` says that no worker restarted and no heartbeat or claim lapsed under a running
worker; `FewFailures` adds that at most one worker died and at most one call failed.
The conditions are about the history of the behaviour, not about the constants, and
they are needed: beyond them an operation is lost by a restart under the same id (run
`lost`), by two failed calls (the error result and the dead letter), by a crash after a
lapsed heartbeat, and by two crashes with a requeue between consume and claim.

**The worker.** `WorkerProofs` proves the five safety properties of the `worker` run for
every value of the constants of `MCWorker`, whose assumptions say that bounds are
natural numbers, that there is a slot and a box, and that marks are no worker and no
process.

| theorem | statement | invariant |
|---|---|---|
| `StepsOrdered` | `Spec => []OrderSound` | `OrderInv`: what is placed is closed under its dependencies and no group of it waits for itself; degrees count the dependencies not placed. That an order that gets stuck has a cycle needs no induction over the graph: `Cyclic` asks for a non-empty set of steps each of which waits for one in it, and the steps left over are one |
| `OutputKept` | `Spec => []NoOutputLost` | `ChannelsInv`: while a reader waits, the writer is kept or nothing is buffered; with or without keep-alives, and except where the runaway guard gave up |
| `LeaseHeld` | `Spec => []CacheSound` | `CacheInv`: a leader's lease is under its name until it lapses or is released |
| `BoxesKept` | `Spec => []BoxesSound` | `BoxesInv`: locks of slots have one owner, offsets of live environments differ |
| `BlameEarned` | `Spec => []VerdictEarned` | `FusedInv`: what was reported of a step against what happened to it |

**The server.** `ServerProofs` proves, for every value of the constants of `MCServer`
(bounds are natural numbers, at least one permit, finitely many reservations):
`KeysAreHonest`, `Spec => KeysHonest`; `NoTimerLost`, the safety part of `WakeupsKept`;
`AdmissionExact`, the safety part of `PermitsSound`; `CodeRunsSound`, the safety parts of
`RunSound`. For the keys the invariant is that, undisturbed, a key has one holder on its
path and nobody else's request has taken effect (`KeyOfOne`); a handler that fails after
it took effect disturbs it. For the timers, a claim
number identifies the schedule it was made for (`ClaimsTell`). For the permits, the
available ones, those handed out and those on their way to a woken waiter add up, and
every waiter in the semaphore's queue is parked once (`ParkedWait`); the counts are
cardinalities, with `FiniteSetTheorems`. For code runs, a task on the row's epoch has
stored what it has seen (`GotStored`).

**The bracket match.** `BracketProofs` proves every safety property of the `bracket`
run for all numbers of games, runs, requests, submissions and failures, from
`MatchSettings`: times and bounds are natural numbers and the games needed to win are
between one and the number of regular games, which is what the plugin's set-up checks
(`src/plugins/codelink-bracket/src/setup.rs:104`).

| theorem | statement |
|---|---|
| `BracketInvariant` | `Spec => []BInv` |
| `MatchTypeCorrect` | `Spec => []TypeOK` |
| `EarliestSubmissionWins` | `Spec => []EarliestWins` |
| `PenaltiesAreExact` | `Spec => []PenaltyExact` |
| `GamesScoredOnce` | `Spec => []ScoreExact` |
| `ShownAsWon` | `Spec => []ShownIsWon` |
| `DecisionsAreFinal` | `Spec => DecisionStands` |

`BInv` has to say what a run holds between its read of the match and its
compare-and-set. `Played` is about the stored match: the games before the last are
decided, decided games went to their earliest submission, nothing that could still win
a decided game is admitted (`InTime`), scores and extra time are exact. `DriversOK` says
the same of the match a run has computed if the revision it read is still the stored
one (`Carried`), and of a match it wrote and now publishes, that the stored one follows
from it (`Follows`). `RequestsOK` says that the errors a request has counted are all the
player's errors, as long as nothing of the player is being judged. Extra time is stated
as a chain, each regular game opened with what the one before left; summed up, that is
the extra time of the match less everything used.

**Only model-checked.** All liveness (`EventuallySettled`, `EventuallyAnswered`,
`MatchCompletes`, `WaitsEnd` and the liveness parts of the `server` properties): it is
out of the prover's reach. `ResultsAccounted`, `CasesAnswered`, `SlotsAccounted`,
`JudgeSound`, `GateSound` and `PrintsSound` of the `server` run, and the violations.
`OneWorker`, `NeverLost` and `OneWriterPerAttempt` outside the conditions named above:
the instances of `delivery` and `steal` are inside them.

## Plan

1. Judging core, operation delivery, the server's waiting layers, the worker's
   components, the bracket match, the judging driver, the submission gates and the
   print queue: modelled and checked.
2. Proved: every invariant of the judging, delivery, worker and bracket runs, their
   action properties and the refinement; four of the ten components of `server`.
3. Proofs next: `GateSound` (a count of pending claims and a bound on their age),
   `PrintsSound`, and the safety parts of `ResultsAccounted`, `CasesAnswered` and
   `SlotsAccounted` (counters against cardinalities).
4. Modules that could follow: the reply-queue sweeper in `OperationDelivery`, stages and
   problem ordering of the bracket plugin, the plugin pool, the standings.
