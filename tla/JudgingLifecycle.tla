-------------------------- MODULE JudgingLifecycle --------------------------
(***************************************************************************)
(* The life of one submission row, its submission_judgement rows and its   *)
(* test_case_result rows under every server process that may touch them:   *)
(* the claim fiber, the detached dispatch tasks and the plugin they run,   *)
(* lease refresh and lease steal, the stuck-job detector, the SystemError  *)
(* reaper, crash and restart, and the administrator's rejudge, apply,      *)
(* discard and dead-letter retry.                                          *)
(*                                                                         *)
(* Every statement of the code is keyed by the submission's id, so rows of *)
(* different submissions do not interact and one submission is enough.     *)
(* A database transaction is one step; a write outside a transaction is a  *)
(* step of its own. Compiling is folded into "Running" (no code tells the  *)
(* two apart) and CompilationError into "Judged" with a contestant verdict.*)
(* Wall-clock time is the lease field of a row: "fresh", "stale" once its  *)
(* heartbeat (its creation, for a row nobody owns) is past the threshold   *)
(* that is compared with it, or NULL once a restart has cleared it.        *)
(***************************************************************************)
EXTENDS Naturals

CONSTANTS
  Servers,               \* API server processes (config.server.id)
  Tasks,                 \* slots for in-memory dispatch tasks
  ContestantVerdicts,    \* verdicts that are about the contestant's program
  MaxJudgements,         \* bound: submission_judgement rows ever inserted
  MaxEpoch,              \* bound: largest judge_epoch
  MaxDispatchRetries,    \* config.server.max_dispatch_retries
  MaxStuckRetries,       \* config.server.max_stuck_retries
  MaxSystemErrorRetries, \* config.server.max_system_error_retries
  LeaseSteal,            \* config.server.dispatcher_lease_steal_enabled
  InflightCap,           \* config.dlq.max_inflight_secs # 0
  AdminOps               \* the administrator operations that are exercised

AllAdminOps == {"rejudge", "defer", "apply", "discard", "dlqRetry"}

\* Two marks that are neither a server nor a verdict: the owner a restarted
\* server writes on the rows of its earlier life, and SQL's NULL.
Orphaned == "orphaned"
None == "none"

ASSUME BoundsAssumption ==
  /\ MaxJudgements \in Nat /\ MaxEpoch \in Nat
  /\ MaxDispatchRetries \in Nat /\ MaxStuckRetries \in Nat
  /\ MaxSystemErrorRetries \in Nat
ASSUME FlagsAssumption ==
  /\ LeaseSteal \in BOOLEAN /\ InflightCap \in BOOLEAN
  /\ AdminOps \subseteq AllAdminOps
ASSUME MarksAssumption ==
  /\ Orphaned \notin Servers /\ None \notin Servers
  /\ "SystemError" \notin ContestantVerdicts /\ None \notin ContestantVerdicts

VARIABLES
  sub,      \* the submission row
  jud,      \* the submission_judgement rows, by id
  serial,   \* the highest judgement id handed out
  results,  \* test_case_result rows, as <<judgement_id, judge_epoch>>
  task,     \* the dispatch tasks in the memory of the servers
  up,       \* the servers that are running
  dlq       \* an unresolved StuckSubmission dead letter exists

vars == <<sub, jud, serial, results, task, up, dlq>>

-----------------------------------------------------------------------------
Jids == 1..MaxJudgements
Statuses == {"Queued", "Pending", "Running", "Judged", "SystemError"}
Terminal == {"Judged", "SystemError"}
Leased == {"Pending", "Running"}
Verdicts == ContestantVerdicts \union {"SystemError", None}
Owners == Servers \union {Orphaned, None}
Leases == {"fresh", "stale", None}

SubmissionRow ==
  [status : Statuses, verdict : Verdicts, epoch : Nat,
   owner : Owners, lease : Leases, retry : Nat]

JudgementRow ==
  [exists : BOOLEAN, version : Nat, current : BOOLEAN, final : BOOLEAN,
   status : Statuses, verdict : Verdicts, epoch : Nat,
   owner : Owners, lease : Leases, retry : Nat]

\* An id that was never handed out, or whose row was discarded.
NoRow ==
  [exists |-> FALSE, version |-> 0, current |-> FALSE, final |-> FALSE,
   status |-> "Queued", verdict |-> None, epoch |-> 0,
   owner |-> None, lease |-> "fresh", retry |-> 0]

\* Where a dispatch task stands: "start" before ensure_active_judgement_id,
\* "run" while the plugin runs, "subWrite" between the two statements of
\* submission_update, "markSub" and "markMirror" between the statements of
\* record_dispatch_failure, "reread" before the reaper re-reads the row.
Pcs == {"idle", "reread", "start", "run", "subWrite", "markSub", "markMirror"}

TaskRow ==
  [pc : Pcs, server : Owners, jid : Nat, epoch : Nat,
   status : Statuses, verdict : Verdicts]

Idle ==
  [pc |-> "idle", server |-> None, jid |-> 0, epoch |-> 0,
   status |-> "Queued", verdict |-> None]

TypeOK ==
  /\ sub \in SubmissionRow
  /\ jud \in [Jids -> JudgementRow]
  /\ serial \in 0..MaxJudgements
  /\ results \in SUBSET (Jids \X Nat)
  /\ task \in [Tasks -> TaskRow]
  /\ up \in SUBSET Servers
  /\ dlq \in BOOLEAN

\* handlers/submission: the row is inserted Queued, nobody owns it and no
\* judgement exists yet.
Init ==
  /\ sub = [status |-> "Queued", verdict |-> None, epoch |-> 0,
            owner |-> None, lease |-> "fresh", retry |-> 0]
  /\ jud = [j \in Jids |-> NoRow]
  /\ serial = 0
  /\ results = {}
  /\ task = [t \in Tasks |-> Idle]
  /\ up = Servers
  /\ dlq = FALSE

-----------------------------------------------------------------------------
(* Rows and lineage *)

Current(j) == jud[j].exists /\ jud[j].current
HasCurrent == \E j \in Jids : Current(j)

\* MAX(version) over the submission's judgements.
IsMaxVersion(j) == \A k \in Jids : jud[k].exists => jud[k].version <= jud[j].version
NextVersion ==
  CHOOSE v \in 1..(MaxJudgements + 1) :
    /\ \A k \in Jids : jud[k].exists => jud[k].version < v
    /\ \A w \in 1..(v - 1) : \E k \in Jids : jud[k].exists /\ w <= jud[k].version

CanInsert == serial < MaxJudgements

\* Mutant: the epoch is not bumped.
SameEpoch(epoch) == epoch

\* A dispatch that supersedes another one takes the next epoch.
NextEpoch(epoch) == epoch + 1

\* A fresh row; the database hands out the next id.
NewJudgement(status, epoch, owner, current) ==
  [exists |-> TRUE, version |-> NextVersion, current |-> current, final |-> FALSE,
   status |-> status, verdict |-> None, epoch |-> epoch,
   owner |-> owner, lease |-> "fresh", retry |-> 0]

\* The judged output of a row is cleared and the row is leased to server s.
Redispatched(row, s, epoch, retry) ==
  [row EXCEPT !.status = "Pending", !.verdict = None, !.epoch = epoch,
              !.owner = s, !.lease = "fresh", !.retry = retry]

AsSystemError(row) == [row EXCEPT !.status = "SystemError", !.final = TRUE]

\* Mutant: only a row that still runs is demoted.
DemotedRunning ==
  [j \in Jids |-> [jud[j] EXCEPT !.current = @ /\ jud[j].final]]

Demoted == [j \in Jids |-> [jud[j] EXCEPT !.current = FALSE]]

\* Mutant: the results of the earlier attempt stay.
ResultsKept(j) == results

\* The results of a row that is judged again, or discarded, are deleted with it.
ResultsWithout(j) == {r \in results : r[1] # j}

\* The lease test of the steal scans: a heartbeat that is old, or missing on a
\* row that has an owner; a row nobody owns is judged by its creation.
LeaseExpired(row) == row.status \in Leased /\ row.lease # "fresh"

Spawn(t, s, j, epoch, pc) ==
  task' = [task EXCEPT ![t] = [Idle EXCEPT !.pc = pc, !.server = s,
                                           !.jid = j, !.epoch = epoch]]

Free(t) == task[t].pc = "idle"
Goto(t, pc) == task' = [task EXCEPT ![t].pc = pc]
End(t) == task' = [task EXCEPT ![t] = Idle]

-----------------------------------------------------------------------------
(* Claim fiber *)

\* claim_queued_submissions: Queued -> Pending under this server's lease. The
\* epoch does not move. The dispatch is detached.
Claim(s, t) ==
  /\ s \in up /\ Free(t)
  /\ sub.status = "Queued"
  /\ sub' = [sub EXCEPT !.status = "Pending", !.owner = s, !.lease = "fresh",
                        !.retry = @ + 1]
  /\ Spawn(t, s, 0, sub.epoch, "start")
  /\ UNCHANGED <<jud, serial, results, up, dlq>>

\* claim_queued_judgements: a deferred rejudge; the submission is not touched
\* and the dispatch runs at the judgement's epoch.
ClaimDeferred(s, t, j) ==
  /\ s \in up /\ Free(t)
  /\ jud[j].exists /\ jud[j].status = "Queued"
  /\ jud' = [jud EXCEPT ![j].status = "Pending", ![j].owner = s,
                        ![j].lease = "fresh", ![j].retry = @ + 1]
  /\ Spawn(t, s, j, jud[j].epoch, "run")
  /\ UNCHANGED <<sub, serial, results, up, dlq>>

-----------------------------------------------------------------------------
(* Dispatch task *)

\* ensure_active_judgement_id, a current judgement is in flight: adopt it.
\* Owner and lease are stamped only when the owner differs; the epoch is not
\* compared.
EnsureAdopt(t, j) ==
  /\ task[t].pc = "start"
  /\ Current(j) /\ ~jud[j].final
  /\ jud' = IF jud[j].owner = task[t].server THEN jud
            ELSE [jud EXCEPT ![j].owner = task[t].server, ![j].lease = "fresh"]
  /\ task' = [task EXCEPT ![t].pc = "run", ![t].jid = j]
  /\ UNCHANGED <<sub, serial, results, up, dlq>>

\* ensure_active_judgement_id, no judgement is current: insert one.
EnsureInsert(t) ==
  /\ task[t].pc = "start"
  /\ ~HasCurrent /\ CanInsert
  /\ serial' = serial + 1
  /\ jud' = [jud EXCEPT ![serial + 1] =
               NewJudgement("Pending", task[t].epoch, task[t].server, TRUE)]
  /\ task' = [task EXCEPT ![t].pc = "run", ![t].jid = serial + 1]
  /\ UNCHANGED <<sub, results, up, dlq>>

\* ensure_active_judgement_id, the lookup fails, or the insert meets the unique
\* index because a finalized judgement is current: dispatch with id 0.
EnsureFails(t) ==
  /\ task[t].pc = "start"
  /\ Goto(t, "run")
  /\ UNCHANGED <<sub, jud, serial, results, up, dlq>>

\* Mutant: a finalized row is written again.
AttemptAtEpoch(t) ==
  LET j == task[t].jid IN
  j \in Jids /\ jud[j].exists /\ jud[j].epoch = task[t].epoch

\* The gate of every write a dispatch makes to its judgement: the row still
\* stands at the epoch the task was given and nobody has finalized it.
LiveAttempt(t) ==
  LET j == task[t].jid IN
  j \in Jids /\ jud[j].exists /\ jud[j].epoch = task[t].epoch /\ ~jud[j].final

\* The row submission_update's first statement matches.
Writable(t) ==
  LiveAttempt(t) /\ (jud[task[t].jid].current \/ IsMaxVersion(task[t].jid))

\* submission_update, first statement: the judgement takes the plugin's status
\* and verdict and is finalized with a judged status.
UpdateJudgement(t, status, verdict) ==
  /\ task[t].pc = "run" /\ Writable(t)
  /\ jud' = [jud EXCEPT ![task[t].jid].status = status,
                        ![task[t].jid].verdict = verdict,
                        ![task[t].jid].final = (status = "Judged")]
  /\ task' = [task EXCEPT ![t].pc = "subWrite", ![t].status = status,
                          ![t].verdict = verdict]
  /\ UNCHANGED <<sub, serial, results, up, dlq>>

\* The plugin reports progress, or a verdict.
PluginProgress(t) == UpdateJudgement(t, "Running", None)
PluginVerdict(t) ==
  \E v \in ContestantVerdicts \union {"SystemError"} : UpdateJudgement(t, "Judged", v)

\* Mutant: whether the judgement is current is not looked at.
SubmissionAtEpoch(t) == sub.epoch = task[t].epoch /\ sub.status \notin Terminal

\* submission_update, second statement: the submission follows only while it
\* is not terminal, at the task's epoch, and the judgement is still current.
SubmissionFollows(t) ==
  /\ sub.epoch = task[t].epoch /\ sub.status \notin Terminal
  /\ Current(task[t].jid) /\ jud[task[t].jid].epoch = sub.epoch

UpdateSubmission(t) ==
  /\ task[t].pc = "subWrite"
  /\ sub' = IF SubmissionFollows(t)
            THEN [sub EXCEPT !.status = task[t].status, !.verdict = task[t].verdict]
            ELSE sub
  /\ IF task[t].status = "Judged" THEN End(t) ELSE Goto(t, "run")
  /\ UNCHANGED <<jud, serial, results, up, dlq>>

\* An update that matches no row is StaleEpoch to the plugin, which returns
\* success without another write.
PluginStale(t) ==
  /\ task[t].pc = "run" /\ ~Writable(t)
  /\ End(t)
  /\ UNCHANGED <<sub, jud, serial, results, up, dlq>>

\* Mutant: the insert is gated by the submission's epoch, and not joined with
\* the judgement it names.
InsertResultsBySubmission(t) ==
  /\ task[t].pc = "run" /\ sub.epoch = task[t].epoch
  /\ results' = results \union {<<task[t].jid, task[t].epoch>>}
  /\ UNCHANGED <<sub, jud, serial, task, up, dlq>>

\* submission_insert_results: joined with an unfinalized judgement at the epoch.
InsertResults(t) ==
  /\ task[t].pc = "run" /\ LiveAttempt(t)
  /\ results' = results \union {<<task[t].jid, task[t].epoch>>}
  /\ UNCHANGED <<sub, jud, serial, task, up, dlq>>

\* submission_delete_results: the plugin clears its own attempt's rows.
DeleteResults(t) ==
  /\ task[t].pc = "run"
  /\ <<task[t].jid, task[t].epoch>> \in results
  /\ results' = results \ {<<task[t].jid, task[t].epoch>>}
  /\ UNCHANGED <<sub, jud, serial, task, up, dlq>>

\* record_dispatch_failure: the plugin is missing, traps, or reports an error.
\* So does a database error on submission_update's second statement.
\* First the judgement by id and epoch,
FailDispatch(t) ==
  /\ task[t].pc \in {"run", "subWrite"}
  /\ jud' = IF LiveAttempt(t) THEN [jud EXCEPT ![task[t].jid] = AsSystemError(@)]
            ELSE jud
  /\ Goto(t, "markSub")
  /\ UNCHANGED <<sub, serial, results, up, dlq>>

\* then mark_submission_system_error_with_epoch: the submission by epoch,
MarkedSubmission(epoch) ==
  IF sub.epoch = epoch /\ sub.status \notin Terminal
  THEN [sub EXCEPT !.status = "SystemError"] ELSE sub

\* and its current judgement by epoch, whichever judgement that is.
MarkedJudgements(epoch) ==
  [j \in Jids |-> IF Current(j) /\ ~jud[j].final /\ jud[j].epoch = epoch
                  THEN AsSystemError(jud[j]) ELSE jud[j]]

MarkSubmission(t) ==
  /\ task[t].pc = "markSub"
  /\ sub' = MarkedSubmission(task[t].epoch)
  /\ Goto(t, "markMirror")
  /\ UNCHANGED <<jud, serial, results, up, dlq>>

MarkMirror(t) ==
  /\ task[t].pc = "markMirror"
  /\ jud' = MarkedJudgements(task[t].epoch)
  /\ End(t)
  /\ UNCHANGED <<sub, serial, results, up, dlq>>

\* A worker dies silently, a result is lost or a write fails for good: the
\* task does no more, while its server goes on refreshing the lease.
Wedge(t) ==
  /\ ~Free(t)
  /\ End(t)
  /\ UNCHANGED <<sub, jud, serial, results, up, dlq>>

-----------------------------------------------------------------------------
(* Leases: time, refresh, steal *)

ExpireSubmission ==
  /\ sub.status \in Leased /\ sub.lease = "fresh"
  /\ sub' = [sub EXCEPT !.lease = "stale"]
  /\ UNCHANGED <<jud, serial, results, task, up, dlq>>

ExpireJudgement(j) ==
  /\ jud[j].exists /\ ~jud[j].final
  /\ jud[j].status \in Leased /\ jud[j].lease = "fresh"
  /\ jud' = [jud EXCEPT ![j].lease = "stale"]
  /\ UNCHANGED <<sub, serial, results, task, up, dlq>>

\* refresh_owned_leases: of the judgements only the current one, and only
\* while it is the newest.
Refreshed(row) == [row EXCEPT !.lease = "fresh"]
RefreshLeases(s) ==
  /\ s \in up /\ LeaseSteal
  /\ sub' = IF sub.owner = s /\ sub.status \in Leased THEN Refreshed(sub) ELSE sub
  /\ jud' = [j \in Jids |->
               IF /\ Current(j) /\ ~jud[j].final /\ jud[j].owner = s
                  /\ jud[j].status \in Leased /\ IsMaxVersion(j)
               THEN Refreshed(jud[j]) ELSE jud[j]]
  /\ UNCHANGED <<serial, results, task, up, dlq>>

\* Steal, submission first: the current judgement is demoted as it is and a
\* new one opened at the next epoch (claim_submissions). The results cleared
\* afterwards are those of the current judgement, which is by then the new one.
StealSubmission(s, t) ==
  /\ LeaseSteal /\ s \in up /\ Free(t)
  /\ LeaseExpired(sub)
  /\ sub.retry + 1 <= MaxDispatchRetries
  /\ CanInsert /\ sub.epoch < MaxEpoch
  /\ serial' = serial + 1
  /\ jud' = [Demoted EXCEPT ![serial + 1] =
               NewJudgement("Pending", NextEpoch(sub.epoch), s, TRUE)]
  /\ results' = ResultsWithout(serial + 1)
  /\ sub' = Redispatched(sub, s, NextEpoch(sub.epoch), sub.retry + 1)
  /\ Spawn(t, s, 0, NextEpoch(sub.epoch), "start")
  /\ UNCHANGED <<up, dlq>>

\* claim_submissions, the budget is spent: dead letter and SystemError.
ExhaustSubmission(s) ==
  /\ LeaseSteal /\ s \in up
  /\ LeaseExpired(sub)
  /\ sub.retry + 1 > MaxDispatchRetries
  /\ dlq' = TRUE
  /\ sub' = [MarkedSubmission(sub.epoch) EXCEPT !.retry = @ + 1]
  /\ jud' = MarkedJudgements(sub.epoch)
  /\ UNCHANGED <<serial, results, task, up>>

\* Mutant: the submission stays at its epoch.
LeftBehind(s, j) == sub

\* claim_deferred_judgements: the current judgement's own lease has expired.
\* The same row is dispatched again and the submission is pulled along.
PulledAlong(s, j) ==
  Redispatched(sub, s, NextEpoch(jud[j].epoch),
               IF jud[j].retry + 1 > sub.retry THEN jud[j].retry + 1 ELSE sub.retry)

StealJudgement(s, t, j) ==
  /\ LeaseSteal /\ s \in up /\ Free(t)
  /\ Current(j) /\ ~jud[j].final /\ LeaseExpired(jud[j])
  /\ jud[j].retry + 1 <= MaxDispatchRetries
  /\ jud[j].epoch < MaxEpoch
  /\ jud' = [jud EXCEPT ![j] = Redispatched(@, s, NextEpoch(@.epoch), @.retry + 1)]
  /\ results' = ResultsWithout(j)
  /\ sub' = PulledAlong(s, j)
  /\ Spawn(t, s, j, NextEpoch(jud[j].epoch), "run")
  /\ UNCHANGED <<serial, up, dlq>>

\* claim_deferred_judgements, the budget is spent: the judgement and, at its
\* own epoch, the submission end in SystemError.
ExhaustJudgement(s, j) ==
  /\ LeaseSteal /\ s \in up
  /\ Current(j) /\ ~jud[j].final /\ LeaseExpired(jud[j])
  /\ jud[j].retry + 1 > MaxDispatchRetries
  /\ jud' = [jud EXCEPT ![j] = [AsSystemError(@) EXCEPT !.retry = jud[j].retry + 1]]
  /\ sub' = MarkedSubmission(sub.epoch)
  /\ UNCHANGED <<serial, results, task, up, dlq>>

-----------------------------------------------------------------------------
(* Stuck-job detector *)

\* Mutant: a row is stuck only when its lease has lapsed.
StuckRowByLease(row) ==
  /\ row.status \in Leased /\ row.lease # "fresh"
  /\ row.owner = None => row.status = "Pending"

\* inflight_capped: the age of the dispatch (leased_at) may be past the cap
\* whatever the heartbeat says; a row without an owner and an orphaned row have
\* no leased_at and never trip.
InflightCapped(row) == InflightCap /\ row.owner \in Servers

\* stuck_disposition = Recover.
StuckRow(row) ==
  /\ row.status \in Leased
  /\ IF row.owner = None THEN row.status = "Pending" /\ row.lease # "fresh"
     ELSE row.lease # "fresh" \/ InflightCapped(row)

\* handle_stuck_submission, budget left: recover_stuck_submission_without_steal
\* and open_retry_submission_judgement, which retires the unfinalized current
\* judgement. The insert meets the unique index, and the transaction is rolled
\* back, when the current judgement is already finalized.
RecoverStuckSubmission(s, t) ==
  /\ s \in up /\ Free(t)
  /\ StuckRow(sub)
  /\ sub.retry <= MaxStuckRetries
  /\ ~LeaseSteal \/ InflightCapped(sub)
  /\ CanInsert /\ sub.epoch < MaxEpoch
  /\ \A j \in Jids : Current(j) => ~jud[j].final
  /\ sub' = Redispatched(sub, s, NextEpoch(sub.epoch), sub.retry + 1)
  /\ serial' = serial + 1
  /\ jud' = [j \in Jids |->
               IF j = serial + 1 THEN NewJudgement("Pending", NextEpoch(sub.epoch), s, TRUE)
               ELSE IF Current(j) THEN [AsSystemError(jud[j]) EXCEPT !.current = FALSE]
               ELSE jud[j]]
  /\ Spawn(t, s, 0, NextEpoch(sub.epoch), "start")
  /\ UNCHANGED <<results, up, dlq>>

\* handle_stuck_submission, the budget is spent.
TerminateStuckSubmission(s) ==
  /\ s \in up
  /\ StuckRow(sub)
  /\ sub.retry > MaxStuckRetries
  /\ dlq' = TRUE
  /\ sub' = MarkedSubmission(sub.epoch)
  /\ jud' = MarkedJudgements(sub.epoch)
  /\ UNCHANGED <<serial, results, task, up>>

\* handle_stuck_submission_judgement, budget left: the same row again at the
\* next epoch; the submission moves along only for the current judgement and
\* only from the judgement's epoch.
RecoverStuckJudgement(s, t, j) ==
  /\ s \in up /\ Free(t)
  /\ jud[j].exists /\ ~jud[j].final /\ StuckRow(jud[j])
  /\ jud[j].retry <= MaxStuckRetries
  /\ ~LeaseSteal \/ ~jud[j].current \/ InflightCapped(jud[j])
  /\ jud[j].epoch < MaxEpoch
  /\ jud[j].current => sub.epoch = jud[j].epoch /\ sub.status \in Leased
  /\ sub' = IF jud[j].current
            THEN Redispatched(sub, s, NextEpoch(jud[j].epoch), jud[j].retry + 1) ELSE sub
  /\ results' = ResultsWithout(j)
  /\ jud' = [jud EXCEPT ![j] = Redispatched(@, s, NextEpoch(@.epoch), @.retry + 1)]
  /\ Spawn(t, s, j, NextEpoch(jud[j].epoch), "run")
  /\ UNCHANGED <<serial, up, dlq>>

\* handle_stuck_submission_judgement, the budget is spent: the judgement ends
\* in SystemError; the submission is left to the reconciliation below.
TerminateStuckJudgement(s, j) ==
  /\ s \in up
  /\ jud[j].exists /\ ~jud[j].final /\ StuckRow(jud[j])
  /\ jud[j].retry > MaxStuckRetries
  /\ jud' = [jud EXCEPT ![j] = AsSystemError(@)]
  /\ UNCHANGED <<sub, serial, results, task, up, dlq>>

\* reconcile_finalized_submissions
Reconcile(j) ==
  /\ up # {}
  /\ Current(j) /\ jud[j].final
  /\ jud[j].epoch = sub.epoch /\ sub.status \notin Terminal
  /\ sub' = [sub EXCEPT !.status = jud[j].status, !.verdict = jud[j].verdict]
  /\ UNCHANGED <<jud, serial, results, task, up, dlq>>

-----------------------------------------------------------------------------
(* SystemError reaper *)

\* Mutant: every terminal row is taken for a SystemError.
IsTerminal(row) == row.status \in Terminal

IsSystemError(row) ==
  \/ row.status = "SystemError"
  \/ row.status = "Judged" /\ row.verdict = "SystemError"

\* requeue_judgement_for_system_error_retry: judgement and submission advance
\* together or not at all. The submission is read again after the commit; until
\* then the task stands at the epoch it has committed. The judgement is read
\* without a lock, and the two updates look at the epochs only: an apply of
\* another judgement at the same epoch between read and update would slip
\* through. Read and update are one step here, so that window is left out.
RequeueSystemError(s, t, j) ==
  /\ s \in up /\ Free(t)
  /\ Current(j) /\ jud[j].final /\ IsSystemError(jud[j])
  /\ jud[j].retry + 1 <= MaxSystemErrorRetries
  /\ sub.epoch = jud[j].epoch
  /\ sub.epoch < MaxEpoch
  /\ jud' = [jud EXCEPT ![j] =
               [Redispatched(@, s, NextEpoch(@.epoch), @.retry + 1) EXCEPT !.final = FALSE]]
  /\ sub' = Redispatched(sub, s, NextEpoch(sub.epoch), jud[j].retry + 1)
  /\ results' = ResultsWithout(j)
  /\ Spawn(t, s, j, NextEpoch(jud[j].epoch), "reread")
  /\ UNCHANGED <<serial, up, dlq>>

RereadSubmission(t) ==
  /\ task[t].pc = "reread"
  /\ task' = [task EXCEPT ![t].pc = "run", ![t].epoch = sub.epoch]
  /\ UNCHANGED <<sub, jud, serial, results, up, dlq>>

-----------------------------------------------------------------------------
(* Administrator *)

\* open_rejudge_judgement with apply_immediately, and the submission is queued.
OpenImmediateRejudge ==
  /\ CanInsert /\ sub.epoch < MaxEpoch
  /\ serial' = serial + 1
  /\ jud' = [Demoted EXCEPT ![serial + 1] =
               NewJudgement("Pending", NextEpoch(sub.epoch), None, TRUE)]
  /\ sub' = [sub EXCEPT !.status = "Queued", !.verdict = None, !.epoch = NextEpoch(@)]

RejudgeImmediate ==
  /\ "rejudge" \in AdminOps
  /\ OpenImmediateRejudge
  /\ UNCHANGED <<results, task, up, dlq>>

\* rejudge_submission without apply_immediately: a queued judgement that is not
\* current; the submission keeps its verdict and its epoch.
RejudgeDeferred ==
  /\ "defer" \in AdminOps
  /\ CanInsert /\ sub.epoch < MaxEpoch
  /\ serial' = serial + 1
  /\ jud' = [jud EXCEPT ![serial + 1] =
               NewJudgement("Queued", NextEpoch(sub.epoch), None, FALSE)]
  /\ UNCHANGED <<sub, results, task, up, dlq>>

\* Mutant: the epoch is not taken along.
AppliedOutcome(j) ==
  [sub EXCEPT !.status = jud[j].status, !.verdict = jud[j].verdict]

\* apply_submission_judgement: the submission takes the judgement's outcome and
\* its epoch, which may be lower than the submission's.
Applied(j) ==
  [sub EXCEPT !.status = jud[j].status, !.verdict = jud[j].verdict,
              !.epoch = jud[j].epoch]
ApplyJudgement(j) ==
  /\ "apply" \in AdminOps
  /\ jud[j].exists /\ jud[j].final
  /\ jud' = [Demoted EXCEPT ![j].current = TRUE]
  /\ sub' = Applied(j)
  /\ UNCHANGED <<serial, results, task, up, dlq>>

\* discard_submission_judgement
DiscardJudgement(j) ==
  /\ "discard" \in AdminOps
  /\ jud[j].exists /\ ~jud[j].current /\ jud[j].final
  /\ jud' = [jud EXCEPT ![j] = NoRow]
  /\ results' = ResultsWithout(j)
  /\ UNCHANGED <<sub, serial, task, up, dlq>>

\* retry_stuck_submission: an immediate rejudge that resolves the dead letter.
DlqRetry ==
  /\ "dlqRetry" \in AdminOps
  /\ dlq /\ sub.status \in {"SystemError", "Pending"}
  /\ OpenImmediateRejudge
  /\ dlq' = FALSE
  /\ UNCHANGED <<results, task, up>>

-----------------------------------------------------------------------------
(* Crash and restart *)

\* A server stops: its tasks are gone, its rows stay.
Crash(s) ==
  /\ s \in up
  /\ up' = up \ {s}
  /\ task' = [t \in Tasks |-> IF task[t].server = s THEN Idle ELSE task[t]]
  /\ UNCHANGED <<sub, jud, serial, results, dlq>>

\* A server starts and, with lease steal, releases the rows of its earlier
\* life (recover_orphaned_leases): a marked owner and no heartbeat.
Orphan(row) == [row EXCEPT !.owner = Orphaned, !.lease = None]
Restart(s) ==
  /\ s \notin up
  /\ up' = up \union {s}
  /\ sub' = IF LeaseSteal /\ sub.owner = s /\ sub.status \in Leased
            THEN Orphan(sub) ELSE sub
  /\ jud' = [j \in Jids |->
               IF /\ LeaseSteal /\ jud[j].exists /\ ~jud[j].final
                  /\ jud[j].owner = s /\ jud[j].status \in Leased
               THEN Orphan(jud[j]) ELSE jud[j]]
  /\ UNCHANGED <<serial, results, task, dlq>>

-----------------------------------------------------------------------------
EnsureActiveJudgement(t) ==
  (\E j \in Jids : EnsureAdopt(t, j)) \/ EnsureInsert(t) \/ EnsureFails(t)

TaskStep(t) ==
  \/ EnsureActiveJudgement(t)
  \/ PluginProgress(t) \/ PluginVerdict(t) \/ UpdateSubmission(t) \/ PluginStale(t)
  \/ InsertResults(t) \/ DeleteResults(t)
  \/ FailDispatch(t) \/ MarkSubmission(t) \/ MarkMirror(t)
  \/ RereadSubmission(t) \/ Wedge(t)

FiberStep(s) ==
  \/ \E t \in Tasks : Claim(s, t) \/ StealSubmission(s, t) \/ RecoverStuckSubmission(s, t)
  \/ \E t \in Tasks, j \in Jids :
       \/ ClaimDeferred(s, t, j) \/ StealJudgement(s, t, j)
       \/ RecoverStuckJudgement(s, t, j) \/ RequeueSystemError(s, t, j)
  \/ \E j \in Jids : ExhaustJudgement(s, j) \/ TerminateStuckJudgement(s, j)
  \/ ExhaustSubmission(s) \/ TerminateStuckSubmission(s)
  \/ RefreshLeases(s) \/ Crash(s) \/ Restart(s)

AdminStep ==
  \/ RejudgeImmediate \/ RejudgeDeferred \/ DlqRetry
  \/ \E j \in Jids : ApplyJudgement(j) \/ DiscardJudgement(j)

TimeStep ==
  \/ ExpireSubmission
  \/ \E j \in Jids : ExpireJudgement(j) \/ Reconcile(j)

Next ==
  \/ \E t \in Tasks : TaskStep(t)
  \/ \E s \in Servers : FiberStep(s)
  \/ AdminStep
  \/ TimeStep

Spec == Init /\ [][Next]_vars

\* The plugin stops reporting: with a verdict, an error, a stale epoch, or by
\* never being heard of again.
TaskEnds(t) == PluginVerdict(t) \/ PluginStale(t) \/ FailDispatch(t) \/ Wedge(t)

\* Each server runs its scans on a timer, a dispatch is bounded by the
\* evaluator's deadline however often it reports progress, and a stopped server
\* is started again. Time, progress reports and administrators owe nothing.
FairSpec ==
  /\ Spec
  /\ \A t \in Tasks :
       /\ WF_vars(EnsureActiveJudgement(t)) /\ WF_vars(UpdateSubmission(t))
       /\ WF_vars(MarkSubmission(t)) /\ WF_vars(MarkMirror(t))
       /\ WF_vars(RereadSubmission(t)) /\ SF_vars(TaskEnds(t))
  /\ \A s \in Servers :
       /\ WF_vars(Restart(s))
       /\ WF_vars(\E t \in Tasks : Claim(s, t))
       /\ WF_vars(\E t \in Tasks : StealSubmission(s, t)) /\ WF_vars(ExhaustSubmission(s))
       /\ WF_vars(\E t \in Tasks, j \in Jids : StealJudgement(s, t, j))
       /\ WF_vars(\E j \in Jids : ExhaustJudgement(s, j))
       /\ WF_vars(\E t \in Tasks : RecoverStuckSubmission(s, t))
       /\ WF_vars(TerminateStuckSubmission(s))
       /\ WF_vars(\E t \in Tasks, j \in Jids : RecoverStuckJudgement(s, t, j))
       /\ WF_vars(\E j \in Jids : TerminateStuckJudgement(s, j))
  /\ WF_vars(\E j \in Jids : Reconcile(j))

-----------------------------------------------------------------------------
(* Properties *)

\* Every stored test-case result belongs to the attempt its judgement is on.
\* The read path selects results by judgement_id alone, so a row left behind by
\* an earlier epoch would be shown twice (steal.rs, "duplicated per-testcase
\* results").
ResultsMatchAttempt ==
  \A r \in results : jud[r[1]].exists /\ jud[r[1]].epoch = r[2]

\* At most one judgement is current, whichever of claim, steal, detector,
\* reaper and administrator wrote last.
OneCurrent ==
  \A j, k \in Jids : Current(j) /\ Current(k) => j = k

\* The submission and its current judgement are always on the same epoch, so
\* that the epoch gates of the two rows accept and refuse the same attempts
\* (entity: judge_epoch "Mirrors `submission.judge_epoch`").
EpochLockstep == \A j \in Jids : Current(j) => jud[j].epoch = sub.epoch

\* A verdict shown on the submission is the verdict of its current, finalized
\* judgement at the submission's epoch: no superseded run reaches the cache.
VerdictFromCurrent ==
  sub.status = "Judged" =>
    \E j \in Jids : /\ Current(j) /\ jud[j].final
                    /\ jud[j].epoch = sub.epoch
                    /\ jud[j].status = "Judged" /\ jud[j].verdict = sub.verdict

\* Two running tasks never judge the same attempt of a judgement: the epoch
\* tells every stale worker from the live one.
OneWriterPerAttempt ==
  \A t, u \in Tasks :
    /\ task[t].pc = "run" /\ task[u].pc = "run"
    /\ Writable(t) /\ Writable(u)
    /\ task[t].jid = task[u].jid
    => t = u

\* A finalized contestant verdict stands: no retry, steal, detector or failing
\* task reopens or rewrites it.
ContestantVerdictStands ==
  [][\A j \in Jids :
       jud[j].exists /\ jud[j].final /\ jud[j].verdict \in ContestantVerdicts =>
         \/ ~jud'[j].exists
         \/ jud'[j].final /\ jud'[j].verdict = jud[j].verdict
            /\ jud'[j].status = jud[j].status]_vars

\* A failing dispatch ends its own judgement and no other.
FailureIsLocal ==
  [][\A t \in Tasks, j \in Jids :
       MarkMirror(t) /\ jud[j].exists /\ ~jud[j].final /\ jud'[j].final
         => task[t].jid \in {0, j}]_vars

\* Once the servers stay up, the submission settles for good in a terminal
\* status, whatever wedges on the way.
EventuallySettled == <>[](up = Servers) => <>[](sub.status \in Terminal)
=============================================================================
