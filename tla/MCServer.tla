------------------------------ MODULE MCServer ------------------------------
(***************************************************************************)
(* The services of the API server process, and the plugins that run in it,  *)
(* that share no state with each other, each checked on its own: a          *)
(* behaviour picks one component (focus)                                    *)
(* and the others stay as they started. The behaviours of a component       *)
(* are what its module alone would give.                                    *)
(***************************************************************************)
EXTENDS Naturals, Sequences, FiniteSets

CONSTANTS
  Servers, Tasks, Cases, MaxEpoch, MaxDispatchRetries, MaxStuckRetries,
  LeaseSteal, InflightCap, Reservations, Concurrency, MaxQueued, Ops,
  NCases, Fanout, Slots, Coalesce, Items, Window, MaxRetries, Retained,
  MaxAttempts, MaxSchedules, MaxClaims, Requests, Paths,
  NTests, Contests, MaxFaults,
  Posts, Settings, PendingGrace, ClaimGrace, Quick,
  NJobs, Stations, Elsewhere, FetchLimit, Quotas

\* The bounds on the timer's calls and on epochs, and the settings of admission
\* control.
ASSUME TimerBounds == MaxSchedules \in Nat /\ MaxClaims \in Nat /\ MaxAttempts \in Nat

ASSUME EpochBound == MaxEpoch \in Nat

ASSUME PermitSettings ==
  Concurrency \in Nat \ {0} /\ MaxQueued \in Nat /\ IsFiniteSet(Reservations)

VARIABLES
  focus,  \* the component of this behaviour; the others stand still
  run, results, task, up,
  pc, avail, waiters, queued,
  op, chan, pending, inMap, starting, reader, delivered,
  path, stage, ready, flush, verdicts, unanswered, registry, known,
  listed, caller, got,
  phase, refill, todo, active, waiting, outcomes, retries, reported,
  withdrawn, cancelled, hooks,
  row, delivery, schedules, claims, fired, given,
  key, req, applied, replayed, disturbed,
  contest, inWindow, queue, saved, callback, tcRows, shown, superseded, faults,
  gates, clock, limitRow, cooldownClaim, stored, post, dropped, slow,
  quota, job, station, created, requests, sheets, last, taken, events

Run == INSTANCE CodeRunLifecycle

Permits == INSTANCE DispatcherPermits

Operations == INSTANCE OperationBatch

Evaluate == INSTANCE EvaluateBatch

Session == INSTANCE WindowedSession

Timer == INSTANCE PluginTimer

Key == INSTANCE IdempotencyKeys

Judge == INSTANCE DetachedJudge

Gate == INSTANCE SubmissionGate

Prints == INSTANCE PrintQueue

runVars == <<run, results, task, up>>
permitsVars == <<pc, avail, waiters, queued>>
operationsVars == <<op, chan, pending, inMap, starting, reader, delivered>>
casesVars == <<path, stage, ready, flush, verdicts, unanswered, registry,
  known, listed, caller, got>>
sessionVars == <<phase, refill, todo, active, waiting, outcomes, retries,
  reported, withdrawn, cancelled, hooks>>
timerVars == <<row, delivery, schedules, claims, fired, given>>
keyVars == <<key, req, applied, replayed, disturbed>>
judgeVars == <<contest, inWindow, queue, saved, callback, tcRows, shown,
  superseded, faults>>
gateVars == <<gates, clock, limitRow, cooldownClaim, stored, post, dropped, slow>>
printVars == <<quota, job, station, created, requests, sheets, last, taken, events>>

serviceVars == <<runVars, permitsVars, operationsVars, casesVars, sessionVars,
  timerVars, keyVars>>

pluginVars == <<judgeVars, gateVars, printVars>>

vars == <<focus, serviceVars, pluginVars>>

Off == "off"

\* The items of a session, in their order.
MCItems == <<1, 2, 3>>

\* The contests a submission is judged for: subtasks of IOI that share a case,
\* with a sample among them, and one beside a subtask that is summed.
MCContests ==
  LET Plain(format) == [format |-> format, window |-> 1, subtasks |-> <<>>, samples |-> {}]
      Ioi(subtasks, samples) ==
        [format |-> "ioi", window |-> 2, subtasks |-> subtasks, samples |-> samples]
      Subtask(method, cases) == [method |-> method, cases |-> cases]
  IN {Plain("icpc"), Plain("qualifier"),
      Ioi(<<Subtask("GroupMin", {1, 2}), Subtask("GroupMul", {2, 3})>>, {1}),
      Ioi(<<Subtask("GroupMin", {1, 2, 3}), Subtask("Sum", {3})>>, {})}

\* The gates before a submission: each alone, three requests in no time or two
\* over a longer one, and both in either order.
MCSettings ==
  LET Setting(l, c, h, n, t) ==
        [limit |-> l, cooldown |-> c, hooks |-> h, posts |-> n, ticks |-> t]
  IN {Setting(1, 0, <<"limit">>, 2, 4), Setting(2, 0, <<"limit">>, 3, 0),
      Setting(0, 3, <<"cooldown">>, 3, 0), Setting(0, 3, <<"cooldown">>, 2, 6),
      Setting(1, 3, <<"limit", "cooldown">>, 2, 2),
      Setting(1, 3, <<"cooldown", "limit">>, 2, 2)}

\* Two stations: two jobs and one event, or one job and two. One station: three
\* jobs, one more than it fetches, and one event.
MCQuotas ==
  {[jobs |-> 2, events |-> 1, stations |-> Stations],
   [jobs |-> 1, events |-> 2, stations |-> Stations]}
  \union {[jobs |-> 3, events |-> 1, stations |-> {s}] : s \in {CHOOSE s \in Stations : TRUE}}

keyOff == key = Off /\ req = Off /\ applied = Off /\ replayed = Off /\
  disturbed = Off

Init ==
  /\ focus \in {"run", "permits", "operations", "cases", "session", "timer", "key",
                "judge", "gate", "prints"}
  /\ Run!Init
  /\ Permits!Init
  /\ Operations!Init
  /\ Evaluate!Init /\ (focus # "cases" => path = "direct")
  /\ Session!Init
  /\ Timer!Init
  /\ IF focus = "key" THEN Key!Init ELSE keyOff
  /\ Judge!Init
  /\ focus # "judge" => contest = (CHOOSE c \in Contests : TRUE) /\ tcRows = <<>>
  /\ Gate!Init /\ (focus # "gate" => gates = CHOOSE g \in Settings : TRUE)
  /\ Prints!Init /\ (focus # "prints" => quota = CHOOSE q \in Quotas : TRUE)

\* One step of the component in focus.
Next ==
  \/ /\ focus = "run" /\ Run!Next
     /\ UNCHANGED <<focus, permitsVars, operationsVars, casesVars,
          sessionVars, timerVars, keyVars, pluginVars>>
  \/ /\ focus = "permits" /\ Permits!Next
     /\ UNCHANGED <<focus, runVars, operationsVars, casesVars, sessionVars,
          timerVars, keyVars, pluginVars>>
  \/ /\ focus = "operations" /\ Operations!Next
     /\ UNCHANGED <<focus, runVars, permitsVars, casesVars, sessionVars,
          timerVars, keyVars, pluginVars>>
  \/ /\ focus = "cases" /\ Evaluate!Next
     /\ UNCHANGED <<focus, runVars, permitsVars, operationsVars, sessionVars,
          timerVars, keyVars, pluginVars>>
  \/ /\ focus = "session" /\ Session!Next
     /\ UNCHANGED <<focus, runVars, permitsVars, operationsVars, casesVars,
          timerVars, keyVars, pluginVars>>
  \/ /\ focus = "timer" /\ Timer!Next
     /\ UNCHANGED <<focus, runVars, permitsVars, operationsVars, casesVars,
          sessionVars, keyVars, pluginVars>>
  \/ /\ focus = "key" /\ Key!Next
     /\ UNCHANGED <<focus, runVars, permitsVars, operationsVars, casesVars,
          sessionVars, timerVars, pluginVars>>
  \/ /\ focus = "judge" /\ Judge!Next
     /\ UNCHANGED <<focus, serviceVars, gateVars, printVars>>
  \/ /\ focus = "gate" /\ Gate!Next
     /\ UNCHANGED <<focus, serviceVars, judgeVars, printVars>>
  \/ /\ focus = "prints" /\ Prints!Next
     /\ UNCHANGED <<focus, serviceVars, judgeVars, gateVars>>

\* Code runs: a dispatch task is polled until it ends; on every server that is
\* up the claim, lease and stuck-job fibers tick; a server is restarted.
RunFairness ==
  /\ \A t \in Tasks : WF_runVars(focus = "run" /\ (Run!Plugin(t) \/ Run!MarkSystemError(t)))
  /\ \A s \in Servers :
       /\ WF_runVars(focus = "run" /\ Run!Restart(s))
       /\ WF_runVars(focus = "run" /\ \E t \in Tasks : Run!Claim(s, t))
       /\ WF_runVars(focus = "run" /\ (Run!Exhaust(s) \/ \E t \in Tasks : Run!Steal(s, t)))
       /\ WF_runVars(focus = "run" /\ (Run!TerminateStuck(s)
                                      \/ \E t \in Tasks : Run!RecoverStuck(s, t)))

\* Permits: spawned tasks are polled, dispatches end, and a caller spawns or
\* drops what it reserved; nothing forces a new reserve().
PermitsFairness ==
  \A r \in Reservations :
    WF_permitsVars(focus = "permits" /\ (Permits!AcquireOwned(r) \/ Permits!LeaveQueue(r)
      \/ Permits!Finish(r) \/ Permits!Spawn(r) \/ Permits!DropReservation(r)))

\* Operation batches: forwarders and the caller are scheduled; that a reply or
\* the ceiling comes, nobody promises.
OperationsFairness ==
  /\ WF_operationsVars(focus = "operations" /\ Operations!ReaderStep)
  /\ \A o \in Ops : WF_operationsVars(focus = "operations" /\ Operations!Forwarder(o))

\* Evaluate batches: tasks are scheduled and permits handed out; operations are
\* answered, or the wait for them ends at its ceiling.
CasesFairness ==
  LET C == 1..NCases IN
  /\ WF_casesVars(focus = "cases" /\ Evaluate!Aggregator)
  /\ WF_casesVars(focus = "cases" /\ Evaluate!CallerStep)
  /\ WF_casesVars(focus = "cases" /\ \E c \in C : Evaluate!Dispatch(c))
  /\ WF_casesVars(focus = "cases" /\ \E c \in C : Evaluate!Task(c))
  /\ WF_casesVars(focus = "cases" /\ \E c \in C : Evaluate!OpsDone(c) \/ Evaluate!SendVerdict(c))

\* Sessions: the session is scheduled, and every waiter ends, at its ceiling if
\* need be.
SessionFairness ==
  /\ WF_sessionVars(focus = "session" /\ Session!SessionStep)
  /\ \A b \in Session!Batches : WF_sessionVars(focus = "session" /\ Session!Outcome(b))

\* Timers: claims expire and the replicas' loops run.
TimerFairness ==
  /\ WF_timerVars(focus = "timer" /\ Timer!LeaseExpires)
  /\ \A s \in Servers :
       WF_timerVars(focus = "timer" /\ (Timer!Claim(s) \/ Timer!CallSucceeds(s)
                                        \/ Timer!CallFails(s) \/ Timer!Delete(s)))

\* Detached judging: host calls return, and every case that is waited for is
\* answered or times out.
JudgeFairness ==
  /\ WF_judgeVars(focus = "judge" /\ Judge!CallStep)
  /\ WF_judgeVars(focus = "judge" /\ Judge!SessionEvent)

\* Stations keep polling and their printers end; staff and contestants may stop.
PrintsFairness ==
  \A s \in Stations : WF_printVars(focus = "prints" /\ Prints!StationStep(s))

Spec ==
  /\ Init /\ [][Next]_vars
  /\ RunFairness /\ PermitsFairness /\ OperationsFairness /\ CasesFairness
  /\ SessionFairness /\ TimerFairness /\ JudgeFairness /\ PrintsFairness

-----------------------------------------------------------------------------
(* What each component promises; the parts are defined in its module.        *)

\* Code runs. A run that shows a verdict shows a result for each of its test
\* cases, two dispatch tasks never work on the same attempt (code_run_result has
\* no unique index), and no steal, retry, detector or late task takes a terminal
\* status back. With servers that stay up, a code run ends, whatever wedges.
RunSound ==
  /\ [](focus = "run" => Run!TypeOK /\ Run!JudgedIsComplete /\ Run!OneTaskPerAttempt)
  /\ [][focus = "run" => Run!OutcomeKept]_vars
  /\ focus = "run" => Run!RunEnds

\* Admission control. Dispatches in flight and the pool add up to the configured
\* concurrency; the queued counter counts exactly the reservations that hold a
\* place, so it leaks none and never wraps; while a dispatch waits the pool is
\* empty; and a dispatch that was admitted to the queue gets to run.
PermitsSound ==
  /\ [](focus = "permits" =>
          /\ Permits!TypeOK /\ Permits!PermitsConserved
          /\ Permits!QueuedCounterExact /\ Permits!NoIdlePermit)
  /\ focus = "permits" => Permits!AdmittedRuns

\* Operation batches. next_operation_result never gives up on a result that has
\* arrived; the pending counter is the number of forwarders that have not ended
\* and no result is delivered twice; and a caller whose batch is cancelled under
\* it returns without any reply and long before the ceiling.
ResultsAccounted ==
  /\ [](focus = "operations" =>
          Operations!TypeOK /\ Operations!NoResultDropped /\ Operations!PendingExact)
  /\ focus = "operations" => Operations!CancelEndsWait

\* Evaluate batches. Every case gets exactly one verdict, whoever produced it:
\* its task, the callback, the error path or the guard of the dispatcher. No
\* permit, slot or bounded channel is waited for in a circle, and the callback
\* for the last few cases is made.
CasesAnswered ==
  /\ [](focus = "cases" => Evaluate!TypeOK /\ Evaluate!OneVerdictPerCase)
  /\ focus = "cases" => Evaluate!AllAnswered

\* Windowed sessions. The plugin hears of a slot at most once, over retries, late
\* results and failed starts; when a session is over every batch it still waited
\* for was cancelled; one that ran to exhaustion has reported every item that was not
\* withdrawn; and a withdrawn slot is neither reported nor started any more, even
\* if its batch had already answered. A session ends, whatever fails to start, times
\* out or is withdrawn.
SlotsAccounted ==
  /\ [](focus = "session" =>
          /\ Session!TypeOK /\ Session!ReportedOnce
          /\ Session!NothingRunsOn /\ Session!NothingForgotten)
  /\ [][focus = "session" => Session!SilentOnceWithdrawn]_vars
  /\ focus = "session" => Session!SessionEnds

\* Plugin timers. A schedule that is no longer pending has fired, or was
\* cancelled, replaced or dropped after its attempts: a delivery never deletes the
\* row that somebody rescheduled meanwhile. A pending timer is delivered or given
\* up, unless replicas keep dying under it.
WakeupsKept ==
  /\ [](focus = "timer" => Timer!TypeOK /\ Timer!NoWakeupLost)
  /\ focus = "timer" => Timer!TimerEnds

\* Idempotency keys. The request takes effect at most once, however often it is
\* sent, while no server dies, no statement fails and no handler outlives the
\* limit or fails after it took effect; a replay answers with what a request took effect with and, undisturbed,
\* with the response for its own path; and a stored key is not taken for anything
\* else until it is removed.
KeysHonest ==
  /\ [](focus = "key" => Key!TypeOK /\ Key!AppliedOnce /\ Key!ReplayFaithful)
  /\ [][focus = "key" => Key!StoredKept]_vars

\* Detached judging. Accepted says that every scoring case was evaluated and
\* passed, over one failed call; cases that ICPC, IOI and the qualifier skip would
\* not have changed the score, in whatever order the others answered; without
\* failures there is one row per case; and a session ends, and with one failure
\* does not leave its submission unfinished.
JudgeSound ==
  /\ [](focus = "judge" =>
          /\ Judge!TypeOK /\ Judge!AcceptedIsEarned /\ Judge!SkippingIsFree
          /\ Judge!RowsExact /\ Judge!NotStranded)
  /\ focus = "judge" => Judge!JudgeEnds

\* Submission limit and cooldown. Racing requests that the gates check never pass
\* the limit, or the cooldown by more than the half second it rounds away, while
\* they are quick (and, for the limit, confirmed); requests whose settings could
\* not be read pass unchecked. A request that is refused is refused for stored submissions or claims of the last grace,
\* so that one that failed costs its contestant no more than that.
GateSound ==
  /\ [](focus = "gate" => Gate!TypeOK /\ Gate!LimitHolds /\ Gate!CooldownHolds)
  /\ [][focus = "gate" => Gate!RefusalJustified]_vars

\* Print queue. A job comes out no more often than it was put in the queue,
\* whichever stations race for it, stop or report late; one that staff did not
\* move under a station shows how its printing ended; and a pending job that some
\* station serves leaves the queue, though others for no printer are before it.
PrintsSound ==
  /\ [](focus = "prints" => Prints!TypeOK /\ Prints!PrintsAsked /\ Prints!StatusTrue)
  /\ focus = "prints" => Prints!JobServed
=============================================================================
