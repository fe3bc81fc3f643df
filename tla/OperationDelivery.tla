------------------------- MODULE OperationDelivery -------------------------
(***************************************************************************)
(* Delivery of one operation task from the server to the workers and of its *)
(* result back: the broker's Redis lists (broccoli_queue), the worker's     *)
(* consume loop with its dedup claim, retries and dead letter (worker/src), *)
(* heartbeats, and the operation reaper that requeues what a dead worker    *)
(* left behind (dispatcher/operation_reaper.rs).                            *)
(*                                                                          *)
(* The broker has no redelivery of its own, so the task exists as copies:   *)
(* the one the server publishes, and one more for every requeue. A copy is  *)
(* a pointer in one list and a payload hash, which are written by separate  *)
(* Redis commands. A handler of a copy outlives the copy's pointer.         *)
(*                                                                          *)
(* process_message always returns Ok, so the consume loop acknowledges and  *)
(* never rejects. Left out: the Started notification (it moves deadlines    *)
(* only), metrics, the dry run, payloads that do not deserialize, and the   *)
(* permits of the consume loop, which one task does not exhaust.            *)
(***************************************************************************)
EXTENDS Naturals, FiniteSets

CONSTANTS
  Workers, NoWorker,
  Reapers,      \* one reaper per server replica
  Target,       \* target_worker_id of the operation, or NoWorker
  MaxRetries,   \* mq.dlq.max_retries
  MaxRequeues,  \* max_requeues_per_tick
  MaxCopies,    \* bound: copies published in a behaviour
  MaxCrashes,   \* bound: crashes and shutdowns of workers
  MaxRestarts,  \* bound: starts of a worker under its configured id
  MaxLapses,    \* bound: heartbeats or claims that lapse under a running worker
  MaxFaults     \* bound: failed Redis or broker calls

ASSUME DeliveryAssumption ==
  /\ NoWorker \notin Workers /\ Target \in Workers \cup {NoWorker}
  /\ {MaxRetries, MaxRequeues, MaxCopies, MaxCrashes, MaxRestarts, MaxLapses, MaxFaults}
       \subseteq Nat

VARIABLES
  host,       \* the server's side of the operation
  route,      \* the worker whose private queue was chosen, or NoWorker
  replies,    \* results in the reply queue
  dlq,        \* the task was dead-lettered
  cancelKey,  \* the Redis cancel key of the task
  at, hash,   \* per copy: the list that points to it, and its payload
  copies,     \* copies published
  claim,      \* owner in the dedup key
  hb,         \* workers with a heartbeat key
  mode,       \* per worker process
  tracker,    \* per worker: failures counted by the RetryTracker for the task
  job,        \* per copy: the handler that runs it
  clock,      \* per worker: the reaper's dead_since key
  tick,       \* per reaper: the tick in progress
  spent       \* budgets used

server == <<host, route, replies, dlq, cancelKey>>
broker == <<at, hash, copies>>
process == <<mode, tracker, job>>
vars == <<server, broker, claim, hb, process, clock, tick, spent>>

Copies == 1..MaxCopies
Owners == Workers \cup {NoWorker}

\* The lists of a queue: w's private queue, or the shared one for NoWorker.
Queue(w) == [list |-> "queue", of |-> w]
Processing(w) == [list |-> "processing", of |-> w]
Nowhere == [list |-> "none", of |-> NoWorker]
Places == {Nowhere} \cup {Queue(w) : w \in Owners} \cup {Processing(w) : w \in Owners}

Idle == [worker |-> NoWorker, pc |-> "none"]
HandlerSteps ==
  {"claiming", "checking", "running", "exhausted", "dlq", "releasing", "acking", "deleting"}
Jobs == {Idle} \cup [worker : Workers, pc : HandlerSteps]

NoTick ==
  [pc |-> "idle", live |-> {}, asked |-> {}, ready |-> {}, owners |-> {}, src |-> Nowhere,
   todo |-> {}, cur |-> 0, drained |-> TRUE, budget |-> 0]

Budgets == [crash : 0..MaxCrashes, restart : 0..MaxRestarts,
            lapse : 0..MaxLapses, fault : 0..MaxFaults]

TypeOK ==
  /\ host \in {"routing", "publishing", "waiting", "answered", "gone"}
  /\ route \in Owners
  /\ replies \in 0..MaxCopies
  /\ dlq \in BOOLEAN /\ cancelKey \in BOOLEAN
  /\ at \in [Copies -> Places]
  /\ hash \in [Copies -> BOOLEAN]
  /\ copies \in 0..MaxCopies
  /\ claim \in Owners
  /\ hb \subseteq Workers
  /\ mode \in [Workers -> {"up", "draining", "down"}]
  /\ tracker \in [Workers -> 0..MaxRetries]
  /\ job \in [Copies -> Jobs]
  /\ clock \in [Workers -> {"none", "started", "elapsed"}]
  /\ tick \in [Reapers ->
       [pc : {"idle", "owners", "drain", "publish", "unhash", "unlink"},
        live : SUBSET Workers, asked : SUBSET Workers, ready : SUBSET Workers,
        owners : SUBSET Workers, src : Places, todo : SUBSET Copies,
        cur : 0..MaxCopies, drained : BOOLEAN, budget : 0..MaxRequeues]]
  /\ spent \in Budgets

Init ==
  /\ host = "routing" /\ route = NoWorker
  /\ replies = 0 /\ dlq = FALSE /\ cancelKey = FALSE
  /\ at = [c \in Copies |-> Nowhere]
  /\ hash = [c \in Copies |-> FALSE]
  /\ copies = 0
  /\ claim = NoWorker
  /\ hb = Workers
  /\ mode = [w \in Workers |-> "up"]
  /\ tracker = [w \in Workers |-> 0]
  /\ job = [c \in Copies |-> Idle]
  /\ clock = [w \in Workers |-> "none"]
  /\ tick = [r \in Reapers |-> NoTick]
  /\ spent = [crash |-> 0, restart |-> 0, lapse |-> 0, fault |-> 0]

\* Budgets: a behaviour has boundedly many crashes, restarts, lapses and faults.
Crashing == spent.crash < MaxCrashes /\ spent' = [spent EXCEPT !.crash = @ + 1]
Restarting == spent.restart < MaxRestarts /\ spent' = [spent EXCEPT !.restart = @ + 1]
Lapsing == spent.lapse < MaxLapses /\ spent' = [spent EXCEPT !.lapse = @ + 1]
Fault == spent.fault < MaxFaults /\ spent' = [spent EXCEPT !.fault = @ + 1]
NoFault == UNCHANGED spent

\* RedisBroker::publish: the payload hash, then the queue entry that makes it
\* visible. A publish that reports an error may have reached Redis or not.
Publish(q) ==
  /\ copies < MaxCopies
  /\ copies' = copies + 1
  /\ at' = [at EXCEPT ![copies + 1] = q]
  /\ hash' = [hash EXCEPT ![copies + 1] = TRUE]

FailedPublish(q) == Publish(q) \/ UNCHANGED broker

-----------------------------------------------------------------------------
(* The server: start_operation_batch, the result consumer, cancellation.    *)

\* A pin to a worker without a heartbeat falls back to the shared queue; the
\* liveness check fails open.
RouteTask ==
  /\ host = "routing" /\ host' = "publishing"
  /\ \/ NoFault /\ route' = IF Target \in hb THEN Target ELSE NoWorker
     \/ Fault /\ route' = Target
  /\ UNCHANGED <<replies, dlq, cancelKey, broker, claim, hb, process, clock, tick>>

\* The waiter is registered before the task is published; a failed publish
\* removes it (cleanup_failed_operation_batch).
PublishTask ==
  /\ host = "publishing"
  /\ \/ NoFault /\ Publish(Queue(route)) /\ host' = "waiting"
     \/ Fault /\ FailedPublish(Queue(route)) /\ host' = "gone"
  /\ UNCHANGED <<route, replies, dlq, cancelKey, claim, hb, process, clock, tick>>

\* consume_operation_results: the first result takes the waiter, later ones find none.
DeliverReply ==
  /\ replies > 0 /\ replies' = replies - 1
  /\ host' = IF host = "waiting" THEN "answered" ELSE host
  /\ UNCHANGED <<route, dlq, cancelKey, broker, claim, hb, process, clock, tick, spent>>

\* cancel_evaluate_batch: the cancel key is set while the waiter is still there.
SetCancelKey ==
  /\ host = "waiting" /\ ~cancelKey /\ cancelKey' = TRUE
  /\ UNCHANGED <<host, route, replies, dlq, broker, claim, hb, process, clock, tick, spent>>

\* cancel_operation_batch: the wait ended by cancellation or at its ceiling.
GiveUp ==
  /\ host = "waiting" /\ host' = "gone"
  /\ UNCHANGED <<route, replies, dlq, cancelKey, broker, claim, hb, process, clock, tick, spent>>

-----------------------------------------------------------------------------
(* The worker: run_consume_loop and process_message, one handler per copy.  *)

\* try_consume moves the pointer to the processing list and then reads the
\* payload. A pointer whose payload is gone, or could not be read, stays there
\* without a handler.
Consume(w, c) ==
  /\ mode[w] = "up"
  /\ at[c] \in {Queue(NoWorker), Queue(w)}
  /\ at' = [at EXCEPT ![c] = Processing(at[c].of)]
  /\ \/ /\ job' = IF hash[c] THEN [job EXCEPT ![c] = [worker |-> w, pc |-> "claiming"]] ELSE job
        /\ NoFault
     \/ UNCHANGED job /\ Fault
  /\ UNCHANGED <<server, hash, copies, claim, hb, mode, tracker, clock, tick>>

Step(c, from, to) == job[c].pc = from /\ job' = [job EXCEPT ![c].pc = to]

\* Mutant: the claim of a dead worker is not taken over.
HoldableUnlessHeld(w) == claim \in {NoWorker, w}

\* CLAIM_SCRIPT: free, ours already, or held by a worker without a heartbeat.
Holdable(w) == claim \in {NoWorker, w} \/ claim \notin hb

\* try_claim_with_ttl: claimed or stolen, held by another worker (the copy is
\* acknowledged unrun), or Redis failed and the handler goes on unclaimed.
TryClaim(c) ==
  LET w == job[c].worker IN
  /\ \/ Step(c, "claiming", "checking") /\ Holdable(w) /\ claim' = w /\ NoFault
     \/ Step(c, "claiming", "acking") /\ ~Holdable(w) /\ UNCHANGED claim /\ NoFault
     \/ Step(c, "claiming", "checking") /\ UNCHANGED claim /\ Fault
  /\ UNCHANGED <<server, broker, hb, mode, tracker, clock, tick>>

\* is_cancelled: a cancelled task is acknowledged unrun; a failed check runs it.
CheckCancel(c) ==
  /\ \/ Step(c, "checking", "acking") /\ cancelKey /\ NoFault
     \/ Step(c, "checking", "running") /\ ~cancelKey /\ NoFault
     \/ Step(c, "checking", "running") /\ cancelKey /\ Fault
  /\ UNCHANGED <<server, broker, claim, hb, mode, tracker, clock, tick>>

\* process_task: the operation ran, well or badly, and its result is published.
Complete(c) ==
  /\ Step(c, "running", "acking")
  /\ replies' = replies + 1
  /\ tracker' = [tracker EXCEPT ![job[c].worker] = 0]
  /\ UNCHANGED <<host, route, dlq, cancelKey, broker, claim, hb, mode, clock, tick, spent>>

\* Mutant: the last retry is off by one.
RetriesLeftAfterLast(w) == tracker[w] <= MaxRetries

\* record_failure: whether one more failure of the task on w is retried.
RetriesLeft(w) == tracker[w] < MaxRetries

\* Mutant: a dead letter is not answered.
FailAttemptSilently(c) ==
  LET w == job[c].worker IN
  /\ job[c].pc = "running"
  /\ \/ /\ RetriesLeft(w)
        /\ tracker' = [tracker EXCEPT ![w] = @ + 1] /\ UNCHANGED job
     \/ /\ ~RetriesLeft(w)
        /\ tracker' = [tracker EXCEPT ![w] = 0] /\ Step(c, "running", "dlq")
  /\ UNCHANGED <<server, broker, claim, hb, mode, clock, tick, spent>>

\* process_task fails: infrastructure error, panic, or the result was not
\* published. record_failure counts per task, so copies on one worker share it.
FailAttempt(c) ==
  LET w == job[c].worker IN
  /\ job[c].pc = "running"
  /\ \/ /\ RetriesLeft(w)
        /\ tracker' = [tracker EXCEPT ![w] = @ + 1] /\ UNCHANGED job
     \/ /\ ~RetriesLeft(w)
        /\ tracker' = [tracker EXCEPT ![w] = 0] /\ Step(c, "running", "exhausted")
  /\ UNCHANGED <<server, broker, claim, hb, mode, clock, tick, spent>>

\* finish_exhausted: error result, dead letter, release of the claim. A call
\* that fails is logged and the next one still made.
ReportError(c) ==
  /\ Step(c, "exhausted", "dlq")
  /\ \/ replies' = replies + 1 /\ NoFault
     \/ UNCHANGED replies /\ Fault
  /\ UNCHANGED <<host, route, dlq, cancelKey, broker, claim, hb, mode, tracker, clock, tick>>

DeadLetter(c) ==
  /\ Step(c, "dlq", "releasing")
  /\ \/ dlq' = TRUE /\ NoFault
     \/ UNCHANGED dlq /\ Fault
  /\ UNCHANGED <<host, route, replies, cancelKey, broker, claim, hb, mode, tracker, clock, tick>>

\* Mutant: the claim is deleted whoever holds it.
ReleasedBlindly(w) == NoWorker

\* RELEASE_SCRIPT: delete the claim only if it still names this worker.
Released(w) == IF claim = w THEN NoWorker ELSE claim

Release(c) ==
  /\ Step(c, "releasing", "acking")
  /\ \/ claim' = Released(job[c].worker) /\ NoFault
     \/ UNCHANGED claim /\ Fault
  /\ UNCHANGED <<server, broker, hb, mode, tracker, clock, tick>>

\* acknowledge: LREM of the pointer, then DEL of the payload. An error ends the
\* handler with what was not removed still there.
Acknowledge(c) ==
  /\ \/ Step(c, "acking", "deleting") /\ at' = [at EXCEPT ![c] = Nowhere] /\ NoFault
     \/ job[c].pc = "acking" /\ job' = [job EXCEPT ![c] = Idle] /\ UNCHANGED at /\ Fault
  /\ UNCHANGED <<server, hash, copies, claim, hb, mode, tracker, clock, tick>>

DeletePayload(c) ==
  /\ job[c].pc = "deleting" /\ job' = [job EXCEPT ![c] = Idle]
  /\ \/ hash' = [hash EXCEPT ![c] = FALSE] /\ NoFault
     \/ UNCHANGED hash /\ Fault
  /\ UNCHANGED <<server, at, copies, claim, hb, mode, tracker, clock, tick>>

HandlerStep(c) ==
  \/ TryClaim(c) \/ CheckCancel(c) \/ Complete(c) \/ FailAttempt(c) \/ ReportError(c)
  \/ DeadLetter(c) \/ Release(c) \/ Acknowledge(c) \/ DeletePayload(c)

-----------------------------------------------------------------------------
(* Worker processes and the keys that stand for their life.                 *)

\* The process is gone, and with it its handlers and its retry counts.
Gone(w) ==
  /\ mode' = [mode EXCEPT ![w] = "down"]
  /\ tracker' = [tracker EXCEPT ![w] = 0]
  /\ job' = [c \in Copies |-> IF job[c].worker = w THEN Idle ELSE job[c]]

Crash(w) ==
  /\ mode[w] # "down" /\ Crashing /\ Gone(w)
  /\ UNCHANGED <<server, broker, claim, hb, clock, tick>>

\* Mutant: the heartbeat is cleared before the handlers have ended.
ShutdownClearingHeartbeat(w) ==
  /\ mode[w] = "up" /\ Crashing
  /\ mode' = [mode EXCEPT ![w] = "draining"]
  /\ hb' = hb \ {w}
  /\ UNCHANGED <<server, broker, claim, tracker, job, clock, tick>>

\* The shutdown signal: nothing more is consumed, handlers go on.
Shutdown(w) ==
  /\ mode[w] = "up" /\ Crashing
  /\ mode' = [mode EXCEPT ![w] = "draining"]
  /\ UNCHANGED <<server, broker, claim, hb, tracker, job, clock, tick>>

\* drain_in_flight ends, drained or timed out; the heartbeat is cleared and the
\* process exits. One step: what a handler that outlived the drain still does in
\* the moment between the two reads no heartbeat, and a reaper acts on the missing
\* one only after its grace, which the model thus takes to be longer than the exit.
DrainExit(w) ==
  /\ mode[w] = "draining" /\ Gone(w)
  /\ hb' = hb \ {w}
  /\ UNCHANGED <<server, broker, claim, clock, tick, spent>>

\* A worker starts again under the id of its configuration.
Start(w) ==
  /\ mode[w] = "down" /\ Restarting
  /\ mode' = [mode EXCEPT ![w] = "up"]
  /\ UNCHANGED <<server, broker, claim, hb, tracker, job, clock, tick>>

Heartbeat(w) ==
  /\ mode[w] # "down" /\ w \notin hb
  /\ hb' = hb \cup {w}
  /\ UNCHANGED <<server, broker, claim, process, clock, tick, spent>>

\* The 15 s TTL runs out: the worker is gone, or its writes do not get through.
HeartbeatExpires(w) ==
  /\ w \in hb /\ hb' = hb \ {w}
  /\ \/ mode[w] = "down" /\ UNCHANGED spent
     \/ mode[w] # "down" /\ Lapsing
  /\ UNCHANGED <<server, broker, claim, process, clock, tick>>

\* The claim's TTL covers one run within its limits and is not renewed between
\* the retries of a handler.
ClaimExpires ==
  /\ claim # NoWorker /\ claim' = NoWorker /\ Lapsing
  /\ \A c \in Copies : job[c] = [worker |-> claim, pc |-> "running"] => tracker[claim] > 0
  /\ UNCHANGED <<server, broker, hb, process, clock, tick>>

-----------------------------------------------------------------------------
(* The operation reaper: reap_once, one Redis command after another.        *)

\* scan_live_workers; without any heartbeat the tick does nothing.
BeginTick(r) ==
  /\ tick[r].pc = "idle" /\ hb # {}
  /\ tick' = [tick EXCEPT ![r] =
       [NoTick EXCEPT !.pc = "owners", !.live = hb, !.budget = MaxRequeues,
                      !.owners = {w \in Workers : \E c \in Copies : at[c].of = w}]]
  /\ UNCHANGED <<server, broker, claim, hb, process, clock, spent>>

\* reapable_now: dead in this tick's scan and past the grace, once per tick.
Reapable(r, w) ==
  IF w \in tick[r].asked THEN w \in tick[r].ready
  ELSE w \notin tick[r].live /\ clock[w] = "elapsed"

\* The debounce clock after reapable_now was asked about w.
ClockAsked(r, w) ==
  IF w \in tick[r].asked THEN clock
  ELSE [clock EXCEPT ![w] = IF w \in tick[r].live THEN "none"
                            ELSE IF @ = "none" THEN "started" ELSE @]

TickAsked(r, w) ==
  [tick[r] EXCEPT !.asked = @ \cup {w},
                  !.ready = IF Reapable(r, w) THEN @ \cup {w} ELSE @]

Drain(t, src) == [t EXCEPT !.pc = "drain", !.src = src, !.todo = {c \in Copies : at[c] = src}]

\* reap_private_queues, one owner of a private queue: its processing list first.
ReapOwner(r, w) ==
  LET t == [TickAsked(r, w) EXCEPT !.owners = @ \ {w}, !.drained = TRUE] IN
  /\ tick[r].pc = "owners" /\ w \in tick[r].owners /\ tick[r].budget > 0
  /\ clock' = ClockAsked(r, w)
  /\ tick' = [tick EXCEPT ![r] = IF Reapable(r, w) THEN Drain(t, Processing(w)) ELSE t]
  /\ UNCHANGED <<server, broker, claim, hb, process, spent>>

\* reap_shared_processing, when every owner was visited or the budget is spent.
ReapShared(r) ==
  /\ tick[r].pc = "owners" /\ (tick[r].owners = {} \/ tick[r].budget = 0)
  /\ tick' = [tick EXCEPT ![r] = Drain(tick[r], Processing(NoWorker))]
  /\ UNCHANGED <<server, broker, claim, hb, process, clock, spent>>

\* Mutant: only the processing list is read.
ProcessingListOnly(r) == [tick[r] EXCEPT !.pc = "owners"]

\* The list read after src, of the same owner.
AfterProcessing(r) == Drain(tick[r], Queue(tick[r].src.of))

\* A list is done: on to the owner's queue, to the next owner (its clock is
\* retired if nothing was left behind), or the tick ends.
ListDone(r) ==
  LET w == tick[r].src.of IN
  /\ tick[r].pc = "drain" /\ tick[r].todo = {}
  /\ \/ /\ w # NoWorker /\ tick[r].src = Processing(w)
        /\ tick' = [tick EXCEPT ![r] = AfterProcessing(r)]
        /\ UNCHANGED clock
     \/ /\ w # NoWorker /\ tick[r].src = Queue(w)
        /\ tick' = [tick EXCEPT ![r].pc = "owners"]
        /\ clock' = IF tick[r].drained THEN [clock EXCEPT ![w] = "none"] ELSE clock
     \/ /\ w = NoWorker
        /\ tick' = [tick EXCEPT ![r] = NoTick]
        /\ UNCHANGED clock
  /\ UNCHANGED <<server, broker, claim, hb, process, spent>>

\* LREM or ZREM on the list that was read: a pointer that moved on stays.
Unlinked(c, src) == IF at[c] = src THEN [at EXCEPT ![c] = Nowhere] ELSE at

\* The owner of a strand: of the private queue, or of the dedup claim.
StrandOwner(r) == IF tick[r].src.of # NoWorker THEN tick[r].src.of ELSE claim

\* One strand of the list: out of budget, dangling (the pointer is dropped),
\* without an owner, of an owner that is not reapable, or to be requeued.
Inspect(r, c) ==
  LET w == StrandOwner(r)
      t == [tick[r] EXCEPT !.todo = @ \ {c}]
      asked == [TickAsked(r, w) EXCEPT !.todo = @ \ {c}] IN
  /\ tick[r].pc = "drain" /\ c \in tick[r].todo
  /\ \/ /\ tick[r].budget = 0
        /\ tick' = [tick EXCEPT ![r] = [t EXCEPT !.drained = FALSE]]
        /\ UNCHANGED <<at, clock>>
     \/ /\ tick[r].budget > 0 /\ ~hash[c]
        /\ tick' = [tick EXCEPT ![r] = t]
        /\ at' = Unlinked(c, tick[r].src)
        /\ UNCHANGED clock
     \/ /\ tick[r].budget > 0 /\ hash[c] /\ w = NoWorker
        /\ tick' = [tick EXCEPT ![r] = t]
        /\ UNCHANGED <<at, clock>>
     \/ /\ tick[r].budget > 0 /\ hash[c] /\ w # NoWorker
        /\ clock' = ClockAsked(r, w)
        /\ tick' = [tick EXCEPT ![r] =
             IF Reapable(r, w) THEN [asked EXCEPT !.pc = "publish", !.cur = c] ELSE asked]
        /\ UNCHANGED at
  /\ UNCHANGED <<server, hash, copies, claim, hb, process, spent>>

\* requeue_task: publish a new copy, delete the payload of the old one; a
\* failed publish leaves the strand. The caller then removes the pointer. With
\* MaxCopies published, further ones fail.
Republish(r) ==
  /\ tick[r].pc = "publish"
  /\ \/ /\ Publish(Queue(NoWorker)) /\ NoFault
        /\ tick' = [tick EXCEPT ![r].pc = "unhash"]
     \/ /\ \/ FailedPublish(Queue(NoWorker)) /\ Fault
           \/ UNCHANGED broker /\ copies = MaxCopies /\ NoFault
        /\ tick' = [tick EXCEPT ![r].pc = "drain", ![r].cur = 0, ![r].drained = FALSE]
  /\ UNCHANGED <<server, claim, hb, process, clock>>

Unhash(r) ==
  /\ tick[r].pc = "unhash"
  /\ hash' = [hash EXCEPT ![tick[r].cur] = FALSE]
  /\ tick' = [tick EXCEPT ![r].pc = "unlink"]
  /\ UNCHANGED <<server, at, copies, claim, hb, process, clock, spent>>

Unlink(r) ==
  /\ tick[r].pc = "unlink"
  /\ at' = Unlinked(tick[r].cur, tick[r].src)
  /\ tick' = [tick EXCEPT ![r].pc = "drain", ![r].cur = 0, ![r].budget = @ - 1]
  /\ UNCHANGED <<server, hash, copies, claim, hb, process, clock, spent>>

\* A Redis error ends the tick, as does the death of the server.
AbortTick(r) ==
  /\ tick[r].pc # "idle" /\ Fault
  /\ tick' = [tick EXCEPT ![r] = NoTick]
  /\ UNCHANGED <<server, broker, claim, hb, process, clock>>

GraceElapses(w) ==
  /\ clock[w] = "started" /\ clock' = [clock EXCEPT ![w] = "elapsed"]
  /\ UNCHANGED <<server, broker, claim, hb, process, tick, spent>>

TickStep(r) ==
  \/ ReapShared(r) \/ ListDone(r) \/ Republish(r) \/ Unhash(r) \/ Unlink(r)
  \/ \E w \in Workers : ReapOwner(r, w)
  \/ \E c \in Copies : Inspect(r, c)

-----------------------------------------------------------------------------
ServerStep == RouteTask \/ PublishTask \/ DeliverReply

Next ==
  \/ ServerStep \/ SetCancelKey \/ GiveUp \/ ClaimExpires
  \/ \E w \in Workers, c \in Copies : Consume(w, c)
  \/ \E c \in Copies : HandlerStep(c)
  \/ \E w \in Workers :
       \/ Crash(w) \/ Shutdown(w) \/ DrainExit(w) \/ Start(w)
       \/ Heartbeat(w) \/ HeartbeatExpires(w) \/ GraceElapses(w)
  \/ \E r \in Reapers : BeginTick(r) \/ TickStep(r) \/ AbortTick(r)

Spec == Init /\ [][Next]_vars

\* Running processes keep polling and every await returns; a dead worker's
\* heartbeat runs out; the reaper's interval fires. Nothing forces a crash, a
\* restart, a lapse or a cancellation.
FairSpec ==
  /\ Spec
  /\ WF_vars(ServerStep)
  /\ \A w \in Workers :
       /\ WF_vars(\E c \in Copies : Consume(w, c))
       /\ WF_vars(Heartbeat(w))
       /\ WF_vars(mode[w] = "down" /\ HeartbeatExpires(w))
       /\ WF_vars(DrainExit(w)) /\ WF_vars(GraceElapses(w))
  /\ \A c \in Copies : WF_vars(HandlerStep(c))
  /\ \A r \in Reapers : WF_vars(BeginTick(r)) /\ WF_vars(TickStep(r))

-----------------------------------------------------------------------------
Awaited == host = "waiting" /\ ~cancelKey
InBroker(c) == at[c] # Nowhere /\ hash[c]
InHand(c) == job[c].pc \in {"checking", "running", "exhausted", "dlq"}

\* An operation somebody waits for is never lost: a copy is in the broker, a
\* handler that goes on to report it has it, its result is in the reply queue,
\* or an operator finds it dead-lettered.
NeverLost == Awaited => replies > 0 \/ dlq \/ \E c \in Copies : InBroker(c) \/ InHand(c)

\* Until it is dead-lettered, or a claim failed open, an operation is never
\* executed by two workers at the same time, however its copies are requeued,
\* stolen and redelivered.
OneWorker ==
  dlq \/ spent.fault > 0 \/ \A c, d \in Copies :
    job[c].pc = "running" /\ job[d].pc = "running" => job[c].worker = job[d].worker

\* A dead-lettered operation was answered, unless the publish of the answer
\* failed: the waiter does not learn of an exhausted task by its own timeout.
DeadLetterAnswered == dlq => replies > 0 \/ host # "waiting" \/ spent.fault > 0

\* A claim of a worker with a heartbeat ends by that worker's own release or by
\* its TTL, never because another worker took or dropped it.
ClaimSafe ==
  [][\A w \in Workers :
       claim = w /\ w \in hb /\ claim' # w =>
         \/ spent'.lapse > spent.lapse
         \/ \E c \in Copies : job[c] = [worker |-> w, pc |-> "releasing"] /\ job'[c] # job[c]]_vars

\* A copy in the shared processing list that no claim attributes to a worker;
\* reap_shared_processing leaves it to the timeout of the waiter.
Unattributable ==
  claim = NoWorker /\ \E c \in Copies :
    at[c] = Processing(NoWorker) /\ hash[c] /\ job[c] = Idle

\* An operation somebody waits for is answered, whichever worker dies under it
\* at whichever step, unless it died before it could claim or a call to Redis
\* failed. Behaviours that use up the bound on copies are cut off there.
EventuallyAnswered ==
  Awaited ~> ~Awaited \/ Unattributable \/ copies = MaxCopies \/ spent.fault > 0

\* What a dead worker without a heartbeat left in its lists or under its claim.
Stranded(w) ==
  /\ mode[w] = "down" /\ w \notin hb
  /\ \E c \in Copies :
       /\ InBroker(c) /\ job[c] = Idle
       /\ at[c].of = w \/ (at[c] = Processing(NoWorker) /\ claim = w)

\* An operation that a worker stranded is answered once the worker's heartbeat
\* has lapsed, whatever becomes of that worker.
StrandAnswered ==
  Awaited /\ (\E w \in Workers : Stranded(w)) ~>
    ~Awaited \/ Unattributable \/ copies = MaxCopies
=============================================================================
