--------------------------- MODULE DeliveryProofs ---------------------------
(***************************************************************************)
(* Delivery of an operation, for any number of workers, reapers and copies: *)
(*   - the dedup claim of a worker with a heartbeat is its own (ClaimSafe); *)
(*   - every variable keeps its type, no copy is answered twice (TypeOK);   *)
(*   - a dead letter was answered (DeadLetterAnswered);                     *)
(*   - one worker at a time runs it (OneWorker) while no worker restarts    *)
(*     and no heartbeat or claim lapses under a running one;                *)
(*   - it is not lost (NeverLost) if in addition at most one worker dies    *)
(*     and at most one call fails.                                          *)
(***************************************************************************)
EXTENDS OperationDelivery, FiniteSetTheorems, TLAPS

\* What ClaimSafe needs of the state: handlers and budgets are well formed.
HandlersTyped == job \in [Copies -> Jobs] /\ spent \in Budgets

\* An initial state has no handler and nothing spent.
LEMMA HandlersInit == Init => HandlersTyped
  BY DeliveryAssumption DEF Init, HandlersTyped, Jobs, Budgets

\* A handler moves from step to step of process_message under the same worker.
LEMMA StepTyped ==
  ASSUME HandlersTyped, NEW c \in Copies, NEW from, NEW to \in HandlerSteps,
         Step(c, from, to), from # "none"
  PROVE  job' \in [Copies -> Jobs]
<1>1. job[c] \in [worker : Workers, pc : HandlerSteps]
  BY DEF HandlersTyped, Jobs, Idle, Step
<1>2. [job[c] EXCEPT !.pc = to] \in Jobs
  BY <1>1 DEF Jobs
<1> QED
  BY <1>2 DEF HandlersTyped, Step

\* A call that works spends nothing, one that fails spends a fault.
LEMMA BudgetsTyped ==
  ASSUME HandlersTyped,
         UNCHANGED spent \/ NoFault \/ Fault \/ Crashing \/ Restarting \/ Lapsing
  PROVE  spent' \in Budgets
  BY DeliveryAssumption
  DEF HandlersTyped, Budgets, NoFault, Fault, Crashing, Restarting, Lapsing

\* Every step keeps handlers and budgets well formed.
LEMMA HandlersStep == HandlersTyped /\ [Next]_vars => HandlersTyped'
<1> SUFFICES ASSUME HandlersTyped, [Next]_vars PROVE HandlersTyped'
  OBVIOUS
<1> USE DEF HandlersTyped
<1>1. CASE UNCHANGED vars
  BY <1>1 DEF vars, process
<1>2. CASE RouteTask \/ PublishTask
  BY <1>2, BudgetsTyped DEF RouteTask, PublishTask, process
<1>3. CASE DeliverReply \/ SetCancelKey \/ GiveUp
  BY <1>3 DEF DeliverReply, SetCancelKey, GiveUp, process
<1>4. CASE ClaimExpires
  BY <1>4, BudgetsTyped DEF ClaimExpires, process
<1>5. ASSUME NEW w \in Workers, NEW c \in Copies, Consume(w, c) PROVE HandlersTyped'
  <2>1. [worker |-> w, pc |-> "claiming"] \in Jobs
    BY DEF Jobs, HandlerSteps
  <2> QED
    BY <1>5, <2>1, BudgetsTyped DEF Consume
<1>6. ASSUME NEW c \in Copies, HandlerStep(c) PROVE HandlersTyped'
  <2> USE DEF HandlerSteps
  <2>1. Idle \in Jobs
    BY DEF Jobs
  <2>2. CASE TryClaim(c)
    BY <2>2, StepTyped, BudgetsTyped DEF TryClaim
  <2>3. CASE CheckCancel(c)
    BY <2>3, StepTyped, BudgetsTyped DEF CheckCancel
  <2>4. CASE Complete(c)
    BY <2>4, StepTyped DEF Complete
  <2>5. CASE FailAttempt(c)
    BY <2>5, StepTyped DEF FailAttempt
  <2>6. CASE ReportError(c)
    BY <2>6, StepTyped, BudgetsTyped DEF ReportError
  <2>7. CASE DeadLetter(c)
    BY <2>7, StepTyped, BudgetsTyped DEF DeadLetter
  <2>8. CASE Release(c)
    BY <2>8, StepTyped, BudgetsTyped DEF Release
  <2>9. CASE Acknowledge(c)
    BY <2>9, <2>1, StepTyped, BudgetsTyped DEF Acknowledge
  <2>10. CASE DeletePayload(c)
    BY <2>10, <2>1, BudgetsTyped DEF DeletePayload
  <2> QED
    BY <1>6, <2>2, <2>3, <2>4, <2>5, <2>6, <2>7, <2>8, <2>9, <2>10 DEF HandlerStep
<1>7. ASSUME NEW w \in Workers, Crash(w) \/ DrainExit(w) PROVE HandlersTyped'
  BY <1>7, BudgetsTyped DEF Crash, DrainExit, Gone, Jobs
<1>8. ASSUME NEW w \in Workers,
             Shutdown(w) \/ Start(w) \/ Heartbeat(w) \/ HeartbeatExpires(w) \/ GraceElapses(w)
      PROVE  HandlersTyped'
  BY <1>8, BudgetsTyped, SMTT(30)
  DEF Shutdown, Start, Heartbeat, HeartbeatExpires, GraceElapses, process
<1>9. ASSUME NEW r \in Reapers, BeginTick(r) \/ TickStep(r) \/ AbortTick(r)
      PROVE  HandlersTyped'
  BY <1>9, BudgetsTyped
  DEF BeginTick, TickStep, AbortTick, ReapShared, ListDone, Republish, Unhash, Unlink,
      ReapOwner, Inspect, process
<1> QED
  BY <1>1, <1>2, <1>3, <1>4, <1>5, <1>6, <1>7, <1>8, <1>9 DEF Next, ServerStep

\* ClaimSafe: the claim of a worker with a heartbeat ends by its TTL or by a
\* release of that worker. CLAIM_SCRIPT takes it only from a worker without a
\* heartbeat, RELEASE_SCRIPT deletes it only for the worker it names.
THEOREM ClaimIsItsOwners == Spec => ClaimSafe
<1> DEFINE Ends(w) == claim = w /\ w \in hb /\ claim' # w
           Rightly(w) ==
             \/ spent'.lapse > spent.lapse
             \/ \E c \in Copies : job[c] = [worker |-> w, pc |-> "releasing"] /\ job'[c] # job[c]
<1>1. ASSUME HandlersTyped, Next, NEW w \in Workers, Ends(w) PROVE Rightly(w)
  <2>1. ClaimExpires \/ \E c \in Copies : TryClaim(c) \/ Release(c)
    BY <1>1, ZenonT(60)
    DEF Next, ServerStep, RouteTask, PublishTask, DeliverReply, SetCancelKey, GiveUp, Consume,
        HandlerStep, CheckCancel, Complete, FailAttempt, ReportError, DeadLetter, Acknowledge,
        DeletePayload, Crash, Shutdown, DrainExit, Start, Heartbeat, HeartbeatExpires,
        GraceElapses, BeginTick, TickStep, ReapShared, ListDone, Republish, Unhash, Unlink,
        ReapOwner, Inspect, AbortTick
  <2>2. CASE ClaimExpires
    BY <1>1, <2>2, DeliveryAssumption DEF ClaimExpires, Lapsing, HandlersTyped, Budgets
  <2>3. ASSUME NEW c \in Copies, TryClaim(c) PROVE Rightly(w)
    BY <1>1, <2>3, DeliveryAssumption DEF TryClaim, Holdable
  <2>4. ASSUME NEW c \in Copies, Release(c) PROVE Rightly(w)
    <3>1. claim = job[c].worker /\ Step(c, "releasing", "acking")
      BY <1>1, <2>4 DEF Release, Released
    <3>2. job[c] \in [worker : Workers, pc : HandlerSteps]
      BY <1>1, <3>1 DEF HandlersTyped, Jobs, Idle, Step
    <3>3. job[c] = [worker |-> w, pc |-> "releasing"]
      BY <1>1, <3>1, <3>2 DEF Step
    <3>4. job'[c].pc = "acking"
      BY <1>1, <3>1, <3>2 DEF HandlersTyped, Step
    <3> QED
      BY <3>3, <3>4
  <2> QED
    BY <2>1, <2>2, <2>3, <2>4
<1>2. HandlersTyped /\ [Next]_vars => [\A w \in Workers : Ends(w) => Rightly(w)]_vars
  BY <1>1
<1> QED
  BY <1>2, HandlersInit, HandlersStep, PTL DEF Spec, ClaimSafe

-----------------------------------------------------------------------------
(* Well-formed states *)

TickRow ==
  [pc : {"idle", "owners", "drain", "publish", "unhash", "unlink"},
   live : SUBSET Workers, asked : SUBSET Workers, ready : SUBSET Workers,
   owners : SUBSET Workers, src : Places, todo : SUBSET Copies,
   cur : 0..MaxCopies, drained : BOOLEAN, budget : 0..MaxRequeues]

\* What a reaper's tick knows: the copies it lists exist, a requeue spends budget
\* and has found a dead owner, and its payload is deleted before its pointer.
TickFits(t, n, h) ==
  /\ t.todo \subseteq 1 .. n /\ t.cur <= n
  /\ t.pc \in {"publish", "unhash", "unlink"} => t.cur > 0 /\ t.budget > 0 /\ t.ready # {}
  /\ t.pc = "unlink" => ~h[t.cur]
  /\ t.ready \cap t.live = {}

TickKnown(t) == TickFits(t, copies, hash)

\* A copy that was not published is nowhere, and a copy is consumed once.
CopiesKnown ==
  \A c \in Copies : /\ c > copies => at[c] = Nowhere /\ ~hash[c] /\ job[c] = Idle
                    /\ job[c] # Idle => at[c].list # "queue"

\* Before the server has published, nothing has happened to the operation.
Unstarted ==
  host \in {"routing", "publishing"} => copies = 0 /\ replies = 0 /\ claim = NoWorker

WellFormed ==
  /\ host \in {"routing", "publishing", "waiting", "answered", "gone"}
  /\ route \in Owners
  /\ replies \in Nat
  /\ dlq \in BOOLEAN /\ cancelKey \in BOOLEAN
  /\ at \in [Copies -> Places]
  /\ hash \in [Copies -> BOOLEAN]
  /\ copies \in 0..MaxCopies
  /\ claim \in Owners
  /\ hb \subseteq Workers
  /\ mode \in [Workers -> {"up", "draining", "down"}]
  /\ tracker \in [Workers -> 0..MaxRetries]
  /\ HandlersTyped
  /\ clock \in [Workers -> {"none", "started", "elapsed"}]
  /\ tick \in [Reapers -> TickRow]

\* The bounds are natural numbers.
LEMMA Bounds ==
  /\ MaxRetries \in Nat /\ MaxRequeues \in Nat /\ MaxCopies \in Nat
  /\ NoWorker \notin Workers /\ Target \in Owners
  BY DeliveryAssumption DEF Owners

\* Every list of a queue is a place, and belongs to a worker or to nobody.
LEMMA PlacesKnown ==
  /\ Nowhere \in Places
  /\ \A w \in Owners : Queue(w) \in Places /\ Processing(w) \in Places
  /\ \A q \in Places : q.of \in Owners
<1>1. Nowhere \in Places
  BY DEF Places
<1>2. \A w \in Owners : Queue(w) \in Places /\ Processing(w) \in Places
  BY DEF Places
<1>3. ASSUME NEW q \in Places PROVE q.of \in Owners
  <2>1. CASE q = Nowhere
    BY <2>1 DEF Nowhere, Owners
  <2>2. CASE \E w \in Owners : q = Queue(w)
    BY <2>2 DEF Queue
  <2>3. CASE \E w \in Owners : q = Processing(w)
    BY <2>3 DEF Processing
  <2> QED BY <2>1, <2>2, <2>3 DEF Places
<1> QED BY <1>1, <1>2, <1>3

\* An initial state is well formed.
LEMMA WellFormedInit == Init => WellFormed
<1> SUFFICES ASSUME Init PROVE WellFormed
  OBVIOUS
<1>1. NoTick \in TickRow
  BY Bounds, PlacesKnown DEF NoTick, TickRow
<1>2. HandlersTyped
  BY HandlersInit
<1>3. /\ host \in {"routing", "publishing", "waiting", "answered", "gone"}
      /\ route \in Owners /\ replies \in Nat /\ dlq \in BOOLEAN /\ cancelKey \in BOOLEAN
      /\ claim \in Owners /\ hb \subseteq Workers
      /\ mode \in [Workers -> {"up", "draining", "down"}]
      /\ clock \in [Workers -> {"none", "started", "elapsed"}]
  BY DEF Init, Owners
<1>4. at \in [Copies -> Places] /\ hash \in [Copies -> BOOLEAN]
  BY PlacesKnown DEF Init
<1>5. copies \in 0..MaxCopies /\ tracker \in [Workers -> 0..MaxRetries]
  BY Bounds DEF Init
<1>6. tick \in [Reapers -> TickRow]
  BY <1>1 DEF Init
<1> QED BY <1>2, <1>3, <1>4, <1>5, <1>6 DEF WellFormed

\* A publish adds one copy to a list.
LEMMA PublishTyped ==
  ASSUME WellFormed, NEW q \in Places, Publish(q) \/ FailedPublish(q)
  PROVE  /\ at' \in [Copies -> Places] /\ hash' \in [Copies -> BOOLEAN]
         /\ copies' \in 0..MaxCopies
<1>1. CASE Publish(q)
  BY <1>1, Bounds DEF Publish, WellFormed, Copies
<1>2. CASE UNCHANGED broker
  BY <1>2 DEF broker, WellFormed
<1> QED BY <1>1, <1>2 DEF FailedPublish

\* The server's steps keep the state well formed.
LEMMA ServerTyped ==
  ASSUME WellFormed, ServerStep \/ SetCancelKey \/ GiveUp \/ ClaimExpires
  PROVE  WellFormed'
<1>1. HandlersTyped'
  BY HandlersStep DEF Next, WellFormed
<1> USE DEF WellFormed, process
<1>2. CASE RouteTask
  <2>1. route' \in Owners
    BY <1>2, Bounds DEF RouteTask, Owners
  <2> QED BY <1>1, <1>2, <2>1 DEF RouteTask, broker
<1>3. CASE PublishTask
  <2>1. Queue(route) \in Places
    BY PlacesKnown
  <2>2. /\ at' \in [Copies -> Places] /\ hash' \in [Copies -> BOOLEAN]
        /\ copies' \in 0..MaxCopies
    BY <1>3, <2>1, PublishTyped DEF PublishTask
  <2>3. host' \in {"waiting", "gone"}
    BY <1>3 DEF PublishTask
  <2> QED BY <1>1, <1>3, <2>2, <2>3 DEF PublishTask
<1>4. CASE DeliverReply
  BY <1>1, <1>4 DEF DeliverReply, broker
<1>5. CASE SetCancelKey \/ GiveUp
  BY <1>1, <1>5 DEF SetCancelKey, GiveUp, broker
<1>6. CASE ClaimExpires
  BY <1>1, <1>6 DEF ClaimExpires, server, broker, Owners
<1> QED BY <1>2, <1>3, <1>4, <1>5, <1>6 DEF ServerStep

\* The steps of a worker's handlers keep the state well formed.
LEMMA HandlersWellFormed ==
  ASSUME WellFormed, NEW c \in Copies, HandlerStep(c) \/ \E w \in Workers : Consume(w, c)
  PROVE  WellFormed'
<1>1. HandlersTyped'
  BY HandlersStep DEF Next, WellFormed
<1>2. HandlersTyped
  BY DEF WellFormed
<1>3. ASSUME job[c].pc # "none" PROVE job[c].worker \in Workers
  BY <1>2, <1>3 DEF HandlersTyped, Jobs, Idle
<1> USE DEF WellFormed
<1>4. ASSUME NEW w \in Workers, Consume(w, c) PROVE WellFormed'
  <2>1. Processing(at[c].of) \in Places
    BY PlacesKnown
  <2>2. at' \in [Copies -> Places]
    BY <1>4, <2>1 DEF Consume
  <2> QED BY <1>1, <1>4, <2>2 DEF Consume, server
<1>5. CASE TryClaim(c)
  <2>1. claim' \in Owners
    BY <1>3, <1>5 DEF TryClaim, Step, Owners
  <2> QED BY <1>1, <1>5, <2>1 DEF TryClaim, server, broker
<1>6. CASE CheckCancel(c)
  BY <1>1, <1>6 DEF CheckCancel, server, broker
<1>7. CASE Complete(c)
  <2>1. tracker' \in [Workers -> 0..MaxRetries] /\ replies' \in Nat
    BY <1>3, <1>7, Bounds DEF Complete, Step
  <2> QED BY <1>1, <1>7, <2>1 DEF Complete, broker
<1>8. CASE FailAttempt(c)
  <2>1. tracker' \in [Workers -> 0..MaxRetries]
    BY <1>3, <1>8, Bounds DEF FailAttempt, RetriesLeft
  <2> QED BY <1>1, <1>8, <2>1 DEF FailAttempt, server, broker
<1>9. CASE ReportError(c)
  <2>1. replies' \in Nat
    BY <1>9 DEF ReportError
  <2> QED BY <1>1, <1>9, <2>1 DEF ReportError, broker
<1>10. CASE DeadLetter(c)
  <2>1. dlq' \in BOOLEAN
    BY <1>10 DEF DeadLetter
  <2> QED BY <1>1, <1>10, <2>1 DEF DeadLetter, broker
<1>11. CASE Release(c)
  <2>1. claim' \in Owners
    BY <1>11 DEF Release, Released, Owners
  <2> QED BY <1>1, <1>11, <2>1 DEF Release, server, broker
<1>12. CASE Acknowledge(c)
  <2>1. at' \in [Copies -> Places]
    BY <1>12, PlacesKnown DEF Acknowledge
  <2> QED BY <1>1, <1>12, <2>1 DEF Acknowledge, server
<1>13. CASE DeletePayload(c)
  <2>1. hash' \in [Copies -> BOOLEAN]
    BY <1>13 DEF DeletePayload
  <2> QED BY <1>1, <1>13, <2>1 DEF DeletePayload, server
<1> HIDE DEF WellFormed
<1> QED
  BY <1>4, <1>5, <1>6, <1>7, <1>8, <1>9, <1>10, <1>11, <1>12, <1>13 DEF HandlerStep

\* So do the steps of worker processes.
LEMMA ProcessTyped ==
  ASSUME WellFormed, NEW w \in Workers,
         \/ Crash(w) \/ Shutdown(w) \/ DrainExit(w) \/ Start(w)
         \/ Heartbeat(w) \/ HeartbeatExpires(w) \/ GraceElapses(w)
  PROVE  WellFormed'
<1>1. HandlersTyped'
  BY HandlersStep DEF Next, WellFormed
<1> USE DEF WellFormed, server, broker
<1>2. CASE Crash(w) \/ DrainExit(w)
  <2>1. /\ mode' \in [Workers -> {"up", "draining", "down"}]
        /\ tracker' \in [Workers -> 0..MaxRetries]
    BY <1>2, Bounds DEF Crash, DrainExit, Gone
  <2>2. hb' \subseteq Workers
    BY <1>2 DEF Crash, DrainExit
  <2> QED BY <1>1, <1>2, <2>1, <2>2 DEF Crash, DrainExit
<1>3. CASE Shutdown(w) \/ Start(w)
  <2>1. mode' \in [Workers -> {"up", "draining", "down"}]
    BY <1>3 DEF Shutdown, Start
  <2> QED BY <1>1, <1>3, <2>1 DEF Shutdown, Start
<1>4. CASE Heartbeat(w) \/ HeartbeatExpires(w)
  <2>1. hb' \subseteq Workers
    BY <1>4 DEF Heartbeat, HeartbeatExpires
  <2> QED BY <1>1, <1>4, <2>1 DEF Heartbeat, HeartbeatExpires, process
<1>5. CASE GraceElapses(w)
  <2>1. clock' \in [Workers -> {"none", "started", "elapsed"}]
    BY <1>5 DEF GraceElapses
  <2> QED BY <1>1, <1>5, <2>1 DEF GraceElapses, process
<1> HIDE DEF WellFormed
<1> QED BY <1>2, <1>3, <1>4, <1>5

\* reapable_now says yes only of a worker that this tick's scan found dead.
LEMMA Asked ==
  ASSUME WellFormed, NEW r \in Reapers, TickKnown(tick[r]), NEW w \in Workers
  PROVE  /\ TickAsked(r, w) \in TickRow
         /\ TickAsked(r, w).pc = tick[r].pc /\ TickAsked(r, w).todo = tick[r].todo
         /\ TickAsked(r, w).cur = tick[r].cur /\ TickAsked(r, w).live = tick[r].live
         /\ TickAsked(r, w).budget = tick[r].budget
         /\ TickAsked(r, w).ready \cap tick[r].live = {}
         /\ Reapable(r, w) => w \in TickAsked(r, w).ready
         /\ ClockAsked(r, w) \in [Workers -> {"none", "started", "elapsed"}]
<1>1. tick[r] \in TickRow
  BY DEF WellFormed
<1>2. TickAsked(r, w) \in TickRow
  BY <1>1 DEF TickAsked, TickRow
<1>3. /\ TickAsked(r, w).pc = tick[r].pc /\ TickAsked(r, w).todo = tick[r].todo
      /\ TickAsked(r, w).cur = tick[r].cur /\ TickAsked(r, w).live = tick[r].live
      /\ TickAsked(r, w).budget = tick[r].budget
  BY <1>1 DEF TickAsked, TickRow
<1>4. TickAsked(r, w).ready = IF Reapable(r, w) THEN tick[r].ready \cup {w} ELSE tick[r].ready
  BY <1>1 DEF TickAsked, TickRow
<1>5. Reapable(r, w) => w \notin tick[r].live
  BY DEF Reapable, TickKnown, TickFits
<1>6. ClockAsked(r, w) \in [Workers -> {"none", "started", "elapsed"}]
  BY DEF ClockAsked, WellFormed
<1> QED BY <1>2, <1>3, <1>4, <1>5, <1>6 DEF TickKnown, TickFits

\* The next row of a reaper's tick is well formed, and what it knows is so.
TickGood(t) == t \in TickRow /\ TickFits(t, copies', hash')

\* Only the tick of the reaper that steps changes.
LEMMA OneTick ==
  ASSUME WellFormed, \A q \in Reapers : TickKnown(tick[q]), NEW r \in Reapers, NEW t,
         tick' = [tick EXCEPT ![r] = t], TickGood(t), copies' \in Nat, copies <= copies',
         \A c \in 1 .. copies : hash'[c] => hash[c]
  PROVE  /\ tick' \in [Reapers -> TickRow]
         /\ \A q \in Reapers : TickKnown(tick[q])'
<1>1. tick' \in [Reapers -> TickRow]
  BY DEF WellFormed, TickGood
<1>2. ASSUME NEW q \in Reapers PROVE TickKnown(tick[q])'
  <2>1. CASE q = r
    <3>1. tick'[q] = t
      BY <2>1 DEF WellFormed
    <3> QED BY <3>1 DEF TickGood, TickKnown, TickFits
  <2>2. CASE q # r
    <3>1. tick'[q] = tick[q] /\ tick[q] \in TickRow
      BY <2>2 DEF WellFormed
    <3>2. tick[q].cur \in Nat /\ copies \in Nat /\ tick[q].todo \subseteq 1 .. copies
      BY <3>1, Bounds DEF WellFormed, TickRow, TickKnown, TickFits
    <3>3. tick[q].todo \subseteq 1 .. copies' /\ tick[q].cur <= copies'
      BY <3>1, <3>2 DEF TickKnown, TickFits
    <3>4. tick[q].pc = "unlink" => ~hash'[tick[q].cur]
      BY <3>2 DEF TickKnown, TickFits
    <3> QED BY <3>1, <3>3, <3>4 DEF TickKnown, TickFits
  <2> QED BY <2>1, <2>2
<1> QED BY <1>1, <1>2

\* A list that is drained holds published copies only.
LEMMA DrainGood ==
  ASSUME WellFormed, CopiesKnown, NEW t \in TickRow, TickKnown(t), t.cur <= copies,
         NEW src \in Places, src # Nowhere, copies' = copies, hash' = hash
  PROVE  TickGood(Drain(t, src))
<1> DEFINE u == Drain(t, src)
<1>1. {c \in Copies : at[c] = src} \subseteq 1 .. copies
  <2> SUFFICES ASSUME NEW c \in Copies, at[c] = src PROVE c \in 1 .. copies
    OBVIOUS
  <2>1. ~(c > copies)
    BY DEF CopiesKnown
  <2> QED BY <2>1, Bounds DEF WellFormed, Copies
<1>2. u = [t EXCEPT !.pc = "drain", !.src = src, !.todo = {c \in Copies : at[c] = src}]
  BY DEF Drain
<1>3. u \in TickRow
  BY <1>2 DEF TickRow
<1>4. /\ u.pc = "drain" /\ u.todo \subseteq 1 .. copies /\ u.cur = t.cur
      /\ u.ready = t.ready /\ u.live = t.live
  BY <1>1, <1>2 DEF TickRow
<1> QED BY <1>3, <1>4 DEF TickGood, TickKnown, TickFits

TicksKnown == \A r \in Reapers : TickKnown(tick[r])

\* A step of a reaper leaves the server, the claim and the workers alone.
LEMMA ReaperFrame ==
  ASSUME NEW r \in Reapers, BeginTick(r) \/ TickStep(r) \/ AbortTick(r)
  PROVE  /\ UNCHANGED <<host, route, replies, dlq, cancelKey, claim, hb, mode, tracker, job>>
         /\ spent' = spent \/ Fault
<1> USE DEF server, process
<1>1. CASE BeginTick(r) \/ ReapShared(r) \/ ListDone(r) \/ Unhash(r) \/ Unlink(r)
  BY <1>1 DEF BeginTick, ReapShared, ListDone, Unhash, Unlink
<1>2. CASE Republish(r)
  BY <1>2 DEF Republish, NoFault
<1>3. ASSUME NEW w \in Workers, ReapOwner(r, w)
      PROVE  /\ UNCHANGED <<host, route, replies, dlq, cancelKey, claim, hb, mode, tracker, job>>
             /\ spent' = spent
  BY <1>3 DEF ReapOwner
<1>4. ASSUME NEW c \in Copies, Inspect(r, c)
      PROVE  /\ UNCHANGED <<host, route, replies, dlq, cancelKey, claim, hb, mode, tracker, job>>
             /\ spent' = spent
  BY <1>4 DEF Inspect
<1>5. CASE AbortTick(r)
  BY <1>5 DEF AbortTick
<1> QED BY <1>1, <1>2, <1>3, <1>4, <1>5 DEF TickStep

\* What the steps of a reaper change, and that they keep it well formed.
LEMMA ReaperTyped ==
  ASSUME WellFormed, CopiesKnown, TicksKnown, NEW r \in Reapers,
         BeginTick(r) \/ TickStep(r) \/ AbortTick(r)
  PROVE  WellFormed' /\ TicksKnown'
<1>1. HandlersTyped'
  BY HandlersStep DEF Next, WellFormed
<1>2. UNCHANGED <<host, route, replies, dlq, cancelKey, claim, hb, mode, tracker, job>>
  BY ReaperFrame
<1> DEFINE Broker == /\ at' \in [Copies -> Places] /\ hash' \in [Copies -> BOOLEAN]
                     /\ copies' \in 0..MaxCopies
           Clock == clock' \in [Workers -> {"none", "started", "elapsed"}]
           Tick == tick' \in [Reapers -> TickRow] /\ TicksKnown'
<1>3. SUFFICES Broker /\ Clock /\ Tick
  BY <1>1, <1>2 DEF WellFormed
<1>4. UNCHANGED broker => Broker /\ copies' = copies /\ hash' = hash
  BY DEF broker, WellFormed
<1>5. UNCHANGED clock => Clock
  BY DEF WellFormed
<1>6. tick[r] \in TickRow /\ TickKnown(tick[r]) /\ copies \in Nat
  BY Bounds DEF WellFormed, TicksKnown
<1>7. ASSUME NEW t, tick' = [tick EXCEPT ![r] = t], TickGood(t), copies' = copies,
             \A c \in 1 .. copies : hash'[c] => hash[c]
      PROVE  Tick
  <2>1. copies' \in Nat /\ copies <= copies' /\ \A q \in Reapers : TickKnown(tick[q])
    BY <1>6, <1>7 DEF TicksKnown
  <2>2. /\ tick' \in [Reapers -> TickRow] /\ \A q \in Reapers : TickKnown(tick[q])'
    BY <1>7, <2>1, OneTick
  <2> QED BY <2>2 DEF TicksKnown
<1>8. NoTick \in TickRow /\ TickFits(NoTick, copies, hash)
  BY <1>6, Bounds, PlacesKnown DEF NoTick, TickRow, TickFits
<1> HIDE DEF Tick, Broker, Clock
<1>9. CASE BeginTick(r)
  <2> DEFINE t == [NoTick EXCEPT !.pc = "owners", !.live = hb, !.budget = MaxRequeues,
                     !.owners = {w \in Workers : \E c \in Copies : at[c].of = w}]
  <2>1. UNCHANGED <<broker, clock>> /\ tick' = [tick EXCEPT ![r] = t]
    BY <1>9 DEF BeginTick
  <2>2. t \in TickRow
    <3>1. /\ hb \in SUBSET Workers /\ MaxRequeues \in 0..MaxRequeues
          /\ {w \in Workers : \E c \in Copies : at[c].of = w} \in SUBSET Workers
      BY Bounds DEF WellFormed
    <3> QED BY <1>8, <3>1 DEF TickRow
  <2>3. t.todo = {} /\ t.cur = 0 /\ t.pc = "owners" /\ t.ready = {}
    BY DEF NoTick
  <2> HIDE DEF t
  <2>4. TickGood(t)
    BY <1>4, <1>6, <2>1, <2>2, <2>3 DEF TickGood, TickFits
  <2> QED BY <1>4, <1>5, <1>7, <2>1, <2>4
<1>10. CASE AbortTick(r)
  <2>1. UNCHANGED <<broker, clock>> /\ tick' = [tick EXCEPT ![r] = NoTick]
    BY <1>10 DEF AbortTick
  <2>2. TickGood(NoTick)
    BY <1>4, <1>8, <2>1 DEF TickGood
  <2> QED BY <1>4, <1>5, <1>7, <2>1, <2>2
<1>11. ASSUME NEW w \in Workers, ReapOwner(r, w) PROVE Broker /\ Clock /\ Tick
  <2> DEFINE a == TickAsked(r, w)
             t == [a EXCEPT !.owners = @ \ {w}, !.drained = TRUE]
             u == IF Reapable(r, w) THEN Drain(t, Processing(w)) ELSE t
  <2>1. /\ UNCHANGED broker /\ tick[r].pc = "owners"
        /\ tick' = [tick EXCEPT ![r] = u] /\ clock' = ClockAsked(r, w)
    BY <1>11 DEF ReapOwner
  <2>2. /\ a \in TickRow /\ ClockAsked(r, w) \in [Workers -> {"none", "started", "elapsed"}]
        /\ a.pc = "owners" /\ a.todo = tick[r].todo /\ a.cur = tick[r].cur
        /\ a.live = tick[r].live /\ a.ready \cap tick[r].live = {}
    BY <1>6, <2>1, Asked
  <2>3. /\ t \in TickRow /\ t.pc = "owners" /\ t.todo = tick[r].todo /\ t.cur = tick[r].cur
        /\ t.live = tick[r].live /\ t.ready \cap t.live = {}
    BY <2>2 DEF TickRow
  <2> HIDE DEF a, t
  <2>4. TickKnown(t) /\ t.cur <= copies
    BY <1>6, <2>3 DEF TickKnown, TickFits
  <2>5. Processing(w) \in Places /\ Processing(w) # Nowhere
    BY PlacesKnown DEF Processing, Nowhere, Owners
  <2>6. TickGood(t) /\ TickGood(Drain(t, Processing(w)))
    BY <1>4, <2>1, <2>3, <2>4, <2>5, DrainGood DEF TickGood, TickKnown
  <2>7. TickGood(u)
    BY <2>6
  <2>8. Clock
    BY <2>1, <2>2 DEF Clock
  <2> QED BY <1>4, <1>7, <2>1, <2>7, <2>8
<1>12. CASE ReapShared(r)
  <2>1. /\ UNCHANGED <<broker, clock>>
        /\ tick' = [tick EXCEPT ![r] = Drain(tick[r], Processing(NoWorker))]
    BY <1>12 DEF ReapShared
  <2>2. Processing(NoWorker) \in Places /\ Processing(NoWorker) # Nowhere
    BY PlacesKnown DEF Processing, Nowhere, Owners
  <2>3. TickGood(Drain(tick[r], Processing(NoWorker)))
    BY <1>4, <1>6, <2>1, <2>2, DrainGood DEF TickKnown, TickFits
  <2> QED BY <1>4, <1>5, <1>7, <2>1, <2>3
<1>13. CASE ListDone(r)
  <2> DEFINE w == tick[r].src.of
  <2>1. UNCHANGED broker
    BY <1>13 DEF ListDone
  <2>2. w \in Owners
    BY <1>6, PlacesKnown DEF TickRow
  <2>3. Clock
    BY <1>13 DEF ListDone, Clock, WellFormed
  <2>4. CASE tick' = [tick EXCEPT ![r] = AfterProcessing(r)]
    <3>1. Queue(w) \in Places /\ Queue(w) # Nowhere
      BY <2>2, PlacesKnown DEF Queue, Nowhere
    <3>2. TickGood(AfterProcessing(r))
      BY <1>4, <1>6, <2>1, <3>1, DrainGood DEF AfterProcessing, TickKnown, TickFits
    <3> QED BY <1>4, <1>7, <2>1, <2>3, <2>4, <3>2
  <2>5. CASE tick' = [tick EXCEPT ![r].pc = "owners"]
    <3> DEFINE t == [tick[r] EXCEPT !.pc = "owners"]
    <3>1. t \in TickRow /\ TickFits(t, copies, hash)
      BY <1>6 DEF TickRow, TickKnown, TickFits
    <3>2. tick' = [tick EXCEPT ![r] = t]
      BY <2>5
    <3> HIDE DEF t
    <3> QED BY <1>4, <1>7, <2>1, <2>3, <3>1, <3>2 DEF TickGood
  <2>6. CASE tick' = [tick EXCEPT ![r] = NoTick]
    <3>1. TickGood(NoTick)
      BY <1>4, <1>8, <2>1 DEF TickGood
    <3> QED BY <1>4, <1>7, <2>1, <2>3, <2>6, <3>1
  <2> QED BY <1>13, <2>4, <2>5, <2>6 DEF ListDone
<1>14. ASSUME NEW c \in Copies, Inspect(r, c) PROVE Broker /\ Clock /\ Tick
  <2> DEFINE w == StrandOwner(r)
             t == [tick[r] EXCEPT !.todo = @ \ {c}]
             a == TickAsked(r, w)
             b == [a EXCEPT !.todo = @ \ {c}]
             d == [b EXCEPT !.pc = "publish", !.cur = c]
  <2>1. /\ tick[r].pc = "drain" /\ c \in tick[r].todo /\ hash' = hash /\ copies' = copies
        /\ at' = at \/ at' = Unlinked(c, tick[r].src)
    BY <1>14 DEF Inspect
  <2>2. Broker
    BY <2>1, PlacesKnown DEF Broker, WellFormed, Unlinked
  <2>3. w \in Owners
    BY <1>6, PlacesKnown DEF StrandOwner, TickRow, WellFormed
  <2>4. t \in TickRow /\ TickFits(t, copies, hash)
    BY <1>6, <2>1 DEF TickRow, TickKnown, TickFits
  <2>5. CASE UNCHANGED clock /\ tick' = [tick EXCEPT ![r] = t]
    BY <1>5, <1>7, <2>1, <2>2, <2>4, <2>5 DEF TickGood
  <2>6. CASE UNCHANGED clock /\ tick' = [tick EXCEPT ![r] = [t EXCEPT !.drained = FALSE]]
    <3> DEFINE u == [t EXCEPT !.drained = FALSE]
    <3>1. u \in TickRow /\ TickFits(u, copies, hash)
      BY <2>4 DEF TickRow, TickFits
    <3>2. tick' = [tick EXCEPT ![r] = u]
      BY <2>6
    <3> HIDE DEF u
    <3> QED BY <1>5, <1>7, <2>1, <2>2, <2>6, <3>1, <3>2 DEF TickGood
  <2>7. CASE /\ tick[r].budget > 0 /\ w # NoWorker /\ clock' = ClockAsked(r, w)
             /\ tick' = [tick EXCEPT ![r] = IF Reapable(r, w) THEN d ELSE b]
    <3>1. w \in Workers
      BY <2>3, <2>7 DEF Owners
    <3> HIDE DEF w
    <3>2. /\ a \in TickRow /\ ClockAsked(r, w) \in [Workers -> {"none", "started", "elapsed"}]
          /\ a.pc = "drain" /\ a.todo = tick[r].todo /\ a.cur = tick[r].cur
          /\ a.live = tick[r].live /\ a.ready \cap tick[r].live = {}
          /\ a.budget = tick[r].budget /\ (Reapable(r, w) => w \in a.ready)
      BY <1>6, <2>1, <3>1, Asked
    <3>3. a.budget > 0
      BY <2>7, <3>2
    <3>4. a.todo \subseteq 1 .. copies /\ a.cur <= copies /\ c \in 1 .. copies
      BY <1>6, <2>1, <3>2 DEF TickKnown, TickFits
    <3> HIDE DEF a
    <3>5. b \in TickRow /\ TickFits(b, copies, hash)
      BY <3>2, <3>4 DEF TickRow, TickFits
    <3>6. c \in 0..MaxCopies
      BY Bounds DEF Copies
    <3>7. d \in TickRow
      BY <3>5, <3>6 DEF TickRow
    <3>8. /\ d.pc = "publish" /\ d.cur = c /\ d.todo = a.todo \ {c} /\ d.budget = a.budget
          /\ d.ready = a.ready /\ d.live = a.live
      BY <3>2 DEF TickRow
    <3>9. ASSUME Reapable(r, w) PROVE TickFits(d, copies, hash)
      <4> HIDE DEF d
      <4> QED BY <3>2, <3>3, <3>4, <3>8, <3>9 DEF TickFits
    <3>10. TickGood(IF Reapable(r, w) THEN d ELSE b)
      BY <2>1, <3>5, <3>7, <3>9 DEF TickGood
    <3>11. Clock
      BY <2>7, <3>2 DEF Clock
    <3> QED BY <1>7, <2>1, <2>2, <2>7, <3>10, <3>11
  <2> QED BY <1>14, <2>5, <2>6, <2>7 DEF Inspect
<1>15. CASE Republish(r)
  <2>1. clock' = clock /\ tick[r].pc = "publish"
    BY <1>15 DEF Republish
  <2>2. Queue(NoWorker) \in Places
    BY PlacesKnown DEF Owners
  <2>3. Broker
    <3>1. CASE Publish(Queue(NoWorker)) \/ FailedPublish(Queue(NoWorker))
      BY <2>2, <3>1, PublishTyped DEF Broker
    <3>2. CASE UNCHANGED broker
      BY <1>4, <3>2
    <3> QED BY <1>15, <3>1, <3>2 DEF Republish
  <2>4. /\ copies' \in Nat /\ copies <= copies'
        /\ \A c \in 1 .. copies : hash'[c] = hash[c]
    <3>1. CASE Publish(Queue(NoWorker))
      <4>1. /\ copies' = copies + 1 /\ hash' = [hash EXCEPT ![copies + 1] = TRUE]
            /\ DOMAIN hash = 1..MaxCopies /\ copies < MaxCopies
        BY <3>1 DEF Publish, WellFormed, Copies
      <4>2. \A c \in 1 .. copies : c \in 1..MaxCopies /\ c # copies + 1
        BY <1>6, <4>1, Bounds
      <4>3. copies' \in Nat /\ copies <= copies'
        BY <1>6, <4>1
      <4>4. \A c \in 1 .. copies : hash'[c] = hash[c]
        BY <4>1, <4>2, Zenon
      <4> QED BY <4>3, <4>4
    <3>2. CASE UNCHANGED broker
      BY <1>6, <3>2 DEF broker
    <3> QED BY <1>15, <3>1, <3>2 DEF Republish, FailedPublish
  <2>5. /\ tick[r].todo \subseteq 1 .. copies /\ tick[r].cur \in 1 .. copies
        /\ tick[r].budget > 0 /\ tick[r].ready # {} /\ tick[r].ready \cap tick[r].live = {}
    BY <1>6, <2>1, Bounds DEF TickKnown, TickFits, TickRow
  <2>6. tick[r].todo \subseteq 1 .. copies' /\ tick[r].cur <= copies' /\ 0 <= copies'
    BY <1>6, <2>4, <2>5
  <2>7. CASE tick' = [tick EXCEPT ![r].pc = "unhash"]
    <3> DEFINE t == [tick[r] EXCEPT !.pc = "unhash"]
    <3>1. /\ t \in TickRow /\ t.pc = "unhash" /\ t.todo = tick[r].todo /\ t.cur = tick[r].cur
          /\ t.budget = tick[r].budget /\ t.ready = tick[r].ready /\ t.live = tick[r].live
      BY <1>6 DEF TickRow
    <3>2. tick' = [tick EXCEPT ![r] = t]
      BY <2>7
    <3> HIDE DEF t
    <3>3. TickGood(t)
      BY <1>6, <2>5, <2>6, <3>1 DEF TickGood, TickFits
    <3>4. Tick
      BY <2>4, <3>2, <3>3, OneTick DEF Tick, TicksKnown
    <3> QED BY <1>5, <2>1, <2>3, <3>4
  <2>8. CASE tick' = [tick EXCEPT ![r].pc = "drain", ![r].cur = 0, ![r].drained = FALSE]
    <3> DEFINE t == [tick[r] EXCEPT !.pc = "drain", !.cur = 0, !.drained = FALSE]
    <3>1. 0 \in 0..MaxCopies
      BY Bounds
    <3>2. /\ t \in TickRow /\ t.pc = "drain" /\ t.todo = tick[r].todo /\ t.cur = 0
          /\ t.ready = tick[r].ready /\ t.live = tick[r].live
      BY <1>6, <3>1 DEF TickRow
    <3>3. tick' = [tick EXCEPT ![r] = t]
      BY <2>8
    <3> HIDE DEF t
    <3>4. TickGood(t)
      BY <2>5, <2>6, <3>2 DEF TickGood, TickFits
    <3>5. Tick
      BY <2>4, <3>3, <3>4, OneTick DEF Tick, TicksKnown
    <3> QED BY <1>5, <2>1, <2>3, <3>5
  <2> QED BY <1>15, <2>7, <2>8 DEF Republish
<1>16. CASE Unhash(r)
  <2> DEFINE t == [tick[r] EXCEPT !.pc = "unlink"]
  <2>1. /\ clock' = clock /\ at' = at /\ copies' = copies /\ tick[r].pc = "unhash"
        /\ hash' = [hash EXCEPT ![tick[r].cur] = FALSE] /\ tick' = [tick EXCEPT ![r] = t]
    BY <1>16 DEF Unhash
  <2>2. /\ tick[r].todo \subseteq 1 .. copies /\ tick[r].cur \in 1 .. copies
        /\ tick[r].budget > 0 /\ tick[r].ready # {} /\ tick[r].ready \cap tick[r].live = {}
    BY <1>6, <2>1, Bounds DEF TickKnown, TickFits, TickRow
  <2>3. /\ t \in TickRow /\ t.pc = "unlink" /\ t.todo = tick[r].todo /\ t.cur = tick[r].cur
        /\ t.budget = tick[r].budget /\ t.ready = tick[r].ready /\ t.live = tick[r].live
    BY <1>6 DEF TickRow
  <2> HIDE DEF t
  <2>4. hash' \in [Copies -> BOOLEAN] /\ tick[r].cur \in Copies
        /\ \A c \in Copies : hash'[c] => hash[c] /\ c # tick[r].cur
    BY <2>1, <2>2, Bounds DEF WellFormed, Copies
  <2>5. TickGood(t)
    BY <1>6, <2>1, <2>2, <2>3, <2>4 DEF TickGood, TickFits
  <2>6. \A c \in 1 .. copies : hash'[c] => hash[c]
    BY <2>1
  <2>7. Broker
    BY <2>1, <2>4 DEF Broker, WellFormed
  <2> QED BY <1>5, <1>7, <2>1, <2>5, <2>6, <2>7
<1>17. CASE Unlink(r)
  <2> DEFINE t == [tick[r] EXCEPT !.pc = "drain", !.cur = 0, !.budget = @ - 1]
  <2>1. /\ clock' = clock /\ at' = Unlinked(tick[r].cur, tick[r].src) /\ copies' = copies
        /\ tick[r].pc = "unlink" /\ hash' = hash /\ tick' = [tick EXCEPT ![r] = t]
    BY <1>17 DEF Unlink
  <2>2. /\ tick[r].todo \subseteq 1 .. copies /\ tick[r].ready \cap tick[r].live = {}
        /\ tick[r].budget > 0 /\ tick[r].budget \in 0..MaxRequeues
    BY <1>6, <2>1 DEF TickKnown, TickFits, TickRow
  <2>3. tick[r].budget - 1 \in 0..MaxRequeues /\ 0 \in 0..MaxCopies /\ 0 <= copies
    BY <1>6, <2>2, Bounds
  <2>4. /\ t \in TickRow /\ t.pc = "drain" /\ t.todo = tick[r].todo /\ t.cur = 0
        /\ t.ready = tick[r].ready /\ t.live = tick[r].live
    BY <1>6, <2>3 DEF TickRow
  <2> HIDE DEF t
  <2>5. TickGood(t)
    BY <2>1, <2>2, <2>3, <2>4 DEF TickGood, TickFits
  <2>6. Broker
    BY <2>1, PlacesKnown DEF Broker, WellFormed, Unlinked
  <2> QED BY <1>5, <1>7, <2>1, <2>5, <2>6
<1> QED
  BY <1>9, <1>10, <1>11, <1>12, <1>13, <1>14, <1>15, <1>16, <1>17 DEF TickStep

-----------------------------------------------------------------------------
(* What the steps do to copies, handlers and ticks *)

\* A step of a handler concerns its own copy and goes on with process_message.
LEMMA HandlerEffect ==
  ASSUME WellFormed, NEW c \in Copies, HandlerStep(c)
  PROVE  /\ job[c] \in [worker : Workers, pc : HandlerSteps]
         /\ job'[c] = Idle \/ job'[c] \in [worker : {job[c].worker}, pc : HandlerSteps]
         /\ \A d \in Copies : d # c => job'[d] = job[d] /\ at'[d] = at[d] /\ hash'[d] = hash[d]
         /\ at'[c] \in {at[c], Nowhere}
         /\ hash'[c] => hash[c]
         /\ UNCHANGED <<host, route, cancelKey, copies, hb, mode, clock, tick>>
<1>1. job \in [Copies -> Jobs] /\ at \in [Copies -> Places] /\ hash \in [Copies -> BOOLEAN]
  BY DEF WellFormed, HandlersTyped
<1>2. job[c].pc # "none" => job[c] \in [worker : Workers, pc : HandlerSteps]
  BY <1>1 DEF Jobs, Idle
<1> DEFINE Stays == at' = at /\ hash' = hash
           Frame == UNCHANGED <<host, route, cancelKey, copies, hb, mode, clock, tick>>
<1>3. ASSUME NEW from \in HandlerSteps, NEW to \in HandlerSteps, Step(c, from, to)
      PROVE  /\ job[c] \in [worker : Workers, pc : HandlerSteps]
             /\ job'[c] \in [worker : {job[c].worker}, pc : HandlerSteps]
             /\ \A d \in Copies : d # c => job'[d] = job[d]
  <2>1. job[c].pc # "none"
    BY <1>3 DEF Step, HandlerSteps
  <2>2. job[c] \in [worker : Workers, pc : HandlerSteps] /\ job' = [job EXCEPT ![c].pc = to]
    BY <1>2, <1>3, <2>1 DEF Step
  <2> QED BY <1>1, <2>2
<1>4. ASSUME job[c].pc \in HandlerSteps, job' = [job EXCEPT ![c] = Idle]
      PROVE  /\ job[c] \in [worker : Workers, pc : HandlerSteps]
             /\ job'[c] = Idle /\ \A d \in Copies : d # c => job'[d] = job[d]
  BY <1>1, <1>2, <1>4 DEF HandlerSteps
<1>5. CASE TryClaim(c)
  <2>1. Stays /\ Frame
    BY <1>5 DEF TryClaim, server, broker
  <2>2. Step(c, "claiming", "checking") \/ Step(c, "claiming", "acking")
    BY <1>5 DEF TryClaim
  <2> QED BY <1>3, <2>1, <2>2 DEF HandlerSteps
<1>6. CASE CheckCancel(c)
  <2>1. Stays /\ Frame
    BY <1>6 DEF CheckCancel, server, broker
  <2>2. Step(c, "checking", "acking") \/ Step(c, "checking", "running")
    BY <1>6 DEF CheckCancel
  <2> QED BY <1>3, <2>1, <2>2 DEF HandlerSteps
<1>7. CASE Complete(c)
  <2>1. Stays /\ Frame /\ Step(c, "running", "acking")
    BY <1>7 DEF Complete, broker
  <2> QED BY <1>3, <2>1 DEF HandlerSteps
<1>8. CASE FailAttempt(c)
  <2>1. Stays /\ Frame /\ job[c].pc = "running"
    BY <1>8 DEF FailAttempt, server, broker
  <2>2. CASE job' = job
    <3>1. job[c] \in [worker : Workers, pc : HandlerSteps]
      BY <1>2, <2>1
    <3> QED BY <2>1, <2>2, <3>1
  <2>3. CASE Step(c, "running", "exhausted")
    BY <1>3, <2>1, <2>3 DEF HandlerSteps
  <2> QED BY <1>8, <2>2, <2>3 DEF FailAttempt
<1>9. CASE ReportError(c)
  <2>1. Stays /\ Frame /\ Step(c, "exhausted", "dlq")
    BY <1>9 DEF ReportError, broker
  <2> QED BY <1>3, <2>1 DEF HandlerSteps
<1>10. CASE DeadLetter(c)
  <2>1. Stays /\ Frame /\ Step(c, "dlq", "releasing")
    BY <1>10 DEF DeadLetter, broker
  <2> QED BY <1>3, <2>1 DEF HandlerSteps
<1>11. CASE Release(c)
  <2>1. Stays /\ Frame /\ Step(c, "releasing", "acking")
    BY <1>11 DEF Release, server, broker
  <2> QED BY <1>3, <2>1 DEF HandlerSteps
<1>12. CASE Acknowledge(c)
  <2>1. hash' = hash /\ Frame
    BY <1>12 DEF Acknowledge, server
  <2>2. CASE Step(c, "acking", "deleting") /\ at' = [at EXCEPT ![c] = Nowhere]
    <3>1. at'[c] = Nowhere /\ \A d \in Copies : d # c => at'[d] = at[d]
      BY <1>1, <2>2
    <3> QED BY <1>3, <2>1, <2>2, <3>1 DEF HandlerSteps
  <2>3. CASE job[c].pc = "acking" /\ job' = [job EXCEPT ![c] = Idle] /\ at' = at
    BY <1>4, <2>1, <2>3 DEF HandlerSteps
  <2> QED BY <1>12, <2>2, <2>3 DEF Acknowledge
<1>13. CASE DeletePayload(c)
  <2>1. at' = at /\ Frame /\ job[c].pc = "deleting" /\ job' = [job EXCEPT ![c] = Idle]
    BY <1>13 DEF DeletePayload, server
  <2>2. (hash'[c] => hash[c]) /\ \A d \in Copies : d # c => hash'[d] = hash[d]
    BY <1>1, <1>13 DEF DeletePayload
  <2> QED BY <1>4, <2>1, <2>2 DEF HandlerSteps
<1> QED
  BY <1>5, <1>6, <1>7, <1>8, <1>9, <1>10, <1>11, <1>12, <1>13 DEF HandlerStep

\* The pointer of a consumed copy moves from a queue to its processing list.
LEMMA ConsumeEffect ==
  ASSUME WellFormed, CopiesKnown, NEW w \in Workers, NEW c \in Copies, Consume(w, c)
  PROVE  /\ mode[w] = "up" /\ at[c].list = "queue" /\ at'[c].list = "processing"
         /\ c <= copies /\ job[c] = Idle
         /\ job'[c] = Idle \/ (hash[c] /\ job'[c] = [worker |-> w, pc |-> "claiming"])
         /\ \A d \in Copies : d # c => job'[d] = job[d] /\ at'[d] = at[d]
         /\ UNCHANGED <<host, route, replies, dlq, cancelKey, hash, copies, claim, hb, mode,
                        tracker, clock, tick>>
         /\ spent' = spent \/ Fault
<1>1. job \in [Copies -> Jobs] /\ at \in [Copies -> Places] /\ copies \in Nat
  BY Bounds DEF WellFormed, HandlersTyped
<1>2. at[c].list = "queue" /\ mode[w] = "up"
  BY DEF Consume, Queue
<1>3. c <= copies /\ job[c] = Idle
  <2>1. at[c] # Nowhere
    BY <1>2 DEF Nowhere
  <2> QED BY <1>1, <1>2, <2>1 DEF CopiesKnown, Copies
<1>4. at'[c].list = "processing" /\ \A d \in Copies : d # c => at'[d] = at[d]
  BY <1>1 DEF Consume, Processing
<1>5. /\ job'[c] = Idle \/ (hash[c] /\ job'[c] = [worker |-> w, pc |-> "claiming"])
      /\ \A d \in Copies : d # c => job'[d] = job[d]
  BY <1>1, <1>3 DEF Consume
<1>6. /\ UNCHANGED <<host, route, replies, dlq, cancelKey, hash, copies, claim, hb, mode,
                     tracker, clock, tick>>
      /\ spent' = spent \/ Fault
  BY DEF Consume, server, NoFault
<1> QED BY <1>2, <1>3, <1>4, <1>5, <1>6

\* A new copy takes the next number.
LEMMA PublishEffect ==
  ASSUME WellFormed, CopiesKnown, NEW q \in Places, Publish(q)
  PROVE  /\ copies' = copies + 1 /\ copies' \in Copies
         /\ at'[copies'] = q /\ hash'[copies'] /\ job[copies'] = Idle
         /\ \A c \in Copies : c # copies' => at'[c] = at[c] /\ hash'[c] = hash[c]
<1>1. /\ copies' = copies + 1 /\ at' = [at EXCEPT ![copies + 1] = q] /\ copies < MaxCopies
      /\ hash' = [hash EXCEPT ![copies + 1] = TRUE]
  BY DEF Publish
<1>2. /\ at \in [Copies -> Places] /\ hash \in [Copies -> BOOLEAN] /\ copies \in 0..MaxCopies
  BY DEF WellFormed
<1>3. copies + 1 \in Copies /\ copies + 1 > copies
  BY <1>1, <1>2, Bounds DEF Copies
<1>4. job[copies + 1] = Idle
  BY <1>3 DEF CopiesKnown
<1>5. at'[copies + 1] = q /\ \A c \in Copies : c # copies + 1 => at'[c] = at[c]
  BY <1>1, <1>2, <1>3, Zenon
<1>6. hash'[copies + 1] /\ \A c \in Copies : c # copies + 1 => hash'[c] = hash[c]
  BY <1>1, <1>2, <1>3, Zenon
<1> QED BY <1>1, <1>3, <1>4, <1>5, <1>6

\* A reaper requeues a copy, drops the payload of the one it requeued, or drops a
\* pointer without a payload; a tick keeps the scan it began with.
LEMMA ReaperEffect ==
  ASSUME WellFormed, TicksKnown, NEW r \in Reapers, BeginTick(r) \/ TickStep(r) \/ AbortTick(r)
  PROVE  /\ \/ Publish(Queue(NoWorker)) /\ tick[r].pc = "publish"
            \/ /\ copies' = copies
               /\ \A c \in Copies : hash'[c] = hash[c]
                    \/ (~hash'[c] /\ tick[r].pc = "unhash" /\ tick[r].cur = c)
               /\ \A c \in Copies : at'[c] = at[c] \/ (at'[c] = Nowhere /\ ~hash[c])
               /\ tick'[r].pc # "unhash"
         /\ \A q \in Reapers : q # r => tick'[q] = tick[q]
         /\ tick'[r].pc # "idle" =>
              \/ tick'[r].live = hb
              \/ tick[r].pc # "idle" /\ tick'[r].live = tick[r].live
<1>1. /\ tick \in [Reapers -> TickRow] /\ tick[r] \in TickRow
      /\ at \in [Copies -> Places] /\ hash \in [Copies -> BOOLEAN]
  BY DEF WellFormed
<1> DEFINE Others == \A q \in Reapers : q # r => tick'[q] = tick[q]
           Quiet == copies' = copies /\ at' = at /\ hash' = hash /\ tick'[r].pc # "unhash"
           SameScan == tick[r].pc # "idle" /\ tick'[r].live = tick[r].live
<1>2. CASE BeginTick(r)
  <2>1. UNCHANGED broker /\ Others /\ tick'[r].pc = "owners" /\ tick'[r].live = hb
    BY <1>1, <1>2 DEF BeginTick, NoTick
  <2> QED BY <2>1 DEF broker
<1>3. CASE AbortTick(r)
  <2>1. UNCHANGED broker /\ Others /\ tick'[r].pc = "idle"
    BY <1>1, <1>3 DEF AbortTick, NoTick
  <2> QED BY <2>1 DEF broker
<1>4. ASSUME NEW w \in Workers, ReapOwner(r, w) PROVE Quiet /\ Others /\ SameScan
  <2> DEFINE a == TickAsked(r, w)
             t == [a EXCEPT !.owners = @ \ {w}, !.drained = TRUE]
  <2>1. /\ UNCHANGED broker /\ tick[r].pc = "owners"
        /\ tick' = [tick EXCEPT ![r] = IF Reapable(r, w) THEN Drain(t, Processing(w)) ELSE t]
    BY <1>4 DEF ReapOwner
  <2>2. a \in TickRow /\ a.pc = "owners" /\ a.live = tick[r].live
    BY <2>1, Asked DEF TicksKnown
  <2> HIDE DEF a
  <2>3. /\ t.pc = "owners" /\ t.live = tick[r].live
        /\ Drain(t, Processing(w)).pc = "drain" /\ Drain(t, Processing(w)).live = tick[r].live
    BY <2>2 DEF TickRow, Drain
  <2> HIDE DEF t
  <2> QED BY <1>1, <2>1, <2>3 DEF broker
<1>5. CASE ReapShared(r)
  <2>1. /\ UNCHANGED broker /\ tick[r].pc = "owners"
        /\ tick' = [tick EXCEPT ![r] = Drain(tick[r], Processing(NoWorker))]
    BY <1>5 DEF ReapShared
  <2>2. Drain(tick[r], Processing(NoWorker)).pc = "drain"
        /\ Drain(tick[r], Processing(NoWorker)).live = tick[r].live
    BY <1>1 DEF TickRow, Drain
  <2> QED BY <1>1, <2>1, <2>2 DEF broker
<1>6. CASE ListDone(r)
  <2>1. UNCHANGED broker /\ tick[r].pc = "drain"
    BY <1>6 DEF ListDone
  <2>2. CASE tick' = [tick EXCEPT ![r] = AfterProcessing(r)]
    <3>1. AfterProcessing(r).pc = "drain" /\ AfterProcessing(r).live = tick[r].live
      BY <1>1 DEF AfterProcessing, TickRow, Drain
    <3> QED BY <1>1, <2>1, <2>2, <3>1 DEF broker
  <2>3. CASE tick' = [tick EXCEPT ![r].pc = "owners"]
    <3>1. tick'[r].pc = "owners" /\ tick'[r].live = tick[r].live /\ Others
      BY <1>1, <2>3 DEF TickRow
    <3> QED BY <2>1, <3>1 DEF broker
  <2>4. CASE tick' = [tick EXCEPT ![r] = NoTick]
    <3>1. tick'[r].pc = "idle" /\ Others
      BY <1>1, <2>4 DEF NoTick
    <3> QED BY <2>1, <3>1 DEF broker
  <2> QED BY <1>6, <2>2, <2>3, <2>4 DEF ListDone
<1>7. ASSUME NEW c \in Copies, Inspect(r, c)
      PROVE  /\ copies' = copies /\ hash' = hash
             /\ \A d \in Copies : at'[d] = at[d] \/ (at'[d] = Nowhere /\ ~hash[d])
             /\ Others /\ SameScan /\ tick'[r].pc # "unhash"
  <2> DEFINE w == StrandOwner(r)
             t == [tick[r] EXCEPT !.todo = @ \ {c}]
             a == TickAsked(r, w)
             b == [a EXCEPT !.todo = @ \ {c}]
             d == [b EXCEPT !.pc = "publish", !.cur = c]
             e == [t EXCEPT !.drained = FALSE]
  <2>1. copies' = copies /\ hash' = hash /\ tick[r].pc = "drain"
    BY <1>7 DEF Inspect
  <2>2. \A x \in Copies : at'[x] = at[x] \/ (at'[x] = Nowhere /\ ~hash[x])
    <3>1. at' = at \/ (~hash[c] /\ at' = Unlinked(c, tick[r].src))
      BY <1>7 DEF Inspect
    <3>2. CASE at' = at
      BY <3>2
    <3>3. CASE ~hash[c] /\ at' = Unlinked(c, tick[r].src)
      <4>1. at' = at \/ at' = [at EXCEPT ![c] = Nowhere]
        BY <3>3 DEF Unlinked
      <4> QED BY <1>1, <3>3, <4>1
    <3> QED BY <3>1, <3>2, <3>3
  <2>3. t.pc = "drain" /\ t.live = tick[r].live /\ e.pc = "drain" /\ e.live = tick[r].live
    BY <1>1, <2>1 DEF TickRow
  <2>4. w \in Owners
    BY <1>1, PlacesKnown DEF StrandOwner, TickRow, WellFormed
  <2>5. ASSUME w # NoWorker
        PROVE  /\ b.pc = "drain" /\ b.live = tick[r].live
               /\ d.pc = "publish" /\ d.live = tick[r].live
    <3>1. w \in Workers
      BY <2>4, <2>5 DEF Owners
    <3>2. a \in TickRow /\ a.pc = "drain" /\ a.live = tick[r].live
      BY <2>1, <3>1, Asked DEF TicksKnown
    <3> HIDE DEF a
    <3> QED BY <3>2 DEF TickRow
  <2>6. \/ tick' = [tick EXCEPT ![r] = t] \/ tick' = [tick EXCEPT ![r] = e]
        \/ w # NoWorker /\ tick' = [tick EXCEPT ![r] = IF Reapable(r, w) THEN d ELSE b]
    BY <1>7 DEF Inspect
  <2> HIDE DEF t, e, b, d, w
  <2>7. tick'[r].pc # "unhash" /\ tick'[r].live = tick[r].live /\ Others
    BY <1>1, <2>3, <2>5, <2>6
  <2> QED BY <2>1, <2>2, <2>7
<1>8. CASE Republish(r)
  <2>1. tick[r].pc = "publish"
    BY <1>8 DEF Republish
  <2>2. CASE tick' = [tick EXCEPT ![r].pc = "unhash"] /\ Publish(Queue(NoWorker))
    <3>1. tick'[r].live = tick[r].live /\ Others
      BY <1>1, <2>2 DEF TickRow
    <3> QED BY <2>1, <2>2, <3>1
  <2>3. CASE /\ tick' = [tick EXCEPT ![r].pc = "drain", ![r].cur = 0, ![r].drained = FALSE]
             /\ Publish(Queue(NoWorker)) \/ UNCHANGED broker
    <3>1. tick'[r].pc = "drain" /\ tick'[r].live = tick[r].live /\ Others
      BY <1>1, <2>3 DEF TickRow
    <3> QED BY <2>1, <2>3, <3>1 DEF broker
  <2> QED BY <1>8, <2>2, <2>3 DEF Republish, FailedPublish
<1>9. CASE Unhash(r)
  <2>1. /\ at' = at /\ copies' = copies /\ tick[r].pc = "unhash"
        /\ hash' = [hash EXCEPT ![tick[r].cur] = FALSE]
        /\ tick' = [tick EXCEPT ![r].pc = "unlink"]
    BY <1>9 DEF Unhash
  <2>2. tick'[r].pc = "unlink" /\ tick'[r].live = tick[r].live /\ Others
    BY <1>1, <2>1 DEF TickRow
  <2>3. \A c \in Copies : hash'[c] = hash[c] \/ (~hash'[c] /\ tick[r].cur = c)
    BY <1>1, <2>1
  <2> QED BY <2>1, <2>2, <2>3
<1>10. CASE Unlink(r)
  <2>1. /\ copies' = copies /\ tick[r].pc = "unlink" /\ hash' = hash
        /\ at' = Unlinked(tick[r].cur, tick[r].src)
        /\ tick' = [tick EXCEPT ![r].pc = "drain", ![r].cur = 0, ![r].budget = @ - 1]
    BY <1>10 DEF Unlink
  <2>2. tick'[r].pc = "drain" /\ tick'[r].live = tick[r].live /\ Others
    BY <1>1, <2>1 DEF TickRow
  <2>3. ~hash[tick[r].cur]
    BY <2>1 DEF TicksKnown, TickKnown, TickFits
  <2>4. at' = at \/ at' = [at EXCEPT ![tick[r].cur] = Nowhere]
    BY <2>1 DEF Unlinked
  <2>5. \A c \in Copies : at'[c] = at[c] \/ (at'[c] = Nowhere /\ ~hash[c])
    BY <1>1, <2>3, <2>4
  <2> QED BY <2>1, <2>2, <2>5
<1> QED BY <1>2, <1>3, <1>4, <1>5, <1>6, <1>7, <1>8, <1>9, <1>10 DEF TickStep

Basic == WellFormed /\ CopiesKnown /\ Unstarted /\ TicksKnown

\* At first there is no copy, no handler and no tick.
LEMMA BasicInit == Init => Basic
<1> SUFFICES ASSUME Init PROVE Basic
  OBVIOUS
<1>1. WellFormed
  BY WellFormedInit
<1>2. CopiesKnown /\ Unstarted
  BY DEF Init, CopiesKnown, Unstarted
<1>3. TicksKnown
  BY DEF Init, TicksKnown, TickKnown, TickFits, NoTick
<1> QED BY <1>1, <1>2, <1>3 DEF Basic

\* A tick in progress is not disturbed by new copies or deleted payloads.
LEMMA TicksStay ==
  ASSUME Basic, tick' = tick, copies' \in Nat, copies <= copies',
         \A c \in 1 .. copies : hash'[c] => hash[c]
  PROVE  TicksKnown'
<1> SUFFICES ASSUME NEW q \in Reapers PROVE TickKnown(tick[q])'
  BY DEF TicksKnown
<1>1. tick[q] \in TickRow /\ copies \in Nat /\ TickKnown(tick[q])
  BY Bounds DEF Basic, WellFormed, TicksKnown
<1>2. tick[q].cur \in Nat /\ tick[q].todo \subseteq 1 .. copies
  BY <1>1, Bounds DEF TickRow, TickKnown, TickFits
<1>3. tick[q].todo \subseteq 1 .. copies' /\ tick[q].cur <= copies'
  BY <1>1, <1>2 DEF TickKnown, TickFits
<1>4. tick[q].pc = "unlink" => ~hash'[tick[q].cur]
  BY <1>1, <1>2 DEF TickKnown, TickFits
<1> QED BY <1>1, <1>3, <1>4 DEF TickKnown, TickFits

\* The same after steps that leave the broker alone.
LEMMA TicksSame ==
  ASSUME Basic, UNCHANGED <<tick, copies, hash>>
  PROVE  TicksKnown'
BY TicksStay, Bounds DEF Basic, WellFormed

\* Publishing a copy keeps what is known of copies and handlers.
LEMMA PublishKnown ==
  ASSUME Basic, NEW q \in Places, Publish(q), job' = job
  PROVE  CopiesKnown'
<1>1. /\ copies' = copies + 1 /\ job[copies'] = Idle
      /\ \A c \in Copies : c # copies' => at'[c] = at[c] /\ hash'[c] = hash[c]
  BY PublishEffect DEF Basic
<1>2. copies \in Nat
  BY Bounds DEF Basic, WellFormed
<1> SUFFICES ASSUME NEW c \in Copies
             PROVE  /\ c > copies' => at'[c] = Nowhere /\ ~hash'[c] /\ job[c] = Idle
                    /\ job[c] # Idle => at'[c].list # "queue"
  BY DEF CopiesKnown
<1>3. CASE c = copies'
  BY <1>1, <1>2, <1>3
<1>4. CASE c # copies'
  <2>1. at'[c] = at[c] /\ hash'[c] = hash[c] /\ (c > copies' => c > copies)
    BY <1>1, <1>2, <1>4 DEF Copies
  <2> QED BY <2>1 DEF Basic, CopiesKnown
<1> QED BY <1>3, <1>4

\* Every step keeps the basic facts.
LEMMA BasicStep == Basic /\ [Next]_vars => Basic'
<1> SUFFICES ASSUME Basic, [Next]_vars PROVE Basic'
  OBVIOUS
<1>1. WellFormed /\ CopiesKnown /\ Unstarted /\ TicksKnown /\ copies \in Nat
  BY Bounds DEF Basic, WellFormed
<1>2. CASE UNCHANGED vars
  <2>1. UNCHANGED <<host, route, replies, dlq, cancelKey, at, hash, copies, claim, hb, mode,
                    tracker, job, clock, tick, spent>>
    BY <1>2 DEF vars, server, broker, process
  <2>2. WellFormed'
    BY <1>1, <2>1 DEF WellFormed, HandlersTyped
  <2>3. CopiesKnown' /\ Unstarted'
    BY <1>1, <2>1 DEF CopiesKnown, Unstarted
  <2> QED BY <2>1, <2>2, <2>3, TicksSame DEF Basic
<1>3. CASE ServerStep \/ SetCancelKey \/ GiveUp \/ ClaimExpires
  <2>1. WellFormed'
    BY <1>1, <1>3, ServerTyped
  <2>2. CASE RouteTask \/ DeliverReply \/ SetCancelKey \/ GiveUp \/ ClaimExpires
    <3>1. UNCHANGED <<at, hash, copies, job, tick>>
      BY <2>2 DEF RouteTask, DeliverReply, SetCancelKey, GiveUp, ClaimExpires, broker, process
    <3>2. CopiesKnown'
      BY <1>1, <3>1 DEF CopiesKnown
    <3>3. Unstarted'
      BY <1>1, <2>2
      DEF RouteTask, DeliverReply, SetCancelKey, GiveUp, ClaimExpires, broker, server, Unstarted
    <3> QED BY <2>1, <3>1, <3>2, <3>3, TicksSame DEF Basic
  <2>3. CASE PublishTask
    <3>1. job' = job /\ tick' = tick /\ host' \in {"waiting", "gone"}
      BY <2>3 DEF PublishTask, process
    <3>2. Queue(route) \in Places
      BY <1>1, PlacesKnown DEF WellFormed
    <3>3. CASE Publish(Queue(route))
      <4>1. CopiesKnown'
        BY <3>1, <3>2, <3>3, PublishKnown
      <4>2. copies' = copies + 1 /\ \A c \in 1 .. copies : hash'[c] => hash[c]
        <5>1. /\ copies' = copies + 1 /\ copies' \in Copies
              /\ \A c \in Copies : c # copies' => hash'[c] = hash[c]
          BY <1>1, <3>2, <3>3, PublishEffect
        <5>2. \A c \in 1 .. copies : c \in Copies /\ c # copies'
          BY <1>1, <5>1, Bounds DEF Copies
        <5> QED BY <5>1, <5>2
      <4>3. TicksKnown'
        BY <1>1, <3>1, <4>2, TicksStay
      <4> QED BY <2>1, <3>1, <4>1, <4>3 DEF Basic, Unstarted
    <3>4. CASE UNCHANGED broker
      <4>1. UNCHANGED <<at, hash, copies>>
        BY <3>4 DEF broker
      <4>2. CopiesKnown'
        BY <1>1, <3>1, <4>1 DEF CopiesKnown
      <4> QED BY <2>1, <3>1, <4>1, <4>2, TicksSame DEF Basic, Unstarted
    <3> QED BY <2>3, <3>3, <3>4 DEF PublishTask, FailedPublish
  <2> QED BY <1>3, <2>2, <2>3 DEF ServerStep
<1>4. ASSUME NEW w \in Workers, NEW c \in Copies, Consume(w, c) PROVE Basic'
  <2>1. WellFormed'
    BY <1>1, <1>4, HandlersWellFormed
  <2>2. /\ at'[c].list = "processing" /\ c <= copies
        /\ \A d \in Copies : d # c => job'[d] = job[d] /\ at'[d] = at[d]
        /\ UNCHANGED <<host, replies, hash, copies, claim, tick>>
    BY <1>1, <1>4, ConsumeEffect
  <2>3. CopiesKnown'
    BY <1>1, <2>2 DEF CopiesKnown, Copies
  <2>4. Unstarted'
    BY <1>1, <2>2 DEF Unstarted
  <2> QED BY <2>1, <2>2, <2>3, <2>4, TicksSame DEF Basic
<1>5. ASSUME NEW c \in Copies, HandlerStep(c) PROVE Basic'
  <2>1. WellFormed'
    BY <1>1, <1>5, HandlersWellFormed
  <2>2. /\ job[c] \in [worker : Workers, pc : HandlerSteps]
        /\ \A d \in Copies : d # c => job'[d] = job[d] /\ at'[d] = at[d] /\ hash'[d] = hash[d]
        /\ at'[c] \in {at[c], Nowhere} /\ (hash'[c] => hash[c])
        /\ UNCHANGED <<host, copies, tick>>
    BY <1>1, <1>5, HandlerEffect
  <2>3. job[c] # Idle
    BY <2>2 DEF Idle, HandlerSteps
  <2>4. c <= copies /\ at[c].list # "queue" /\ at'[c].list # "queue"
    BY <1>1, <2>2, <2>3 DEF CopiesKnown, Nowhere, Copies
  <2>5. CopiesKnown'
    BY <1>1, <2>2, <2>4 DEF CopiesKnown, Copies
  <2>6. Unstarted'
    <3>1. copies # 0
      BY <1>1, <2>4 DEF Copies
    <3> QED BY <1>1, <2>2, <3>1 DEF Unstarted
  <2>7. \A d \in 1 .. copies : hash'[d] => hash[d]
    <3>1. \A d \in 1 .. copies : d \in Copies
      BY <1>1, Bounds DEF WellFormed, Copies
    <3> QED BY <2>2, <3>1
  <2>8. TicksKnown'
    BY <1>1, <2>2, <2>7, TicksStay
  <2> QED BY <2>1, <2>5, <2>6, <2>8 DEF Basic
<1>6. ASSUME NEW w \in Workers,
             \/ Crash(w) \/ Shutdown(w) \/ DrainExit(w) \/ Start(w)
             \/ Heartbeat(w) \/ HeartbeatExpires(w) \/ GraceElapses(w)
      PROVE  Basic'
  <2>1. WellFormed'
    BY <1>1, <1>6, ProcessTyped
  <2>2. UNCHANGED <<host, replies, at, hash, copies, claim, tick>>
    BY <1>6 DEF Crash, Shutdown, DrainExit, Start, Heartbeat, HeartbeatExpires, GraceElapses,
                server, broker
  <2>3. \A c \in Copies : job'[c] \in {Idle, job[c]}
    BY <1>1, <1>6
    DEF Crash, Shutdown, DrainExit, Start, Heartbeat, HeartbeatExpires, GraceElapses, Gone,
        process, WellFormed, HandlersTyped
  <2>4. CopiesKnown' /\ Unstarted'
    BY <1>1, <2>2, <2>3 DEF CopiesKnown, Unstarted
  <2> QED BY <2>1, <2>2, <2>4, TicksSame DEF Basic
<1>7. ASSUME NEW r \in Reapers, BeginTick(r) \/ TickStep(r) \/ AbortTick(r) PROVE Basic'
  <2>1. WellFormed' /\ TicksKnown'
    BY <1>1, <1>7, ReaperTyped
  <2>2. UNCHANGED <<host, replies, claim, job>>
    BY <1>7, ReaperFrame
  <2>3. CASE Publish(Queue(NoWorker)) /\ tick[r].pc = "publish"
    <3>1. Queue(NoWorker) \in Places
      BY PlacesKnown DEF Owners
    <3>2. CopiesKnown'
      BY <2>2, <2>3, <3>1, PublishKnown
    <3>3. tick[r] \in TickRow /\ tick[r].cur > 0 /\ tick[r].cur <= copies
      BY <1>1, <2>3 DEF TicksKnown, TickKnown, TickFits, WellFormed
    <3>4. copies # 0
      BY <1>1, <3>3, Bounds DEF TickRow
    <3>5. Unstarted'
      BY <1>1, <2>2, <3>4 DEF Unstarted
    <3> QED BY <2>1, <3>2, <3>5 DEF Basic
  <2>4. CASE /\ copies' = copies
             /\ \A c \in Copies : hash'[c] = hash[c] \/ ~hash'[c]
             /\ \A c \in Copies : at'[c] = at[c] \/ at'[c] = Nowhere
    <3>1. CopiesKnown'
      BY <1>1, <2>2, <2>4 DEF CopiesKnown, Nowhere
    <3>2. Unstarted'
      BY <1>1, <2>2, <2>4 DEF Unstarted
    <3> QED BY <2>1, <3>1, <3>2 DEF Basic
  <2> QED BY <1>1, <1>7, <2>3, <2>4, ReaperEffect
<1> QED BY <1>2, <1>3, <1>4, <1>5, <1>6, <1>7 DEF Next

\* What a handler may do next, and the copies whose answer is behind them.
LEMMA HandlerMoves ==
  ASSUME WellFormed, NEW c \in Copies, HandlerStep(c)
  PROVE  /\ TryClaim(c) => job[c].pc = "claiming" /\ job'[c].pc \in {"checking", "acking"}
         /\ CheckCancel(c) => job[c].pc = "checking" /\ job'[c].pc \in {"running", "acking"}
         /\ Complete(c) => job[c].pc = "running" /\ job'[c].pc = "acking"
         /\ FailAttempt(c) => job[c].pc = "running" /\ job'[c].pc \in {"running", "exhausted"}
         /\ ReportError(c) => job[c].pc = "exhausted" /\ job'[c].pc = "dlq"
         /\ DeadLetter(c) => job[c].pc = "dlq" /\ job'[c].pc = "releasing"
         /\ Release(c) => job[c].pc = "releasing" /\ job'[c].pc = "acking"
         /\ Acknowledge(c) => job[c].pc = "acking" /\ job'[c].pc \in {"deleting", "none"}
         /\ DeletePayload(c) => job[c].pc = "deleting" /\ job'[c].pc = "none"
<1>1. job \in [Copies -> Jobs]
  BY DEF WellFormed, HandlersTyped
<1>2. job[c] \in [worker : Workers, pc : HandlerSteps]
  BY HandlerEffect
<1>3. ASSUME NEW from, NEW to, Step(c, from, to) PROVE job[c].pc = from /\ job'[c].pc = to
  BY <1>1, <1>2, <1>3 DEF Step
<1>4. ASSUME job' = [job EXCEPT ![c] = Idle] PROVE job'[c].pc = "none"
  BY <1>1, <1>4 DEF Idle
<1>5. TryClaim(c) => job[c].pc = "claiming" /\ job'[c].pc \in {"checking", "acking"}
  BY <1>3 DEF TryClaim
<1>6. CheckCancel(c) => job[c].pc = "checking" /\ job'[c].pc \in {"running", "acking"}
  BY <1>3 DEF CheckCancel
<1>7. Complete(c) => job[c].pc = "running" /\ job'[c].pc = "acking"
  BY <1>3 DEF Complete
<1>8. FailAttempt(c) => job[c].pc = "running" /\ job'[c].pc \in {"running", "exhausted"}
  BY <1>3 DEF FailAttempt
<1>9. ReportError(c) => job[c].pc = "exhausted" /\ job'[c].pc = "dlq"
  BY <1>3 DEF ReportError
<1>10. DeadLetter(c) => job[c].pc = "dlq" /\ job'[c].pc = "releasing"
  BY <1>3 DEF DeadLetter
<1>11. Release(c) => job[c].pc = "releasing" /\ job'[c].pc = "acking"
  BY <1>3 DEF Release
<1>12. Acknowledge(c) => job[c].pc = "acking" /\ job'[c].pc \in {"deleting", "none"}
  BY <1>3, <1>4 DEF Acknowledge
<1>13. DeletePayload(c) => job[c].pc = "deleting" /\ job'[c].pc = "none"
  BY <1>4 DEF DeletePayload
<1> QED BY <1>5, <1>6, <1>7, <1>8, <1>9, <1>10, <1>11, <1>12, <1>13

Silent(c) ==
  /\ c <= copies /\ at[c].list # "queue"
  /\ job[c].pc \notin {"claiming", "checking", "running", "exhausted"}

\* Each copy is answered at most once: there is a copy for every result.
ReplyBound == \E S \in SUBSET {c \in Copies : Silent(c)} : Cardinality(S) = replies

\* A copy whose handler has answered stays silent; only its own answer adds one.
LEMMA SilentStep ==
  ASSUME Basic, [Next]_vars
  PROVE  \/ /\ \A c \in Copies : Silent(c) => Silent(c)'
            /\ replies' = replies \/ (replies > 0 /\ replies' = replies - 1)
         \/ \E d \in Copies :
              /\ ~Silent(d) /\ Silent(d)' /\ replies' = replies + 1
              /\ \A c \in Copies : Silent(c) => Silent(c)'
<1>1. WellFormed /\ CopiesKnown /\ TicksKnown /\ copies \in Nat
  BY Bounds DEF Basic, WellFormed
<1> DEFINE Stay == \A c \in Copies : Silent(c) => Silent(c)'
<1>2. ASSUME UNCHANGED <<at, copies, job>> PROVE Stay
  BY <1>2 DEF Silent
<1>3. ASSUME NEW q \in Places, Publish(q), job' = job PROVE Stay
  <2>1. /\ copies' = copies + 1
        /\ \A c \in Copies : c # copies' => at'[c] = at[c]
    BY <1>1, <1>3, PublishEffect
  <2> SUFFICES ASSUME NEW c \in Copies, Silent(c) PROVE Silent(c)'
    OBVIOUS
  <2>2. c <= copies /\ c \in Nat
    BY DEF Silent, Copies
  <2>3. c # copies' /\ c <= copies'
    BY <1>1, <2>1, <2>2
  <2> QED BY <1>3, <2>1, <2>3 DEF Silent
<1>4. CASE UNCHANGED vars
  BY <1>2, <1>4 DEF vars, server, broker, process
<1>5. CASE RouteTask \/ SetCancelKey \/ GiveUp \/ ClaimExpires
  <2>1. UNCHANGED <<at, copies, job, replies>>
    BY <1>5 DEF RouteTask, SetCancelKey, GiveUp, ClaimExpires, server, broker, process
  <2> QED BY <1>2, <2>1
<1>6. CASE PublishTask
  <2>1. job' = job /\ replies' = replies
    BY <1>6 DEF PublishTask, process
  <2>2. Queue(route) \in Places
    BY <1>1, PlacesKnown DEF WellFormed
  <2>3. CASE Publish(Queue(route))
    BY <1>3, <2>1, <2>2, <2>3
  <2>4. CASE UNCHANGED broker
    BY <1>2, <2>1, <2>4 DEF broker
  <2> QED BY <1>6, <2>3, <2>4 DEF PublishTask, FailedPublish
<1>7. CASE DeliverReply
  <2>1. UNCHANGED <<at, copies, job>> /\ replies > 0 /\ replies' = replies - 1
    BY <1>7 DEF DeliverReply, broker, process
  <2> QED BY <1>2, <2>1
<1>8. ASSUME NEW w \in Workers, NEW d \in Copies, Consume(w, d) PROVE Stay /\ replies' = replies
  <2>1. /\ at[d].list = "queue" /\ UNCHANGED <<copies, replies>>
        /\ \A c \in Copies : c # d => job'[c] = job[c] /\ at'[c] = at[c]
    BY <1>1, <1>8, ConsumeEffect
  <2> QED BY <2>1 DEF Silent
<1>9. ASSUME NEW d \in Copies, HandlerStep(d)
      PROVE  /\ Stay
             /\ \/ replies' = replies
                \/ ~Silent(d) /\ Silent(d)' /\ replies' = replies + 1
  <2>1. /\ job[d] \in [worker : Workers, pc : HandlerSteps]
        /\ \A c \in Copies : c # d => job'[c] = job[c] /\ at'[c] = at[c]
        /\ at'[d] \in {at[d], Nowhere} /\ copies' = copies
    BY <1>1, <1>9, HandlerEffect
  <2>2. job[d] # Idle
    BY <2>1 DEF Idle, HandlerSteps
  <2>3. d <= copies /\ at'[d].list # "queue"
    BY <1>1, <2>1, <2>2 DEF CopiesKnown, Nowhere, Copies
  <2>4. /\ job[d].pc \notin {"claiming", "checking", "running", "exhausted"} =>
             job'[d].pc \notin {"claiming", "checking", "running", "exhausted"}
        /\ Complete(d) \/ ReportError(d) => ~Silent(d) /\ Silent(d)'
    BY <1>1, <1>9, <2>1, <2>3, HandlerMoves DEF HandlerStep, Silent
  <2>5. Stay
    BY <2>1, <2>3, <2>4 DEF Silent
  <2>6. \/ replies' = replies
        \/ replies' = replies + 1 /\ (Complete(d) \/ ReportError(d))
    BY <1>9 DEF HandlerStep, TryClaim, CheckCancel, Complete, FailAttempt, ReportError,
                DeadLetter, Release, Acknowledge, DeletePayload, server
  <2> QED BY <2>4, <2>5, <2>6
<1>10. ASSUME NEW w \in Workers,
              \/ Crash(w) \/ Shutdown(w) \/ DrainExit(w) \/ Start(w)
              \/ Heartbeat(w) \/ HeartbeatExpires(w) \/ GraceElapses(w)
       PROVE  Stay /\ replies' = replies
  <2>1. UNCHANGED <<replies, at, copies>>
    BY <1>10 DEF Crash, Shutdown, DrainExit, Start, Heartbeat, HeartbeatExpires, GraceElapses,
                 server, broker
  <2>2. \A c \in Copies : job'[c] \in {Idle, job[c]}
    BY <1>1, <1>10
    DEF Crash, Shutdown, DrainExit, Start, Heartbeat, HeartbeatExpires, GraceElapses, Gone,
        process, WellFormed, HandlersTyped
  <2> QED BY <2>1, <2>2 DEF Silent, Idle
<1>11. ASSUME NEW r \in Reapers, BeginTick(r) \/ TickStep(r) \/ AbortTick(r)
       PROVE  Stay /\ replies' = replies
  <2>1. UNCHANGED <<replies, job>>
    BY <1>11, ReaperFrame
  <2>2. CASE Publish(Queue(NoWorker))
    <3>1. Queue(NoWorker) \in Places
      BY PlacesKnown DEF Owners
    <3> QED BY <1>3, <2>1, <2>2, <3>1
  <2>3. CASE copies' = copies /\ \A c \in Copies : at'[c] = at[c] \/ at'[c] = Nowhere
    BY <2>1, <2>3 DEF Silent, Nowhere
  <2> QED BY <1>1, <1>11, <2>1, <2>2, <2>3, ReaperEffect
<1> QED
  BY <1>4, <1>5, <1>6, <1>7, <1>8, <1>9, <1>10, <1>11 DEF Next, ServerStep

\* There stays a silent copy for every result that is in the reply queue.
LEMMA ReplyBoundStep == Basic /\ ReplyBound /\ [Next]_vars => ReplyBound'
<1> SUFFICES ASSUME Basic, ReplyBound, [Next]_vars PROVE ReplyBound'
  OBVIOUS
<1>1. PICK S \in SUBSET {c \in Copies : Silent(c)} : Cardinality(S) = replies
  BY DEF ReplyBound
<1>2. IsFiniteSet(S)
  <2>1. IsFiniteSet(Copies)
    BY Bounds, FS_Interval DEF Copies
  <2> QED BY <2>1, FS_Subset
<1>3. \A c \in S : c \in Copies /\ Silent(c)
  OBVIOUS
<1>4. CASE (\A c \in Copies : Silent(c) => Silent(c)') /\ replies' = replies
  <2>1. S \subseteq {c \in Copies : Silent(c)'}
    BY <1>3, <1>4
  <2> QED BY <1>1, <1>4, <2>1 DEF ReplyBound
<1>5. CASE /\ \A c \in Copies : Silent(c) => Silent(c)'
           /\ replies > 0 /\ replies' = replies - 1
  <2>1. S # {}
    BY <1>1, <1>5, FS_EmptySet
  <2>2. PICK x \in S : TRUE
    BY <2>1
  <2>3. Cardinality(S \ {x}) = replies - 1
    BY <1>1, <1>2, <2>2, FS_RemoveElement
  <2>4. S \ {x} \subseteq {c \in Copies : Silent(c)'}
    BY <1>3, <1>5
  <2> QED BY <1>5, <2>3, <2>4 DEF ReplyBound
<1>6. ASSUME NEW d \in Copies, ~Silent(d), Silent(d)', replies' = replies + 1,
             \A c \in Copies : Silent(c) => Silent(c)'
      PROVE  ReplyBound'
  <2>1. d \notin S
    BY <1>3, <1>6
  <2>2. Cardinality(S \cup {d}) = replies + 1
    BY <1>1, <1>2, <2>1, FS_AddElement
  <2>3. S \cup {d} \subseteq {c \in Copies : Silent(c)'}
    BY <1>3, <1>6
  <2> QED BY <1>6, <2>2, <2>3 DEF ReplyBound
<1> QED BY <1>4, <1>5, <1>6, SilentStep

\* With a copy for every result there are no more results than copies.
LEMMA ReplyBoundTyped == Basic /\ ReplyBound => TypeOK
<1> SUFFICES ASSUME Basic, ReplyBound PROVE TypeOK
  OBVIOUS
<1>1. PICK S \in SUBSET {c \in Copies : Silent(c)} : Cardinality(S) = replies
  BY DEF ReplyBound
<1>2. IsFiniteSet(Copies) /\ Cardinality(Copies) = MaxCopies
  BY Bounds, FS_Interval DEF Copies
<1>3. S \subseteq Copies
  OBVIOUS
<1>4. Cardinality(S) <= MaxCopies
  BY <1>2, <1>3, FS_Subset
<1>5. replies \in 0..MaxCopies
  BY <1>1, <1>4, Bounds DEF Basic, WellFormed
<1>6. tick \in [Reapers ->
       [pc : {"idle", "owners", "drain", "publish", "unhash", "unlink"},
        live : SUBSET Workers, asked : SUBSET Workers, ready : SUBSET Workers,
        owners : SUBSET Workers, src : Places, todo : SUBSET Copies,
        cur : 0..MaxCopies, drained : BOOLEAN, budget : 0..MaxRequeues]]
  BY DEF Basic, WellFormed, TickRow
<1> QED BY <1>5, <1>6 DEF Basic, WellFormed, HandlersTyped, TypeOK

\* Every variable keeps its type; in particular no copy of the task is answered
\* twice, however often it is retried and requeued.
THEOREM DeliveryTypeCorrect == Spec => []TypeOK
<1>1. Init => Basic /\ ReplyBound
  <2> SUFFICES ASSUME Init PROVE ReplyBound
    BY BasicInit
  <2>1. {} \in SUBSET {c \in Copies : Silent(c)} /\ Cardinality({}) = replies
    BY FS_EmptySet DEF Init
  <2> QED BY <2>1 DEF ReplyBound
<1>2. Basic /\ ReplyBound /\ [Next]_vars => (Basic /\ ReplyBound)'
  BY BasicStep, ReplyBoundStep
<1> QED BY <1>1, <1>2, ReplyBoundTyped, PTL DEF Spec

-----------------------------------------------------------------------------
(* A dead letter was answered *)

Answered == replies > 0 \/ host \in {"answered", "gone"}

\* A handler dead-letters the task only after it has reported the error.
DeadKnown ==
  spent.fault = 0 => /\ dlq => Answered
                     /\ \A c \in Copies : job[c].pc \in {"dlq", "releasing"} => Answered

\* Budgets are only spent.
LEMMA SpentGrows ==
  ASSUME WellFormed, [Next]_vars
  PROVE  /\ spent'.fault >= spent.fault /\ spent'.lapse >= spent.lapse
         /\ spent'.restart >= spent.restart /\ spent'.crash >= spent.crash
         /\ spent.fault \in Nat /\ spent.lapse \in Nat /\ spent.restart \in Nat
         /\ spent.crash \in Nat
<1>1. spent \in Budgets
  BY DEF WellFormed, HandlersTyped
<1>2. spent' = spent \/ Fault \/ Crashing \/ Restarting \/ Lapsing
  <2>1. CASE UNCHANGED vars
    BY <2>1 DEF vars
  <2>2. CASE ServerStep \/ SetCancelKey \/ GiveUp \/ ClaimExpires
    BY <2>2 DEF ServerStep, RouteTask, PublishTask, DeliverReply, SetCancelKey, GiveUp,
                ClaimExpires, NoFault
  <2>3. ASSUME NEW w \in Workers, NEW c \in Copies, Consume(w, c) PROVE spent' = spent \/ Fault
    BY <2>3 DEF Consume, NoFault
  <2>4. ASSUME NEW c \in Copies, HandlerStep(c) PROVE spent' = spent \/ Fault
    BY <2>4 DEF HandlerStep, TryClaim, CheckCancel, Complete, FailAttempt, ReportError,
                DeadLetter, Release, Acknowledge, DeletePayload, NoFault
  <2>5. ASSUME NEW w \in Workers,
               \/ Crash(w) \/ Shutdown(w) \/ DrainExit(w) \/ Start(w)
               \/ Heartbeat(w) \/ HeartbeatExpires(w) \/ GraceElapses(w)
        PROVE  spent' = spent \/ Crashing \/ Restarting \/ Lapsing
    BY <2>5 DEF Crash, Shutdown, DrainExit, Start, Heartbeat, HeartbeatExpires, GraceElapses
  <2>6. ASSUME NEW r \in Reapers, BeginTick(r) \/ TickStep(r) \/ AbortTick(r)
        PROVE  spent' = spent \/ Fault
    BY <2>6, ReaperFrame
  <2> QED BY <2>1, <2>2, <2>3, <2>4, <2>5, <2>6 DEF Next
<1>3. /\ spent.fault \in Nat /\ spent.lapse \in Nat /\ spent.restart \in Nat
      /\ spent.crash \in Nat
  BY <1>1 DEF Budgets
<1> QED BY <1>1, <1>2, <1>3 DEF Budgets, Fault, Crashing, Restarting, Lapsing

\* The answer to a task is delivered, or is still in the reply queue.
LEMMA AnsweredStays ==
  ASSUME Basic, [Next]_vars, Answered
  PROVE  Answered'
<1>1. WellFormed /\ Unstarted /\ replies \in Nat
  BY DEF Basic, WellFormed
<1>2. host \notin {"routing", "publishing"}
  BY <1>1 DEF Answered, Unstarted
<1>3. \/ host' = host /\ (replies' = replies \/ replies' = replies + 1)
      \/ host' = "gone" \/ DeliverReply
  <2>1. CASE UNCHANGED vars
    BY <2>1 DEF vars, server
  <2>2. CASE ServerStep \/ SetCancelKey \/ GiveUp \/ ClaimExpires
    BY <1>2, <2>2 DEF ServerStep, RouteTask, PublishTask, SetCancelKey, GiveUp,
                ClaimExpires, server
  <2>3. ASSUME NEW w \in Workers, NEW c \in Copies, Consume(w, c) PROVE UNCHANGED server
    BY <2>3 DEF Consume
  <2>4. ASSUME NEW c \in Copies, HandlerStep(c)
        PROVE  host' = host /\ (replies' = replies \/ replies' = replies + 1)
    BY <2>4 DEF HandlerStep, TryClaim, CheckCancel, Complete, FailAttempt, ReportError,
                DeadLetter, Release, Acknowledge, DeletePayload, server
  <2>5. ASSUME NEW w \in Workers,
               \/ Crash(w) \/ Shutdown(w) \/ DrainExit(w) \/ Start(w)
               \/ Heartbeat(w) \/ HeartbeatExpires(w) \/ GraceElapses(w)
        PROVE  UNCHANGED server
    BY <2>5 DEF Crash, Shutdown, DrainExit, Start, Heartbeat, HeartbeatExpires, GraceElapses
  <2>6. ASSUME NEW r \in Reapers, BeginTick(r) \/ TickStep(r) \/ AbortTick(r)
        PROVE  UNCHANGED <<host, replies>>
    BY <2>6, ReaperFrame
  <2> QED BY <2>1, <2>2, <2>3, <2>4, <2>5, <2>6 DEF Next, server
<1>4. CASE DeliverReply
  <2>1. host' = IF host = "waiting" THEN "answered" ELSE host
    BY <1>4 DEF DeliverReply
  <2> QED BY <1>1, <1>2, <2>1 DEF Answered, WellFormed
<1> QED BY <1>1, <1>3, <1>4 DEF Answered

\* A handler begins with a consumed copy, ends with its process, and otherwise moves
\* by its own steps; only a handler writes a dead letter.
LEMMA JobStep ==
  ASSUME Basic, [Next]_vars, NEW c \in Copies
  PROVE  /\ \/ job'[c] = job[c]
            \/ HandlerStep(c)
            \/ \E w \in Workers : Consume(w, c) /\ job'[c] = [worker |-> w, pc |-> "claiming"]
            \/ /\ job'[c] = Idle
               /\ \E w \in Workers : (Crash(w) \/ DrainExit(w)) /\ job[c].worker = w
         /\ dlq' = dlq \/ \E d \in Copies : HandlerStep(d) /\ DeadLetter(d)
<1>1. WellFormed /\ CopiesKnown /\ TicksKnown /\ job \in [Copies -> Jobs]
  BY DEF Basic, WellFormed, HandlersTyped
<1>2. CASE UNCHANGED vars
  BY <1>2 DEF vars, server, process
<1>3. CASE ServerStep \/ SetCancelKey \/ GiveUp \/ ClaimExpires
  BY <1>3 DEF ServerStep, RouteTask, PublishTask, DeliverReply, SetCancelKey, GiveUp,
              ClaimExpires, server, process
<1>4. ASSUME NEW w \in Workers, NEW d \in Copies, Consume(w, d)
      PROVE  /\ dlq' = dlq
             /\ \/ job'[c] = job[c]
                \/ Consume(w, c) /\ job'[c] = [worker |-> w, pc |-> "claiming"]
  <2>1. /\ job'[d] = Idle \/ job'[d] = [worker |-> w, pc |-> "claiming"]
        /\ \A x \in Copies : x # d => job'[x] = job[x]
        /\ dlq' = dlq /\ job[d] = Idle
    BY <1>1, <1>4, ConsumeEffect
  <2>2. CASE c = d
    BY <1>4, <2>1, <2>2
  <2>3. CASE c # d
    BY <2>1, <2>3
  <2> QED BY <2>2, <2>3
<1>5. ASSUME NEW d \in Copies, HandlerStep(d)
      PROVE  /\ job'[c] = job[c] \/ HandlerStep(c)
             /\ dlq' = dlq \/ DeadLetter(d)
  <2>1. \A x \in Copies : x # d => job'[x] = job[x]
    BY <1>1, <1>5, HandlerEffect
  <2>2. dlq' = dlq \/ DeadLetter(d)
    BY <1>5 DEF HandlerStep, TryClaim, CheckCancel, Complete, FailAttempt, ReportError,
                Release, Acknowledge, DeletePayload, server
  <2> QED BY <1>5, <2>1, <2>2
<1>6. ASSUME NEW w \in Workers, Crash(w) \/ DrainExit(w)
      PROVE  dlq' = dlq /\ (job'[c] = job[c] \/ (job'[c] = Idle /\ job[c].worker = w))
  BY <1>6 DEF Crash, DrainExit, Gone, server
<1>7. ASSUME NEW w \in Workers,
             Shutdown(w) \/ Start(w) \/ Heartbeat(w) \/ HeartbeatExpires(w) \/ GraceElapses(w)
      PROVE  dlq' = dlq /\ job' = job
  BY <1>7 DEF Shutdown, Start, Heartbeat, HeartbeatExpires, GraceElapses, server, process
<1>8. ASSUME NEW r \in Reapers, BeginTick(r) \/ TickStep(r) \/ AbortTick(r)
      PROVE  dlq' = dlq /\ job' = job
  BY <1>8, ReaperFrame
<1> QED BY <1>2, <1>3, <1>4, <1>5, <1>6, <1>7, <1>8 DEF Next

\* The error is reported before the dead letter is written.
LEMMA DeadStep == Basic /\ DeadKnown /\ [Next]_vars => DeadKnown'
<1> SUFFICES ASSUME Basic, DeadKnown, [Next]_vars, spent'.fault = 0
             PROVE  /\ dlq' => Answered'
                    /\ \A c \in Copies : job'[c].pc \in {"dlq", "releasing"} => Answered'
  BY DEF DeadKnown
<1>1. WellFormed /\ replies \in Nat
  BY DEF Basic, WellFormed
<1>2. spent.fault = 0 /\ spent' \in Budgets
  BY <1>1, SpentGrows, BasicStep DEF Basic, WellFormed, HandlersTyped
<1>3. Answered => Answered'
  BY AnsweredStays
<1>4. dlq' => Answered'
  <2>1. ASSUME NEW d \in Copies, HandlerStep(d), DeadLetter(d) PROVE Answered
    BY <1>1, <1>2, <2>1, HandlerMoves DEF DeadKnown
  <2>2. CASE dlq' = dlq
    BY <1>2, <1>3, <2>2 DEF DeadKnown
  <2>3. CASE \E d \in Copies : HandlerStep(d) /\ DeadLetter(d)
    BY <1>3, <2>1, <2>3
  <2>4. CASE Copies = {}
    <3>1. dlq' = dlq
      BY <2>4, ZenonT(60) DEF Next, vars, server, ServerStep, RouteTask, PublishTask, DeliverReply,
        SetCancelKey, GiveUp, ClaimExpires, Crash, Shutdown, DrainExit, Start, Heartbeat,
        HeartbeatExpires, GraceElapses, BeginTick, TickStep, AbortTick, ReapShared, ListDone,
        Republish, Unhash, Unlink, ReapOwner, Inspect
    <3> QED BY <2>2, <3>1
  <2> QED BY <2>2, <2>3, <2>4, JobStep
<1>5. ASSUME NEW c \in Copies, job'[c].pc \in {"dlq", "releasing"} PROVE Answered'
  <2>1. CASE job'[c] = job[c]
    BY <1>2, <1>3, <1>5, <2>1 DEF DeadKnown
  <2>2. CASE HandlerStep(c)
    <3>1. ReportError(c) \/ DeadLetter(c)
      BY <1>1, <1>5, <2>2, HandlerMoves DEF HandlerStep
    <3>2. CASE DeadLetter(c)
      BY <1>1, <1>2, <1>3, <2>2, <3>2, HandlerMoves DEF DeadKnown
    <3>3. CASE ReportError(c)
      <4>1. replies' = replies + 1 \/ Fault
        BY <3>3 DEF ReportError
      <4>2. ~Fault
        BY <1>1, <1>2 DEF Fault, WellFormed, HandlersTyped, Budgets
      <4> QED BY <1>1, <4>1, <4>2 DEF Answered
    <3> QED BY <3>1, <3>2, <3>3
  <2>3. CASE job'[c] = Idle
    BY <1>5, <2>3 DEF Idle
  <2>4. ASSUME NEW w \in Workers, job'[c] = [worker |-> w, pc |-> "claiming"] PROVE FALSE
    BY <1>5, <2>4
  <2> QED BY <2>1, <2>2, <2>3, <2>4, JobStep
<1> QED BY <1>4, <1>5

\* finish_exhausted: a dead-lettered operation was answered, unless a call failed.
THEOREM DeadLettersAnswered == Spec => []DeadLetterAnswered
<1>1. Init => Basic /\ DeadKnown
  <2> SUFFICES ASSUME Init PROVE DeadKnown
    BY BasicInit
  <2> QED BY DEF Init, DeadKnown, Idle
<1>2. Basic /\ DeadKnown /\ [Next]_vars => (Basic /\ DeadKnown)'
  BY BasicStep, DeadStep
<1>3. Basic /\ DeadKnown => DeadLetterAnswered
  <2> SUFFICES ASSUME Basic, DeadKnown, dlq, ~(spent.fault > 0)
               PROVE  replies > 0 \/ host # "waiting"
    BY DEF DeadLetterAnswered
  <2>1. spent.fault = 0
    BY DEF Basic, WellFormed, HandlersTyped, Budgets
  <2> QED BY <2>1 DEF DeadKnown, Answered
<1> QED BY <1>1, <1>2, <1>3, PTL DEF Spec

-----------------------------------------------------------------------------
(* One worker at a time *)

\* No heartbeat or claim lapsed under a running worker, and none was restarted.
Steady == spent.lapse = 0 /\ spent.restart = 0

\* A handler belongs to a running process.
HandlersUp == \A c \in Copies : job[c] # Idle => mode[job[c].worker] # "down"

\* Whoever has no heartbeat is gone, also for a reaper that looked earlier.
BeatsKnown ==
  Steady => /\ \A w \in Workers : w \notin hb => mode[w] = "down"
            /\ \A r \in Reapers : tick[r].pc # "idle" => hb \subseteq tick[r].live

\* A step of a worker process.
ProcessStep(w) ==
  \/ Crash(w) \/ Shutdown(w) \/ DrainExit(w) \/ Start(w)
  \/ Heartbeat(w) \/ HeartbeatExpires(w) \/ GraceElapses(w)

\* What the other steps leave alone.
LEMMA ProcessFrame ==
  ASSUME Basic, [Next]_vars, \A w \in Workers : ~ProcessStep(w)
  PROVE  hb' = hb /\ mode' = mode
<1>1. WellFormed /\ CopiesKnown /\ TicksKnown
  BY DEF Basic
<1>2. CASE UNCHANGED vars
  BY <1>2 DEF vars, process
<1>3. CASE ServerStep \/ SetCancelKey \/ GiveUp \/ ClaimExpires
  BY <1>3 DEF ServerStep, RouteTask, PublishTask, DeliverReply, SetCancelKey, GiveUp,
              ClaimExpires, process
<1>4. ASSUME NEW w \in Workers, NEW d \in Copies, Consume(w, d) PROVE hb' = hb /\ mode' = mode
  BY <1>1, <1>4, ConsumeEffect
<1>5. ASSUME NEW d \in Copies, HandlerStep(d) PROVE hb' = hb /\ mode' = mode
  BY <1>1, <1>5, HandlerEffect
<1>6. ASSUME NEW r \in Reapers, BeginTick(r) \/ TickStep(r) \/ AbortTick(r)
      PROVE  hb' = hb /\ mode' = mode
  BY <1>6, ReaperFrame
<1> QED BY <1>2, <1>3, <1>4, <1>5, <1>6 DEF Next, ProcessStep

\* What a step of a process does to it; a steady one neither starts nor lapses.
LEMMA ProcessEffect ==
  ASSUME Basic, NEW w \in Workers, ProcessStep(w)
  PROVE  /\ UNCHANGED <<host, route, replies, dlq, cancelKey, at, hash, copies, claim, tick>>
         /\ \A v \in Workers : v # w => mode'[v] = mode[v] /\ (v \in hb' <=> v \in hb)
         /\ \A c \in Copies : job'[c] = job[c] \/ (job'[c] = Idle /\ mode'[w] = "down")
         /\ mode'[w] = "down" /\ mode[w] # "down" =>
              \A c \in Copies : job[c].worker = w => job'[c] = Idle
         /\ mode[w] = "down" /\ mode'[w] # "down" => ~Steady'
         /\ w \in hb /\ w \notin hb' => mode'[w] = "down" \/ ~Steady'
         /\ w \in hb' /\ w \notin hb => mode[w] # "down" /\ mode'[w] # "down"
         /\ Steady' /\ mode[w] = "up" /\ mode'[w] # "up" => Crashing
         /\ Steady' => mode'[w] # "up" \/ mode[w] = "up"
<1>1. /\ job \in [Copies -> Jobs] /\ mode \in [Workers -> {"up", "draining", "down"}]
      /\ hb \subseteq Workers /\ spent \in Budgets
  BY DEF Basic, WellFormed, HandlersTyped
<1>2. ~(Lapsing /\ Steady') /\ ~(Restarting /\ Steady')
  BY <1>1 DEF Steady, Lapsing, Restarting, Budgets
<1>3. UNCHANGED <<host, route, replies, dlq, cancelKey, at, hash, copies, claim, tick>>
  BY DEF ProcessStep, Crash, Shutdown, DrainExit, Start, Heartbeat, HeartbeatExpires,
         GraceElapses, server, broker
<1> USE DEF process
<1>4. CASE Crash(w)
  BY <1>1, <1>3, <1>4 DEF Crash, Gone
<1>5. CASE DrainExit(w)
  BY <1>1, <1>3, <1>5 DEF DrainExit, Gone
<1>6. CASE Shutdown(w)
  BY <1>1, <1>3, <1>6 DEF Shutdown
<1>7. CASE Start(w)
  BY <1>1, <1>2, <1>3, <1>7 DEF Start
<1>8. CASE Heartbeat(w)
  BY <1>1, <1>3, <1>8 DEF Heartbeat
<1>9. CASE HeartbeatExpires(w)
  BY <1>1, <1>2, <1>3, <1>9 DEF HeartbeatExpires
<1>10. CASE GraceElapses(w)
  BY <1>1, <1>3, <1>10 DEF GraceElapses
<1> QED BY <1>4, <1>5, <1>6, <1>7, <1>8, <1>9, <1>10 DEF ProcessStep

\* A steady step follows a steady state.
LEMMA SteadyBefore ==
  ASSUME Basic, [Next]_vars, Steady'
  PROVE  Steady
<1>1. spent' \in Budgets
  BY BasicStep DEF Basic, WellFormed, HandlersTyped
<1> QED BY <1>1, SpentGrows DEF Basic, Steady, Budgets

\* A process takes its handlers with it.
LEMMA HandlersUpStep == Basic /\ HandlersUp /\ [Next]_vars => HandlersUp'
<1> SUFFICES ASSUME Basic, HandlersUp, [Next]_vars, NEW c \in Copies, job'[c] # Idle
             PROVE  mode'[job'[c].worker] # "down"
  BY DEF HandlersUp
<1>1. WellFormed /\ CopiesKnown /\ job \in [Copies -> Jobs]
  BY DEF Basic, WellFormed, HandlersTyped
<1>2. ASSUME NEW w \in Workers, ProcessStep(w) PROVE mode'[job'[c].worker] # "down"
  <2>1. /\ \A v \in Workers : v # w => mode'[v] = mode[v]
        /\ job'[c] = job[c]
        /\ mode'[w] = "down" /\ mode[w] # "down" => job[c].worker # w
    BY <1>2, ProcessEffect
  <2>2. mode[job[c].worker] # "down" /\ job[c].worker \in Workers
    BY <1>1, <2>1 DEF HandlersUp, Jobs
  <2> QED BY <2>1, <2>2
<1>3. ASSUME \A w \in Workers : ~ProcessStep(w) PROVE mode'[job'[c].worker] # "down"
  <2>1. mode' = mode
    BY <1>3, ProcessFrame
  <2>2. CASE job'[c] = job[c]
    BY <2>1, <2>2 DEF HandlersUp
  <2>3. CASE HandlerStep(c)
    <3>1. job'[c].worker = job[c].worker /\ job[c] # Idle
      BY <1>1, <2>3, HandlerEffect DEF Idle, HandlerSteps
    <3> QED BY <2>1, <3>1 DEF HandlersUp
  <2>4. ASSUME NEW w \in Workers, Consume(w, c), job'[c] = [worker |-> w, pc |-> "claiming"]
        PROVE  mode'[job'[c].worker] # "down"
    BY <1>1, <2>1, <2>4, ConsumeEffect
  <2> QED BY <2>2, <2>3, <2>4, JobStep
<1> QED BY <1>2, <1>3

\* A steady worker loses its heartbeat by its death only, and gets none after it.
LEMMA BeatsStep == Basic /\ BeatsKnown /\ [Next]_vars => BeatsKnown'
<1> SUFFICES ASSUME Basic, BeatsKnown, [Next]_vars, Steady'
             PROVE  /\ \A w \in Workers : w \notin hb' => mode'[w] = "down"
                    /\ \A r \in Reapers : tick'[r].pc # "idle" => hb' \subseteq tick'[r].live
  BY DEF BeatsKnown
<1>1. /\ WellFormed /\ CopiesKnown /\ TicksKnown /\ hb \subseteq Workers
      /\ WellFormed' /\ hb' \subseteq Workers
  BY BasicStep DEF Basic, WellFormed
<1>2. /\ \A w \in Workers : w \notin hb => mode[w] = "down"
      /\ \A r \in Reapers : tick[r].pc # "idle" => hb \subseteq tick[r].live
  BY SteadyBefore DEF BeatsKnown
<1>3. ASSUME NEW w \in Workers, ProcessStep(w)
      PROVE  /\ \A v \in Workers : v \notin hb' => mode'[v] = "down"
             /\ hb' \subseteq hb /\ tick' = tick
  <2>1. /\ tick' = tick
        /\ \A v \in Workers : v # w => mode'[v] = mode[v] /\ (v \in hb' <=> v \in hb)
        /\ mode[w] = "down" /\ mode'[w] # "down" => ~Steady'
        /\ w \in hb /\ w \notin hb' => mode'[w] = "down" \/ ~Steady'
        /\ w \in hb' /\ w \notin hb => mode[w] # "down" /\ mode'[w] # "down"
    BY <1>3, ProcessEffect
  <2>2. ASSUME NEW v \in Workers, v \notin hb' PROVE mode'[v] = "down"
    BY <1>2, <2>1, <2>2
  <2>3. \A v \in Workers : v \in hb' => v \in hb
    BY <1>2, <2>1
  <2> QED BY <1>1, <2>1, <2>2, <2>3
<1>4. ASSUME NEW r \in Reapers, BeginTick(r) \/ TickStep(r) \/ AbortTick(r), NEW q \in Reapers,
             tick'[q].pc # "idle"
      PROVE  hb' = hb /\ mode' = mode /\ hb' \subseteq tick'[q].live
  <2>1. hb' = hb /\ mode' = mode
    BY <1>4, ReaperFrame
  <2>2. /\ q # r => tick'[q] = tick[q]
        /\ tick'[r].pc # "idle" =>
              \/ tick'[r].live = hb
              \/ tick[r].pc # "idle" /\ tick'[r].live = tick[r].live
    BY <1>1, <1>4, ReaperEffect
  <2> QED BY <1>2, <1>4, <2>1, <2>2
<1>5. ASSUME \A w \in Workers : ~ProcessStep(w) PROVE hb' = hb /\ mode' = mode
  BY <1>5, ProcessFrame
<1>6. \/ tick' = tick \/ \E r \in Reapers : BeginTick(r) \/ TickStep(r) \/ AbortTick(r)
  <2>1. CASE UNCHANGED vars
    BY <2>1 DEF vars
  <2>2. CASE ServerStep \/ SetCancelKey \/ GiveUp \/ ClaimExpires
    BY <2>2 DEF ServerStep, RouteTask, PublishTask, DeliverReply, SetCancelKey, GiveUp,
                ClaimExpires
  <2>3. ASSUME NEW w \in Workers, NEW d \in Copies, Consume(w, d) PROVE tick' = tick
    BY <2>3 DEF Consume
  <2>4. ASSUME NEW d \in Copies, HandlerStep(d) PROVE tick' = tick
    BY <1>1, <2>4, HandlerEffect
  <2>5. ASSUME NEW w \in Workers, ProcessStep(w) PROVE tick' = tick
    BY <1>3, <2>5
  <2> QED BY <2>1, <2>2, <2>3, <2>4, <2>5 DEF Next, ProcessStep
<1>7. \A w \in Workers : w \notin hb' => mode'[w] = "down"
  BY <1>2, <1>3, <1>5
<1>8. ASSUME NEW q \in Reapers, tick'[q].pc # "idle" PROVE hb' \subseteq tick'[q].live
  <2>1. hb' \subseteq hb
    BY <1>3, <1>5
  <2> QED BY <1>2, <1>4, <1>6, <1>8, <2>1
<1> QED BY <1>7, <1>8

\* While nothing failed, a handler past the claim runs under its worker's claim, and a
\* handler gives the claim up only after the task is dead-lettered.
ClaimKnown ==
  Steady /\ spent.fault = 0 =>
    \A c \in Copies : /\ job[c].pc = "releasing" => dlq
                      /\ InHand(c) /\ ~dlq => claim = job[c].worker

\* Who changes the claim: its TTL, a handler that takes it or one that releases it.
LEMMA ClaimStep ==
  ASSUME Basic, [Next]_vars
  PROVE  \/ claim' = claim
         \/ Lapsing /\ UNCHANGED <<at, hash, copies, job, tick>>
         \/ \E d \in Copies : /\ HandlerStep(d) /\ TryClaim(d) /\ spent' = spent
                              /\ claim' = job[d].worker /\ Holdable(job[d].worker)
                              /\ job'[d].pc = "checking"
         \/ \E d \in Copies : HandlerStep(d) /\ Release(d) /\ claim' = Released(job[d].worker)
<1>1. WellFormed /\ CopiesKnown /\ TicksKnown
  BY DEF Basic
<1>2. CASE UNCHANGED vars
  BY <1>2 DEF vars
<1>3. CASE ServerStep \/ SetCancelKey \/ GiveUp
  BY <1>3 DEF ServerStep, RouteTask, PublishTask, DeliverReply, SetCancelKey, GiveUp
<1>4. CASE ClaimExpires
  BY <1>4 DEF ClaimExpires, broker, process
<1>5. ASSUME NEW w \in Workers, NEW d \in Copies, Consume(w, d) PROVE claim' = claim
  BY <1>5 DEF Consume
<1>6. ASSUME NEW d \in Copies, HandlerStep(d)
      PROVE  \/ claim' = claim
             \/ /\ TryClaim(d) /\ spent' = spent /\ claim' = job[d].worker
                /\ Holdable(job[d].worker) /\ job'[d].pc = "checking"
             \/ Release(d) /\ claim' = Released(job[d].worker)
  <2>1. CASE TryClaim(d)
    <3>1. job \in [Copies -> Jobs] /\ job[d] \in [worker : Workers, pc : HandlerSteps]
      BY <1>1, <1>6, HandlerEffect DEF WellFormed, HandlersTyped
    <3>2. ASSUME Step(d, "claiming", "checking") PROVE job'[d].pc = "checking"
      BY <3>1, <3>2 DEF Step
    <3> QED BY <2>1, <3>2 DEF TryClaim, NoFault
  <2>2. CASE Release(d)
    BY <2>2 DEF Release
  <2>3. CASE ~TryClaim(d) /\ ~Release(d)
    BY <1>6, <2>3 DEF HandlerStep, CheckCancel, Complete, FailAttempt, ReportError, DeadLetter,
                      Acknowledge, DeletePayload
  <2> QED BY <2>1, <2>2, <2>3
<1>7. ASSUME NEW w \in Workers, ProcessStep(w) PROVE claim' = claim
  BY <1>7, ProcessEffect
<1>8. ASSUME NEW r \in Reapers, BeginTick(r) \/ TickStep(r) \/ AbortTick(r) PROVE claim' = claim
  BY <1>8, ReaperFrame
<1> QED BY <1>2, <1>3, <1>4, <1>5, <1>6, <1>7, <1>8 DEF Next, ProcessStep

\* A handler that goes on was in hand before, or has just claimed.
LEMMA InHandStep ==
  ASSUME Basic, [Next]_vars, NEW c \in Copies, InHand(c)'
  PROVE  \/ InHand(c) /\ job'[c].worker = job[c].worker
         \/ HandlerStep(c) /\ TryClaim(c) /\ job'[c].worker = job[c].worker
<1>1. WellFormed
  BY DEF Basic
<1>2. CASE job'[c] = job[c]
  BY <1>2 DEF InHand
<1>3. CASE HandlerStep(c)
  <2>1. job'[c] # Idle
    BY DEF InHand, Idle
  <2>2. job'[c].worker = job[c].worker
    BY <1>1, <1>3, <2>1, HandlerEffect
  <2>3. InHand(c) \/ TryClaim(c)
    BY <1>1, <1>3, HandlerMoves DEF InHand, HandlerStep
  <2> QED BY <1>3, <2>2, <2>3
<1>4. CASE job'[c] = Idle
  BY <1>4 DEF InHand, Idle
<1>5. ASSUME NEW w \in Workers, job'[c] = [worker |-> w, pc |-> "claiming"] PROVE FALSE
  BY <1>5 DEF InHand
<1> QED BY <1>2, <1>3, <1>4, <1>5, JobStep

\* A dead letter stays.
LEMMA DeadLetterStays ==
  ASSUME Basic, [Next]_vars, dlq
  PROVE  dlq'
<1>1. CASE dlq' = dlq
  BY <1>1
<1>2. ASSUME NEW d \in Copies, DeadLetter(d) PROVE dlq'
  BY <1>2 DEF DeadLetter
<1>3. CASE Copies = {}
  BY <1>3, ZenonT(60) DEF Next, vars, server, ServerStep, RouteTask, PublishTask, DeliverReply,
    SetCancelKey, GiveUp, ClaimExpires, Crash, Shutdown, DrainExit, Start, Heartbeat,
    HeartbeatExpires, GraceElapses, BeginTick, TickStep, AbortTick, ReapShared, ListDone,
    Republish, Unhash, Unlink, ReapOwner, Inspect
<1> QED BY <1>1, <1>2, <1>3, JobStep

\* CLAIM_SCRIPT takes a claim from the dead only, and who holds it is alive.
LEMMA ClaimKnownStep ==
  Basic /\ HandlersUp /\ BeatsKnown /\ ClaimKnown /\ [Next]_vars => ClaimKnown'
<1> SUFFICES ASSUME Basic, HandlersUp, BeatsKnown, ClaimKnown, [Next]_vars,
                    Steady', spent'.fault = 0, NEW c \in Copies
             PROVE  /\ job'[c].pc = "releasing" => dlq'
                    /\ InHand(c)' /\ ~dlq' => claim' = job'[c].worker
  BY DEF ClaimKnown
<1>1. WellFormed /\ job \in [Copies -> Jobs] /\ spent \in Budgets /\ NoWorker \notin Workers
  BY Bounds DEF Basic, WellFormed, HandlersTyped
<1>2. Steady /\ spent.fault = 0
  <2>1. spent' \in Budgets
    BY BasicStep DEF Basic, WellFormed, HandlersTyped
  <2> QED BY <1>1, <2>1, SteadyBefore, SpentGrows DEF Budgets
<1>3. ~Fault /\ ~Lapsing
  BY <1>1, <1>2 DEF Fault, Lapsing, Steady, Budgets
<1>4. ASSUME job'[c].pc = "releasing" PROVE dlq'
  <2>1. CASE job'[c] = job[c]
    BY <1>2, <1>4, <2>1, DeadLetterStays DEF ClaimKnown
  <2>2. CASE HandlerStep(c)
    <3>1. DeadLetter(c)
      BY <1>1, <1>4, <2>2, HandlerMoves DEF HandlerStep
    <3> QED BY <1>3, <3>1 DEF DeadLetter
  <2>3. CASE job'[c] = Idle
    BY <1>4, <2>3 DEF Idle
  <2>4. ASSUME NEW w \in Workers, job'[c] = [worker |-> w, pc |-> "claiming"] PROVE FALSE
    BY <1>4, <2>4
  <2> QED BY <2>1, <2>2, <2>3, <2>4, JobStep
<1>5. ASSUME InHand(c)', ~dlq' PROVE claim' = job'[c].worker
  <2>1. ~dlq
    BY <1>5, DeadLetterStays
  <2>2. CASE InHand(c) /\ job'[c].worker = job[c].worker
    <3>1. claim = job[c].worker /\ job[c] # Idle
      BY <1>2, <2>1, <2>2 DEF ClaimKnown, InHand, Idle
    <3>2. claim \in Workers /\ claim \in hb
      <4>1. mode[claim] # "down" /\ claim \in Workers
        BY <1>1, <3>1 DEF HandlersUp, Jobs
      <4> QED BY <1>2, <4>1 DEF BeatsKnown
    <3>3. ASSUME NEW d \in Copies, HandlerStep(d), claim' = job[d].worker,
                 Holdable(job[d].worker)
          PROVE  claim' = claim
      BY <1>1, <3>2, <3>3 DEF Holdable
    <3>4. ASSUME NEW d \in Copies, HandlerStep(d), Release(d) PROVE FALSE
      <4>1. job[d].pc = "releasing"
        BY <1>1, <3>4, HandlerMoves
      <4> QED BY <1>2, <2>1, <4>1 DEF ClaimKnown
    <3> QED BY <1>3, <2>2, <3>1, <3>3, <3>4, ClaimStep
  <2>3. CASE HandlerStep(c) /\ TryClaim(c) /\ job'[c].worker = job[c].worker
    <3>1. job'[c].pc # "acking"
      BY <1>5 DEF InHand
    <3>2. ~Step(c, "claiming", "acking")
      <4>1. job[c] \in [worker : Workers, pc : HandlerSteps]
        BY <1>1, <2>3, HandlerEffect
      <4> QED BY <1>1, <3>1, <4>1 DEF Step
    <3> QED BY <1>3, <2>3, <3>2 DEF TryClaim
  <2> QED BY <1>5, <2>2, <2>3, InHandStep
<1> QED BY <1>4, <1>5

\* The dedup claim: as long as no worker restarts and no heartbeat or claim lapses under
\* a running one, an operation never runs on two workers at the same time, whatever
\* crashes, shuts down, is requeued or is redelivered. Without the condition the claim
\* itself does not decide it: it may be stolen from a worker whose heartbeat lapsed.
THEOREM OneWorkerAtATime == Spec => [](Steady => OneWorker)
<1> DEFINE Inv == Basic /\ HandlersUp /\ BeatsKnown /\ ClaimKnown
<1>1. Init => Inv
  <2> SUFFICES ASSUME Init PROVE HandlersUp /\ BeatsKnown /\ ClaimKnown
    BY BasicInit
  <2>1. HandlersUp /\ ClaimKnown
    BY DEF Init, HandlersUp, ClaimKnown, InHand, Idle
  <2>2. BeatsKnown
    BY DEF Init, BeatsKnown, NoTick
  <2> QED BY <2>1, <2>2
<1>2. Inv /\ [Next]_vars => Inv'
  BY BasicStep, HandlersUpStep, BeatsStep, ClaimKnownStep
<1>3. Inv => (Steady => OneWorker)
  <2> SUFFICES ASSUME Inv, Steady, ~dlq, ~(spent.fault > 0), NEW c \in Copies, NEW d \in Copies,
                      job[c].pc = "running", job[d].pc = "running"
               PROVE  job[c].worker = job[d].worker
    BY DEF OneWorker
  <2>1. spent.fault = 0
    BY DEF Basic, WellFormed, HandlersTyped, Budgets
  <2> QED BY <2>1 DEF ClaimKnown, InHand
<1> QED BY <1>1, <1>2, <1>3, PTL DEF Spec

-----------------------------------------------------------------------------
(* An operation is not lost *)

\* At most one worker dies and one call to Redis or to the broker fails.
FewFailures == Steady /\ spent.crash <= 1 /\ spent.fault <= 1

OneDown ==
  FewFailures => /\ \A w, v \in Workers : mode[w] # "up" /\ mode[v] # "up" => w = v
                 /\ spent.crash = 0 => \A w \in Workers : mode[w] = "up"

\* Before the heartbeat of a dead worker runs out nothing is requeued: there is the one
\* copy that the server published, it is claimed by its handler only, and a handler
\* leaves pointer and payload where they are until it acknowledges.
AllBeat ==
  Steady /\ hb = Workers =>
    /\ copies <= 1
    /\ \A c \in Copies : at[c].list = "queue" \/ job[c].pc = "claiming" => claim = NoWorker
    /\ \A c \in Copies : job[c].pc \notin {"none", "deleting"} =>
                           at[c].list = "processing" /\ hash[c]

Settled == replies > 0 \/ dlq

\* A failure is dead-lettered after it was reported.
Reported == Awaited => \A c \in Copies : job[c].pc = "dlq" => Settled \/ spent.fault > 0

\* A copy found claimed by a running worker may be dropped: that worker has a handler.
Holder ==
  FewFailures /\ Awaited =>
    \A w \in Workers : claim = w /\ mode[w] # "down" =>
      Settled \/ \E c \in Copies : InHand(c) /\ job[c].worker = w

\* A copy that will be executed: no handler is about to remove it, nor a reaper.
Good(c) ==
  \/ InHand(c)
  \/ /\ InBroker(c) /\ job[c].pc \notin {"releasing", "acking", "deleting"}
     /\ \A r \in Reapers : ~(tick[r].pc = "unhash" /\ tick[r].cur = c)

Kept == FewFailures /\ Awaited => Settled \/ \E c \in Copies : Good(c)

\* Failures are only added.
LEMMA FewBefore ==
  ASSUME Basic, [Next]_vars, FewFailures'
  PROVE  FewFailures /\ ~Lapsing /\ spent' \in Budgets
<1>1. spent \in Budgets /\ spent' \in Budgets
  BY BasicStep DEF Basic, WellFormed, HandlersTyped
<1>2. Steady /\ Steady'
  BY SteadyBefore DEF FewFailures
<1>3. spent.crash <= 1 /\ spent.fault <= 1
  BY <1>1, SpentGrows DEF Basic, FewFailures, Budgets
<1>4. ~Lapsing
  BY <1>1, <1>2 DEF Steady, Lapsing, Budgets
<1> QED BY <1>1, <1>2, <1>3, <1>4 DEF FewFailures

\* The one worker that is not up is the one that crashed or was shut down.
LEMMA OneDownStep == Basic /\ OneDown /\ [Next]_vars => OneDown'
<1> SUFFICES ASSUME Basic, OneDown, [Next]_vars, FewFailures'
             PROVE  /\ \A w, v \in Workers : mode'[w] # "up" /\ mode'[v] # "up" => w = v
                    /\ spent'.crash = 0 => \A w \in Workers : mode'[w] = "up"
  BY DEF OneDown
<1>1. FewFailures /\ Steady' /\ spent \in Budgets /\ spent' \in Budgets
  BY FewBefore DEF Basic, WellFormed, HandlersTyped, FewFailures
<1>2. /\ \A w, v \in Workers : mode[w] # "up" /\ mode[v] # "up" => w = v
      /\ spent.crash = 0 => \A w \in Workers : mode[w] = "up"
  BY <1>1 DEF OneDown
<1>3. spent'.crash = 0 => spent.crash = 0
  BY <1>1, SpentGrows DEF Basic, Budgets
<1>4. Crashing => spent.crash = 0 /\ spent'.crash = 1
  BY <1>1 DEF Crashing, FewFailures, Budgets
<1>5. CASE mode' = mode
  BY <1>2, <1>3, <1>5
<1>6. ASSUME NEW w \in Workers, ProcessStep(w)
      PROVE  /\ \A u, v \in Workers : mode'[u] # "up" /\ mode'[v] # "up" => u = v
             /\ spent'.crash = 0 => \A v \in Workers : mode'[v] = "up"
  <2>1. /\ \A v \in Workers : v # w => mode'[v] = mode[v]
        /\ mode[w] = "up" /\ mode'[w] # "up" => Crashing
        /\ mode'[w] # "up" \/ mode[w] = "up"
    BY <1>1, <1>6, ProcessEffect
  <2>2. CASE mode[w] = "up" /\ mode'[w] # "up"
    <3>1. spent'.crash # 0 /\ \A v \in Workers : mode[v] = "up"
      BY <1>2, <1>4, <2>1, <2>2
    <3> QED BY <2>1, <3>1
  <2>3. CASE mode[w] # "up" /\ mode'[w] # "up"
    BY <1>2, <1>3, <2>1, <2>3
  <2>4. CASE mode[w] = "up" /\ mode'[w] = "up"
    BY <1>2, <1>3, <2>1, <2>4
  <2> QED BY <2>1, <2>2, <2>3, <2>4
<1> QED BY <1>5, <1>6, ProcessFrame

\* A steady worker gets no heartbeat after it lost it.
LEMMA BeatsShrink ==
  ASSUME Basic, BeatsKnown, [Next]_vars, Steady'
  PROVE  hb' \subseteq hb
<1>1. hb \subseteq Workers /\ hb' \subseteq Workers /\ Steady
  BY BasicStep, SteadyBefore DEF Basic, WellFormed
<1>2. ASSUME NEW w \in Workers, ProcessStep(w), NEW v \in Workers, v \in hb' PROVE v \in hb
  <2>1. /\ v # w => (v \in hb' <=> v \in hb)
        /\ w \in hb' /\ w \notin hb => mode[w] # "down"
    BY <1>2, ProcessEffect
  <2> QED BY <1>1, <1>2, <2>1 DEF BeatsKnown
<1> QED BY <1>1, <1>2, ProcessFrame

\* While every worker has a heartbeat no reaper requeues.
LEMMA NoRequeue ==
  ASSUME Basic, BeatsKnown, Steady, hb = Workers, NEW r \in Reapers
  PROVE  tick[r].pc \notin {"publish", "unhash", "unlink"}
<1>1. /\ tick[r] \in TickRow /\ tick[r].ready \cap tick[r].live = {}
      /\ tick[r].pc \in {"publish", "unhash", "unlink"} => tick[r].ready # {}
  BY DEF Basic, WellFormed, TicksKnown, TickKnown, TickFits
<1>2. tick[r].pc # "idle" => Workers \subseteq tick[r].live
  BY DEF BeatsKnown
<1>3. tick[r].ready \subseteq Workers
  BY <1>1 DEF TickRow
<1> QED BY <1>1, <1>2, <1>3

\* The copies after a step: one more is published, or none.
LEMMA CopiesStep ==
  ASSUME Basic, [Next]_vars
  PROVE  \/ copies' = copies
         \/ /\ job' = job /\ tick' = tick /\ claim' = claim
            /\ \E q \in Places : Publish(q) /\ q.list = "queue"
            /\ host = "publishing"
         \/ /\ job' = job /\ claim' = claim /\ \E q \in Places : Publish(q) /\ q.list = "queue"
            /\ \E r \in Reapers : tick[r].pc = "publish"
<1>1. WellFormed /\ CopiesKnown /\ TicksKnown
  BY DEF Basic
<1>2. CASE UNCHANGED vars
  BY <1>2 DEF vars, broker
<1>3. CASE RouteTask \/ DeliverReply \/ SetCancelKey \/ GiveUp \/ ClaimExpires
  BY <1>3 DEF RouteTask, DeliverReply, SetCancelKey, GiveUp, ClaimExpires, broker
<1>4. CASE PublishTask
  <2>1. job' = job /\ tick' = tick /\ claim' = claim /\ host = "publishing"
    BY <1>4 DEF PublishTask, process
  <2>2. Queue(route) \in Places /\ Queue(route).list = "queue"
    BY <1>1, PlacesKnown DEF WellFormed, Queue
  <2>3. CASE UNCHANGED broker
    BY <2>3 DEF broker
  <2> QED BY <1>4, <2>1, <2>2, <2>3 DEF PublishTask, FailedPublish
<1>5. ASSUME NEW w \in Workers, NEW d \in Copies, Consume(w, d) PROVE copies' = copies
  BY <1>5 DEF Consume
<1>6. ASSUME NEW d \in Copies, HandlerStep(d) PROVE copies' = copies
  BY <1>1, <1>6, HandlerEffect
<1>7. ASSUME NEW w \in Workers, ProcessStep(w) PROVE copies' = copies
  BY <1>7, ProcessEffect
<1>8. ASSUME NEW r \in Reapers, BeginTick(r) \/ TickStep(r) \/ AbortTick(r)
      PROVE  \/ copies' = copies
             \/ /\ job' = job /\ claim' = claim /\ tick[r].pc = "publish"
                /\ \E q \in Places : Publish(q) /\ q.list = "queue"
  <2>1. job' = job /\ claim' = claim
    BY <1>8, ReaperFrame
  <2>2. Queue(NoWorker) \in Places /\ Queue(NoWorker).list = "queue"
    BY PlacesKnown DEF Owners, Queue
  <2> QED BY <1>1, <1>8, <2>1, <2>2, ReaperEffect
<1> QED BY <1>2, <1>3, <1>4, <1>5, <1>6, <1>7, <1>8 DEF Next, ServerStep, ProcessStep

\* Who moves the pointer of a published copy or deletes its payload.
LEMMA PlaceStep ==
  ASSUME Basic, [Next]_vars, NEW c \in Copies, c <= copies
  PROVE  \/ at'[c] = at[c] /\ hash'[c] = hash[c]
         \/ \E w \in Workers : Consume(w, c)
         \/ HandlerStep(c)
         \/ /\ job' = job
            /\ hash'[c] = hash[c] \/ \E r \in Reapers : tick[r].pc = "unhash" /\ tick[r].cur = c
            /\ at'[c] = at[c] \/ (at'[c] = Nowhere /\ ~hash[c])
<1>1. WellFormed /\ CopiesKnown /\ TicksKnown /\ copies \in Nat
  BY Bounds DEF Basic, WellFormed
<1>2. ASSUME NEW q \in Places, Publish(q) PROVE at'[c] = at[c] /\ hash'[c] = hash[c]
  <2>1. /\ copies' = copies + 1
        /\ \A d \in Copies : d # copies' => at'[d] = at[d] /\ hash'[d] = hash[d]
    BY <1>1, <1>2, PublishEffect
  <2>2. c # copies'
    BY <1>1, <2>1 DEF Copies
  <2> QED BY <2>1, <2>2
<1>3. CASE UNCHANGED vars
  BY <1>3 DEF vars, broker
<1>4. CASE RouteTask \/ DeliverReply \/ SetCancelKey \/ GiveUp \/ ClaimExpires
  BY <1>4 DEF RouteTask, DeliverReply, SetCancelKey, GiveUp, ClaimExpires, broker
<1>5. CASE PublishTask
  <2>1. Queue(route) \in Places
    BY <1>1, PlacesKnown DEF WellFormed
  <2> QED BY <1>2, <1>5, <2>1 DEF PublishTask, FailedPublish, broker
<1>6. ASSUME NEW w \in Workers, NEW d \in Copies, Consume(w, d)
      PROVE  Consume(w, c) \/ (at'[c] = at[c] /\ hash'[c] = hash[c])
  <2>0. at \in [Copies -> Places]
    BY <1>1 DEF WellFormed
  <2>1. /\ \A x \in Copies : x # d => at'[x] = at[x]
        /\ hash' = hash
    BY <1>6, <2>0 DEF Consume
  <2> QED BY <1>6, <2>1
<1>7. ASSUME NEW d \in Copies, HandlerStep(d)
      PROVE  HandlerStep(c) \/ (at'[c] = at[c] /\ hash'[c] = hash[c])
  <2>1. \A x \in Copies : x # d => at'[x] = at[x] /\ hash'[x] = hash[x]
    BY <1>1, <1>7, HandlerEffect
  <2> QED BY <1>7, <2>1
<1>8. ASSUME NEW w \in Workers, ProcessStep(w) PROVE at' = at /\ hash' = hash
  BY <1>8, ProcessEffect
<1>9. ASSUME NEW r \in Reapers, BeginTick(r) \/ TickStep(r) \/ AbortTick(r)
      PROVE  \/ at'[c] = at[c] /\ hash'[c] = hash[c]
             \/ /\ job' = job
                /\ hash'[c] = hash[c] \/ (tick[r].pc = "unhash" /\ tick[r].cur = c)
                /\ at'[c] = at[c] \/ (at'[c] = Nowhere /\ ~hash[c])
  <2>1. job' = job
    BY <1>9, ReaperFrame
  <2>2. Queue(NoWorker) \in Places
    BY PlacesKnown DEF Owners
  <2>3. CASE Publish(Queue(NoWorker))
    BY <1>2, <2>2, <2>3
  <2>4. CASE ~Publish(Queue(NoWorker))
    <3>1. /\ hash'[c] = hash[c] \/ (tick[r].pc = "unhash" /\ tick[r].cur = c)
          /\ at'[c] = at[c] \/ (at'[c] = Nowhere /\ ~hash[c])
      BY <1>1, <1>9, <2>4, ReaperEffect
    <3> QED BY <2>1, <3>1
  <2> QED BY <2>3, <2>4
<1> QED BY <1>3, <1>4, <1>5, <1>6, <1>7, <1>8, <1>9 DEF Next, ServerStep, ProcessStep

\* A handler moves the pointer when it acknowledges and the payload after that.
LEMMA HandlerKeeps ==
  ASSUME Basic, NEW c \in Copies, HandlerStep(c), job'[c].pc \notin {"none", "deleting"}
  PROVE  at'[c] = at[c] /\ hash'[c] = hash[c] /\ job[c].pc \notin {"none", "deleting"}
<1>1. WellFormed
  BY DEF Basic
<1>2. ~Acknowledge(c) /\ ~DeletePayload(c)
  BY <1>1, HandlerMoves
<1>3. at' = at /\ hash' = hash
  BY <1>2 DEF HandlerStep, TryClaim, CheckCancel, Complete, FailAttempt, ReportError,
              DeadLetter, Release, broker
<1>4. job[c].pc \notin {"none", "deleting"}
  BY <1>1, <1>2, HandlerMoves DEF HandlerStep
<1> QED BY <1>3, <1>4

\* A handler that neither begins nor steps is left alone, or ends with its process.
LEMMA JobRests ==
  ASSUME Basic, [Next]_vars, NEW c \in Copies, ~HandlerStep(c),
         \A w \in Workers : ~Consume(w, c)
  PROVE  job'[c] = job[c] \/ job'[c] = Idle
<1>1. ASSUME NEW w \in Workers, Consume(w, c), job'[c] = [worker |-> w, pc |-> "claiming"]
      PROVE  FALSE
  BY <1>1
<1>2. CASE job'[c] = job[c]
  BY <1>2
<1>3. CASE job'[c] = Idle
  BY <1>3
<1> QED BY <1>1, <1>2, <1>3, JobStep

\* Until a heartbeat runs out the task has one copy and one handler.
LEMMA AllBeatStep == Basic /\ BeatsKnown /\ AllBeat /\ [Next]_vars => AllBeat'
<1> SUFFICES ASSUME Basic, BeatsKnown, AllBeat, [Next]_vars, Steady', hb' = Workers
             PROVE  /\ copies' <= 1
                    /\ \A c \in Copies :
                         at'[c].list = "queue" \/ job'[c].pc = "claiming" => claim' = NoWorker
                    /\ \A c \in Copies : job'[c].pc \notin {"none", "deleting"} =>
                                           at'[c].list = "processing" /\ hash'[c]
  BY DEF AllBeat
<1>1. /\ WellFormed /\ CopiesKnown /\ Unstarted /\ TicksKnown /\ copies \in Nat
      /\ CopiesKnown' /\ hb \subseteq Workers /\ spent \in Budgets /\ job \in [Copies -> Jobs]
      /\ claim \in Owners
  BY Bounds, BasicStep DEF Basic, WellFormed, HandlersTyped
<1>2. Steady /\ hb = Workers
  BY <1>1, SteadyBefore, BeatsShrink
<1>3. /\ copies <= 1
      /\ \A c \in Copies : at[c].list = "queue" \/ job[c].pc = "claiming" => claim = NoWorker
      /\ \A c \in Copies : job[c].pc \notin {"none", "deleting"} =>
                             at[c].list = "processing" /\ hash[c]
  BY <1>2 DEF AllBeat
<1>4. \A r \in Reapers : tick[r].pc \notin {"publish", "unhash", "unlink"}
  BY <1>2, NoRequeue
<1>5. CASE copies' # copies
  <2>1. PICK q \in Places : Publish(q)
    BY <1>5, CopiesStep
  <2>2. job' = job /\ claim' = claim /\ host = "publishing"
    BY <1>4, <1>5, CopiesStep
  <2>3. copies = 0 /\ claim = NoWorker /\ copies' = copies + 1
    BY <1>1, <2>1, <2>2 DEF Unstarted, Publish
  <2>4. ASSUME NEW c \in Copies PROVE job'[c].pc = "none"
    <3>1. c > copies
      BY <2>3 DEF Copies
    <3> QED BY <1>1, <2>2, <3>1 DEF CopiesKnown, Idle
  <2> QED BY <2>2, <2>3, <2>4
<1>6. CASE copies' = copies
  <2>1. ASSUME NEW c \in Copies, c > copies
        PROVE  at'[c].list # "queue" /\ job'[c].pc = "none"
    BY <1>1, <1>6, <2>1 DEF CopiesKnown, Nowhere, Idle
  <2>2. ASSUME NEW c \in Copies, c <= copies, job'[c].pc \notin {"none", "deleting"}
        PROVE  at'[c].list = "processing" /\ hash'[c]
    <3>1. CASE HandlerStep(c)
      BY <1>3, <2>2, <3>1, HandlerKeeps
    <3>2. ASSUME NEW w \in Workers, Consume(w, c) PROVE at'[c].list = "processing" /\ hash'[c]
      <4>1. /\ at'[c].list = "processing" /\ hash' = hash
            /\ job'[c] = Idle \/ hash[c]
        BY <1>1, <3>2, ConsumeEffect
      <4> QED BY <2>2, <4>1 DEF Idle
    <3>3. CASE ~HandlerStep(c) /\ \A w \in Workers : ~Consume(w, c)
      <4>1. job'[c] = job[c]
        BY <2>2, <3>3, JobRests DEF Idle
      <4>2. at[c].list = "processing" /\ hash[c]
        BY <1>3, <2>2, <4>1
      <4>3. at'[c] = at[c] /\ hash'[c] = hash[c]
        BY <1>4, <2>2, <3>3, <4>2, PlaceStep
      <4> QED BY <4>2, <4>3
    <3> QED BY <3>1, <3>2, <3>3
  <2>3. ASSUME NEW c \in Copies, c <= copies, at'[c].list = "queue" \/ job'[c].pc = "claiming"
        PROVE  (at[c].list = "queue" \/ job[c].pc = "claiming") /\ ~HandlerStep(c)
    <3>1. ~HandlerStep(c)
      <4> SUFFICES ASSUME HandlerStep(c) PROVE FALSE
        OBVIOUS
      <4>1. job'[c].pc # "claiming"
        BY <1>1, HandlerMoves DEF HandlerStep
      <4>2. at'[c] \in {at[c], Nowhere} /\ job[c] # Idle
        BY <1>1, HandlerEffect DEF Idle, HandlerSteps
      <4> QED BY <1>1, <2>3, <4>1, <4>2 DEF CopiesKnown, Nowhere
    <3>2. ASSUME NEW w \in Workers, Consume(w, c) PROVE at[c].list = "queue"
      BY <1>1, <3>2, ConsumeEffect
    <3>3. CASE \A w \in Workers : ~Consume(w, c)
      <4>1. job'[c] = job[c] \/ job'[c] = Idle
        BY <3>1, <3>3, JobRests
      <4>2. at'[c] = at[c] \/ at'[c].list # "queue"
        BY <2>3, <3>1, <3>3, PlaceStep DEF Nowhere
      <4> QED BY <2>3, <3>1, <4>1, <4>2 DEF Idle
    <3> QED BY <3>1, <3>2, <3>3
  <2>4. ASSUME NEW c \in Copies, c <= copies, at'[c].list = "queue" \/ job'[c].pc = "claiming"
        PROVE  claim' = NoWorker
    <3>1. claim = NoWorker /\ ~HandlerStep(c)
      BY <1>3, <2>3, <2>4
    <3>2. ASSUME NEW d \in Copies, HandlerStep(d) PROVE FALSE
      <4>1. d <= copies
        <5>1. job[d] # Idle
          BY <1>1, <3>2, HandlerEffect DEF Idle, HandlerSteps
        <5> QED BY <1>1, <5>1 DEF CopiesKnown, Copies
      <4>2. d = c
        BY <1>1, <1>3, <2>4, <4>1 DEF Copies
      <4> QED BY <3>1, <3>2, <4>2
    <3>3. ~Lapsing
      BY <1>1, <1>2 DEF Steady, Lapsing, Budgets
    <3> QED BY <3>1, <3>2, <3>3, ClaimStep
  <2>5. \A c \in Copies : at'[c].list = "queue" \/ job'[c].pc = "claiming" => claim' = NoWorker
    BY <1>1, <2>1, <2>4 DEF Copies
  <2>6. \A c \in Copies : job'[c].pc \notin {"none", "deleting"} =>
                             at'[c].list = "processing" /\ hash'[c]
    BY <1>1, <2>1, <2>2 DEF Copies
  <2> QED BY <1>3, <1>6, <2>5, <2>6
<1> QED BY <1>5, <1>6

\* A settled operation stays so while somebody waits for it.
LEMMA SettledStays ==
  ASSUME Basic, [Next]_vars, Awaited', Settled
  PROVE  Settled'
<1>1. CASE dlq
  BY <1>1, DeadLetterStays DEF Settled
<1>2. CASE replies > 0
  <2>1. Answered
    BY <1>2 DEF Answered
  <2> QED BY <2>1, AnsweredStays DEF Answered, Awaited, Settled
<1> QED BY <1>1, <1>2 DEF Settled

\* Somebody waits because somebody waited, or because the task was just published.
LEMMA AwaitedBefore ==
  ASSUME Basic, [Next]_vars, Awaited'
  PROVE  \/ Awaited
         \/ /\ Unstarted /\ host = "publishing"
            /\ job' = job /\ claim' = claim /\ tick' = tick
            /\ \E q \in Places : Publish(q) /\ q.list = "queue"
<1>1. WellFormed /\ CopiesKnown /\ Unstarted /\ TicksKnown
  BY DEF Basic
<1>2. CASE UNCHANGED <<host, cancelKey>>
  BY <1>2 DEF Awaited
<1>3. CASE RouteTask \/ GiveUp
  BY <1>3 DEF RouteTask, GiveUp, Awaited
<1>4. CASE SetCancelKey \/ DeliverReply
  BY <1>4 DEF SetCancelKey, DeliverReply, Awaited
<1>5. CASE PublishTask
  <2>1. Publish(Queue(route))
    BY <1>5 DEF PublishTask, Awaited
  <2>2. Queue(route) \in Places /\ Queue(route).list = "queue"
    BY <1>1, PlacesKnown DEF WellFormed, Queue
  <2>3. job' = job /\ claim' = claim /\ tick' = tick /\ host = "publishing"
    BY <1>5 DEF PublishTask, process
  <2> QED BY <1>1, <2>1, <2>2, <2>3
<1>6. CASE UNCHANGED vars \/ ClaimExpires
  BY <1>2, <1>6 DEF vars, ClaimExpires, server
<1>7. ASSUME NEW w \in Workers, NEW d \in Copies, Consume(w, d) PROVE UNCHANGED <<host, cancelKey>>
  BY <1>7 DEF Consume, server
<1>8. ASSUME NEW d \in Copies, HandlerStep(d) PROVE UNCHANGED <<host, cancelKey>>
  BY <1>1, <1>8, HandlerEffect
<1>9. ASSUME NEW w \in Workers, ProcessStep(w) PROVE UNCHANGED <<host, cancelKey>>
  BY <1>9, ProcessEffect
<1>10. ASSUME NEW r \in Reapers, BeginTick(r) \/ TickStep(r) \/ AbortTick(r)
       PROVE  UNCHANGED <<host, cancelKey>>
  BY <1>10, ReaperFrame
<1> QED
  BY <1>2, <1>3, <1>4, <1>5, <1>6, <1>7, <1>8, <1>9, <1>10 DEF Next, ServerStep, ProcessStep

\* The error result goes out before the dead letter, or a call failed.
LEMMA ReportedStep == Basic /\ Reported /\ [Next]_vars => Reported'
<1> SUFFICES ASSUME Basic, Reported, [Next]_vars, Awaited', NEW c \in Copies, job'[c].pc = "dlq"
             PROVE  Settled' \/ spent'.fault > 0
  BY DEF Reported
<1>1. WellFormed /\ CopiesKnown /\ replies \in Nat /\ spent \in Budgets /\ spent' \in Budgets
  BY BasicStep DEF Basic, WellFormed, HandlersTyped
<1>2. spent.fault > 0 => spent'.fault > 0
  BY <1>1, SpentGrows DEF Budgets
<1>3. CASE job'[c] = job[c]
  <2>1. CASE Awaited
    BY <1>2, <1>3, <2>1, SettledStays DEF Reported
  <2>2. CASE Unstarted /\ host = "publishing"
    <3>1. c > copies
      BY <2>2 DEF Unstarted, Copies
    <3> QED BY <1>1, <1>3, <3>1 DEF CopiesKnown, Idle
  <2> QED BY <2>1, <2>2, AwaitedBefore
<1>4. CASE HandlerStep(c)
  <2>1. ReportError(c)
    BY <1>1, <1>4, HandlerMoves DEF HandlerStep
  <2>2. CASE replies' = replies + 1
    BY <1>1, <2>2 DEF Settled
  <2>3. CASE Fault
    BY <1>1, <2>3 DEF Fault, Budgets
  <2> QED BY <2>1, <2>2, <2>3 DEF ReportError
<1>5. CASE job'[c] = Idle
  BY <1>5 DEF Idle
<1>6. ASSUME NEW w \in Workers, job'[c] = [worker |-> w, pc |-> "claiming"] PROVE FALSE
  BY <1>6
<1> QED BY <1>3, <1>4, <1>5, <1>6, JobStep

\* A handler past its claim goes on until the operation is settled.
LEMMA InHandGoesOn ==
  ASSUME Basic, Reported, [Next]_vars, FewFailures', Awaited', NEW c \in Copies, InHand(c)
  PROVE  \/ Settled'
         \/ InHand(c)' /\ job'[c].worker = job[c].worker
         \/ /\ job'[c] = Idle
            /\ \E w \in Workers : (Crash(w) \/ DrainExit(w)) /\ job[c].worker = w
<1>1. /\ WellFormed /\ CopiesKnown /\ replies \in Nat /\ spent \in Budgets /\ spent' \in Budgets
      /\ ~Settled' => ~Settled
  BY FewBefore, SettledStays DEF Basic, WellFormed, HandlersTyped
<1>2. c <= copies
  <2>1. job[c] # Idle
    BY DEF InHand, Idle
  <2> QED BY <1>1, <2>1, Bounds DEF CopiesKnown, Copies, WellFormed
<1>3. Awaited
  <2>1. ~(Unstarted /\ host = "publishing")
    BY <1>2 DEF Unstarted, Copies
  <2> QED BY <2>1, AwaitedBefore
<1>4. CASE job'[c] = job[c]
  BY <1>4 DEF InHand
<1>5. CASE HandlerStep(c)
  <2>1. ASSUME InHand(c)' PROVE job'[c].worker = job[c].worker
    <3>1. job'[c] # Idle
      BY <2>1 DEF InHand, Idle
    <3> QED BY <1>1, <1>5, <3>1, HandlerEffect
  <2>2. CASE CheckCancel(c)
    <3>1. ~cancelKey
      BY <1>3 DEF Awaited
    <3>2. Step(c, "checking", "running")
      BY <2>2, <3>1 DEF CheckCancel
    <3>3. job'[c].pc # "acking"
      <4>1. job \in [Copies -> Jobs] /\ job[c] \in [worker : Workers, pc : HandlerSteps]
        BY <1>1, <1>5, HandlerEffect DEF WellFormed, HandlersTyped
      <4> QED BY <3>2, <4>1 DEF Step
    <3>4. InHand(c)'
      BY <1>1, <1>5, <2>2, <3>3, HandlerMoves DEF InHand
    <3> QED BY <2>1, <3>4
  <2>3. CASE Complete(c)
    <3>1. replies' = replies + 1
      BY <2>3 DEF Complete
    <3> QED BY <1>1, <3>1 DEF Settled
  <2>4. CASE FailAttempt(c) \/ ReportError(c)
    <3>1. InHand(c)'
      BY <1>1, <1>5, <2>4, HandlerMoves DEF InHand
    <3> QED BY <2>1, <3>1
  <2>5. CASE DeadLetter(c)
    <3>1. CASE Fault
      <4>1. spent.fault = 0
        BY <1>1, <3>1 DEF Fault, FewFailures, Budgets
      <4>2. job[c].pc = "dlq"
        BY <1>1, <1>5, <2>5, HandlerMoves
      <4>3. Settled
        BY <1>3, <4>1, <4>2 DEF Reported
      <4> QED BY <1>1, <4>3
    <3>2. CASE dlq' = TRUE
      BY <3>2 DEF Settled
    <3> QED BY <2>5, <3>1, <3>2 DEF DeadLetter
  <2>6. ~TryClaim(c) /\ ~Release(c) /\ ~Acknowledge(c) /\ ~DeletePayload(c)
    BY <1>1, <1>5, HandlerMoves DEF InHand
  <2> QED BY <1>5, <2>2, <2>3, <2>4, <2>5, <2>6 DEF HandlerStep
<1>6. CASE \E w \in Workers : (Crash(w) \/ DrainExit(w)) /\ job[c].worker = w /\ job'[c] = Idle
  BY <1>6
<1>7. ASSUME NEW w \in Workers, Consume(w, c) PROVE FALSE
  <2>1. job[c] = Idle
    BY <1>1, <1>7, ConsumeEffect
  <2> QED BY <2>1 DEF InHand, Idle
<1> QED BY <1>4, <1>5, <1>6, <1>7, JobStep

\* Whoever holds the claim has a handler, or the operation is settled.
LEMMA HolderStep == Basic /\ Reported /\ Holder /\ [Next]_vars => Holder'
<1> SUFFICES ASSUME Basic, Reported, Holder, [Next]_vars, FewFailures', Awaited',
                    NEW w \in Workers, claim' = w, mode'[w] # "down"
             PROVE  Settled' \/ \E c \in Copies : InHand(c)' /\ job'[c].worker = w
  BY DEF Holder
<1>1. /\ WellFormed /\ CopiesKnown /\ NoWorker \notin Workers
      /\ FewFailures /\ ~Lapsing /\ Steady'
  BY Bounds, FewBefore DEF Basic, FewFailures
<1>2. CASE claim = w
  <2>1. Awaited
    <3>1. ~(Unstarted /\ host = "publishing")
      BY <1>1, <1>2 DEF Unstarted
    <3> QED BY <3>1, AwaitedBefore
  <2>2. mode[w] # "down"
    <3>1. ASSUME NEW v \in Workers, ProcessStep(v) PROVE mode[w] # "down"
      BY <1>1, <3>1, ProcessEffect
    <3> QED BY <3>1, ProcessFrame
  <2>3. CASE Settled
    BY <2>3, SettledStays
  <2>4. ASSUME NEW c \in Copies, InHand(c), job[c].worker = w
        PROVE  Settled' \/ (InHand(c)' /\ job'[c].worker = w)
    <3>1. ASSUME NEW v \in Workers, Crash(v) \/ DrainExit(v), job[c].worker = v PROVE FALSE
      <4>1. mode'[v] = "down"
        BY <1>1, <3>1 DEF Crash, DrainExit, Gone, WellFormed
      <4> QED BY <2>4, <3>1, <4>1
    <3> QED BY <2>4, <3>1, InHandGoesOn
  <2> QED BY <1>1, <1>2, <2>1, <2>2, <2>3, <2>4 DEF Holder
<1>3. CASE claim # w
  <2>1. ASSUME NEW d \in Copies, Release(d), claim' = Released(job[d].worker) PROVE FALSE
    BY <1>1, <1>3, <2>1 DEF Released
  <2>2. ASSUME NEW d \in Copies, HandlerStep(d), claim' = job[d].worker, job'[d].pc = "checking"
        PROVE  InHand(d)' /\ job'[d].worker = w
    <3>1. job'[d] # Idle
      BY <2>2 DEF Idle
    <3>2. job'[d].worker = job[d].worker
      BY <1>1, <2>2, <3>1, HandlerEffect
    <3> QED BY <2>2, <3>2 DEF InHand
  <2> QED BY <1>1, <1>3, <2>1, <2>2, ClaimStep
<1> QED BY <1>2, <1>3

\* The payload that is deleted after a requeue is the one of the requeued copy.
LEMMA UnhashBegins ==
  ASSUME WellFormed, TicksKnown, NEW r \in Reapers, BeginTick(r) \/ TickStep(r) \/ AbortTick(r),
         tick'[r].pc = "unhash"
  PROVE  tick'[r].cur = tick[r].cur
<1>1. tick \in [Reapers -> TickRow] /\ tick[r] \in TickRow
  BY DEF WellFormed
<1>2. tick[r].pc = "publish"
  BY ReaperEffect
<1>3. Republish(r)
  <2>1. ~AbortTick(r)
    BY <1>1 DEF AbortTick, NoTick
  <2>2. /\ ~BeginTick(r) /\ ~ReapShared(r) /\ ~ListDone(r) /\ ~Unhash(r) /\ ~Unlink(r)
        /\ \A w \in Workers : ~ReapOwner(r, w)
        /\ \A c \in Copies : ~Inspect(r, c)
    BY <1>2 DEF BeginTick, ReapShared, ListDone, Unhash, Unlink, ReapOwner, Inspect
  <2> QED BY <2>1, <2>2 DEF TickStep
<1>4. CASE tick' = [tick EXCEPT ![r].pc = "unhash"]
  BY <1>1, <1>4 DEF TickRow
<1>5. CASE tick' = [tick EXCEPT ![r].pc = "drain", ![r].cur = 0, ![r].drained = FALSE]
  BY <1>1, <1>5 DEF TickRow
<1> QED BY <1>3, <1>4, <1>5 DEF Republish

\* A reaper publishes the new copy before it deletes the payload of the old one.
LEMMA UnhashStep ==
  ASSUME Basic, [Next]_vars
  PROVE  \/ \A r \in Reapers : tick'[r].pc = "unhash" => tick'[r] = tick[r]
         \/ /\ job' = job /\ \E q \in Places : Publish(q) /\ q.list = "queue"
            /\ \A r \in Reapers : tick'[r].pc = "unhash" => tick'[r].cur <= copies
<1>1. WellFormed /\ CopiesKnown /\ TicksKnown /\ tick \in [Reapers -> TickRow]
  BY DEF Basic, WellFormed
<1>2. CASE UNCHANGED vars
  BY <1>2 DEF vars
<1>3. CASE ServerStep \/ SetCancelKey \/ GiveUp \/ ClaimExpires
  BY <1>3 DEF ServerStep, RouteTask, PublishTask, DeliverReply, SetCancelKey, GiveUp,
              ClaimExpires
<1>4. ASSUME NEW w \in Workers, NEW d \in Copies, Consume(w, d) PROVE tick' = tick
  BY <1>4 DEF Consume
<1>5. ASSUME NEW d \in Copies, HandlerStep(d) PROVE tick' = tick
  BY <1>1, <1>5, HandlerEffect
<1>6. ASSUME NEW w \in Workers, ProcessStep(w) PROVE tick' = tick
  BY <1>6, ProcessEffect
<1>7. ASSUME NEW r \in Reapers, BeginTick(r) \/ TickStep(r) \/ AbortTick(r)
      PROVE  \/ \A q \in Reapers : tick'[q].pc = "unhash" => tick'[q] = tick[q]
             \/ /\ job' = job /\ \E q \in Places : Publish(q) /\ q.list = "queue"
                /\ \A q \in Reapers : tick'[q].pc = "unhash" => tick'[q].cur <= copies
  <2>1. /\ \A q \in Reapers : q # r => tick'[q] = tick[q]
        /\ Publish(Queue(NoWorker)) \/ tick'[r].pc # "unhash"
    BY <1>1, <1>7, ReaperEffect
  <2>2. CASE tick'[r].pc # "unhash"
    BY <2>1, <2>2
  <2>3. CASE tick'[r].pc = "unhash"
    <3>1. job' = job
      BY <1>7, ReaperFrame
    <3>2. Queue(NoWorker) \in Places /\ Queue(NoWorker).list = "queue"
      BY PlacesKnown DEF Owners, Queue
    <3>3. \A q \in Reapers : tick[q].cur <= copies
      BY <1>1 DEF TicksKnown, TickKnown, TickFits
    <3>4. tick'[r].cur = tick[r].cur
      BY <1>1, <1>7, <2>3, UnhashBegins
    <3>5. \A q \in Reapers : tick'[q].cur <= copies
      BY <2>1, <3>3, <3>4
    <3> QED BY <2>1, <2>3, <3>1, <3>2, <3>5
  <2> QED BY <2>2, <2>3
<1> QED BY <1>2, <1>3, <1>4, <1>5, <1>6, <1>7 DEF Next, ProcessStep

\* A copy that was just published will be executed.
LEMMA NewGood ==
  ASSUME Basic, [Next]_vars, job' = job, NEW q \in Places, Publish(q), q.list = "queue"
  PROVE  \E c \in Copies : Good(c)'
<1> DEFINE n == copies'
<1>1. /\ WellFormed /\ CopiesKnown /\ TicksKnown /\ copies \in Nat
      /\ n = copies + 1 /\ n \in Copies /\ at'[n] = q /\ hash'[n] /\ job[n] = Idle
  BY Bounds, PublishEffect DEF Basic, WellFormed
<1>2. \A r \in Reapers : tick[r].cur <= copies /\ tick[r].cur \in Nat
  BY <1>1, Bounds DEF TicksKnown, TickKnown, TickFits, WellFormed, TickRow
<1>3. ASSUME NEW r \in Reapers, tick'[r].pc = "unhash" PROVE tick'[r].cur # n
  <2>1. tick'[r].cur <= copies
    BY <1>2, <1>3, UnhashStep
  <2> QED BY <1>1, <2>1
<1> HIDE DEF n
<1>4. at'[n] # Nowhere /\ job'[n].pc = "none"
  BY <1>1 DEF Nowhere, Idle
<1>5. /\ at'[n] # Nowhere /\ hash'[n] /\ job'[n].pc \notin {"releasing", "acking", "deleting"}
      /\ \A r \in Reapers : ~(tick'[r].pc = "unhash" /\ tick'[r].cur = n)
  BY <1>1, <1>3, <1>4
<1> QED BY <1>1, <1>5 DEF Good, InBroker

\* When a worker that is not down dies, every worker still has its heartbeat.
LEMMA DeathFindsAllBeats ==
  ASSUME Basic, BeatsKnown, OneDown, FewFailures', [Next]_vars,
         NEW w \in Workers, Crash(w) \/ DrainExit(w)
  PROVE  hb = Workers
<1>1. /\ FewFailures /\ Steady /\ hb \subseteq Workers /\ spent \in Budgets /\ spent' \in Budgets
      /\ mode \in [Workers -> {"up", "draining", "down"}]
  BY FewBefore DEF Basic, WellFormed, HandlersTyped, FewFailures
<1>2. ASSUME NEW v \in Workers PROVE mode[v] # "down"
  <2>1. CASE Crash(w)
    <3>1. spent.crash = 0
      BY <1>1, <2>1 DEF Crash, Crashing, FewFailures, Budgets
    <3> QED BY <1>1, <3>1 DEF OneDown
  <2>2. CASE DrainExit(w)
    BY <1>1, <2>2 DEF DrainExit, OneDown
  <2> QED BY <2>1, <2>2
<1> QED BY <1>1, <1>2 DEF BeatsKnown

\* The copy of a handler that dies stays in the broker for the reaper.
LEMMA DeathLeavesGood ==
  ASSUME Basic, BeatsKnown, OneDown, AllBeat, FewFailures', [Next]_vars, NEW c \in Copies,
         InHand(c), NEW w \in Workers, Crash(w) \/ DrainExit(w), job'[c] = Idle
  PROVE  Good(c)'
<1>1. Steady /\ hb = Workers
  BY FewBefore, DeathFindsAllBeats DEF FewFailures
<1>2. at[c].list = "processing" /\ hash[c]
  BY <1>1 DEF AllBeat, InHand
<1>3. at' = at /\ hash' = hash /\ tick' = tick
  BY ProcessEffect DEF ProcessStep
<1>4. \A r \in Reapers : tick[r].pc # "unhash"
  BY <1>1, NoRequeue
<1> QED BY <1>2, <1>3, <1>4 DEF Good, InBroker, Nowhere, Idle

\* A copy that is dropped because another worker holds the claim is not the last one.
LEMMA RefusedNotLast ==
  ASSUME Basic, BeatsKnown, OneDown, AllBeat, Holder, FewFailures, Awaited, ~Settled,
         NEW c \in Copies, job[c].pc = "claiming", job[c].worker \in Workers,
         ~Holdable(job[c].worker)
  PROVE  \E d \in Copies : d # c /\ InHand(d)
<1>1. /\ claim \in Owners /\ claim # NoWorker /\ claim \in hb /\ claim # job[c].worker
      /\ hb \subseteq Workers /\ Steady
  BY DEF Basic, WellFormed, Holdable, FewFailures
<1>2. claim \in Workers
  BY <1>1
<1>3. mode[claim] # "down"
  <2> SUFFICES ASSUME mode[claim] = "down" PROVE FALSE
    OBVIOUS
  <2>1. \A v \in Workers : v # claim => mode[v] = "up"
    BY <1>2 DEF OneDown
  <2>2. hb = Workers
    BY <1>1, <2>1 DEF BeatsKnown
  <2> QED BY <1>1, <2>2 DEF AllBeat
<1>4. PICK d \in Copies : InHand(d) /\ job[d].worker = claim
  BY <1>2, <1>3 DEF Holder
<1> QED BY <1>4 DEF InHand

\* Some copy is always kept until the operation is settled.
LEMMA KeptStep ==
  Basic /\ BeatsKnown /\ OneDown /\ AllBeat /\ Reported /\ Holder /\ Kept /\ [Next]_vars => Kept'
<1> SUFFICES ASSUME Basic, BeatsKnown, OneDown, AllBeat, Reported, Holder, Kept, [Next]_vars,
                    FewFailures', Awaited', ~Settled'
             PROVE  \E c \in Copies : Good(c)'
  BY DEF Kept
<1>1. WellFormed /\ CopiesKnown /\ TicksKnown /\ FewFailures /\ ~Settled
  BY FewBefore, SettledStays DEF Basic
<1>2. ASSUME job' = job, \E q \in Places : Publish(q) /\ q.list = "queue"
      PROVE  \E c \in Copies : Good(c)'
  BY <1>2, NewGood
<1>3. CASE ~Awaited
  BY <1>2, <1>3, AwaitedBefore
<1>4. ASSUME Awaited, \A r \in Reapers : tick'[r].pc = "unhash" => tick'[r] = tick[r]
      PROVE  \E c \in Copies : Good(c)'
  <2>1. PICK c \in Copies : Good(c)
    BY <1>1, <1>4 DEF Kept
  <2>2. ASSUME NEW d \in Copies, InHand(d) PROVE Good(d)'
    <3>1. ASSUME NEW w \in Workers, Crash(w) \/ DrainExit(w), job'[d] = Idle PROVE Good(d)'
      BY <2>2, <3>1, DeathLeavesGood
    <3>2. CASE InHand(d)'
      BY <3>2 DEF Good
    <3> QED BY <2>2, <3>1, <3>2, InHandGoesOn
  <2>3. CASE InHand(c)
    BY <2>2, <2>3
  <2>4. CASE /\ ~InHand(c) /\ InBroker(c) /\ job[c].pc \notin {"releasing", "acking", "deleting"}
             /\ \A r \in Reapers : ~(tick[r].pc = "unhash" /\ tick[r].cur = c)
    <3>1. \A r \in Reapers : ~(tick'[r].pc = "unhash" /\ tick'[r].cur = c)
      BY <1>4, <2>4
    <3>2. ASSUME at'[c] # Nowhere, hash'[c],
                 job'[c].pc \notin {"releasing", "acking", "deleting"}
          PROVE  Good(c)'
      BY <3>1, <3>2 DEF Good, InBroker
    <3>3. CASE HandlerStep(c)
      <4>1. /\ job \in [Copies -> Jobs] /\ job[c] \in [worker : Workers, pc : HandlerSteps]
            /\ job[c].pc = "claiming" /\ TryClaim(c)
        <5>1. job \in [Copies -> Jobs] /\ job[c] \in [worker : Workers, pc : HandlerSteps]
          BY <1>1, <3>3, HandlerEffect DEF WellFormed, HandlersTyped
        <5>2. TryClaim(c) /\ job[c].pc = "claiming"
          BY <1>1, <2>4, <3>3, HandlerMoves DEF HandlerStep, InHand
        <5> QED BY <5>1, <5>2
      <4>2. CASE job'[c].pc = "checking"
        BY <4>2 DEF Good, InHand
      <4>3. CASE job'[c].pc = "acking"
        <5>1. ~Step(c, "claiming", "checking")
          BY <4>1, <4>3 DEF Step
        <5>2. ~Holdable(job[c].worker)
          BY <4>1, <5>1 DEF TryClaim
        <5>3. PICK d \in Copies : d # c /\ InHand(d)
          BY <1>1, <1>4, <4>1, <5>2, RefusedNotLast
        <5> QED BY <2>2, <5>3
      <4> QED BY <1>1, <3>3, <4>1, <4>2, <4>3, HandlerMoves
    <3>4. ASSUME NEW w \in Workers, Consume(w, c) PROVE Good(c)'
      <4>1. /\ at'[c].list = "processing" /\ hash'[c] = hash[c]
            /\ job'[c] = Idle \/ job'[c] = [worker |-> w, pc |-> "claiming"]
        BY <1>1, <3>4, ConsumeEffect
      <4>2. hash'[c] /\ at'[c] # Nowhere
        BY <2>4, <4>1 DEF InBroker, Nowhere
      <4>3. job'[c].pc \notin {"releasing", "acking", "deleting"}
        BY <4>1 DEF Idle
      <4> QED BY <3>2, <4>2, <4>3
    <3>5. CASE ~HandlerStep(c) /\ \A w \in Workers : ~Consume(w, c)
      <4>1. job'[c].pc \notin {"releasing", "acking", "deleting"}
        BY <2>4, <3>5, JobRests DEF Idle
      <4>2. c <= copies
        BY <1>1, <2>4, Bounds DEF CopiesKnown, InBroker, Copies, WellFormed
      <4>3. at'[c] = at[c] /\ hash'[c] = hash[c]
        <5>1. hash[c]
          BY <2>4 DEF InBroker
        <5> QED BY <2>4, <3>5, <4>2, <5>1, PlaceStep
      <4> QED BY <2>4, <3>2, <4>1, <4>3 DEF InBroker
    <3> QED BY <3>3, <3>4, <3>5
  <2> QED BY <2>1, <2>3, <2>4 DEF Good
<1> QED BY <1>2, <1>3, <1>4, UnhashStep

\* While at most one worker dies, none restarts, no heartbeat or claim lapses under a
\* running worker and at most one call fails, an operation somebody waits for is never
\* lost: whichever step the crash, the shutdown or the failed call hits.
THEOREM NeverLostUnderFewFailures == Spec => [](FewFailures => NeverLost)
<1> DEFINE Inv == /\ Basic /\ BeatsKnown /\ OneDown /\ AllBeat
                  /\ Reported /\ Holder /\ Kept
<1>1. Init => Inv
  <2> SUFFICES ASSUME Init PROVE BeatsKnown /\ OneDown /\ AllBeat /\ Reported /\ Holder /\ Kept
    BY BasicInit
  <2>1. BeatsKnown
    BY DEF Init, BeatsKnown, NoTick
  <2>2. OneDown
    BY DEF Init, OneDown
  <2>3. AllBeat
    BY DEF Init, AllBeat, Idle
  <2>4. Reported /\ Holder /\ Kept
    BY DEF Init, Reported, Holder, Kept, Awaited
  <2> QED BY <2>1, <2>2, <2>3, <2>4
<1>2. Inv /\ [Next]_vars => Inv'
  BY BasicStep, BeatsStep, OneDownStep, AllBeatStep, ReportedStep, HolderStep, KeptStep
<1>3. Inv => (FewFailures => NeverLost)
  BY DEF Kept, Good, NeverLost, Settled
<1> QED BY <1>1, <1>2, <1>3, PTL DEF Spec

=============================================================================
