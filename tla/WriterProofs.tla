----------------------------- MODULE WriterProofs -----------------------------
(***************************************************************************)
(* No two running tasks of any servers can write the same attempt of a     *)
(* judgement, for every number of servers, tasks, judgements and retries,  *)
(* with every actor of the lifecycle at work, the SystemError reaper       *)
(* included, as long as two steps do not come too late: the reaper's       *)
(* second read of the submission, which must still find the epoch the      *)
(* reaper has committed, and an apply, which must not take the submission  *)
(* back to an epoch at or before the one a dispatch is about to start at.  *)
(* The code checks neither; these two windows are all that can put two     *)
(* writers on one attempt.                                                 *)
(*                                                                         *)
(* The argument: on its way to a judgement a dispatch first stands at      *)
(* "start" with the submission's epoch, or was given a judgement at an     *)
(* epoch nobody was given before. At most one task starts at the epoch of  *)
(* the submission, none while the submission is still queued, and while    *)
(* one does nobody works on the current attempt; so the one that adopts or *)
(* inserts the judgement is alone on it.                                   *)
(***************************************************************************)
EXTENDS JudgingProofs

\* The submission read after the reaper's commit is the one it has committed.
RereadInTime(t) == RereadSubmission(t) => sub.epoch = task[t].epoch

\* No dispatch is about to start at the epoch of the applied judgement or later.
ApplyInTime(j) ==
  ApplyJudgement(j) =>
    \A t \in Tasks : task[t].pc = "start" => task[t].epoch < jud[j].epoch

Orderly ==
  /\ \A t \in Tasks : RereadInTime(t)
  /\ \A j \in Jids : ApplyInTime(j)

Working(t) == task[t].pc \in {"reread", "run", "subWrite"}

\* Task t works on the attempt judgement j is on.
OnAttempt(t, j) ==
  Working(t) /\ task[t].jid = j /\ jud[j].exists /\ task[t].epoch = jud[j].epoch

\* Task t is about to look for the submission's judgement at its epoch.
Starting(t) == task[t].pc = "start" /\ task[t].epoch = sub.epoch

\* What a task holds where.
TaskShape(t) ==
  /\ task[t].pc = "start" => task[t].jid = 0
  /\ task[t].pc = "subWrite" => task[t].status \in {"Running", "Judged"}
TaskShapes == \A t \in Tasks : TaskShape(t)

\* No task is ahead of the row it works on.
NobodyAhead ==
  \A t \in Tasks :
    /\ task[t].pc = "start" => task[t].epoch <= sub.epoch
    /\ \A j \in Jids : Working(t) /\ task[t].jid = j =>
         j <= serial /\ (jud[j].exists => task[t].epoch <= jud[j].epoch)

OneStarter == \A t, u \in Tasks : Starting(t) /\ Starting(u) => t = u
OneHolder ==
  \A t, u \in Tasks, j \in Jids : OnAttempt(t, j) /\ OnAttempt(u, j) => t = u

\* While a task starts, nobody works on the current attempt,
StarterIsFirst ==
  \A t, u \in Tasks, j \in Jids : Starting(t) /\ Current(j) => ~OnAttempt(u, j)

\* and while the submission is queued nobody starts either.
QueuedIsFree ==
  sub.status = "Queued" =>
    \A t \in Tasks : ~Starting(t) /\ \A j \in Jids : Current(j) => ~OnAttempt(t, j)

\* A judgement that waits to be claimed is a deferred one nobody works on.
DeferredIsFree ==
  \A j \in Jids : jud[j].exists /\ jud[j].status = "Queued" =>
    ~jud[j].current /\ \A t \in Tasks : ~OnAttempt(t, j)

WriterInv ==
  /\ NobodyAhead /\ OneStarter /\ OneHolder
  /\ StarterIsFirst /\ QueuedIsFree /\ DeferredIsFree

-----------------------------------------------------------------------------
(* The tasks *)

\* A spawned task has the shape of its place.
LEMMA SpawnShape ==
  ASSUME TypeOK, NEW t \in Tasks, NEW s, NEW j, NEW e, NEW pc, Spawn(t, s, j, e, pc),
         pc \in {"run", "reread"} \/ (pc = "start" /\ j = 0), NEW u \in Tasks, TaskShape(u)
  PROVE  TaskShape(u)'
<1>1. CASE u = t
  <2>1. task'[u].pc = pc /\ task'[u].jid = j
    BY <1>1 DEF Spawn, Idle, TypeOK
  <2> QED
    BY <2>1 DEF TaskShape
<1>2. CASE u # t
  <2>1. task'[u] = task[u]
    BY <1>2 DEF Spawn, TypeOK
  <2> QED
    BY <2>1 DEF TaskShape
<1> QED
  BY <1>1, <1>2

\* Every step keeps every task in shape.
LEMMA ShapeStep ==
  ASSUME TypeOK, TaskShapes, [Next]_vars
  PROVE  TaskShapes'
<1> SUFFICES ASSUME NEW u \in Tasks PROVE TaskShape(u)'
  BY DEF TaskShapes
<1>0. TaskShape(u) /\ task[u] \in TaskRow
  BY FieldTypes DEF TaskShapes
<1>1. task' = task => TaskShape(u)'
  BY <1>0 DEF TaskShape
<1>2. ASSUME NEW t \in Tasks, TaskStep(t) PROVE TaskShape(u)'
  <2>0. TaskShape(t) /\ task[t] \in TaskRow
    BY FieldTypes DEF TaskShapes
  <2>1. ASSUME NEW j \in Jids, EnsureAdopt(t, j) PROVE TaskShape(u)'
    BY <1>0, <2>1 DEF EnsureAdopt, TaskShape, TypeOK, TaskRow
  <2>2. CASE EnsureInsert(t)
    BY <1>0, <2>2 DEF EnsureInsert, TaskShape, TypeOK, TaskRow
  <2>3. CASE EnsureFails(t)
    BY <1>0, <2>3 DEF EnsureFails, Goto, TaskShape, TypeOK, TaskRow
  <2>4. ASSUME NEW st, NEW v, UpdateJudgement(t, st, v), st \in {"Running", "Judged"}
        PROVE  TaskShape(u)'
    BY <1>0, <2>4 DEF UpdateJudgement, TaskShape, TypeOK, TaskRow
  <2>5. PluginProgress(t) \/ PluginVerdict(t) => TaskShape(u)'
    BY <2>4 DEF PluginProgress, PluginVerdict
  <2>6. CASE UpdateSubmission(t)
    BY <1>0, <2>6 DEF UpdateSubmission, Goto, End, Idle, TaskShape, TypeOK, TaskRow
  <2>7. CASE PluginStale(t)
    BY <1>0, <2>7 DEF PluginStale, End, Idle, TaskShape, TypeOK
  <2>8. CASE InsertResults(t) \/ DeleteResults(t)
    BY <1>1, <2>8 DEF InsertResults, DeleteResults
  <2>9. CASE FailDispatch(t)
    BY <1>0, <2>9 DEF FailDispatch, Goto, TaskShape, TypeOK, TaskRow
  <2>10. CASE MarkSubmission(t)
    BY <1>0, <2>10 DEF MarkSubmission, Goto, TaskShape, TypeOK, TaskRow
  <2>11. CASE MarkMirror(t)
    BY <1>0, <2>11 DEF MarkMirror, End, Idle, TaskShape, TypeOK
  <2>12. CASE RereadSubmission(t)
    BY <1>0, <2>12 DEF RereadSubmission, TaskShape, TypeOK, TaskRow
  <2>13. CASE Wedge(t)
    BY <1>0, <2>13 DEF Wedge, End, Idle, TaskShape, TypeOK
  <2> QED
    BY <1>2, <2>1, <2>2, <2>3, <2>5, <2>6, <2>7, <2>8, <2>9, <2>10, <2>11,
       <2>12, <2>13 DEF TaskStep, EnsureActiveJudgement
<1>3. ASSUME NEW s \in Servers, FiberStep(s) PROVE TaskShape(u)'
  <2>1. ASSUME NEW t \in Tasks,
               Claim(s, t) \/ StealSubmission(s, t) \/ RecoverStuckSubmission(s, t)
        PROVE  TaskShape(u)'
    <3>1. PICK e : Spawn(t, s, 0, e, "start")
      BY <2>1 DEF Claim, StealSubmission, RecoverStuckSubmission
    <3> QED
      BY <1>0, <3>1, SpawnShape
  <2>2. ASSUME NEW t \in Tasks, NEW j \in Jids,
               ClaimDeferred(s, t, j) \/ StealJudgement(s, t, j)
                 \/ RecoverStuckJudgement(s, t, j) \/ RequeueSystemError(s, t, j)
        PROVE  TaskShape(u)'
    <3>1. PICK e, pc : Spawn(t, s, j, e, pc) /\ pc \in {"run", "reread"}
      BY <2>2 DEF ClaimDeferred, StealJudgement, RecoverStuckJudgement, RequeueSystemError
    <3> QED
      BY <1>0, <3>1, SpawnShape
  <2>3. ASSUME NEW j \in Jids, ExhaustJudgement(s, j) \/ TerminateStuckJudgement(s, j)
        PROVE  TaskShape(u)'
    BY <1>1, <2>3 DEF ExhaustJudgement, TerminateStuckJudgement
  <2>4. CASE ExhaustSubmission(s) \/ TerminateStuckSubmission(s)
    BY <1>1, <2>4 DEF ExhaustSubmission, TerminateStuckSubmission
  <2>5. CASE RefreshLeases(s) \/ Restart(s)
    BY <1>1, <2>5 DEF RefreshLeases, Restart
  <2>6. CASE Crash(s)
    BY <1>0, <2>6 DEF Crash, Idle, TaskShape
  <2> QED
    BY <1>3, <2>1, <2>2, <2>3, <2>4, <2>5, <2>6 DEF FiberStep
<1>4. CASE AdminStep
  <2>1. RejudgeImmediate \/ RejudgeDeferred \/ DlqRetry => task' = task
    BY DEF RejudgeImmediate, RejudgeDeferred, DlqRetry
  <2>2. ASSUME NEW j \in Jids, ApplyJudgement(j) \/ DiscardJudgement(j) PROVE task' = task
    BY <2>2 DEF ApplyJudgement, DiscardJudgement
  <2> QED
    BY <1>1, <1>4, <2>1, <2>2 DEF AdminStep
<1>5. CASE TimeStep \/ UNCHANGED vars
  BY <1>1, <1>5 DEF TimeStep, ExpireSubmission, ExpireJudgement, Reconcile, vars
<1> QED
  BY <1>2, <1>3, <1>4, <1>5 DEF Next

\* Task u stays where it is, gives up, or moves on without starting or taking
\* up a judgement.
TaskKept(u) ==
  /\ task'[u].pc = "start" => task[u].pc = "start" /\ task'[u].epoch = task[u].epoch
  /\ Working(u)' /\ task'[u].jid \in Jids =>
       Working(u) /\ task'[u].jid = task[u].jid /\ task'[u].epoch = task[u].epoch

\* Of the quiet steps only a claim and an adopted judgement do more.
LEMMA QuietTasksKept ==
  ASSUME TypeOK, TaskShapes, QuietStep, \A t \in Tasks : RereadInTime(t)
  PROVE  \/ \A u \in Tasks : TaskKept(u)
         \/ \E s \in Servers, t \in Tasks : Claim(s, t)
         \/ \E s \in Servers, t \in Tasks, j \in Jids : ClaimDeferred(s, t, j)
         \/ \E t \in Tasks, j \in Jids : EnsureAdopt(t, j)
<1> DEFINE Kept == \A u \in Tasks : TaskKept(u)
<1>1. task' = task => Kept
  BY DEF TaskKept, Working
<1>2. ASSUME NEW t \in Tasks, QuietTask(t), ~\E j \in Jids : EnsureAdopt(t, j) PROVE Kept
  <2>0. TaskShape(t) /\ \A u \in Tasks : task[u] \in TaskRow
    BY FieldTypes DEF TaskShapes
  <2>1. CASE EnsureFails(t)
    <3>1. 0 \notin Jids
      BY BoundsAssumption DEF Jids
    <3> QED
      BY <2>0, <2>1, <3>1 DEF EnsureFails, Goto, TaskShape, TaskKept, Working, TypeOK, TaskRow
  <2>2. ASSUME NEW st, NEW v, UpdateJudgement(t, st, v) PROVE Kept
    BY <2>0, <2>2 DEF UpdateJudgement, TaskKept, Working, TypeOK, TaskRow
  <2>3. PluginProgress(t) \/ PluginVerdict(t) => Kept
    BY <2>2 DEF PluginProgress, PluginVerdict
  <2>4. CASE UpdateSubmission(t)
    BY <2>0, <2>4 DEF UpdateSubmission, Goto, End, Idle, TaskKept, Working, TypeOK, TaskRow
  <2>5. CASE PluginStale(t) \/ MarkMirror(t) \/ Wedge(t)
    BY <2>5 DEF PluginStale, MarkMirror, Wedge, End, Idle, TaskKept, Working, TypeOK
  <2>6. CASE InsertResults(t) \/ DeleteResults(t)
    BY <1>1, <2>6 DEF InsertResults, DeleteResults
  <2>7. CASE FailDispatch(t)
    BY <2>0, <2>7 DEF FailDispatch, Goto, TaskKept, Working, TypeOK, TaskRow
  <2>8. CASE MarkSubmission(t)
    BY <2>0, <2>8 DEF MarkSubmission, Goto, TaskKept, Working, TypeOK, TaskRow
  <2>9. CASE RereadSubmission(t)
    <3>1. sub.epoch = task[t].epoch
      BY <2>9 DEF RereadInTime
    <3> QED
      BY <2>0, <2>9, <3>1 DEF RereadSubmission, TaskKept, Working, TypeOK, TaskRow
  <2> HIDE DEF Kept
  <2> QED
    BY <1>2, <2>1, <2>3, <2>4, <2>5, <2>6, <2>7, <2>8, <2>9 DEF QuietTask
<1>3. ASSUME NEW s \in Servers, QuietFiber(s),
             ~\E t \in Tasks : Claim(s, t), ~\E t \in Tasks, j \in Jids : ClaimDeferred(s, t, j)
      PROVE  Kept
  <2>1. ASSUME NEW j \in Jids, ExhaustJudgement(s, j) \/ TerminateStuckJudgement(s, j)
        PROVE  Kept
    BY <1>1, <2>1 DEF ExhaustJudgement, TerminateStuckJudgement
  <2>2. CASE ExhaustSubmission(s) \/ TerminateStuckSubmission(s)
    BY <1>1, <2>2 DEF ExhaustSubmission, TerminateStuckSubmission
  <2>3. CASE RefreshLeases(s) \/ Restart(s)
    BY <1>1, <2>3 DEF RefreshLeases, Restart
  <2>4. CASE Crash(s)
    BY <2>4 DEF Crash, Idle, TaskKept, Working
  <2> HIDE DEF Kept
  <2> QED
    BY <1>3, <2>1, <2>2, <2>3, <2>4 DEF QuietFiber
<1>4. CASE TimeStep \/ UNCHANGED vars
  BY <1>1, <1>4 DEF TimeStep, ExpireSubmission, ExpireJudgement, Reconcile, vars
<1> HIDE DEF Kept
<1> QED
  BY <1>2, <1>3, <1>4 DEF QuietStep, Kept

-----------------------------------------------------------------------------
(* Steps that give nobody an attempt *)

\* A quiet step never puts the submission back into the queue.
LEMMA QuietQueued ==
  ASSUME TypeOK, TaskShapes, FinalMeansEnded, QuietStep, sub'.status = "Queued"
  PROVE  sub.status = "Queued"
<1> DEFINE Goal == sub.status = "Queued"
<1>1. sub \in SubmissionRow
  BY DEF TypeOK
<1>2. sub' = sub => Goal
  OBVIOUS
<1>3. ASSUME NEW e, sub' = MarkedSubmission(e) PROVE Goal
  BY <1>1, <1>3 DEF MarkedSubmission, SubmissionRow
<1>4. ASSUME NEW t \in Tasks, QuietTask(t) PROVE Goal
  <2>1. CASE UpdateSubmission(t)
    BY <1>1, <2>1 DEF UpdateSubmission, TaskShapes, TaskShape, SubmissionRow
  <2>2. CASE MarkSubmission(t)
    BY <1>3, <2>2 DEF MarkSubmission
  <2>3. ASSUME NEW j \in Jids, EnsureAdopt(t, j) PROVE Goal
    BY <1>2, <2>3 DEF EnsureAdopt
  <2>4. EnsureFails(t) \/ PluginStale(t) \/ InsertResults(t) \/ DeleteResults(t) => sub' = sub
    BY DEF EnsureFails, PluginStale, InsertResults, DeleteResults
  <2>5. PluginProgress(t) \/ PluginVerdict(t) => sub' = sub
    BY DEF PluginProgress, PluginVerdict, UpdateJudgement
  <2>6. FailDispatch(t) \/ MarkMirror(t) \/ RereadSubmission(t) \/ Wedge(t) => sub' = sub
    BY DEF FailDispatch, MarkMirror, RereadSubmission, Wedge
  <2> QED
    BY <1>2, <1>4, <2>1, <2>2, <2>3, <2>4, <2>5, <2>6 DEF QuietTask
<1>5. ASSUME NEW s \in Servers, QuietFiber(s) PROVE Goal
  <2>1. ASSUME NEW t \in Tasks, Claim(s, t) PROVE Goal
    BY <2>1 DEF Claim
  <2>2. CASE ExhaustSubmission(s)
    <3> DEFINE row == MarkedSubmission(sub.epoch)
    <3>1. sub' = [row EXCEPT !.retry = row.retry + 1]
      BY <2>2 DEF ExhaustSubmission
    <3>2. row \in SubmissionRow
      BY MarkedTypes, FieldTypes
    <3>3. row.status = "Queued" => Goal
      BY <1>1 DEF MarkedSubmission, SubmissionRow
    <3> HIDE DEF row
    <3> QED
      BY <3>1, <3>2, <3>3 DEF SubmissionRow
  <2>3. CASE RefreshLeases(s)
    BY <1>1, <2>3 DEF RefreshLeases, Refreshed, SubmissionRow
  <2>4. CASE Restart(s)
    BY <1>1, <2>4 DEF Restart, Orphan, SubmissionRow
  <2>5. (\E j \in Jids : ExhaustJudgement(s, j)) \/ TerminateStuckSubmission(s) => Goal
    BY <1>3 DEF ExhaustJudgement, TerminateStuckSubmission
  <2>6. ASSUME NEW t \in Tasks, NEW j \in Jids, ClaimDeferred(s, t, j) PROVE Goal
    BY <1>2, <2>6 DEF ClaimDeferred
  <2>7. ASSUME NEW j \in Jids, TerminateStuckJudgement(s, j) PROVE Goal
    BY <1>2, <2>7 DEF TerminateStuckJudgement
  <2>8. CASE Crash(s)
    BY <1>2, <2>8 DEF Crash
  <2> QED
    BY <1>5, <2>1, <2>2, <2>3, <2>4, <2>5, <2>6, <2>7, <2>8 DEF QuietFiber
<1>6. CASE TimeStep
  <2>1. CASE ExpireSubmission
    BY <1>1, <2>1 DEF ExpireSubmission, SubmissionRow
  <2>2. ASSUME NEW j \in Jids, ExpireJudgement(j) PROVE Goal
    BY <1>2, <2>2 DEF ExpireJudgement
  <2>3. ASSUME NEW j \in Jids, Reconcile(j) PROVE Goal
    BY <1>1, <2>3 DEF Reconcile, Current, FinalMeansEnded, Terminal, SubmissionRow
  <2> QED
    BY <1>6, <2>1, <2>2, <2>3 DEF TimeStep
<1>7. UNCHANGED vars => Goal
  BY <1>2 DEF vars
<1> QED
  BY <1>4, <1>5, <1>6, <1>7 DEF QuietStep

\* Row j stays on its attempt, disappears, or is a deferred judgement that has
\* just been opened.
RowKept(j) ==
  jud'[j].exists =>
    \/ /\ jud[j].exists /\ jud'[j].epoch = jud[j].epoch
       /\ jud'[j].current => jud[j].current
       /\ jud'[j].status = "Queued" => jud[j].status = "Queued"
    \/ j > serial /\ ~jud'[j].current

\* Quiet rows are kept.
LEMMA QuietRowsKept ==
  ASSUME QuietRows, NEW j \in Jids
  PROVE  RowKept(j)
<1>1. SameAttempt(j) /\ OutcomeSettles(j)
  BY DEF QuietRows
<1> QED
  BY <1>1 DEF SameAttempt, OutcomeSettles, RowKept

\* The invariant is kept by a step that keeps tasks and rows and does not queue
\* the submission.
LEMMA KeptStep ==
  ASSUME TypeOK, TypeOK', WriterInv, serial <= serial',
         sub'.epoch = sub.epoch, sub'.status = "Queued" => sub.status = "Queued",
         \A u \in Tasks : TaskKept(u), \A j \in Jids : RowKept(j)
  PROVE  WriterInv'
<1>0. serial \in Nat /\ serial' \in Nat /\ Jids \subseteq Nat
  BY BoundsAssumption DEF TypeOK, Jids
<1>1. ASSUME NEW u \in Tasks, Starting(u)' PROVE Starting(u)
  BY <1>1 DEF Starting, TaskKept
<1>2. ASSUME NEW u \in Tasks, NEW j \in Jids, OnAttempt(u, j)'
      PROVE  OnAttempt(u, j) /\ (Current(j)' => Current(j))
  <2>1. /\ Working(u)' /\ task'[u].jid = j /\ jud'[j].exists
        /\ task'[u].epoch = jud'[j].epoch
    BY <1>2 DEF OnAttempt
  <2>2. Working(u) /\ task[u].jid = j /\ task'[u].epoch = task[u].epoch
    BY <2>1 DEF TaskKept
  <2>3. j <= serial
    BY <2>2 DEF WriterInv, NobodyAhead
  <2>4. /\ jud[j].exists /\ jud'[j].epoch = jud[j].epoch
        /\ jud'[j].current => jud[j].current
    BY <1>0, <2>1, <2>3 DEF RowKept
  <2> QED
    BY <2>1, <2>2, <2>4 DEF OnAttempt, Current
<1>3. ASSUME NEW j \in Jids, Current(j)' PROVE Current(j)
  BY <1>3 DEF RowKept, Current
<1>4. NobodyAhead'
  <2>1. ASSUME NEW u \in Tasks, task'[u].pc = "start" PROVE task'[u].epoch <= sub'.epoch
    BY <2>1 DEF TaskKept, WriterInv, NobodyAhead
  <2>2. ASSUME NEW u \in Tasks, NEW j \in Jids, Working(u)', task'[u].jid = j
        PROVE  j <= serial' /\ (jud'[j].exists => task'[u].epoch <= jud'[j].epoch)
    <3>1. Working(u) /\ task[u].jid = j /\ task'[u].epoch = task[u].epoch
      BY <2>2 DEF TaskKept
    <3>2. j <= serial /\ (jud[j].exists => task[u].epoch <= jud[j].epoch)
      BY <3>1 DEF WriterInv, NobodyAhead
    <3>3. j <= serial'
      BY <1>0, <3>2
    <3>4. jud'[j].exists => jud[j].exists /\ jud'[j].epoch = jud[j].epoch
      BY <1>0, <3>2 DEF RowKept
    <3> QED
      BY <3>1, <3>2, <3>3, <3>4
  <2> QED
    BY <2>1, <2>2 DEF NobodyAhead
<1>5. OneStarter'
  <2> SUFFICES ASSUME NEW t \in Tasks, NEW u \in Tasks, Starting(t)', Starting(u)' PROVE t = u
    BY DEF OneStarter
  <2> QED
    BY <1>1 DEF WriterInv, OneStarter
<1>6. OneHolder'
  <2> SUFFICES ASSUME NEW t \in Tasks, NEW u \in Tasks, NEW j \in Jids,
                      OnAttempt(t, j)', OnAttempt(u, j)'
               PROVE  t = u
    BY DEF OneHolder
  <2> QED
    BY <1>2 DEF WriterInv, OneHolder
<1>7. StarterIsFirst'
  <2> SUFFICES ASSUME NEW t \in Tasks, NEW u \in Tasks, NEW j \in Jids,
                      Starting(t)', Current(j)', OnAttempt(u, j)'
               PROVE  FALSE
    BY DEF StarterIsFirst
  <2> QED
    BY <1>1, <1>2 DEF WriterInv, StarterIsFirst
<1>8. QueuedIsFree'
  <2>1. ASSUME sub'.status = "Queued", NEW t \in Tasks, Starting(t)' PROVE FALSE
    BY <1>1, <2>1 DEF WriterInv, QueuedIsFree
  <2>2. ASSUME sub'.status = "Queued", NEW t \in Tasks, NEW j \in Jids,
               Current(j)', OnAttempt(t, j)'
        PROVE  FALSE
    BY <1>2, <2>2 DEF WriterInv, QueuedIsFree
  <2> QED
    BY <2>1, <2>2 DEF QueuedIsFree
<1>9. DeferredIsFree'
  <2>1. ASSUME NEW j \in Jids, jud'[j].exists, jud'[j].status = "Queued", jud'[j].current
        PROVE  FALSE
    BY <2>1 DEF RowKept, WriterInv, DeferredIsFree
  <2>2. ASSUME NEW j \in Jids, jud'[j].exists, jud'[j].status = "Queued",
               NEW t \in Tasks, OnAttempt(t, j)'
        PROVE  FALSE
    <3>1. OnAttempt(t, j)
      BY <1>2, <2>2
    <3>2. j <= serial /\ jud[j].exists
      BY <3>1 DEF OnAttempt, WriterInv, NobodyAhead
    <3>3. jud[j].status = "Queued"
      BY <1>0, <2>2, <3>2 DEF RowKept
    <3> QED
      BY <3>1, <3>2, <3>3 DEF WriterInv, DeferredIsFree
  <2> QED
    BY <2>1, <2>2 DEF DeferredIsFree
<1> QED
  BY <1>4, <1>5, <1>6, <1>7, <1>8, <1>9 DEF WriterInv

-----------------------------------------------------------------------------
(* Steps that give a task an attempt *)

\* The other tasks are left alone.
OthersRest(t) == \A u \in Tasks : u # t => task'[u] = task[u]

\* A claim is the only start at the epoch of a queued submission.
LEMMA ClaimStep ==
  ASSUME TypeOK, TypeOK', WriterInv, NEW s \in Servers, NEW t \in Tasks, Claim(s, t)
  PROVE  WriterInv'
<1>1. /\ jud' = jud /\ serial' = serial /\ sub.status = "Queued"
      /\ sub'.status = "Pending" /\ sub'.epoch = sub.epoch
  BY DEF Claim, TypeOK, SubmissionRow
<1>2. task'[t].pc = "start" /\ task'[t].epoch = sub.epoch /\ OthersRest(t)
  BY DEF Claim, Spawn, Idle, TypeOK, OthersRest
<1>3. ASSUME NEW u \in Tasks, Starting(u)' PROVE u = t
  <2>1. ASSUME u # t PROVE FALSE
    <3>1. Starting(u)
      BY <1>1, <1>2, <1>3, <2>1 DEF Starting, OthersRest
    <3> QED
      BY <1>1, <3>1 DEF WriterInv, QueuedIsFree
  <2> QED
    BY <2>1
<1>4. ASSUME NEW u \in Tasks, NEW j \in Jids, OnAttempt(u, j)' PROVE OnAttempt(u, j)
  BY <1>1, <1>2, <1>4 DEF OnAttempt, Working, OthersRest
<1>5. ASSUME NEW j \in Jids PROVE Current(j)' <=> Current(j)
  BY <1>1 DEF Current
<1>6. NobodyAhead'
  <2>0. sub.epoch \in Nat
    BY FieldTypes
  <2>1. ASSUME NEW u \in Tasks, task'[u].pc = "start" PROVE task'[u].epoch <= sub'.epoch
    BY <1>1, <1>2, <2>0, <2>1 DEF OthersRest, WriterInv, NobodyAhead
  <2>2. ASSUME NEW u \in Tasks, NEW j \in Jids, Working(u)', task'[u].jid = j
        PROVE  j <= serial' /\ (jud'[j].exists => task'[u].epoch <= jud'[j].epoch)
    BY <1>1, <1>2, <2>2 DEF OthersRest, Working, WriterInv, NobodyAhead
  <2> QED
    BY <2>1, <2>2 DEF NobodyAhead
<1>7. OneStarter'
  BY <1>3 DEF OneStarter
<1>8. OneHolder'
  <2> SUFFICES ASSUME NEW u \in Tasks, NEW w \in Tasks, NEW j \in Jids,
                      OnAttempt(u, j)', OnAttempt(w, j)'
               PROVE  u = w
    BY DEF OneHolder
  <2> QED
    BY <1>4 DEF WriterInv, OneHolder
<1>9. StarterIsFirst'
  <2> SUFFICES ASSUME NEW u \in Tasks, NEW w \in Tasks, NEW j \in Jids,
                      Current(j)', OnAttempt(w, j)'
               PROVE  FALSE
    BY DEF StarterIsFirst
  <2> QED
    BY <1>1, <1>4, <1>5 DEF WriterInv, QueuedIsFree
<1>10. QueuedIsFree'
  BY <1>1 DEF QueuedIsFree
<1>11. DeferredIsFree'
  <2>1. ASSUME NEW j \in Jids, jud'[j].exists, jud'[j].status = "Queued"
        PROVE  ~jud'[j].current /\ \A u \in Tasks : ~OnAttempt(u, j)
    BY <1>1, <2>1 DEF WriterInv, DeferredIsFree
  <2> QED
    BY <1>4, <2>1 DEF DeferredIsFree
<1> QED
  BY <1>6, <1>7, <1>8, <1>9, <1>10, <1>11 DEF WriterInv

\* Task t takes up judgement j, which nobody works on; if j is current, nobody
\* is left starting and the submission is not queued.
LEMMA TakesUp ==
  ASSUME TypeOK, TypeOK', WriterInv, NEW t \in Tasks, NEW j \in Jids,
         serial <= serial', j <= serial',
         sub.epoch <= sub'.epoch, sub'.status = "Queued" => sub.status = "Queued",
         \A k \in Jids : k # j => RowKept(k),
         jud'[j].status # "Queued", OthersRest(t),
         Working(t)', task'[t].jid = j, task'[t].epoch <= jud'[j].epoch,
         \A u \in Tasks : u # t /\ Working(u) /\ task[u].jid = j =>
           jud[j].exists /\ jud[j].epoch <= jud'[j].epoch,
         task'[t].epoch = jud'[j].epoch =>
           /\ \A u \in Tasks : u # t => ~OnAttempt(u, j)'
           /\ Current(j)' => sub'.status # "Queued" /\ \A u \in Tasks : ~Starting(u)',
         task'[t].epoch # jud'[j].epoch =>
           jud[j].exists /\ (Current(j)' => Current(j)) /\ jud[j].status # "Queued"
  PROVE  WriterInv'
<1>0. serial \in Nat /\ serial' \in Nat /\ Jids \subseteq Nat
  BY BoundsAssumption DEF TypeOK, Jids
<1>1. ASSUME NEW u \in Tasks, Starting(u)' PROVE u # t /\ Starting(u)
  <2>1. u # t /\ task'[u] = task[u]
    BY <1>1 DEF Starting, Working, OthersRest
  <2>2. task[u].pc = "start" /\ task[u].epoch = sub'.epoch
    BY <1>1, <2>1 DEF Starting
  <2>3. /\ task[u].epoch <= sub.epoch /\ task[u].epoch \in Nat
        /\ sub.epoch \in Nat /\ sub.epoch <= sub'.epoch
    BY <2>2, FieldTypes DEF WriterInv, NobodyAhead
  <2>4. task[u].epoch = sub.epoch
    BY <2>2, <2>3
  <2> QED
    BY <2>1, <2>2, <2>4 DEF Starting
<1>2. ASSUME NEW u \in Tasks, u # t, NEW k \in Jids, OnAttempt(u, k)'
      PROVE  OnAttempt(u, k)
  <2>1. Working(u) /\ task[u].jid = k /\ task[u].epoch = jud'[k].epoch /\ jud'[k].exists
    BY <1>2 DEF OnAttempt, Working, OthersRest
  <2>2. CASE k = j
    <3>1. jud[j].exists /\ jud[j].epoch <= jud'[j].epoch
      BY <1>2, <2>1, <2>2
    <3>2. /\ task[u].epoch <= jud[j].epoch /\ task[u].epoch \in Nat
          /\ jud[j].epoch \in Nat
      BY <2>1, <2>2, <3>1, FieldTypes DEF WriterInv, NobodyAhead
    <3>3. task[u].epoch = jud[j].epoch
      BY <2>1, <2>2, <3>1, <3>2
    <3> QED
      BY <2>1, <2>2, <3>1, <3>3 DEF OnAttempt
  <2>3. CASE k # j
    <3>1. k <= serial
      BY <2>1 DEF WriterInv, NobodyAhead
    <3>2. jud[k].exists /\ jud'[k].epoch = jud[k].epoch
      BY <1>0, <2>1, <2>3, <3>1 DEF RowKept
    <3> QED
      BY <2>1, <3>2 DEF OnAttempt
  <2> QED
    BY <2>2, <2>3
<1>3. ASSUME NEW k \in Jids, k # j, Current(k)' PROVE Current(k)
  BY <1>3 DEF RowKept, Current
<1>4. ASSUME NEW k \in Jids, OnAttempt(t, k)'
      PROVE  k = j /\ task'[t].epoch = jud'[j].epoch
  BY <1>4 DEF OnAttempt
<1>5. ASSUME NEW u \in Tasks, u # t, OnAttempt(u, j)'
      PROVE  OnAttempt(u, j) /\ task'[t].epoch # jud'[j].epoch
  BY <1>2, <1>5
<1>6. NobodyAhead'
  <2>1. ASSUME NEW u \in Tasks, task'[u].pc = "start" PROVE task'[u].epoch <= sub'.epoch
    <3>1. u # t /\ task'[u] = task[u]
      BY <2>1 DEF Working, OthersRest
    <3>2. /\ task[u].epoch <= sub.epoch /\ task[u].epoch \in Nat
          /\ sub.epoch \in Nat /\ sub'.epoch \in Nat
      BY <2>1, <3>1, FieldTypes DEF WriterInv, NobodyAhead, TypeOK, SubmissionRow
    <3> QED
      BY <3>1, <3>2
  <2>2. ASSUME NEW u \in Tasks, u # t, NEW k \in Jids, Working(u)', task'[u].jid = k
        PROVE  k <= serial' /\ (jud'[k].exists => task'[u].epoch <= jud'[k].epoch)
    <3>1. Working(u) /\ task[u].jid = k /\ task'[u].epoch = task[u].epoch
      BY <2>2 DEF Working, OthersRest
    <3>2. k <= serial /\ (jud[k].exists => task[u].epoch <= jud[k].epoch)
      BY <3>1 DEF WriterInv, NobodyAhead
    <3>3. k <= serial'
      BY <1>0, <3>2
    <3>4. jud'[k].exists => jud[k].exists /\ jud[k].epoch <= jud'[k].epoch
      <4>0. jud[k].epoch \in Nat
        BY FieldTypes
      <4>1. CASE k = j
        BY <2>2, <3>1, <4>1
      <4>2. CASE k # j
        BY <1>0, <3>2, <4>0, <4>2 DEF RowKept
      <4> QED
        BY <4>1, <4>2
    <3>5. task[u].epoch \in Nat /\ jud[k].epoch \in Nat /\ jud'[k].epoch \in Nat
      BY FieldTypes DEF TypeOK, JudgementRow
    <3> QED
      BY <3>1, <3>2, <3>3, <3>4, <3>5
  <2> QED
    BY <2>1, <2>2 DEF NobodyAhead
<1>7. OneStarter'
  <2> SUFFICES ASSUME NEW u \in Tasks, NEW w \in Tasks, Starting(u)', Starting(w)' PROVE u = w
    BY DEF OneStarter
  <2> QED
    BY <1>1 DEF WriterInv, OneStarter
<1>8. OneHolder'
  <2> SUFFICES ASSUME NEW u \in Tasks, NEW w \in Tasks, NEW k \in Jids,
                      OnAttempt(u, k)', OnAttempt(w, k)'
               PROVE  u = w
    BY DEF OneHolder
  <2>1. CASE u # t /\ w # t
    BY <1>2, <2>1 DEF WriterInv, OneHolder
  <2>2. CASE u = t \/ w = t
    BY <1>4, <1>5, <2>2
  <2> QED
    BY <2>1, <2>2
<1>9. StarterIsFirst'
  <2> SUFFICES ASSUME NEW u \in Tasks, NEW w \in Tasks, NEW k \in Jids,
                      Starting(u)', Current(k)', OnAttempt(w, k)'
               PROVE  FALSE
    BY DEF StarterIsFirst
  <2>1. u # t /\ Starting(u)
    BY <1>1
  <2>2. CASE w = t
    BY <1>4, <2>2
  <2>3. CASE w # t
    <3>1. OnAttempt(w, k)
      BY <1>2, <2>3
    <3>2. Current(k)
      BY <1>3, <1>5, <2>3
    <3> QED
      BY <2>1, <3>1, <3>2 DEF WriterInv, StarterIsFirst
  <2> QED
    BY <2>2, <2>3
<1>10. QueuedIsFree'
  <2>1. ASSUME sub'.status = "Queued", NEW u \in Tasks, Starting(u)' PROVE FALSE
    BY <1>1, <2>1 DEF WriterInv, QueuedIsFree
  <2>2. ASSUME sub'.status = "Queued", NEW u \in Tasks, NEW k \in Jids,
               Current(k)', OnAttempt(u, k)'
        PROVE  FALSE
    <3>1. CASE u = t
      BY <1>4, <2>2, <3>1
    <3>2. CASE u # t
      <4>1. OnAttempt(u, k)
        BY <1>2, <2>2, <3>2
      <4>2. Current(k)
        BY <1>3, <1>5, <2>2, <3>2
      <4> QED
        BY <2>2, <4>1, <4>2 DEF WriterInv, QueuedIsFree
    <3> QED
      BY <3>1, <3>2
  <2> QED
    BY <2>1, <2>2 DEF QueuedIsFree
<1>11. DeferredIsFree'
  <2> SUFFICES ASSUME NEW k \in Jids, jud'[k].exists, jud'[k].status = "Queued"
               PROVE  ~jud'[k].current /\ \A u \in Tasks : ~OnAttempt(u, k)'
    BY DEF DeferredIsFree
  <2>1. k # j /\ RowKept(k)
    OBVIOUS
  <2>2. ~jud'[k].current
    BY <2>1 DEF RowKept, WriterInv, DeferredIsFree
  <2>3. ASSUME NEW u \in Tasks, OnAttempt(u, k)' PROVE FALSE
    <3>1. u # t
      BY <1>4, <2>1, <2>3
    <3>2. OnAttempt(u, k)
      BY <1>2, <2>3, <3>1
    <3>3. k <= serial /\ jud[k].exists
      BY <3>2 DEF OnAttempt, WriterInv, NobodyAhead
    <3>4. jud[k].status = "Queued"
      BY <1>0, <2>1, <3>3 DEF RowKept
    <3> QED
      BY <3>2, <3>3, <3>4 DEF WriterInv, DeferredIsFree
  <2> QED
    BY <2>2, <2>3
<1> QED
  BY <1>6, <1>7, <1>8, <1>9, <1>10, <1>11 DEF WriterInv

\* A claimed deferred judgement was waiting, and nobody worked on it.
LEMMA ClaimDeferredStep ==
  ASSUME TypeOK, TypeOK', RowsAllocated, WriterInv, NEW s \in Servers, NEW t \in Tasks,
         NEW j \in Jids, ClaimDeferred(s, t, j)
  PROVE  WriterInv'
<1>1. jud[j].exists /\ jud[j].status = "Queued" /\ sub' = sub /\ serial' = serial
  BY DEF ClaimDeferred
<1>2. QuietRows
  BY QuietFiberRows DEF QuietFiber
<1>3. /\ task'[t].pc = "run" /\ task'[t].jid = j /\ task'[t].epoch = jud[j].epoch
      /\ OthersRest(t)
  BY DEF ClaimDeferred, Spawn, Idle, TypeOK, OthersRest
<1>4. jud'[j].epoch = jud[j].epoch /\ ~Current(j)' /\ jud'[j].exists
  BY <1>1, <1>2 DEF QuietRows, SameAttempt, Current, WriterInv, DeferredIsFree
<1>5. jud'[j].status # "Queued"
  BY FieldTypes DEF ClaimDeferred, TypeOK, JudgementRow
<1>6. ASSUME NEW u \in Tasks, u # t PROVE ~OnAttempt(u, j)'
  <2>1. ~OnAttempt(u, j)
    BY <1>1 DEF WriterInv, DeferredIsFree
  <2> QED
    BY <1>1, <1>3, <1>4, <1>6, <2>1 DEF OnAttempt, Working, OthersRest
<1>7. Working(t)'
  BY <1>3 DEF Working
<1>8. j <= serial /\ serial \in Nat /\ sub.epoch \in Nat /\ jud[j].epoch \in Nat
  BY <1>1, BoundsAssumption, FieldTypes DEF RowsAllocated, TypeOK, Jids
<1>9. serial <= serial' /\ j <= serial' /\ sub.epoch <= sub'.epoch
  BY <1>1, <1>8
<1>10. task'[t].epoch <= jud'[j].epoch /\ jud[j].epoch <= jud'[j].epoch
  BY <1>3, <1>4, <1>8
<1>11. \A k \in Jids : RowKept(k)
  BY <1>2, QuietRowsKept
<1>12. sub'.status = "Queued" => sub.status = "Queued"
  BY <1>1
<1> QED
  BY <1>1, <1>3, <1>4, <1>5, <1>6, <1>7, <1>9, <1>10, <1>11, <1>12, TakesUp

\* A task that adopts the current judgement at its epoch was the only one to
\* start there; at an earlier epoch it adopts nothing it could write to.
LEMMA AdoptStep ==
  ASSUME TypeOK, TypeOK', RowsAllocated, EpochLockstep, WriterInv,
         NEW t \in Tasks, NEW j \in Jids, EnsureAdopt(t, j)
  PROVE  WriterInv'
<1>1. /\ task[t].pc = "start" /\ Current(j) /\ ~jud[j].final /\ sub' = sub
      /\ serial' = serial /\ jud[j].exists
  BY DEF EnsureAdopt, Current
<1>2. QuietRows
  BY QuietTaskRows DEF QuietTask
<1>3. /\ task'[t].pc = "run" /\ task'[t].jid = j /\ task'[t].epoch = task[t].epoch
      /\ OthersRest(t)
  BY FieldTypes DEF EnsureAdopt, TypeOK, TaskRow, OthersRest
<1>4. jud'[j].epoch = jud[j].epoch /\ jud'[j].exists
  BY <1>1, <1>2 DEF QuietRows, SameAttempt
<1>5. jud[j].status # "Queued"
  BY <1>1 DEF WriterInv, DeferredIsFree, Current
<1>6. jud'[j].status # "Queued"
  <2>1. RowKept(j)
    BY <1>2, QuietRowsKept
  <2>2. ~(j > serial) /\ jud'[j].exists
    BY <1>1, <1>4, BoundsAssumption DEF RowsAllocated, TypeOK, Jids
  <2> QED
    BY <1>5, <2>1, <2>2 DEF RowKept
<1>7. Working(t)'
  BY <1>3 DEF Working
<1>8. /\ j <= serial /\ serial \in Nat /\ sub.epoch \in Nat /\ jud[j].epoch \in Nat
      /\ jud[j].epoch = sub.epoch /\ task[t].epoch <= sub.epoch
  BY <1>1, BoundsAssumption, FieldTypes
     DEF RowsAllocated, TypeOK, Jids, EpochLockstep, WriterInv, NobodyAhead
<1>9. /\ serial <= serial' /\ j <= serial' /\ sub.epoch <= sub'.epoch
      /\ task'[t].epoch <= jud'[j].epoch /\ jud[j].epoch <= jud'[j].epoch
  BY <1>1, <1>3, <1>4, <1>8
<1>10. ASSUME task'[t].epoch = jud'[j].epoch
       PROVE  /\ \A u \in Tasks : u # t => ~OnAttempt(u, j)'
              /\ sub'.status # "Queued" /\ \A u \in Tasks : ~Starting(u)'
  <2>1. Starting(t)
    BY <1>1, <1>3, <1>4, <1>8, <1>10 DEF Starting
  <2>2. sub'.status # "Queued"
    BY <1>1, <2>1 DEF WriterInv, QueuedIsFree
  <2>3. ASSUME NEW u \in Tasks, u # t PROVE ~OnAttempt(u, j)' /\ ~Starting(u)'
    <3>1. ~OnAttempt(u, j) /\ ~Starting(u)
      BY <1>1, <2>1, <2>3 DEF WriterInv, StarterIsFirst, OneStarter
    <3> QED
      BY <1>1, <1>3, <1>4, <2>3, <3>1 DEF OnAttempt, Starting, Working, OthersRest
  <2>4. ~Starting(t)'
    BY <1>3 DEF Starting
  <2> QED
    BY <2>2, <2>3, <2>4
<1>11. \A k \in Jids : RowKept(k)
  BY <1>2, QuietRowsKept
<1>12. sub'.status = "Queued" => sub.status = "Queued"
  BY <1>1
<1> QED
  BY <1>1, <1>3, <1>5, <1>6, <1>7, <1>9, <1>10, <1>11, <1>12, TakesUp

\* A task that inserts the first judgement is alone at the submission's epoch.
LEMMA EnsureInsertStep ==
  ASSUME TypeOK, TypeOK', RowsAllocated, StartsInLockstep, WriterInv,
         NEW t \in Tasks, EnsureInsert(t)
  PROVE  WriterInv'
<1> DEFINE row == NewJudgement("Pending", task[t].epoch, task[t].server, TRUE)
<1>1. /\ task[t].pc = "start" /\ ~HasCurrent /\ CanInsert /\ serial' = serial + 1
      /\ jud' = [jud EXCEPT ![serial + 1] = row] /\ sub' = sub
  BY DEF EnsureInsert
<1>2. row.epoch = task[t].epoch /\ row.status = "Pending"
  BY DEF NewJudgement
<1> HIDE DEF row
<1>3. PICK j \in Jids : j = serial + 1
  BY <1>1, BoundsAssumption DEF CanInsert, TypeOK, Jids
<1>4. jud'[j] = row /\ \A k \in Jids : k # j => jud'[k] = jud[k]
  BY <1>1, <1>3 DEF TypeOK
<1>5. /\ task'[t].pc = "run" /\ task'[t].jid = j /\ task'[t].epoch = task[t].epoch
      /\ OthersRest(t)
  BY <1>3, FieldTypes DEF EnsureInsert, TypeOK, TaskRow, OthersRest
<1>6. /\ serial \in Nat /\ sub.epoch \in Nat /\ task[t].epoch \in Nat
      /\ task[t].epoch = sub.epoch
  BY <1>1, BoundsAssumption, FieldTypes DEF TypeOK, StartsInLockstep
<1>7. Starting(t)
  BY <1>1, <1>6 DEF Starting
<1>8. ASSUME NEW u \in Tasks, Working(u), task[u].jid = j PROVE FALSE
  <2>1. j <= serial
    BY <1>8 DEF WriterInv, NobodyAhead
  <2> QED
    BY <1>3, <1>6, <2>1
<1>9. ASSUME NEW u \in Tasks, u # t PROVE ~OnAttempt(u, j)' /\ ~Starting(u)'
  <2>1. ~Starting(u)
    BY <1>7, <1>9 DEF WriterInv, OneStarter
  <2>2. ~Starting(u)'
    BY <1>1, <1>5, <1>9, <2>1 DEF Starting, OthersRest
  <2>3. ~OnAttempt(u, j)'
    BY <1>5, <1>8, <1>9 DEF OnAttempt, Working, OthersRest
  <2> QED
    BY <2>2, <2>3
<1>10. ~Starting(t)' /\ Working(t)'
  BY <1>5 DEF Starting, Working
<1>11. sub.status # "Queued"
  BY <1>7 DEF WriterInv, QueuedIsFree
<1>12. \A k \in Jids : k # j => RowKept(k)
  BY <1>4 DEF RowKept
<1>13. /\ serial <= serial' /\ j <= serial' /\ sub.epoch <= sub'.epoch
       /\ task'[t].epoch <= jud'[j].epoch /\ task'[t].epoch = jud'[j].epoch
  BY <1>1, <1>2, <1>3, <1>4, <1>5, <1>6
<1>14. jud'[j].status # "Queued" /\ sub'.status # "Queued"
  BY <1>1, <1>2, <1>4, <1>11
<1> QED
  BY <1>5, <1>8, <1>9, <1>10, <1>12, <1>13, <1>14, TakesUp

\* A row that is dispatched again is on an epoch nobody was given before.
LEMMA AdvanceWriterStep ==
  ASSUME TypeOK, TypeOK', RowsAllocated, EpochLockstep, WriterInv,
         NEW s \in Servers, NEW t \in Tasks, NEW j \in Jids, AdvanceStep(s, t, j)
  PROVE  WriterInv'
<1>1. StealJudgement(s, t, j) \/ RecoverStuckJudgement(s, t, j) \/ RequeueSystemError(s, t, j)
  BY DEF AdvanceStep
<1>2. Advances(j)
  BY AdvanceStepRows
<1>3. /\ task'[t].pc \in {"run", "reread"} /\ task'[t].jid = j
      /\ task'[t].epoch = jud[j].epoch + 1 /\ OthersRest(t)
  <2>1. PICK pc \in {"run", "reread"} : Spawn(t, s, j, jud[j].epoch + 1, pc)
    BY <1>1 DEF StealJudgement, RecoverStuckJudgement, RequeueSystemError, NextEpoch
  <2> QED
    BY <2>1 DEF Spawn, Idle, TypeOK, OthersRest
<1>4. jud'[j].status = "Pending"
  <2>1. jud[j] \in JudgementRow /\ jud[j].epoch + 1 \in Nat /\ jud[j].retry + 1 \in Nat
    BY FieldTypes
  <2> DEFINE row == Redispatched(jud[j], s, jud[j].epoch + 1, jud[j].retry + 1)
  <2>2. jud'[j] = row \/ jud'[j] = [row EXCEPT !.final = FALSE]
    <3>1. CASE StealJudgement(s, t, j) \/ RecoverStuckJudgement(s, t, j)
      BY <3>1 DEF StealJudgement, RecoverStuckJudgement, NextEpoch, TypeOK
    <3>2. CASE RequeueSystemError(s, t, j)
      BY <3>2 DEF RequeueSystemError, NextEpoch, TypeOK
    <3> QED
      BY <1>1, <3>1, <3>2
  <2>3. row \in JudgementRow
    BY <2>1, RowOperatorTypes
  <2>4. row.status = "Pending"
    BY <2>1, RedispatchedFields
  <2> HIDE DEF row
  <2> QED
    BY <2>2, <2>3, <2>4 DEF JudgementRow
<1>5. /\ jud[j].exists /\ jud'[j].exists /\ jud'[j].epoch = jud[j].epoch + 1
      /\ serial' = serial /\ (Current(j)' => Current(j))
      /\ \A k \in Jids : k # j => jud'[k] = jud[k]
  BY <1>2 DEF Advances, Current
<1>6. \/ Current(j) /\ sub'.epoch = jud[j].epoch + 1 /\ sub'.status = "Pending"
      \/ ~Current(j) /\ sub' = sub
  BY AdvanceSubmission
<1>7. /\ serial \in Nat /\ sub.epoch \in Nat /\ jud[j].epoch \in Nat /\ j <= serial
      /\ Current(j) => jud[j].epoch = sub.epoch
  BY <1>5, BoundsAssumption, FieldTypes DEF RowsAllocated, EpochLockstep, TypeOK, Jids
<1>8. ASSUME NEW u \in Tasks, u # t PROVE ~OnAttempt(u, j)'
  <2> SUFFICES ASSUME OnAttempt(u, j)' PROVE FALSE
    OBVIOUS
  <2>1. Working(u) /\ task[u].jid = j /\ task[u].epoch = jud[j].epoch + 1
    BY <1>3, <1>5, <1>8 DEF OnAttempt, Working, OthersRest
  <2>2. task[u].epoch <= jud[j].epoch
    BY <1>5, <2>1 DEF WriterInv, NobodyAhead
  <2> QED
    BY <1>7, <2>1, <2>2
<1>9. ASSUME Current(j)', NEW u \in Tasks PROVE ~Starting(u)' /\ sub'.status # "Queued"
  <2>1. sub'.epoch = sub.epoch + 1 /\ sub'.status = "Pending"
    BY <1>5, <1>6, <1>7, <1>9
  <2>2. ASSUME Starting(u)' PROVE FALSE
    <3>1. u # t /\ task[u].pc = "start" /\ task[u].epoch = sub.epoch + 1
      BY <1>3, <2>1, <2>2 DEF Starting, OthersRest
    <3>2. task[u].epoch <= sub.epoch
      BY <3>1 DEF WriterInv, NobodyAhead
    <3> QED
      BY <1>7, <3>1, <3>2
  <2> QED
    BY <2>1, <2>2
<1>10. \A k \in Jids : k # j => RowKept(k)
  BY <1>5 DEF RowKept
<1>11. /\ serial <= serial' /\ j <= serial' /\ sub.epoch <= sub'.epoch
       /\ task'[t].epoch <= jud'[j].epoch /\ task'[t].epoch = jud'[j].epoch
       /\ jud[j].epoch <= jud'[j].epoch
  BY <1>3, <1>5, <1>6, <1>7
<1>12. sub'.status = "Queued" => sub.status = "Queued"
  BY <1>6
<1>13. Working(t)' /\ jud'[j].status # "Queued"
  BY <1>3, <1>4 DEF Working
<1> QED
  BY <1>3, <1>5, <1>8, <1>9, <1>10, <1>11, <1>12, <1>13, TakesUp

\* A submission that is superseded moves to an epoch nobody was given before,
\* with a judgement nobody works on; at most one task starts there, and none
\* while it is queued.
LEMMA SupersedeStep ==
  ASSUME TypeOK, TypeOK', RowsAllocated, WriterInv, Inserts,
         sub'.epoch = sub.epoch + 1, jud'[serial + 1].current,
         jud'[serial + 1].status = "Pending",
         \/ task' = task
         \/ /\ sub'.status # "Queued"
            /\ \E t \in Tasks : OthersRest(t) /\ task'[t].pc = "start"
                                /\ task'[t].epoch = sub'.epoch
  PROVE  WriterInv'
<1>0. serial \in Nat /\ serial' = serial + 1 /\ Jids \subseteq Nat /\ sub.epoch \in Nat
  BY BoundsAssumption, FieldTypes DEF TypeOK, Jids, Inserts
<1>1. ASSUME NEW u \in Tasks
      PROVE  \/ task'[u] = task[u]
             \/ /\ sub'.status # "Queued" /\ task'[u].pc = "start"
                /\ task'[u].epoch = sub'.epoch
                /\ \A w \in Tasks : w # u => task'[w] = task[w]
  BY DEF OthersRest
<1>2. ASSUME NEW u \in Tasks, Starting(u)'
      PROVE  sub'.status # "Queued" /\ \A w \in Tasks : w # u => task'[w] = task[w]
  <2>1. CASE task'[u] = task[u]
    <3>1. task[u].pc = "start" /\ task[u].epoch = sub.epoch + 1
      BY <1>2, <2>1 DEF Starting
    <3>2. task[u].epoch <= sub.epoch
      BY <3>1 DEF WriterInv, NobodyAhead
    <3> QED
      BY <1>0, <3>1, <3>2
  <2> QED
    BY <1>1, <2>1
<1>3. ASSUME NEW u \in Tasks, NEW j \in Jids, Working(u)', task'[u].jid = j
      PROVE  /\ task'[u] = task[u] /\ Working(u) /\ j <= serial /\ j # serial + 1
             /\ Retires(j) /\ ~Current(j)'
  <2>1. task'[u] = task[u]
    BY <1>1, <1>3 DEF Working
  <2>2. Working(u)
    BY <1>3, <2>1 DEF Working
  <2>3. j <= serial
    BY <1>3, <2>1, <2>2 DEF WriterInv, NobodyAhead
  <2>4. j # serial + 1
    BY <1>0, <2>3
  <2> QED
    BY <2>1, <2>2, <2>3, <2>4 DEF Inserts
<1>4. ASSUME NEW u \in Tasks, NEW j \in Jids, OnAttempt(u, j)'
      PROVE  OnAttempt(u, j) /\ ~Current(j)' /\ j # serial + 1
  <2>1. Working(u)' /\ task'[u].jid = j /\ jud'[j].exists /\ task'[u].epoch = jud'[j].epoch
    BY <1>4 DEF OnAttempt
  <2>2. task'[u] = task[u] /\ Working(u) /\ Retires(j) /\ ~Current(j)' /\ j # serial + 1
    BY <1>3, <2>1
  <2>3. jud[j].exists /\ jud'[j].epoch = jud[j].epoch
    BY <2>1, <2>2 DEF Retires
  <2> QED
    BY <2>1, <2>2, <2>3 DEF OnAttempt
<1>5. NobodyAhead'
  <2>1. ASSUME NEW u \in Tasks, task'[u].pc = "start" PROVE task'[u].epoch <= sub'.epoch
    <3>1. CASE task'[u] = task[u]
      <4>1. task[u].epoch <= sub.epoch /\ task[u].epoch \in Nat
        BY <2>1, <3>1, FieldTypes DEF WriterInv, NobodyAhead
      <4> QED
        BY <1>0, <3>1, <4>1
    <3>2. CASE task'[u].epoch = sub'.epoch
      BY <1>0, <3>2
    <3> QED
      BY <1>1, <3>1, <3>2
  <2>2. ASSUME NEW u \in Tasks, NEW j \in Jids, Working(u)', task'[u].jid = j
        PROVE  j <= serial' /\ (jud'[j].exists => task'[u].epoch <= jud'[j].epoch)
    <3>1. task'[u] = task[u] /\ Working(u) /\ j <= serial /\ Retires(j)
      BY <1>3, <2>2
    <3>2. jud[j].exists => task[u].epoch <= jud[j].epoch
      BY <2>2, <3>1 DEF WriterInv, NobodyAhead
    <3>3. j <= serial'
      BY <1>0, <3>1
    <3> QED
      BY <3>1, <3>2, <3>3 DEF Retires
  <2> QED
    BY <2>1, <2>2 DEF NobodyAhead
<1>6. OneStarter'
  <2> SUFFICES ASSUME NEW u \in Tasks, NEW w \in Tasks, Starting(u)', Starting(w)', u # w
               PROVE  FALSE
    BY DEF OneStarter
  <2>1. task'[w] = task[w]
    BY <1>2
  <2>2. task[w].pc = "start" /\ task[w].epoch = sub.epoch + 1
    BY <2>1 DEF Starting
  <2>3. task[w].epoch <= sub.epoch
    BY <2>2 DEF WriterInv, NobodyAhead
  <2> QED
    BY <1>0, <2>2, <2>3
<1>7. OneHolder'
  <2> SUFFICES ASSUME NEW u \in Tasks, NEW w \in Tasks, NEW j \in Jids,
                      OnAttempt(u, j)', OnAttempt(w, j)'
               PROVE  u = w
    BY DEF OneHolder
  <2> QED
    BY <1>4 DEF WriterInv, OneHolder
<1>8. StarterIsFirst'
  BY <1>4 DEF StarterIsFirst
<1>9. QueuedIsFree'
  BY <1>2, <1>4 DEF QueuedIsFree
<1>10. DeferredIsFree'
  <2> SUFFICES ASSUME NEW j \in Jids, jud'[j].exists, jud'[j].status = "Queued"
               PROVE  ~jud'[j].current /\ \A u \in Tasks : ~OnAttempt(u, j)'
    BY DEF DeferredIsFree
  <2>1. j # serial + 1
    OBVIOUS
  <2>2. Retires(j)
    BY <2>1 DEF Inserts
  <2>3. jud[j].exists /\ jud[j].status = "Queued" /\ (Current(j)' => Current(j))
    BY <2>2 DEF Retires, OutcomeSettles
  <2>4. ~jud'[j].current
    BY <2>3 DEF WriterInv, DeferredIsFree, Current
  <2> QED
    BY <1>4, <2>3, <2>4 DEF WriterInv, DeferredIsFree
<1> QED
  BY <1>5, <1>6, <1>7, <1>8, <1>9, <1>10 DEF WriterInv

\* Every insert keeps the invariant.
LEMMA InsertWriterStep ==
  ASSUME TypeOK, TypeOK', RowsAllocated, StartsInLockstep, WriterInv, InsertStep
  PROVE  WriterInv'
<1>0. Inserts /\ serial \in Nat /\ sub \in SubmissionRow
  BY InsertStepRows DEF TypeOK
<1>1. serial + 1 \in Jids /\ Demoted \in [Jids -> JudgementRow]
  BY <1>0, DemotedType DEF Inserts, TypeOK
<1>2. ASSUME NEW s \in Servers, NEW t \in Tasks,
             StealSubmission(s, t) \/ RecoverStuckSubmission(s, t)
      PROVE  WriterInv'
  <2>1. jud'[serial + 1] = NewJudgement("Pending", NextEpoch(sub.epoch), s, TRUE)
    <3>1. CASE StealSubmission(s, t)
      BY <1>1, <3>1 DEF StealSubmission
    <3>2. CASE RecoverStuckSubmission(s, t)
      BY <1>1, <3>2 DEF RecoverStuckSubmission
    <3> QED
      BY <1>2, <3>1, <3>2
  <2>2. jud'[serial + 1].current /\ jud'[serial + 1].status = "Pending"
    BY <2>1 DEF NewJudgement
  <2>3. sub'.epoch = sub.epoch + 1 /\ sub'.status = "Pending"
    BY <1>0, <1>2 DEF StealSubmission, RecoverStuckSubmission, Redispatched, NextEpoch,
                      SubmissionRow
  <2>4. Spawn(t, s, 0, sub.epoch + 1, "start")
    BY <1>2 DEF StealSubmission, RecoverStuckSubmission, NextEpoch
  <2>5. OthersRest(t) /\ task'[t].pc = "start" /\ task'[t].epoch = sub.epoch + 1
    BY <2>4 DEF Spawn, Idle, TypeOK, OthersRest
  <2> QED
    BY <1>0, <2>2, <2>3, <2>5, SupersedeStep
<1>3. ASSUME RejudgeImmediate \/ DlqRetry PROVE WriterInv'
  <2>1. OpenImmediateRejudge /\ task' = task
    BY <1>3 DEF RejudgeImmediate, DlqRetry
  <2>2. jud'[serial + 1] = NewJudgement("Pending", NextEpoch(sub.epoch), None, TRUE)
    BY <1>1, <2>1 DEF OpenImmediateRejudge
  <2>3. jud'[serial + 1].current /\ jud'[serial + 1].status = "Pending"
    BY <2>2 DEF NewJudgement
  <2>4. sub'.epoch = sub.epoch + 1
    BY <1>0, <2>1 DEF OpenImmediateRejudge, NextEpoch, SubmissionRow
  <2> QED
    BY <1>0, <2>1, <2>3, <2>4, SupersedeStep
<1>4. ASSUME RejudgeDeferred PROVE WriterInv'
  <2>1. /\ sub' = sub /\ task' = task /\ serial' = serial + 1
        /\ jud' = [jud EXCEPT ![serial + 1] =
                     NewJudgement("Queued", NextEpoch(sub.epoch), None, FALSE)]
    BY <1>4 DEF RejudgeDeferred
  <2>2. jud'[serial + 1] = NewJudgement("Queued", NextEpoch(sub.epoch), None, FALSE)
    BY <1>1, <2>1 DEF TypeOK
  <2>3. ~jud'[serial + 1].current
    BY <2>2 DEF NewJudgement
  <2>4. ASSUME NEW k \in Jids PROVE RowKept(k)
    <3>1. CASE k = serial + 1
      BY <1>0, <2>3, <3>1 DEF RowKept
    <3>2. CASE k # serial + 1
      <4>1. jud'[k] = jud[k]
        BY <2>1, <3>2 DEF TypeOK
      <4> QED
        BY <4>1 DEF RowKept
    <3> QED
      BY <3>1, <3>2
  <2>5. \A u \in Tasks : TaskKept(u)
    BY <2>1 DEF TaskKept, Working
  <2>6. serial <= serial'
    BY <1>0, <2>1
  <2> QED
    BY <2>1, <2>4, <2>5, <2>6, KeptStep
<1> QED
  BY <1>2, <1>3, <1>4, EnsureInsertStep DEF InsertStep

\* An applied judgement is final and moves no attempt; no task starts at the
\* epoch the submission takes from it.
LEMMA ApplyWriterStep ==
  ASSUME TypeOK, TypeOK', FinalMeansEnded, WriterInv, NEW j \in Jids,
         ApplyJudgement(j), ApplyInTime(j)
  PROVE  WriterInv'
<1>1. /\ jud[j].exists /\ jud[j].final /\ jud[j].status \in Terminal
      /\ task' = task /\ serial' = serial /\ sub' = Applied(j)
  BY DEF ApplyJudgement, FinalMeansEnded
<1>2. sub'.epoch = jud[j].epoch /\ sub'.status # "Queued"
  BY <1>1 DEF Applied, Terminal, TypeOK, SubmissionRow
<1>3. ASSUME NEW k \in Jids
      PROVE  /\ jud'[k].exists = jud[k].exists /\ jud'[k].epoch = jud[k].epoch
             /\ jud'[k].status = jud[k].status /\ (jud'[k].current => k = j)
  <2>1. jud[k] \in JudgementRow /\ Demoted \in [Jids -> JudgementRow]
    BY DemotedType DEF TypeOK
  <2>2. Demoted[k] = [jud[k] EXCEPT !.current = FALSE]
    BY DEF Demoted
  <2>3. jud'[k] = IF k = j THEN [Demoted[k] EXCEPT !.current = TRUE] ELSE Demoted[k]
    BY <2>1 DEF ApplyJudgement
  <2> QED
    BY <2>1, <2>2, <2>3 DEF JudgementRow
<1>4. ASSUME NEW u \in Tasks, task[u].pc = "start" PROVE task[u].epoch < jud[j].epoch
  BY <1>4 DEF ApplyInTime
<1>5. jud[j].epoch \in Nat /\ \A u \in Tasks : task[u].epoch \in Nat
  BY FieldTypes
<1>6. ASSUME NEW u \in Tasks PROVE ~Starting(u)'
  BY <1>1, <1>2, <1>4, <1>5 DEF Starting
<1>7. ASSUME NEW u \in Tasks, NEW k \in Jids PROVE OnAttempt(u, k)' => OnAttempt(u, k)
  BY <1>1, <1>3 DEF OnAttempt, Working
<1>8. NobodyAhead'
  <2>1. ASSUME NEW u \in Tasks, task'[u].pc = "start" PROVE task'[u].epoch <= sub'.epoch
    BY <1>1, <1>2, <1>4, <1>5, <2>1
  <2>2. ASSUME NEW u \in Tasks, NEW k \in Jids, Working(u)', task'[u].jid = k
        PROVE  k <= serial' /\ (jud'[k].exists => task'[u].epoch <= jud'[k].epoch)
    BY <1>1, <1>3, <2>2 DEF WriterInv, NobodyAhead, Working
  <2> QED
    BY <2>1, <2>2 DEF NobodyAhead
<1>9. OneStarter' /\ StarterIsFirst' /\ QueuedIsFree'
  BY <1>2, <1>6 DEF OneStarter, StarterIsFirst, QueuedIsFree
<1>10. OneHolder'
  BY <1>7 DEF WriterInv, OneHolder
<1>11. DeferredIsFree'
  <2> SUFFICES ASSUME NEW k \in Jids, jud'[k].exists, jud'[k].status = "Queued"
               PROVE  ~jud'[k].current /\ \A u \in Tasks : ~OnAttempt(u, k)'
    BY DEF DeferredIsFree
  <2>1. jud[k].exists /\ jud[k].status = "Queued" /\ k # j
    BY <1>1, <1>3 DEF Terminal
  <2> QED
    BY <1>3, <1>7, <2>1 DEF WriterInv, DeferredIsFree
<1> QED
  BY <1>8, <1>9, <1>10, <1>11 DEF WriterInv

-----------------------------------------------------------------------------
(* The theorem *)

\* Every step of every actor keeps the invariant.
LEMMA WriterStep ==
  ASSUME IInv, IInv', TaskShapes, WriterInv, [Next]_vars, [Orderly]_vars
  PROVE  WriterInv'
<1>1. /\ TypeOK /\ TypeOK' /\ RowsAllocated /\ EpochLockstep /\ StartsInLockstep
      /\ FinalMeansEnded
  BY DEF IInv, Lineage, Lockstep
<1>2. /\ serial \in Nat /\ (\A t \in Tasks : RereadInTime(t) \/ UNCHANGED vars)
      /\ \A j \in Jids : ApplyInTime(j) \/ UNCHANGED vars
  BY <1>1 DEF TypeOK, Orderly
<1>3. CASE QuietStep
  <2>1. CASE \A u \in Tasks : TaskKept(u)
    <3>1. QuietRows /\ sub'.epoch = sub.epoch
      BY <1>1, <1>3, QuietStepRows, QuietSubmission
    <3>2. serial <= serial' /\ \A j \in Jids : RowKept(j)
      BY <1>2, <3>1, QuietRowsKept DEF QuietRows
    <3>3. sub'.status = "Queued" => sub.status = "Queued"
      BY <1>1, <1>3, QuietQueued
    <3> QED
      BY <1>1, <2>1, <3>1, <3>2, <3>3, KeptStep
  <2>2. ASSUME NEW s \in Servers, NEW t \in Tasks, Claim(s, t) PROVE WriterInv'
    BY <1>1, <2>2, ClaimStep
  <2>3. ASSUME NEW s \in Servers, NEW t \in Tasks, NEW j \in Jids, ClaimDeferred(s, t, j)
        PROVE  WriterInv'
    BY <1>1, <2>3, ClaimDeferredStep
  <2>4. ASSUME NEW t \in Tasks, NEW j \in Jids, EnsureAdopt(t, j) PROVE WriterInv'
    BY <1>1, <2>4, AdoptStep
  <2>5. CASE UNCHANGED vars
    <3>1. \A u \in Tasks : TaskKept(u)
      BY <2>5 DEF TaskKept, Working, vars
    <3> QED
      BY <2>1, <3>1
  <2> QED
    BY <1>1, <1>2, <1>3, <2>1, <2>2, <2>3, <2>4, <2>5, QuietTasksKept
<1>4. ASSUME NEW s \in Servers, NEW t \in Tasks, NEW j \in Jids, AdvanceStep(s, t, j)
      PROVE  WriterInv'
  BY <1>1, <1>4, AdvanceWriterStep
<1>5. CASE InsertStep
  BY <1>1, <1>5, InsertWriterStep
<1>6. ASSUME NEW j \in Jids, ApplyJudgement(j) PROVE WriterInv'
  <2>1. CASE ApplyInTime(j)
    BY <1>1, <1>6, <2>1, ApplyWriterStep
  <2>2. CASE UNCHANGED vars
    BY <1>3, <2>2 DEF QuietStep
  <2> QED
    BY <1>2, <2>1, <2>2
<1>7. ASSUME NEW j \in Jids, DiscardJudgement(j) PROVE WriterInv'
  <2>1. sub' = sub /\ task' = task /\ serial' = serial
    BY <1>7 DEF DiscardJudgement
  <2>2. ASSUME NEW k \in Jids PROVE RowKept(k)
    <3>1. jud'[k] = IF k = j THEN NoRow ELSE jud[k]
      BY <1>1, <1>7 DEF DiscardJudgement, TypeOK
    <3> QED
      BY <3>1 DEF NoRow, RowKept
  <2>3. \A u \in Tasks : TaskKept(u)
    BY <2>1 DEF TaskKept, Working
  <2> QED
    BY <1>1, <1>2, <2>1, <2>2, <2>3, KeptStep
<1> QED
  BY <1>3, <1>4, <1>5, <1>6, <1>7, StepKinds

\* Two running tasks never judge the same attempt of a judgement, whatever
\* claims, steals, recoveries, SystemError retries, crashes, restarts, rejudges,
\* applies, discards or dead-letter retries happened before: the epoch tells
\* every stale worker from the live one, provided the reaper's second read and
\* an apply do not come too late.
THEOREM OneWriter == Spec /\ [][Orderly]_vars => []OneWriterPerAttempt
<1> DEFINE WInv == IInv /\ TaskShapes /\ WriterInv
<1>1. Init => WInv
  <2> SUFFICES ASSUME Init PROVE WInv
    OBVIOUS
  <2>1. \A t \in Tasks : task[t].pc = "idle"
    BY DEF Init, Idle
  <2>2. \A j \in Jids : ~jud[j].exists
    BY DEF Init, NoRow
  <2>3. TaskShapes
    BY <2>1 DEF TaskShapes, TaskShape
  <2>4. NobodyAhead /\ OneStarter /\ OneHolder
    BY <2>1 DEF NobodyAhead, OneStarter, OneHolder, Starting, OnAttempt, Working
  <2>5. StarterIsFirst /\ QueuedIsFree /\ DeferredIsFree
    BY <2>1, <2>2 DEF StarterIsFirst, QueuedIsFree, DeferredIsFree, Starting, OnAttempt, Working
  <2> QED
    BY <2>3, <2>4, <2>5, InvariantInit DEF WriterInv
<1>2. WInv /\ [Next]_vars /\ [Orderly]_vars => WInv'
  <2> SUFFICES ASSUME WInv, [Next]_vars, [Orderly]_vars PROVE WInv'
    OBVIOUS
  <2>1. IInv' /\ TypeOK
    BY InvariantStep DEF IInv
  <2>2. TaskShapes'
    BY <2>1, ShapeStep
  <2>3. WriterInv'
    BY <2>1, WriterStep
  <2> QED
    BY <2>1, <2>2, <2>3
<1>3. WInv => OneWriterPerAttempt
  <2> SUFFICES ASSUME WInv, NEW t \in Tasks, NEW u \in Tasks,
                      task[t].pc = "run", task[u].pc = "run",
                      Writable(t), Writable(u), task[t].jid = task[u].jid
               PROVE  t = u
    BY DEF OneWriterPerAttempt
  <2>1. PICK j \in Jids : j = task[t].jid
    BY DEF Writable, LiveAttempt
  <2>2. OnAttempt(t, j) /\ OnAttempt(u, j)
    BY <2>1 DEF Writable, LiveAttempt, OnAttempt, Working
  <2> QED
    BY <2>2 DEF WriterInv, OneHolder
<1> QED
  BY <1>1, <1>2, <1>3, PTL DEF Spec

=============================================================================
