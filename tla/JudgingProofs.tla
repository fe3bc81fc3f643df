---------------------------- MODULE JudgingProofs ----------------------------
(***************************************************************************)
(* The safety properties of JudgingLifecycle hold for every number of      *)
(* servers, tasks and judgements and every retry budget.                   *)
(*                                                                         *)
(* The steps of Next fall into five kinds by what they do to the lineage   *)
(* of judgement rows: a quiet step keeps every row on its attempt, an      *)
(* advance puts one row on the next epoch, an insert adds a row, an apply  *)
(* moves the current mark and a discard removes a row. What each kind does *)
(* is proved once; each invariant then has one case per kind.              *)
(***************************************************************************)
EXTENDS JudgingTypeProofs

-----------------------------------------------------------------------------
(* The five kinds of steps *)

QuietTask(t) ==
  \/ \E j \in Jids : EnsureAdopt(t, j)
  \/ EnsureFails(t) \/ PluginProgress(t) \/ PluginVerdict(t) \/ UpdateSubmission(t)
  \/ PluginStale(t) \/ InsertResults(t) \/ DeleteResults(t) \/ FailDispatch(t)
  \/ MarkSubmission(t) \/ MarkMirror(t) \/ RereadSubmission(t) \/ Wedge(t)

QuietFiber(s) ==
  \/ \E t \in Tasks : Claim(s, t)
  \/ \E t \in Tasks, j \in Jids : ClaimDeferred(s, t, j)
  \/ \E j \in Jids : ExhaustJudgement(s, j) \/ TerminateStuckJudgement(s, j)
  \/ ExhaustSubmission(s) \/ TerminateStuckSubmission(s)
  \/ RefreshLeases(s) \/ Crash(s) \/ Restart(s)

QuietStep ==
  \/ UNCHANGED vars \/ TimeStep
  \/ \E t \in Tasks : QuietTask(t)
  \/ \E s \in Servers : QuietFiber(s)

AdvanceStep(s, t, j) ==
  StealJudgement(s, t, j) \/ RecoverStuckJudgement(s, t, j) \/ RequeueSystemError(s, t, j)

InsertStep ==
  \/ \E t \in Tasks : EnsureInsert(t)
  \/ \E s \in Servers, t \in Tasks : StealSubmission(s, t) \/ RecoverStuckSubmission(s, t)
  \/ RejudgeImmediate \/ RejudgeDeferred \/ DlqRetry

\* Every step is of one of the five kinds.
LEMMA StepKinds ==
  ASSUME [Next]_vars
  PROVE  \/ QuietStep
         \/ \E s \in Servers, t \in Tasks, j \in Jids : AdvanceStep(s, t, j)
         \/ InsertStep
         \/ \E j \in Jids : ApplyJudgement(j)
         \/ \E j \in Jids : DiscardJudgement(j)
<1>1. CASE UNCHANGED vars
  BY <1>1 DEF QuietStep
<1>2. ASSUME NEW t \in Tasks, TaskStep(t) PROVE QuietStep \/ InsertStep
  BY <1>2 DEF TaskStep, EnsureActiveJudgement, QuietStep, QuietTask, InsertStep
<1>3. ASSUME NEW s \in Servers, FiberStep(s)
      PROVE  \/ QuietStep \/ InsertStep
             \/ \E t \in Tasks, j \in Jids : AdvanceStep(s, t, j)
  BY <1>3 DEF FiberStep, QuietStep, QuietFiber, InsertStep, AdvanceStep
<1>4. CASE AdminStep
  BY <1>4 DEF AdminStep, InsertStep
<1>5. CASE TimeStep
  BY <1>5 DEF QuietStep
<1> QED
  BY <1>1, <1>2, <1>3, <1>4, <1>5 DEF Next

-----------------------------------------------------------------------------
(* What a step of each kind does to the rows *)

\* Row k stays on its attempt.
SameAttempt(k) ==
  /\ jud'[k].exists = jud[k].exists /\ jud'[k].version = jud[k].version
  /\ jud'[k].current = jud[k].current /\ jud'[k].epoch = jud[k].epoch

\* A finalized outcome is kept; an open row may be ended by a failure or take
\* what the plugin reports.
OutcomeSettles(k) ==
  \/ /\ jud'[k].final = jud[k].final /\ jud'[k].verdict = jud[k].verdict
     /\ jud'[k].status = jud[k].status \/ jud[k].status = "Queued"
  \/ /\ ~jud[k].final /\ jud'[k].final
     /\ jud'[k].status = "SystemError" /\ jud'[k].verdict = jud[k].verdict
  \/ ~jud[k].final /\ jud'[k].status = "Judged" /\ jud'[k].final
  \/ /\ ~jud[k].final /\ ~jud'[k].final
     /\ jud'[k].status = "Running" /\ jud'[k].verdict = None

QuietRows ==
  serial' = serial /\ \A k \in Jids : SameAttempt(k) /\ OutcomeSettles(k)

\* Re-dispatching a row leaves the fields it does not name alone,
LEMMA RedispatchedFields ==
  ASSUME NEW row \in JudgementRow, NEW s \in Servers, NEW e \in Nat, NEW n \in Nat,
         NEW new, new = Redispatched(row, s, e, n)
  PROVE  /\ new.exists = row.exists /\ new.version = row.version
         /\ new.current = row.current /\ new.final = row.final
         /\ new.epoch = e /\ new.status = "Pending" /\ new.verdict = None
BY DEF Redispatched, JudgementRow

\* and so do failing a row
LEMMA AsSystemErrorFields ==
  ASSUME NEW row \in JudgementRow, NEW new, new = AsSystemError(row)
  PROVE  /\ new.exists = row.exists /\ new.version = row.version
         /\ new.current = row.current /\ new.epoch = row.epoch
         /\ new.final = TRUE /\ new.status = "SystemError"
         /\ new.verdict = row.verdict
BY DEF AsSystemError, JudgementRow

\* and stamping its lease.
LEMMA StampedFields ==
  ASSUME NEW row \in JudgementRow, NEW new, new = Refreshed(row) \/ new = Orphan(row)
  PROVE  /\ new.exists = row.exists /\ new.version = row.version
         /\ new.current = row.current /\ new.epoch = row.epoch
         /\ new.final = row.final /\ new.status = row.status
         /\ new.verdict = row.verdict
BY DEF Refreshed, Orphan, JudgementRow

\* Rows that are not written are settled.
LEMMA SameRow ==
  ASSUME NEW k \in Jids, jud'[k] = jud[k]
  PROVE  SameAttempt(k) /\ OutcomeSettles(k)
BY DEF SameAttempt, OutcomeSettles

\* A failing dispatch, the detector and the exhausted scans end open rows.
LEMMA FailedRow ==
  ASSUME NEW k \in Jids, jud[k] \in JudgementRow, ~jud[k].final,
         jud'[k] = AsSystemError(jud[k])
  PROVE  SameAttempt(k) /\ OutcomeSettles(k)
<1>1. /\ jud'[k].exists = jud[k].exists /\ jud'[k].version = jud[k].version
      /\ jud'[k].current = jud[k].current /\ jud'[k].epoch = jud[k].epoch
      /\ jud'[k].final = TRUE /\ jud'[k].status = "SystemError"
      /\ jud'[k].verdict = jud[k].verdict
  BY AsSystemErrorFields
<1> QED
  BY <1>1 DEF SameAttempt, OutcomeSettles

\* So does mark_submission_system_error_with_epoch.
LEMMA MarkedRows ==
  ASSUME TypeOK, NEW e \in Nat, jud' = MarkedJudgements(e), NEW k \in Jids
  PROVE  SameAttempt(k) /\ OutcomeSettles(k)
<1>1. jud[k] \in JudgementRow
  BY FieldTypes
<1>2. CASE Current(k) /\ ~jud[k].final /\ jud[k].epoch = e
  <2>1. jud'[k] = AsSystemError(jud[k])
    BY <1>2 DEF MarkedJudgements
  <2> QED
    BY <1>1, <1>2, <2>1, FailedRow
<1>3. CASE ~(Current(k) /\ ~jud[k].final /\ jud[k].epoch = e)
  <2>1. jud'[k] = jud[k]
    BY <1>3 DEF MarkedJudgements
  <2> QED
    BY <2>1, SameRow
<1> QED
  BY <1>2, <1>3

\* submission_update's first statement settles the row it matches.
LEMMA UpdateJudgementRows ==
  ASSUME TypeOK, NEW t \in Tasks, NEW st, NEW v, UpdateJudgement(t, st, v),
         st = "Judged" \/ (st = "Running" /\ v = None)
  PROVE  QuietRows
<1>1. serial' = serial
  BY DEF UpdateJudgement
<1>2. ASSUME NEW k \in Jids PROVE SameAttempt(k) /\ OutcomeSettles(k)
  <2>1. jud[k] \in JudgementRow
    BY FieldTypes
  <2>2. CASE k # task[t].jid
    <3>1. jud'[k] = jud[k]
      BY <2>2 DEF UpdateJudgement, TypeOK
    <3> QED
      BY <3>1, SameRow
  <2>3. CASE k = task[t].jid
    <3>1. jud'[k] = [jud[k] EXCEPT !.status = st, !.verdict = v, !.final = (st = "Judged")]
      BY <2>3 DEF UpdateJudgement, TypeOK
    <3>2. ~jud[k].final
      BY <2>3 DEF UpdateJudgement, Writable, LiveAttempt
    <3>3. /\ jud'[k].status = st /\ jud'[k].verdict = v
          /\ jud'[k].final = (st = "Judged") /\ SameAttempt(k)
      BY <3>1, <2>1 DEF SameAttempt, JudgementRow
    <3>4. CASE st = "Judged"
      BY <3>2, <3>3, <3>4 DEF OutcomeSettles
    <3>5. CASE st = "Running" /\ v = None
      BY <3>2, <3>3, <3>5 DEF OutcomeSettles
    <3> QED
      BY <3>3, <3>4, <3>5
  <2> QED
    BY <2>2, <2>3
<1> QED
  BY <1>1, <1>2 DEF QuietRows

\* The reports of a dispatch task are quiet.
LEMMA QuietTaskRows ==
  ASSUME TypeOK, NEW t \in Tasks, QuietTask(t)
  PROVE  QuietRows
<1>1. ASSUME NEW j \in Jids, EnsureAdopt(t, j) PROVE QuietRows
  <2>1. serial' = serial
    BY <1>1 DEF EnsureAdopt
  <2>2. ASSUME NEW k \in Jids PROVE SameAttempt(k) /\ OutcomeSettles(k)
    <3>1. jud[k] \in JudgementRow
      BY FieldTypes
    <3>2. CASE jud'[k] = jud[k]
      BY <3>2, SameRow
    <3>3. CASE jud'[k] # jud[k]
      <4>1. jud'[k] = [jud[k] EXCEPT !.owner = task[t].server, !.lease = "fresh"]
        BY <1>1, <3>3 DEF EnsureAdopt, TypeOK
      <4> QED
        BY <4>1, <3>1 DEF SameAttempt, OutcomeSettles, JudgementRow
    <3> QED
      BY <3>2, <3>3
  <2> QED
    BY <2>1, <2>2 DEF QuietRows
<1>3. CASE FailDispatch(t)
  <2>1. serial' = serial
    BY <1>3 DEF FailDispatch
  <2>2. ASSUME NEW k \in Jids PROVE SameAttempt(k) /\ OutcomeSettles(k)
    <3>1. jud[k] \in JudgementRow
      BY FieldTypes
    <3>2. CASE LiveAttempt(t) /\ k = task[t].jid
      <4>1. jud'[k] = AsSystemError(jud[k])
        BY <1>3, <3>2 DEF FailDispatch, TypeOK
      <4>2. ~jud[k].final
        BY <3>2 DEF LiveAttempt
      <4> QED
        BY <3>1, <4>1, <4>2, FailedRow
    <3>3. CASE ~(LiveAttempt(t) /\ k = task[t].jid)
      <4>1. jud'[k] = jud[k]
        BY <1>3, <3>3 DEF FailDispatch, TypeOK
      <4> QED
        BY <4>1, SameRow
    <3> QED
      BY <3>2, <3>3
  <2> QED
    BY <2>1, <2>2 DEF QuietRows
<1>4. CASE MarkMirror(t)
  BY <1>4, MarkedRows, FieldTypes DEF MarkMirror, QuietRows
<1>5. CASE UNCHANGED <<jud, serial>>
  BY <1>5, SameRow DEF QuietRows
<1>6. EnsureFails(t) \/ UpdateSubmission(t) \/ PluginStale(t) \/ InsertResults(t)
        \/ DeleteResults(t) \/ MarkSubmission(t) \/ RereadSubmission(t) \/ Wedge(t)
      => UNCHANGED <<jud, serial>>
  BY DEF EnsureFails, UpdateSubmission, PluginStale, InsertResults, DeleteResults,
         MarkSubmission, RereadSubmission, Wedge
<1>7. CASE PluginProgress(t)
  BY <1>7, UpdateJudgementRows DEF PluginProgress
<1>8. CASE PluginVerdict(t)
  BY <1>8, UpdateJudgementRows DEF PluginVerdict
<1> QED
  BY <1>1, <1>3, <1>4, <1>5, <1>6, <1>7, <1>8 DEF QuietTask

\* A row whose lease is stamped, and nothing else, is settled.
LEMMA StampedRow ==
  ASSUME NEW k \in Jids, jud[k] \in JudgementRow,
         jud'[k] = Refreshed(jud[k]) \/ jud'[k] = Orphan(jud[k])
  PROVE  SameAttempt(k) /\ OutcomeSettles(k)
<1>1. /\ jud'[k].exists = jud[k].exists /\ jud'[k].version = jud[k].version
      /\ jud'[k].current = jud[k].current /\ jud'[k].epoch = jud[k].epoch
      /\ jud'[k].final = jud[k].final /\ jud'[k].status = jud[k].status
      /\ jud'[k].verdict = jud[k].verdict
  BY StampedFields
<1> QED
  BY <1>1 DEF SameAttempt, OutcomeSettles

\* The scans that give up, refresh, crash or restart are quiet.
LEMMA QuietFiberRows ==
  ASSUME TypeOK, NEW s \in Servers, QuietFiber(s)
  PROVE  QuietRows
<1>1. ASSUME NEW t \in Tasks, NEW j \in Jids, ClaimDeferred(s, t, j) PROVE QuietRows
  <2>1. ASSUME NEW k \in Jids, k # j PROVE jud'[k] = jud[k]
    BY <1>1, <2>1 DEF ClaimDeferred, TypeOK
  <2>2. jud'[j] = [jud[j] EXCEPT !.status = "Pending", !.owner = s, !.lease = "fresh",
                                 !.retry = jud[j].retry + 1]
    BY <1>1 DEF ClaimDeferred, TypeOK, JudgementRow
  <2>3. jud[j] \in JudgementRow /\ jud[j].status = "Queued"
    BY <1>1, FieldTypes DEF ClaimDeferred
  <2>4. SameAttempt(j) /\ OutcomeSettles(j)
    BY <2>2, <2>3 DEF SameAttempt, OutcomeSettles, JudgementRow
  <2> QED
    BY <1>1, <2>1, <2>4, SameRow DEF ClaimDeferred, QuietRows
<1>2. ASSUME NEW j \in Jids, ExhaustJudgement(s, j) PROVE QuietRows
  <2> DEFINE ended == AsSystemError(jud[j])
  <2>1. ASSUME NEW k \in Jids, k # j PROVE jud'[k] = jud[k]
    BY <1>2, <2>1 DEF ExhaustJudgement, TypeOK
  <2>2. jud'[j] = [ended EXCEPT !.retry = jud[j].retry + 1]
    BY <1>2 DEF ExhaustJudgement, TypeOK
  <2>3. ended \in JudgementRow
    BY RowOperatorTypes, FieldTypes
  <2>4. /\ ended.exists = jud[j].exists /\ ended.version = jud[j].version
        /\ ended.current = jud[j].current /\ ended.epoch = jud[j].epoch
        /\ ended.final = TRUE /\ ended.status = "SystemError"
        /\ ended.verdict = jud[j].verdict
    BY AsSystemErrorFields, FieldTypes
  <2> HIDE DEF ended
  <2>5. /\ jud'[j].exists = ended.exists /\ jud'[j].version = ended.version
        /\ jud'[j].current = ended.current /\ jud'[j].epoch = ended.epoch
        /\ jud'[j].final = ended.final /\ jud'[j].status = ended.status
        /\ jud'[j].verdict = ended.verdict
    BY <2>2, <2>3 DEF JudgementRow
  <2>6. SameAttempt(j) /\ OutcomeSettles(j)
    BY <1>2, <2>4, <2>5 DEF ExhaustJudgement, SameAttempt, OutcomeSettles
  <2> QED
    BY <1>2, <2>1, <2>6, SameRow DEF ExhaustJudgement, QuietRows
<1>3. ASSUME NEW j \in Jids, TerminateStuckJudgement(s, j) PROVE QuietRows
  <2>1. ASSUME NEW k \in Jids, k # j PROVE jud'[k] = jud[k]
    BY <1>3, <2>1 DEF TerminateStuckJudgement, TypeOK
  <2>2. jud'[j] = AsSystemError(jud[j]) /\ ~jud[j].final
    BY <1>3 DEF TerminateStuckJudgement, TypeOK
  <2> QED
    BY <1>3, <2>1, <2>2, SameRow, FailedRow, FieldTypes DEF TerminateStuckJudgement, QuietRows
<1>4. CASE ExhaustSubmission(s)
  BY <1>4, MarkedRows, FieldTypes DEF ExhaustSubmission, QuietRows
<1>5. CASE TerminateStuckSubmission(s)
  BY <1>5, MarkedRows, FieldTypes DEF TerminateStuckSubmission, QuietRows
<1>6. CASE RefreshLeases(s)
  <2>1. ASSUME NEW k \in Jids PROVE jud'[k] = jud[k] \/ jud'[k] = Refreshed(jud[k])
    BY <1>6 DEF RefreshLeases
  <2> QED
    BY <1>6, <2>1, SameRow, StampedRow, FieldTypes DEF RefreshLeases, QuietRows
<1>7. CASE Restart(s)
  <2>1. ASSUME NEW k \in Jids PROVE jud'[k] = jud[k] \/ jud'[k] = Orphan(jud[k])
    BY <1>7 DEF Restart
  <2> QED
    BY <1>7, <2>1, SameRow, StampedRow, FieldTypes DEF Restart, QuietRows
<1>8. CASE UNCHANGED <<jud, serial>>
  BY <1>8, SameRow DEF QuietRows
<1>9. (\E t \in Tasks : Claim(s, t)) \/ Crash(s) => UNCHANGED <<jud, serial>>
  BY DEF Claim, Crash
<1> QED
  BY <1>1, <1>2, <1>3, <1>4, <1>5, <1>6, <1>7, <1>8, <1>9 DEF QuietFiber

\* A quiet step keeps every row on its attempt and every finalized outcome.
LEMMA QuietStepRows ==
  ASSUME TypeOK, QuietStep
  PROVE  QuietRows
<1>1. CASE UNCHANGED <<jud, serial>>
  BY <1>1, SameRow DEF QuietRows
<1>2. ASSUME NEW j \in Jids, ExpireJudgement(j) PROVE QuietRows
  <2>1. ASSUME NEW k \in Jids, k # j PROVE jud'[k] = jud[k]
    BY <1>2, <2>1 DEF ExpireJudgement, TypeOK
  <2>2. jud'[j] = [jud[j] EXCEPT !.lease = "stale"]
    BY <1>2 DEF ExpireJudgement, TypeOK
  <2>3. SameAttempt(j) /\ OutcomeSettles(j)
    BY <2>2, FieldTypes DEF SameAttempt, OutcomeSettles, JudgementRow
  <2> QED
    BY <1>2, <2>1, <2>3, SameRow DEF ExpireJudgement, QuietRows
<1>3. UNCHANGED vars \/ ExpireSubmission \/ (\E j \in Jids : Reconcile(j))
      => UNCHANGED <<jud, serial>>
  BY DEF vars, ExpireSubmission, Reconcile
<1> QED
  BY <1>1, <1>2, <1>3, QuietTaskRows, QuietFiberRows DEF QuietStep, TimeStep

\* An advance clears one row, puts it on its next epoch and touches no other.
Advances(j) ==
  /\ serial' = serial /\ results' = ResultsWithout(j)
  /\ \A k \in Jids : k # j => jud'[k] = jud[k]
  /\ jud[j].exists /\ jud'[j].exists /\ jud'[j].version = jud[j].version
  /\ jud'[j].current = jud[j].current /\ jud'[j].epoch = jud[j].epoch + 1
  /\ jud'[j].verdict = None /\ jud'[j].final = FALSE
  /\ jud[j].final => IsSystemError(jud[j])

\* Steal, detector and reaper advance the row they dispatch again.
LEMMA AdvanceStepRows ==
  ASSUME TypeOK, NEW s \in Servers, NEW t \in Tasks, NEW j \in Jids, AdvanceStep(s, t, j)
  PROVE  Advances(j)
<1> DEFINE row == Redispatched(jud[j], s, NextEpoch(jud[j].epoch), jud[j].retry + 1)
<1>1. /\ jud[j] \in JudgementRow
      /\ NextEpoch(jud[j].epoch) \in Nat /\ jud[j].retry + 1 \in Nat
  BY FieldTypes DEF NextEpoch
<1>2. row \in JudgementRow
  BY <1>1, RowOperatorTypes
<1>3. /\ row.exists = jud[j].exists /\ row.version = jud[j].version
      /\ row.current = jud[j].current /\ row.final = jud[j].final
      /\ row.epoch = jud[j].epoch + 1 /\ row.verdict = None
  BY <1>1, RedispatchedFields DEF NextEpoch
<1>4. CASE StealJudgement(s, t, j)
  <2>1. jud' = [jud EXCEPT ![j] = row] /\ ~jud[j].final /\ jud[j].exists
    BY <1>4 DEF StealJudgement, Current
  <2> HIDE DEF row
  <2>2. jud[j].final = FALSE
    BY <1>1, <2>1 DEF JudgementRow
  <2> QED
    BY <1>3, <1>4, <2>1, <2>2 DEF StealJudgement, Advances, TypeOK
<1>5. CASE RecoverStuckJudgement(s, t, j)
  <2>1. jud' = [jud EXCEPT ![j] = row] /\ ~jud[j].final /\ jud[j].exists
    BY <1>5 DEF RecoverStuckJudgement
  <2> HIDE DEF row
  <2>2. jud[j].final = FALSE
    BY <1>1, <2>1 DEF JudgementRow
  <2> QED
    BY <1>3, <1>5, <2>1, <2>2 DEF RecoverStuckJudgement, Advances, TypeOK
<1>6. CASE RequeueSystemError(s, t, j)
  <2>1. /\ jud' = [jud EXCEPT ![j] = [row EXCEPT !.final = FALSE]]
        /\ IsSystemError(jud[j]) /\ jud[j].exists
    BY <1>6 DEF RequeueSystemError, Current
  <2> HIDE DEF row
  <2>2. /\ jud'[j].exists = row.exists /\ jud'[j].version = row.version
        /\ jud'[j].current = row.current /\ jud'[j].epoch = row.epoch
        /\ jud'[j].final = FALSE /\ jud'[j].verdict = row.verdict
    BY <1>2, <2>1 DEF JudgementRow, TypeOK
  <2> QED
    BY <1>3, <1>6, <2>1, <2>2 DEF RequeueSystemError, Advances, TypeOK
<1> QED
  BY <1>4, <1>5, <1>6 DEF AdvanceStep

\* An insert adds an open row under the next id. The other rows keep their
\* attempt, lose at most the current mark, and only an open one is ended.
Retires(k) ==
  /\ jud'[k].exists = jud[k].exists /\ jud'[k].version = jud[k].version
  /\ jud'[k].epoch = jud[k].epoch
  /\ Current(k)' => Current(k)
  /\ OutcomeSettles(k)

Inserts ==
  /\ serial + 1 \in Jids /\ serial' = serial + 1
  /\ results' \subseteq results
  /\ jud'[serial + 1].exists /\ jud'[serial + 1].version \in 1..(serial + 1)
  /\ jud'[serial + 1].verdict = None /\ jud'[serial + 1].final = FALSE
  /\ \A k \in Jids : k # serial + 1 =>
       Retires(k) /\ (jud'[serial + 1].current => ~Current(k)')

\* Demoting takes the current mark from every row and nothing else.
LEMMA DemotedFields ==
  ASSUME TypeOK, NEW k \in Jids, NEW new, new = Demoted[k]
  PROVE  /\ new.exists = jud[k].exists /\ new.version = jud[k].version
         /\ new.epoch = jud[k].epoch /\ new.final = jud[k].final
         /\ new.status = jud[k].status /\ new.verdict = jud[k].verdict
         /\ new.current = FALSE
<1>1. jud[k] \in JudgementRow /\ new = [jud[k] EXCEPT !.current = FALSE]
  BY FieldTypes DEF Demoted
<1> QED
  BY <1>1 DEF JudgementRow

\* A row whose current mark is taken, or that is left alone, is retired.
LEMMA RetiredRow ==
  ASSUME TypeOK, NEW k \in Jids, jud'[k] = Demoted[k] \/ jud'[k] = jud[k]
  PROVE  Retires(k) /\ (jud'[k] = Demoted[k] => ~Current(k)')
<1>1. ASSUME jud'[k] = jud[k] PROVE Retires(k)
  BY <1>1 DEF Retires, OutcomeSettles, Current
<1>2. CASE jud'[k] = Demoted[k]
  <2>1. /\ jud'[k].exists = jud[k].exists /\ jud'[k].version = jud[k].version
        /\ jud'[k].epoch = jud[k].epoch /\ jud'[k].final = jud[k].final
        /\ jud'[k].status = jud[k].status /\ jud'[k].verdict = jud[k].verdict
        /\ jud'[k].current = FALSE
    BY <1>2, DemotedFields
  <2> QED
    BY <2>1 DEF Retires, OutcomeSettles, Current
<1> QED
  BY <1>1, <1>2

\* ensure_active_judgement_id, submission steal, recovery and the rejudges insert.
LEMMA InsertStepRows ==
  ASSUME TypeOK, RowsAllocated, InsertStep
  PROVE  Inserts
<1> DEFINE new == jud'[serial + 1]
<1>1. ASSUME NEW st, NEW e, NEW o, NEW c \in BOOLEAN,
             CanInsert, serial' = serial + 1, results' \subseteq results,
             new = NewJudgement(st, e, o, c),
             \A k \in Jids : k # serial + 1 => Retires(k) /\ (c => ~Current(k)')
      PROVE  Inserts
  <2>1. serial + 1 \in Jids
    BY <1>1, BoundsAssumption DEF CanInsert, TypeOK, Jids
  <2>2. /\ new.exists = TRUE /\ new.version \in 1..(serial + 1)
        /\ new.current = c /\ new.verdict = None /\ new.final = FALSE
    <3>1. new = NewJudgement(st, e, o, c) /\ NextVersion \in 1..(serial + 1)
      BY <1>1, NextVersionBound
    <3> HIDE DEF new
    <3> QED
      BY <3>1 DEF NewJudgement
  <2> QED
    BY <1>1, <2>1, <2>2 DEF Inserts
<1>2. CanInsert => serial + 1 \in Jids
  BY BoundsAssumption DEF CanInsert, TypeOK, Jids
<1>3. Demoted \in [Jids -> JudgementRow]
  BY DemotedType DEF TypeOK
<1>4. ASSUME NEW e, NEW o, CanInsert, serial' = serial + 1, results' \subseteq results,
             jud' = [Demoted EXCEPT ![serial + 1] = NewJudgement("Pending", e, o, TRUE)]
      PROVE  Inserts
  <2>1. new = NewJudgement("Pending", e, o, TRUE)
    BY <1>2, <1>3, <1>4
  <2>2. ASSUME NEW k \in Jids, k # serial + 1 PROVE Retires(k) /\ ~Current(k)'
    <3>1. jud'[k] = Demoted[k]
      BY <1>3, <1>4, <2>2
    <3> QED
      BY <3>1, RetiredRow
  <2> QED
    BY <1>1, <1>4, <2>1, <2>2
<1>5. ASSUME NEW t \in Tasks, EnsureInsert(t) PROVE Inserts
  <2> DEFINE row == NewJudgement("Pending", task[t].epoch, task[t].server, TRUE)
  <2>1. CanInsert /\ serial' = serial + 1 /\ results' \subseteq results
    BY <1>5 DEF EnsureInsert
  <2>2. jud' = [jud EXCEPT ![serial + 1] = row]
    BY <1>5 DEF EnsureInsert
  <2> HIDE DEF row
  <2>3. new = row
    BY <1>2, <2>1, <2>2 DEF TypeOK
  <2>4. ASSUME NEW k \in Jids, k # serial + 1 PROVE Retires(k) /\ ~Current(k)'
    <3>1. jud'[k] = jud[k]
      BY <2>2, <2>4 DEF TypeOK
    <3>2. ~Current(k)
      BY <1>5 DEF EnsureInsert, HasCurrent
    <3> QED
      BY <3>1, <3>2, RetiredRow DEF Current
  <2> QED
    BY <1>1, <2>1, <2>3, <2>4 DEF row
<1>6. ASSUME NEW s \in Servers, NEW t \in Tasks, StealSubmission(s, t) PROVE Inserts
  BY <1>4, <1>6 DEF StealSubmission, ResultsWithout
<1>7. ASSUME NEW s \in Servers, NEW t \in Tasks, RecoverStuckSubmission(s, t) PROVE Inserts
  <2> DEFINE row == NewJudgement("Pending", NextEpoch(sub.epoch), s, TRUE)
  <2>1. CanInsert /\ serial' = serial + 1 /\ results' \subseteq results
    BY <1>7 DEF RecoverStuckSubmission
  <2>2. new = row
    BY <1>2, <1>7, <2>1 DEF RecoverStuckSubmission
  <2>3. ASSUME NEW k \in Jids, k # serial + 1 PROVE Retires(k) /\ ~Current(k)'
    <3> DEFINE ended == AsSystemError(jud[k])
    <3>1. CASE Current(k)
      <4>1. jud'[k] = [ended EXCEPT !.current = FALSE] /\ ~jud[k].final
        BY <1>7, <2>3, <3>1 DEF RecoverStuckSubmission
      <4>2. ended \in JudgementRow
        BY RowOperatorTypes, FieldTypes
      <4>3. /\ ended.exists = jud[k].exists /\ ended.version = jud[k].version
            /\ ended.epoch = jud[k].epoch /\ ended.final = TRUE
            /\ ended.status = "SystemError" /\ ended.verdict = jud[k].verdict
        BY AsSystemErrorFields, FieldTypes
      <4> HIDE DEF ended
      <4>4. /\ jud'[k].exists = ended.exists /\ jud'[k].version = ended.version
            /\ jud'[k].current = FALSE /\ jud'[k].epoch = ended.epoch
            /\ jud'[k].final = ended.final /\ jud'[k].status = ended.status
            /\ jud'[k].verdict = ended.verdict
        BY <4>1, <4>2 DEF JudgementRow
      <4> QED
        BY <4>1, <4>3, <4>4 DEF Retires, OutcomeSettles, Current
    <3>2. CASE ~Current(k)
      <4>1. jud'[k] = jud[k]
        BY <1>7, <2>3, <3>2 DEF RecoverStuckSubmission
      <4> QED
        BY <3>2, <4>1, RetiredRow DEF Current
    <3> QED
      BY <3>1, <3>2
  <2> HIDE DEF new
  <2> QED
    BY <1>1, <2>1, <2>2, <2>3
<1>8. CASE RejudgeImmediate \/ DlqRetry
  BY <1>4, <1>8 DEF RejudgeImmediate, DlqRetry, OpenImmediateRejudge
<1>9. CASE RejudgeDeferred
  <2> DEFINE row == NewJudgement("Queued", NextEpoch(sub.epoch), None, FALSE)
  <2>1. CanInsert /\ serial' = serial + 1 /\ results' \subseteq results
    BY <1>9 DEF RejudgeDeferred
  <2>2. jud' = [jud EXCEPT ![serial + 1] = row]
    BY <1>9 DEF RejudgeDeferred
  <2> HIDE DEF row
  <2>3. new = row
    BY <1>2, <2>1, <2>2 DEF TypeOK
  <2>4. ASSUME NEW k \in Jids, k # serial + 1 PROVE Retires(k)
    <3>1. jud'[k] = jud[k]
      BY <2>2, <2>4 DEF TypeOK
    <3> QED
      BY <3>1, RetiredRow
  <2> QED
    BY <1>1, <2>1, <2>3, <2>4 DEF row
<1> QED
  BY <1>5, <1>6, <1>7, <1>8, <1>9 DEF InsertStep

\* Applying a judgement moves the current mark to it.
Applies(j) ==
  /\ serial' = serial /\ results' = results /\ task' = task
  /\ jud[j].exists /\ jud[j].final
  /\ sub'.epoch = jud[j].epoch
  /\ sub'.status = jud[j].status /\ sub'.verdict = jud[j].verdict
  /\ \A k \in Jids :
       /\ jud'[k].exists = jud[k].exists /\ jud'[k].version = jud[k].version
       /\ jud'[k].epoch = jud[k].epoch /\ jud'[k].final = jud[k].final
       /\ jud'[k].status = jud[k].status /\ jud'[k].verdict = jud[k].verdict
       /\ jud'[k].current = (k = j)

\* apply_submission_judgement applies.
LEMMA ApplyRows ==
  ASSUME TypeOK, NEW j \in Jids, ApplyJudgement(j)
  PROVE  Applies(j)
<1>1. Demoted \in [Jids -> JudgementRow]
  BY DemotedType DEF TypeOK
<1>2. ASSUME NEW k \in Jids
      PROVE  /\ jud'[k].exists = jud[k].exists /\ jud'[k].version = jud[k].version
             /\ jud'[k].epoch = jud[k].epoch /\ jud'[k].final = jud[k].final
             /\ jud'[k].status = jud[k].status /\ jud'[k].verdict = jud[k].verdict
             /\ jud'[k].current = (k = j)
  <2> DEFINE row == Demoted[k]
  <2>1. /\ row.exists = jud[k].exists /\ row.version = jud[k].version
        /\ row.epoch = jud[k].epoch /\ row.final = jud[k].final
        /\ row.status = jud[k].status /\ row.verdict = jud[k].verdict
        /\ row.current = FALSE /\ row \in JudgementRow
    BY <1>1, DemotedFields
  <2>2. CASE k = j
    <3>1. jud'[k] = [row EXCEPT !.current = TRUE]
      BY <1>1, <2>2 DEF ApplyJudgement
    <3> HIDE DEF row
    <3> QED
      BY <2>1, <2>2, <3>1 DEF JudgementRow
  <2>3. CASE k # j
    <3>1. jud'[k] = row
      BY <1>1, <2>3 DEF ApplyJudgement
    <3> HIDE DEF row
    <3> QED
      BY <2>1, <2>3, <3>1
  <2> QED
    BY <2>2, <2>3
<1>3. /\ sub'.epoch = jud[j].epoch
      /\ sub'.status = jud[j].status /\ sub'.verdict = jud[j].verdict
  BY DEF ApplyJudgement, Applied, TypeOK, SubmissionRow
<1> QED
  BY <1>2, <1>3 DEF ApplyJudgement, Applies

\* How a task can come to stand at "start" or between the two statements of
\* submission_update: it was there, it has just been spawned on the
\* submission's epoch, or it has just written its judgement.
TaskMoves(u) ==
  \/ task'[u] = task[u]
  \/ task'[u].pc \notin {"start", "subWrite"}
  \/ task'[u].pc = "start" /\ task'[u].epoch = sub'.epoch
  \/ PluginProgress(u) \/ PluginVerdict(u)

\* Every step of every actor moves the tasks that way.
LEMMA TaskEffects ==
  ASSUME TypeOK, [Next]_vars, NEW u \in Tasks
  PROVE  TaskMoves(u)
<1>1. CASE UNCHANGED vars
  BY <1>1 DEF vars, TaskMoves
<1>2. ASSUME NEW t \in Tasks, TaskStep(t) PROVE TaskMoves(u)
  <2>1. ASSUME NEW j \in Jids, EnsureAdopt(t, j) PROVE TaskMoves(u)
    BY <2>1, FieldTypes DEF EnsureAdopt, TaskMoves, TypeOK, TaskRow
  <2>2. CASE EnsureInsert(t)
    BY <2>2, FieldTypes DEF EnsureInsert, TaskMoves, TypeOK, TaskRow
  <2>3. CASE EnsureFails(t)
    BY <2>3, FieldTypes DEF EnsureFails, Goto, TaskMoves, TypeOK, TaskRow
  <2>4. CASE PluginProgress(t)
    BY <2>4 DEF PluginProgress, UpdateJudgement, TaskMoves, TypeOK
  <2>5. CASE PluginVerdict(t)
    BY <2>5 DEF PluginVerdict, UpdateJudgement, TaskMoves, TypeOK
  <2>6. CASE UpdateSubmission(t)
    BY <2>6, FieldTypes DEF UpdateSubmission, Goto, End, Idle, TaskMoves, TypeOK, TaskRow
  <2>7. CASE PluginStale(t)
    BY <2>7 DEF PluginStale, End, Idle, TaskMoves, TypeOK
  <2>8. CASE InsertResults(t)
    BY <2>8 DEF InsertResults, TaskMoves
  <2>9. CASE DeleteResults(t)
    BY <2>9 DEF DeleteResults, TaskMoves
  <2>10. CASE FailDispatch(t)
    BY <2>10, FieldTypes DEF FailDispatch, Goto, TaskMoves, TypeOK, TaskRow
  <2>11. CASE MarkSubmission(t)
    BY <2>11, FieldTypes DEF MarkSubmission, Goto, TaskMoves, TypeOK, TaskRow
  <2>12. CASE MarkMirror(t)
    BY <2>12 DEF MarkMirror, End, Idle, TaskMoves, TypeOK
  <2>13. CASE RereadSubmission(t)
    BY <2>13, FieldTypes DEF RereadSubmission, TaskMoves, TypeOK, TaskRow
  <2>14. CASE Wedge(t)
    BY <2>14 DEF Wedge, End, Idle, TaskMoves, TypeOK
  <2> QED
    BY <1>2, <2>1, <2>2, <2>3, <2>4, <2>5, <2>6, <2>7, <2>8,
       <2>9, <2>10, <2>11, <2>12, <2>13, <2>14 DEF TaskStep, EnsureActiveJudgement
<1>3. ASSUME NEW s \in Servers, FiberStep(s) PROVE TaskMoves(u)
  <2>1. ASSUME NEW t \in Tasks, Claim(s, t) PROVE TaskMoves(u)
    <3>1. task'[t].pc = "start" /\ task'[t].epoch = sub'.epoch
      BY <2>1 DEF Claim, Spawn, Idle, TypeOK, SubmissionRow
    <3>2. u # t => task'[u] = task[u]
      BY <2>1 DEF Claim, Spawn, TypeOK
    <3> QED
      BY <3>1, <3>2 DEF TaskMoves
  <2>2. ASSUME NEW t \in Tasks, StealSubmission(s, t) PROVE TaskMoves(u)
    <3>1. task'[t].pc = "start" /\ task'[t].epoch = sub'.epoch
      BY <2>2 DEF StealSubmission, Spawn, Idle, Redispatched, TypeOK, SubmissionRow
    <3>2. u # t => task'[u] = task[u]
      BY <2>2 DEF StealSubmission, Spawn, TypeOK
    <3> QED
      BY <3>1, <3>2 DEF TaskMoves
  <2>3. ASSUME NEW t \in Tasks, RecoverStuckSubmission(s, t) PROVE TaskMoves(u)
    <3>1. task'[t].pc = "start" /\ task'[t].epoch = sub'.epoch
      BY <2>3 DEF RecoverStuckSubmission, Spawn, Idle, Redispatched, TypeOK, SubmissionRow
    <3>2. u # t => task'[u] = task[u]
      BY <2>3 DEF RecoverStuckSubmission, Spawn, TypeOK
    <3> QED
      BY <3>1, <3>2 DEF TaskMoves
  <2>4. ASSUME NEW t \in Tasks, NEW j \in Jids, ClaimDeferred(s, t, j) PROVE TaskMoves(u)
    BY <2>4 DEF ClaimDeferred, Spawn, Idle, TaskMoves, TypeOK
  <2>5. ASSUME NEW t \in Tasks, NEW j \in Jids, StealJudgement(s, t, j) PROVE TaskMoves(u)
    BY <2>5 DEF StealJudgement, Spawn, Idle, TaskMoves, TypeOK
  <2>6. ASSUME NEW t \in Tasks, NEW j \in Jids, RecoverStuckJudgement(s, t, j) PROVE TaskMoves(u)
    BY <2>6 DEF RecoverStuckJudgement, Spawn, Idle, TaskMoves, TypeOK
  <2>7. ASSUME NEW t \in Tasks, NEW j \in Jids, RequeueSystemError(s, t, j) PROVE TaskMoves(u)
    BY <2>7 DEF RequeueSystemError, Spawn, Idle, TaskMoves, TypeOK
  <2>8. ASSUME NEW j \in Jids, ExhaustJudgement(s, j) PROVE TaskMoves(u)
    BY <2>8 DEF ExhaustJudgement, TaskMoves
  <2>9. ASSUME NEW j \in Jids, TerminateStuckJudgement(s, j) PROVE TaskMoves(u)
    BY <2>9 DEF TerminateStuckJudgement, TaskMoves
  <2>10. CASE ExhaustSubmission(s)
    BY <2>10 DEF ExhaustSubmission, TaskMoves
  <2>11. CASE TerminateStuckSubmission(s)
    BY <2>11 DEF TerminateStuckSubmission, TaskMoves
  <2>12. CASE RefreshLeases(s)
    BY <2>12 DEF RefreshLeases, TaskMoves
  <2>13. CASE Crash(s)
    BY <2>13 DEF Crash, Idle, TaskMoves
  <2>14. CASE Restart(s)
    BY <2>14 DEF Restart, TaskMoves
  <2> QED
    BY <1>3, <2>1, <2>2, <2>3, <2>4, <2>5, <2>6, <2>7, <2>8,
       <2>9, <2>10, <2>11, <2>12, <2>13, <2>14 DEF FiberStep
<1>4. ASSUME AdminStep PROVE TaskMoves(u)
  <2>1. CASE RejudgeImmediate
    BY <2>1 DEF RejudgeImmediate, TaskMoves
  <2>2. CASE RejudgeDeferred
    BY <2>2 DEF RejudgeDeferred, TaskMoves
  <2>3. CASE DlqRetry
    BY <2>3 DEF DlqRetry, TaskMoves
  <2>4. ASSUME NEW j \in Jids, ApplyJudgement(j) PROVE TaskMoves(u)
    BY <2>4 DEF ApplyJudgement, TaskMoves
  <2>5. ASSUME NEW j \in Jids, DiscardJudgement(j) PROVE TaskMoves(u)
    BY <2>5 DEF DiscardJudgement, TaskMoves
  <2> QED
    BY <1>4, <2>1, <2>2, <2>3, <2>4, <2>5 DEF AdminStep
<1>5. ASSUME TimeStep PROVE TaskMoves(u)
  <2>1. CASE ExpireSubmission
    BY <2>1 DEF ExpireSubmission, TaskMoves
  <2>2. ASSUME NEW j \in Jids, ExpireJudgement(j) PROVE TaskMoves(u)
    BY <2>2 DEF ExpireJudgement, TaskMoves
  <2>3. ASSUME NEW j \in Jids, Reconcile(j) PROVE TaskMoves(u)
    BY <2>3 DEF Reconcile, TaskMoves
  <2> QED
    BY <1>5, <2>1, <2>2, <2>3 DEF TimeStep
<1> QED
  BY <1>1, <1>2, <1>3, <1>4, <1>5 DEF Next

\* A quiet step keeps the submission's epoch, and shows a new verdict only
\* through submission_update's second statement or the reconciliation.
LEMMA QuietSubmission ==
  ASSUME TypeOK, QuietStep
  PROVE  /\ sub'.epoch = sub.epoch
         /\ \/ sub'.status # "Judged"
            \/ sub'.status = sub.status /\ sub'.verdict = sub.verdict
            \/ \E t \in Tasks : UpdateSubmission(t)
            \/ \E j \in Jids : Reconcile(j)
<1> DEFINE Goal == /\ sub'.epoch = sub.epoch
                   /\ \/ sub'.status # "Judged"
                      \/ sub'.status = sub.status /\ sub'.verdict = sub.verdict
                      \/ \E t \in Tasks : UpdateSubmission(t)
                      \/ \E j \in Jids : Reconcile(j)
<1> SUFFICES Goal
  OBVIOUS
<1>1. sub \in SubmissionRow
  BY DEF TypeOK
<1>2. CASE sub' = sub
  BY <1>2
<1>3. ASSUME NEW e, sub' = MarkedSubmission(e) PROVE Goal
  BY <1>1, <1>3 DEF MarkedSubmission, SubmissionRow
<1>4. ASSUME NEW t \in Tasks, QuietTask(t) PROVE Goal
  <2>1. CASE UpdateSubmission(t)
    BY <1>1, <2>1 DEF UpdateSubmission, SubmissionRow
  <2>2. CASE MarkSubmission(t)
    BY <1>3, <2>2 DEF MarkSubmission
  <2>3. ASSUME NEW j \in Jids, EnsureAdopt(t, j) PROVE Goal
    BY <1>2, <2>3 DEF EnsureAdopt
  <2>4. EnsureFails(t) \/ PluginStale(t) \/ InsertResults(t) \/ DeleteResults(t) => sub' = sub
    BY DEF EnsureFails, PluginStale, InsertResults, DeleteResults
  <2>5. PluginProgress(t) \/ PluginVerdict(t) => sub' = sub
    BY DEF PluginProgress, PluginVerdict, UpdateJudgement
  <2>6. FailDispatch(t) \/ MarkMirror(t) \/ RereadSubmission(t) \/ Wedge(t) => sub' = sub
    BY DEF FailDispatch, MarkMirror, RereadSubmission, Wedge
  <2> HIDE DEF Goal
  <2> QED
    BY <1>2, <1>4, <2>1, <2>2, <2>3, <2>4, <2>5, <2>6 DEF QuietTask
<1>5. ASSUME NEW s \in Servers, QuietFiber(s) PROVE Goal
  <2>1. ASSUME NEW t \in Tasks, Claim(s, t) PROVE Goal
    BY <1>1, <2>1 DEF Claim, SubmissionRow
  <2>2. CASE ExhaustSubmission(s)
    <3> DEFINE row == MarkedSubmission(sub.epoch)
    <3>1. sub' = [row EXCEPT !.retry = row.retry + 1]
      BY <2>2 DEF ExhaustSubmission
    <3>2. row \in SubmissionRow
      BY MarkedTypes, FieldTypes
    <3>3. /\ row.epoch = sub.epoch
          /\ row.status # "Judged" \/ (row.status = sub.status /\ row.verdict = sub.verdict)
      BY <1>1 DEF MarkedSubmission, SubmissionRow
    <3> HIDE DEF row
    <3> QED
      BY <3>1, <3>2, <3>3 DEF SubmissionRow
  <2>3. CASE RefreshLeases(s)
    BY <1>1, <2>3 DEF RefreshLeases, Refreshed, SubmissionRow
  <2>4. CASE Restart(s)
    BY <1>1, <2>4 DEF Restart, Orphan, SubmissionRow
  <2>5. (\E j \in Jids : ExhaustJudgement(s, j)) \/ TerminateStuckSubmission(s) => Goal
    BY <1>3 DEF ExhaustJudgement, TerminateStuckSubmission
  <2>6. ASSUME NEW t \in Tasks, NEW j \in Jids, ClaimDeferred(s, t, j) PROVE Goal
    BY <1>2, <2>6 DEF ClaimDeferred
  <2>7. ASSUME NEW j \in Jids, TerminateStuckJudgement(s, j) PROVE Goal
    BY <1>2, <2>7 DEF TerminateStuckJudgement
  <2>8. CASE Crash(s)
    BY <1>2, <2>8 DEF Crash
  <2> HIDE DEF Goal
  <2> QED
    BY <1>5, <2>1, <2>2, <2>3, <2>4, <2>5, <2>6, <2>7, <2>8 DEF QuietFiber
<1>6. CASE TimeStep
  <2>1. CASE ExpireSubmission
    BY <1>1, <2>1 DEF ExpireSubmission, SubmissionRow
  <2>2. ASSUME NEW j \in Jids, ExpireJudgement(j) PROVE Goal
    BY <1>2, <2>2 DEF ExpireJudgement
  <2>3. ASSUME NEW j \in Jids, Reconcile(j) PROVE Goal
    BY <1>1, <2>3 DEF Reconcile, SubmissionRow
  <2> QED
    BY <1>6, <2>1, <2>2, <2>3 DEF TimeStep
<1> QED
  BY <1>2, <1>4, <1>5, <1>6 DEF QuietStep, vars

-----------------------------------------------------------------------------
(* Lineage *)

\* Ids and versions stay allocated in order, and no step of any actor leaves
\* two judgements current.
LEMMA LineageStep ==
  ASSUME TypeOK, Lineage, [Next]_vars
  PROVE  Lineage'
<1>0. serial \in Nat /\ Jids \subseteq Nat
  BY BoundsAssumption DEF TypeOK, Jids
<1>1. CASE QuietStep
  <2>1. QuietRows
    BY <1>1, QuietStepRows
  <2> QED
    BY <2>1 DEF QuietRows, SameAttempt, Lineage, RowsAllocated, OneCurrent, Current
<1>2. ASSUME NEW s \in Servers, NEW t \in Tasks, NEW j \in Jids, AdvanceStep(s, t, j)
      PROVE  Lineage'
  <2>1. Advances(j)
    BY <1>2, AdvanceStepRows
  <2> QED
    BY <2>1 DEF Advances, Lineage, RowsAllocated, OneCurrent, Current
<1>3. CASE InsertStep
  <2>1. Inserts
    BY <1>3, InsertStepRows DEF Lineage
  <2>2. RowsAllocated'
    BY <1>0, <2>1 DEF Inserts, Retires, Lineage, RowsAllocated
  <2>3. OneCurrent'
    BY <2>1 DEF Inserts, Retires, Lineage, OneCurrent, Current
  <2> QED
    BY <2>2, <2>3 DEF Lineage
<1>4. ASSUME NEW j \in Jids, ApplyJudgement(j) PROVE Lineage'
  <2>1. Applies(j)
    BY <1>4, ApplyRows
  <2> QED
    BY <2>1 DEF Applies, Lineage, RowsAllocated, OneCurrent, Current
<1>5. ASSUME NEW j \in Jids, DiscardJudgement(j) PROVE Lineage'
  <2>1. ASSUME NEW k \in Jids PROVE jud'[k] = IF k = j THEN NoRow ELSE jud[k]
    BY <1>5 DEF DiscardJudgement, TypeOK
  <2> QED
    BY <1>5, <2>1 DEF DiscardJudgement, NoRow, Lineage, RowsAllocated, OneCurrent, Current
<1> QED
  BY <1>1, <1>2, <1>3, <1>4, <1>5, StepKinds

-----------------------------------------------------------------------------
(* Results *)

\* Every write of results is gated on the attempt, and every step that moves a
\* row to another attempt, or removes it, deletes the results it leaves behind.
LEMMA ResultsStep ==
  ASSUME TypeOK, Lineage, ResultsMatchAttempt, [Next]_vars
  PROVE  ResultsMatchAttempt'
<1>0. /\ serial \in Nat /\ Jids \subseteq Nat
      /\ \A r \in results : r[1] \in Jids
  BY BoundsAssumption DEF TypeOK, Jids
<1>1. CASE QuietStep
  <2>1. QuietRows
    BY <1>1, QuietStepRows
  <2>2. \/ results' \subseteq results
        \/ \E t \in Tasks : InsertResults(t)
    <3>1. ASSUME NEW t \in Tasks, QuietTask(t)
          PROVE  results' \subseteq results \/ InsertResults(t)
      <4>1. ASSUME NEW j \in Jids, EnsureAdopt(t, j) PROVE results' = results
        BY <4>1 DEF EnsureAdopt
      <4>2. PluginProgress(t) \/ PluginVerdict(t) => results' = results
        BY DEF PluginProgress, PluginVerdict, UpdateJudgement
      <4>3. EnsureFails(t) \/ UpdateSubmission(t) \/ PluginStale(t) \/ FailDispatch(t)
              => results' = results
        BY DEF EnsureFails, UpdateSubmission, PluginStale, FailDispatch
      <4>4. MarkSubmission(t) \/ MarkMirror(t) \/ RereadSubmission(t) \/ Wedge(t)
              => results' = results
        BY DEF MarkSubmission, MarkMirror, RereadSubmission, Wedge
      <4>5. DeleteResults(t) => results' \subseteq results
        BY DEF DeleteResults
      <4> QED
        BY <3>1, <4>1, <4>2, <4>3, <4>4, <4>5 DEF QuietTask
    <3>2. ASSUME NEW s \in Servers, QuietFiber(s) PROVE results' = results
      <4>1. ASSUME NEW t \in Tasks, Claim(s, t) PROVE results' = results
        BY <4>1 DEF Claim
      <4>2. ASSUME NEW t \in Tasks, NEW j \in Jids, ClaimDeferred(s, t, j)
            PROVE  results' = results
        BY <4>2 DEF ClaimDeferred
      <4>3. ASSUME NEW j \in Jids, ExhaustJudgement(s, j) \/ TerminateStuckJudgement(s, j)
            PROVE  results' = results
        BY <4>3 DEF ExhaustJudgement, TerminateStuckJudgement
      <4>4. ExhaustSubmission(s) \/ TerminateStuckSubmission(s) => results' = results
        BY DEF ExhaustSubmission, TerminateStuckSubmission
      <4>5. RefreshLeases(s) \/ Crash(s) \/ Restart(s) => results' = results
        BY DEF RefreshLeases, Crash, Restart
      <4> QED
        BY <3>2, <4>1, <4>2, <4>3, <4>4, <4>5 DEF QuietFiber
    <3>3. UNCHANGED vars \/ TimeStep => results' = results
      BY DEF vars, TimeStep, ExpireSubmission, ExpireJudgement, Reconcile
    <3> QED
      BY <1>1, <3>1, <3>2, <3>3 DEF QuietStep
  <2>3. CASE results' \subseteq results
    BY <1>0, <2>1, <2>3 DEF QuietRows, SameAttempt, ResultsMatchAttempt
  <2>4. ASSUME NEW t \in Tasks, InsertResults(t) PROVE ResultsMatchAttempt'
    BY <1>0, <2>1, <2>4 DEF InsertResults, LiveAttempt, QuietRows, SameAttempt,
       ResultsMatchAttempt
  <2> QED
    BY <2>2, <2>3, <2>4
<1>2. ASSUME NEW s \in Servers, NEW t \in Tasks, NEW j \in Jids, AdvanceStep(s, t, j)
      PROVE  ResultsMatchAttempt'
  <2>1. Advances(j)
    BY <1>2, AdvanceStepRows
  <2> QED
    BY <1>0, <2>1 DEF Advances, ResultsWithout, ResultsMatchAttempt
<1>3. CASE InsertStep
  <2>1. Inserts
    BY <1>3, InsertStepRows DEF Lineage
  <2>2. \A r \in results : r[1] # serial + 1
    BY <1>0 DEF Lineage, RowsAllocated, ResultsMatchAttempt
  <2> QED
    BY <1>0, <2>1, <2>2 DEF Inserts, Retires, ResultsMatchAttempt
<1>4. ASSUME NEW j \in Jids, ApplyJudgement(j) PROVE ResultsMatchAttempt'
  <2>1. Applies(j)
    BY <1>4, ApplyRows
  <2> QED
    BY <1>0, <2>1 DEF Applies, ResultsMatchAttempt
<1>5. ASSUME NEW j \in Jids, DiscardJudgement(j) PROVE ResultsMatchAttempt'
  <2>1. ASSUME NEW k \in Jids, k # j PROVE jud'[k] = jud[k]
    BY <1>5, <2>1 DEF DiscardJudgement, TypeOK
  <2> QED
    BY <1>0, <1>5, <2>1 DEF DiscardJudgement, ResultsWithout, ResultsMatchAttempt
<1> QED
  BY <1>1, <1>2, <1>3, <1>4, <1>5, StepKinds

-----------------------------------------------------------------------------
(* Epochs *)

\* A plugin's report leaves the task between the two statements of
\* submission_update, on the judgement and the epoch it was given, with what
\* the first statement wrote.
LEMMA PluginReport ==
  ASSUME TypeOK, NEW t \in Tasks, PluginProgress(t) \/ PluginVerdict(t)
  PROVE  /\ task[t].jid \in Jids /\ LiveAttempt(t)
         /\ task'[t].pc = "subWrite"
         /\ task'[t].jid = task[t].jid /\ task'[t].epoch = task[t].epoch
         /\ task'[t].status = "Judged" =>
              /\ jud'[task[t].jid].final = TRUE /\ jud'[task[t].jid].status = "Judged"
              /\ jud'[task[t].jid].verdict = task'[t].verdict
<1>1. PICK st, v : UpdateJudgement(t, st, v)
  BY DEF PluginProgress, PluginVerdict
<1>2. LiveAttempt(t) /\ task[t].jid \in Jids
  BY <1>1 DEF UpdateJudgement, Writable, LiveAttempt
<1>3. task'[t] = [task[t] EXCEPT !.pc = "subWrite", !.status = st, !.verdict = v]
  BY <1>1 DEF UpdateJudgement, TypeOK
<1>4. jud'[task[t].jid] = [jud[task[t].jid] EXCEPT !.status = st, !.verdict = v,
                                                   !.final = (st = "Judged")]
  BY <1>1, <1>2 DEF UpdateJudgement, TypeOK
<1>5. task[t] \in TaskRow /\ jud[task[t].jid] \in JudgementRow
  BY <1>2, FieldTypes
<1>6. /\ task'[t].pc = "subWrite" /\ task'[t].status = st /\ task'[t].verdict = v
      /\ task'[t].jid = task[t].jid /\ task'[t].epoch = task[t].epoch
  BY <1>3, <1>5 DEF TaskRow
<1>7. /\ jud'[task[t].jid].status = st /\ jud'[task[t].jid].verdict = v
      /\ jud'[task[t].jid].final = (st = "Judged")
  BY <1>4, <1>5 DEF JudgementRow
<1> QED
  BY <1>2, <1>6, <1>7

\* The new row an insert makes current stands on the submission's epoch.
LEMMA InsertEpochs ==
  ASSUME TypeOK, Lineage, Lockstep, InsertStep
  PROVE  \/ jud'[serial + 1].epoch = sub'.epoch /\ jud'[serial + 1].current = TRUE
         \/ /\ sub' = sub /\ jud'[serial + 1].current = FALSE
            /\ \A k \in Jids : k # serial + 1 => jud'[k] = jud[k]
<1> DEFINE new == jud'[serial + 1]
           Goal == \/ new.epoch = sub'.epoch /\ new.current = TRUE
                   \/ /\ sub' = sub /\ new.current = FALSE
                      /\ \A k \in Jids : k # serial + 1 => jud'[k] = jud[k]
<1>1. CanInsert => serial + 1 \in Jids
  BY BoundsAssumption DEF CanInsert, TypeOK, Jids
<1>2. sub \in SubmissionRow /\ Demoted \in [Jids -> JudgementRow]
  BY DemotedType DEF TypeOK
<1>3. ASSUME NEW t \in Tasks, EnsureInsert(t) PROVE Goal
  <2>1. new = NewJudgement("Pending", task[t].epoch, task[t].server, TRUE) /\ sub' = sub
    BY <1>1, <1>3 DEF EnsureInsert, TypeOK
  <2>2. task[t].epoch = sub.epoch
    BY <1>3 DEF EnsureInsert, Lockstep, StartsInLockstep
  <2> HIDE DEF new
  <2>3. new.epoch = sub'.epoch /\ new.current = TRUE
    BY <2>1, <2>2 DEF NewJudgement
  <2> QED
    BY <2>3
<1>4. ASSUME NEW s \in Servers, NEW t \in Tasks,
             StealSubmission(s, t) \/ RecoverStuckSubmission(s, t)
      PROVE  Goal
  <2>1. new = NewJudgement("Pending", NextEpoch(sub.epoch), s, TRUE)
    BY <1>1, <1>2, <1>4 DEF StealSubmission, RecoverStuckSubmission
  <2>2. sub'.epoch = NextEpoch(sub.epoch)
    BY <1>2, <1>4 DEF StealSubmission, RecoverStuckSubmission, Redispatched, SubmissionRow
  <2> HIDE DEF new
  <2>3. new.epoch = sub'.epoch /\ new.current = TRUE
    BY <2>1, <2>2 DEF NewJudgement
  <2> QED
    BY <2>3
<1>5. ASSUME RejudgeImmediate \/ DlqRetry PROVE Goal
  <2>1. new = NewJudgement("Pending", NextEpoch(sub.epoch), None, TRUE)
    BY <1>1, <1>2, <1>5 DEF RejudgeImmediate, DlqRetry, OpenImmediateRejudge
  <2>2. sub'.epoch = NextEpoch(sub.epoch)
    BY <1>2, <1>5 DEF RejudgeImmediate, DlqRetry, OpenImmediateRejudge, SubmissionRow
  <2> HIDE DEF new
  <2>3. new.epoch = sub'.epoch /\ new.current = TRUE
    BY <2>1, <2>2 DEF NewJudgement
  <2> QED
    BY <2>3
<1>6. ASSUME RejudgeDeferred PROVE Goal
  <2>1. new = NewJudgement("Queued", NextEpoch(sub.epoch), None, FALSE) /\ sub' = sub
    BY <1>1, <1>6 DEF RejudgeDeferred, TypeOK
  <2>2. \A k \in Jids : k # serial + 1 => jud'[k] = jud[k]
    BY <1>6 DEF RejudgeDeferred, TypeOK
  <2> HIDE DEF new
  <2>3. new.current = FALSE
    BY <2>1 DEF NewJudgement
  <2> QED
    BY <2>1, <2>2, <2>3
<1> QED
  BY <1>3, <1>4, <1>5, <1>6 DEF InsertStep

\* An advance takes the submission along exactly when the row is current.
LEMMA AdvanceSubmission ==
  ASSUME TypeOK, NEW s \in Servers, NEW t \in Tasks, NEW j \in Jids, AdvanceStep(s, t, j),
         EpochLockstep
  PROVE  \/ /\ Current(j) /\ sub'.epoch = jud[j].epoch + 1 /\ sub'.status = "Pending"
         \/ ~Current(j) /\ sub' = sub
<1>1. sub \in SubmissionRow
  BY DEF TypeOK
<1>2. CASE StealJudgement(s, t, j)
  BY <1>1, <1>2 DEF StealJudgement, PulledAlong, Redispatched, NextEpoch, SubmissionRow
<1>3. CASE RecoverStuckJudgement(s, t, j)
  BY <1>1, <1>3 DEF RecoverStuckJudgement, Redispatched, NextEpoch, SubmissionRow, Current
<1>4. CASE RequeueSystemError(s, t, j)
  BY <1>1, <1>4 DEF RequeueSystemError, Redispatched, NextEpoch, SubmissionRow
<1> QED
  BY <1>2, <1>3, <1>4 DEF AdvanceStep

\* Claim, steal, detector, reaper and administrator move the epochs of the
\* submission and of its current judgement together.
LEMMA LockstepStep ==
  ASSUME TypeOK, Lineage, Lockstep, [Next]_vars
  PROVE  Lockstep'
<1>0. Lineage'
  BY LineageStep
<1>1. \A u \in Tasks : TaskMoves(u)
  BY TaskEffects
<1>2. CASE HasCurrent' /\ EpochLockstep'
  BY <1>2 DEF Lockstep, StartsInLockstep
<1>3. ASSUME HasCurrent' = HasCurrent, sub'.epoch = sub.epoch
      PROVE  StartsInLockstep'
  <2> SUFFICES ASSUME ~HasCurrent, NEW u \in Tasks, task'[u].pc = "start"
               PROVE  task'[u].epoch = sub'.epoch
    BY <1>3 DEF StartsInLockstep
  <2>1. task'[u] = task[u] \/ task'[u].epoch = sub'.epoch
    BY <1>1, PluginReport DEF TaskMoves
  <2> QED
    BY <1>3, <2>1 DEF Lockstep, StartsInLockstep
<1>4. CASE QuietStep
  <2>1. QuietRows /\ sub'.epoch = sub.epoch
    BY <1>4, QuietStepRows, QuietSubmission
  <2>2. HasCurrent' = HasCurrent /\ EpochLockstep'
    BY <2>1 DEF QuietRows, SameAttempt, HasCurrent, Current, Lockstep, EpochLockstep
  <2> QED
    BY <1>3, <2>1, <2>2 DEF Lockstep
<1>5. ASSUME NEW s \in Servers, NEW t \in Tasks, NEW j \in Jids, AdvanceStep(s, t, j)
      PROVE  Lockstep'
  <2>1. Advances(j)
    BY <1>5, AdvanceStepRows
  <2>2. CASE Current(j) /\ sub'.epoch = jud[j].epoch + 1
    <3>1. Current(j)'
      BY <2>1, <2>2 DEF Advances, Current
    <3>2. EpochLockstep'
      BY <1>0, <2>1, <2>2, <3>1 DEF Advances, EpochLockstep, Lineage, OneCurrent
    <3> QED
      BY <1>2, <3>1, <3>2 DEF HasCurrent
  <2>3. CASE ~Current(j) /\ sub' = sub
    <3>1. HasCurrent' = HasCurrent /\ EpochLockstep'
      BY <2>1, <2>3 DEF Advances, HasCurrent, Current, Lockstep, EpochLockstep
    <3> QED
      BY <1>3, <2>3, <3>1 DEF Lockstep
  <2> QED
    BY <1>5, <2>2, <2>3, AdvanceSubmission DEF Lockstep
<1>6. CASE InsertStep
  <2>1. Inserts
    BY <1>6, InsertStepRows DEF Lineage
  <2>2. CASE jud'[serial + 1].epoch = sub'.epoch /\ jud'[serial + 1].current = TRUE
    <3>1. serial + 1 \in Jids /\ jud'[serial + 1].exists /\ jud'[serial + 1].current
      BY <2>1, <2>2 DEF Inserts
    <3>2. EpochLockstep'
      BY <1>0, <2>2, <3>1 DEF EpochLockstep, Lineage, OneCurrent, Current
    <3> QED
      BY <1>2, <3>1, <3>2 DEF HasCurrent, Current
  <2>3. CASE /\ sub' = sub /\ jud'[serial + 1].current = FALSE
             /\ \A k \in Jids : k # serial + 1 => jud'[k] = jud[k]
    <3>1. \A k \in Jids : Current(k) => k # serial + 1
      BY BoundsAssumption DEF TypeOK, Jids, Lineage, RowsAllocated, Current
    <3>2. \A k \in Jids : Current(k)' = Current(k)
      BY <2>3, <3>1 DEF Current
    <3>3. HasCurrent' = HasCurrent /\ EpochLockstep'
      BY <2>3, <3>1, <3>2 DEF HasCurrent, Lockstep, EpochLockstep
    <3> QED
      BY <1>3, <2>3, <3>3 DEF Lockstep
  <2> QED
    BY <1>6, <2>2, <2>3, InsertEpochs
<1>7. ASSUME NEW j \in Jids, ApplyJudgement(j) PROVE Lockstep'
  <2>1. Applies(j)
    BY <1>7, ApplyRows
  <2>2. HasCurrent' /\ EpochLockstep'
    BY <2>1 DEF Applies, HasCurrent, EpochLockstep, Current
  <2> QED
    BY <1>2, <2>2
<1>8. ASSUME NEW j \in Jids, DiscardJudgement(j) PROVE Lockstep'
  <2>1. ASSUME NEW k \in Jids PROVE jud'[k] = IF k = j THEN NoRow ELSE jud[k]
    BY <1>8 DEF DiscardJudgement, TypeOK
  <2>2. HasCurrent' = HasCurrent /\ EpochLockstep' /\ sub' = sub
    BY <1>8, <2>1 DEF DiscardJudgement, NoRow, HasCurrent, Current, Lockstep, EpochLockstep
  <2> QED
    BY <1>3, <2>2 DEF Lockstep
<1> QED
  BY <1>4, <1>5, <1>6, <1>7, <1>8, StepKinds

-----------------------------------------------------------------------------
(* Verdicts *)

\* What a task wrote to its judgement is there when it writes the submission,
\* or the judgement is on a later epoch or gone.
LEMMA SubWriteStep ==
  ASSUME TypeOK, Lineage, SubWriteKnown, [Next]_vars
  PROVE  SubWriteKnown'
<1>0. serial \in Nat /\ serial' \in Nat /\ serial <= serial' /\ Jids \subseteq Nat
  <2>1. CASE QuietStep
    BY <2>1, QuietStepRows, BoundsAssumption DEF QuietRows, TypeOK, Jids
  <2>2. ASSUME NEW s \in Servers, NEW t \in Tasks, NEW j \in Jids, AdvanceStep(s, t, j)
        PROVE  serial' = serial
    BY <2>2, AdvanceStepRows DEF Advances
  <2>3. CASE InsertStep
    <3>1. serial' = serial + 1
      BY <2>3, InsertStepRows DEF Inserts, Lineage
    <3> QED
      BY <3>1, BoundsAssumption DEF TypeOK, Jids
  <2>4. ASSUME NEW j \in Jids, ApplyJudgement(j) \/ DiscardJudgement(j)
        PROVE  serial' = serial
    BY <2>4 DEF ApplyJudgement, DiscardJudgement
  <2>5. serial \in Nat /\ Jids \subseteq Nat
    BY BoundsAssumption DEF TypeOK, Jids
  <2> QED
    BY <2>1, <2>2, <2>3, <2>4, <2>5, StepKinds
<1> SUFFICES ASSUME NEW u \in Tasks, task'[u].pc = "subWrite"
             PROVE  LET j == task'[u].jid IN
                    /\ j \in Jids /\ j <= serial'
                    /\ jud'[j].exists => task'[u].epoch <= jud'[j].epoch
                    /\ jud'[j].exists /\ jud'[j].epoch = task'[u].epoch
                         /\ task'[u].status = "Judged" =>
                       /\ jud'[j].final /\ jud'[j].status = "Judged"
                       /\ jud'[j].verdict = task'[u].verdict
  BY DEF SubWriteKnown
<1>1. CASE PluginProgress(u) \/ PluginVerdict(u)
  <2>1. /\ task[u].jid \in Jids /\ LiveAttempt(u)
        /\ task'[u].jid = task[u].jid /\ task'[u].epoch = task[u].epoch
        /\ task'[u].status = "Judged" =>
             /\ jud'[task[u].jid].final = TRUE /\ jud'[task[u].jid].status = "Judged"
             /\ jud'[task[u].jid].verdict = task'[u].verdict
    BY <1>1, PluginReport
  <2>2. QuietRows
    BY <1>1, QuietTaskRows DEF QuietTask
  <2>3. jud'[task[u].jid].epoch = task[u].epoch /\ task[u].epoch \in Nat
    BY <2>1, <2>2, FieldTypes DEF LiveAttempt, QuietRows, SameAttempt
  <2>4. task[u].jid <= serial'
    BY <1>0, <2>1, <2>2 DEF LiveAttempt, QuietRows, Lineage, RowsAllocated
  <2> QED
    BY <2>1, <2>3, <2>4
<1>2. CASE task'[u] = task[u]
  <2> DEFINE j == task[u].jid
  <2>1. /\ task[u].pc = "subWrite" /\ task[u].epoch \in Nat
        /\ j \in Jids /\ j <= serial /\ j <= serial'
        /\ jud[j].exists => task[u].epoch <= jud[j].epoch
        /\ jud[j].exists /\ jud[j].epoch = task[u].epoch /\ task[u].status = "Judged" =>
             jud[j].final /\ jud[j].status = "Judged" /\ jud[j].verdict = task[u].verdict
    BY <1>0, <1>2, FieldTypes DEF SubWriteKnown
  <2> HIDE DEF j
  <2>2. jud[j].epoch \in Nat
    BY <2>1, FieldTypes
  <2> DEFINE Goal ==
        /\ jud'[j].exists => task[u].epoch <= jud'[j].epoch
        /\ jud'[j].exists /\ jud'[j].epoch = task[u].epoch /\ task[u].status = "Judged" =>
             jud'[j].final /\ jud'[j].status = "Judged" /\ jud'[j].verdict = task[u].verdict
  <2>3. ASSUME jud'[j].exists = jud[j].exists, jud'[j].epoch = jud[j].epoch,
               OutcomeSettles(j)
        PROVE  Goal
    BY <2>1, <2>3 DEF OutcomeSettles
  <2>4. ASSUME QuietStep PROVE Goal
    BY <2>1, <2>3, <2>4, QuietStepRows DEF QuietRows, SameAttempt
  <2>5. ASSUME NEW s \in Servers, NEW t \in Tasks, NEW i \in Jids, AdvanceStep(s, t, i)
        PROVE  Goal
    <3>1. Advances(i)
      BY <2>5, AdvanceStepRows
    <3>2. CASE j # i
      BY <2>1, <3>1, <3>2 DEF Advances
    <3>3. CASE j = i
      BY <2>1, <2>2, <3>1, <3>3 DEF Advances
    <3> QED
      BY <3>2, <3>3
  <2>6. ASSUME InsertStep PROVE Goal
    <3>1. Inserts /\ j # serial + 1
      BY <1>0, <2>1, <2>6, InsertStepRows DEF Lineage
    <3> QED
      BY <2>1, <2>3, <3>1 DEF Inserts, Retires
  <2>7. ASSUME NEW i \in Jids, ApplyJudgement(i) PROVE Goal
    <3>1. Applies(i)
      BY <2>7, ApplyRows
    <3> QED
      BY <2>1, <3>1 DEF Applies
  <2>8. ASSUME NEW i \in Jids, DiscardJudgement(i) PROVE Goal
    <3>1. jud'[j] = IF j = i THEN NoRow ELSE jud[j]
      BY <2>1, <2>8 DEF DiscardJudgement, TypeOK
    <3> QED
      BY <2>1, <3>1 DEF NoRow
  <2>9. Goal
    BY <2>4, <2>5, <2>6, <2>7, <2>8, StepKinds
  <2> QED
    BY <1>2, <2>1, <2>9 DEF j
<1> QED
  BY <1>1, <1>2, TaskEffects DEF TaskMoves

\* No verdict of a superseded run reaches the submission.
LEMMA VerdictStep ==
  ASSUME TypeOK, Lineage, Lockstep, SubWriteKnown, VerdictFromCurrent, [Next]_vars
  PROVE  VerdictFromCurrent'
<1> DEFINE Shows(j) == /\ Current(j) /\ jud[j].final /\ jud[j].epoch = sub.epoch
                       /\ jud[j].status = "Judged" /\ jud[j].verdict = sub.verdict
<1> SUFFICES ASSUME sub'.status = "Judged" PROVE \E j \in Jids : Shows(j)'
  BY DEF VerdictFromCurrent
<1>1. CASE QuietStep
  <2>1. QuietRows /\ sub'.epoch = sub.epoch
    BY <1>1, QuietStepRows, QuietSubmission
  <2>2. CASE sub'.status = sub.status /\ sub'.verdict = sub.verdict
    <3>1. PICK j \in Jids : Shows(j)
      BY <2>2 DEF VerdictFromCurrent
    <3>2. SameAttempt(j) /\ OutcomeSettles(j)
      BY <2>1 DEF QuietRows
    <3>3. Shows(j)'
      BY <2>1, <2>2, <3>1, <3>2 DEF SameAttempt, OutcomeSettles, Current
    <3> QED
      BY <3>3
  <2>3. ASSUME NEW t \in Tasks, UpdateSubmission(t), sub' # sub
        PROVE  \E j \in Jids : Shows(j)'
    <3>1. /\ task[t].pc = "subWrite" /\ SubmissionFollows(t) /\ jud' = jud
          /\ sub'.status = task[t].status /\ sub'.verdict = task[t].verdict
      BY <2>3 DEF UpdateSubmission, TypeOK, SubmissionRow
    <3>2. PICK j \in Jids : j = task[t].jid
      BY <3>1 DEF SubWriteKnown
    <3>3. Current(j) /\ jud[j].epoch = sub.epoch /\ task[t].epoch = sub.epoch
      BY <3>1, <3>2 DEF SubmissionFollows
    <3>4. jud[j].final /\ jud[j].status = "Judged" /\ jud[j].verdict = task[t].verdict
      BY <3>1, <3>2, <3>3 DEF SubWriteKnown, Current
    <3>5. Shows(j)'
      BY <2>1, <3>1, <3>3, <3>4 DEF Current
    <3> QED
      BY <3>5
  <2>4. ASSUME NEW j \in Jids, Reconcile(j) PROVE \E k \in Jids : Shows(k)'
    <3>1. /\ Current(j) /\ jud[j].final /\ jud[j].epoch = sub.epoch /\ jud' = jud
          /\ sub'.status = jud[j].status /\ sub'.verdict = jud[j].verdict
      BY <2>4 DEF Reconcile, TypeOK, SubmissionRow
    <3>2. Shows(j)'
      BY <2>1, <3>1 DEF Current
    <3> QED
      BY <3>2
  <2> QED
    BY <1>1, <2>2, <2>3, <2>4, QuietSubmission
<1>2. ASSUME NEW s \in Servers, NEW t \in Tasks, NEW i \in Jids, AdvanceStep(s, t, i)
      PROVE  \E j \in Jids : Shows(j)'
  <2>1. Advances(i) /\ ~Current(i) /\ sub' = sub
    BY <1>2, AdvanceStepRows, AdvanceSubmission DEF Lockstep
  <2>2. PICK j \in Jids : Shows(j)
    BY <2>1 DEF VerdictFromCurrent
  <2>3. jud'[j] = jud[j]
    BY <2>1, <2>2 DEF Advances
  <2> QED
    BY <2>1, <2>2, <2>3 DEF Current
<1>3. CASE InsertStep
  <2>1. ASSUME NEW t \in Tasks, EnsureInsert(t) PROVE FALSE
    BY <2>1 DEF EnsureInsert, HasCurrent, VerdictFromCurrent
  <2>2. ASSUME NEW s \in Servers, NEW t \in Tasks,
               StealSubmission(s, t) \/ RecoverStuckSubmission(s, t)
        PROVE  FALSE
    BY <2>2 DEF StealSubmission, RecoverStuckSubmission, Redispatched, TypeOK, SubmissionRow
  <2>3. ASSUME RejudgeImmediate \/ DlqRetry PROVE FALSE
    BY <2>3 DEF RejudgeImmediate, DlqRetry, OpenImmediateRejudge, TypeOK, SubmissionRow
  <2>4. CASE RejudgeDeferred
    <3>1. PICK j \in Jids : Shows(j)
      BY <2>4 DEF RejudgeDeferred, VerdictFromCurrent
    <3>2. j # serial + 1
      BY <3>1, BoundsAssumption DEF TypeOK, Jids, Lineage, RowsAllocated, Current
    <3>3. jud'[j] = jud[j] /\ sub' = sub
      BY <2>4, <3>2 DEF RejudgeDeferred, TypeOK
    <3> QED
      BY <3>1, <3>3 DEF Current
  <2> QED
    BY <1>3, <2>1, <2>2, <2>3, <2>4 DEF InsertStep
<1>4. ASSUME NEW i \in Jids, ApplyJudgement(i) PROVE \E j \in Jids : Shows(j)'
  <2>1. Applies(i)
    BY <1>4, ApplyRows
  <2>2. Shows(i)'
    BY <2>1 DEF Applies, Current
  <2> QED
    BY <2>2
<1>5. ASSUME NEW i \in Jids, DiscardJudgement(i) PROVE \E j \in Jids : Shows(j)'
  <2>1. PICK j \in Jids : Shows(j)
    BY <1>5 DEF DiscardJudgement, VerdictFromCurrent
  <2>2. jud'[j] = jud[j] /\ sub' = sub
    BY <1>5, <2>1 DEF DiscardJudgement, TypeOK, Current
  <2> QED
    BY <2>1, <2>2 DEF Current
<1> QED
  BY <1>1, <1>2, <1>3, <1>4, <1>5, StepKinds

\* A contestant verdict appears only with the final judged status, and no step
\* leaves the one without the other.
LEMMA VerdictMeansJudgedStep ==
  ASSUME TypeOK, Lineage, VerdictMeansJudged, [Next]_vars
  PROVE  VerdictMeansJudged'
<1> SUFFICES ASSUME NEW k \in Jids, jud'[k].exists, jud'[k].verdict \in ContestantVerdicts
             PROVE  jud'[k].final /\ jud'[k].status = "Judged"
  BY DEF VerdictMeansJudged
<1>0. None \notin ContestantVerdicts
  BY MarksAssumption
<1>1. ASSUME jud'[k].exists = jud[k].exists, OutcomeSettles(k)
      PROVE  jud'[k].final /\ jud'[k].status = "Judged"
  BY <1>0, <1>1 DEF OutcomeSettles, VerdictMeansJudged
<1>2. CASE QuietStep
  BY <1>1, <1>2, QuietStepRows DEF QuietRows, SameAttempt
<1>3. ASSUME NEW s \in Servers, NEW t \in Tasks, NEW j \in Jids, AdvanceStep(s, t, j)
      PROVE  jud'[k].final /\ jud'[k].status = "Judged"
  <2>1. Advances(j)
    BY <1>3, AdvanceStepRows
  <2> QED
    BY <1>0, <2>1 DEF Advances, VerdictMeansJudged
<1>4. CASE InsertStep
  <2>1. Inserts
    BY <1>4, InsertStepRows DEF Lineage
  <2> QED
    BY <1>0, <1>1, <2>1 DEF Inserts, Retires
<1>5. ASSUME NEW j \in Jids, ApplyJudgement(j)
      PROVE  jud'[k].final /\ jud'[k].status = "Judged"
  <2>1. Applies(j)
    BY <1>5, ApplyRows
  <2> QED
    BY <2>1 DEF Applies, VerdictMeansJudged
<1>6. ASSUME NEW j \in Jids, DiscardJudgement(j)
      PROVE  jud'[k].final /\ jud'[k].status = "Judged"
  <2>1. jud'[k] = IF k = j THEN NoRow ELSE jud[k]
    BY <1>6 DEF DiscardJudgement, TypeOK
  <2> QED
    BY <2>1 DEF NoRow, VerdictMeansJudged
<1> QED
  BY <1>2, <1>3, <1>4, <1>5, <1>6, StepKinds

\* A row is finalized only together with a status it ends in.
LEMMA FinalMeansEndedStep ==
  ASSUME TypeOK, Lineage, FinalMeansEnded, [Next]_vars
  PROVE  FinalMeansEnded'
<1> SUFFICES ASSUME NEW k \in Jids, jud'[k].exists, jud'[k].final
             PROVE  jud'[k].status \in Terminal
  BY DEF FinalMeansEnded
<1>1. ASSUME jud'[k].exists = jud[k].exists, OutcomeSettles(k)
      PROVE  jud'[k].status \in Terminal
  BY <1>1 DEF OutcomeSettles, FinalMeansEnded, Terminal
<1>2. CASE QuietStep
  BY <1>1, <1>2, QuietStepRows DEF QuietRows, SameAttempt
<1>3. ASSUME NEW s \in Servers, NEW t \in Tasks, NEW j \in Jids, AdvanceStep(s, t, j)
      PROVE  jud'[k].status \in Terminal
  <2>1. Advances(j)
    BY <1>3, AdvanceStepRows
  <2> QED
    BY <2>1 DEF Advances, FinalMeansEnded
<1>4. CASE InsertStep
  <2>1. Inserts
    BY <1>4, InsertStepRows DEF Lineage
  <2> QED
    BY <1>1, <2>1 DEF Inserts, Retires
<1>5. ASSUME NEW j \in Jids, ApplyJudgement(j) PROVE jud'[k].status \in Terminal
  <2>1. Applies(j)
    BY <1>5, ApplyRows
  <2> QED
    BY <2>1 DEF Applies, FinalMeansEnded
<1>6. ASSUME NEW j \in Jids, DiscardJudgement(j) PROVE jud'[k].status \in Terminal
  <2>1. jud'[k] = IF k = j THEN NoRow ELSE jud[k]
    BY <1>6 DEF DiscardJudgement, TypeOK
  <2> QED
    BY <2>1 DEF NoRow, FinalMeansEnded
<1> QED
  BY <1>2, <1>3, <1>4, <1>5, <1>6, StepKinds

\* A finalized contestant verdict is neither reopened nor rewritten.
LEMMA VerdictStandsStep ==
  ASSUME TypeOK, Lineage, VerdictMeansJudged, [Next]_vars, NEW k \in Jids,
         jud[k].exists, jud[k].final, jud[k].verdict \in ContestantVerdicts
  PROVE  \/ ~jud'[k].exists
         \/ jud'[k].final /\ jud'[k].verdict = jud[k].verdict
            /\ jud'[k].status = jud[k].status
<1> DEFINE Goal == \/ ~jud'[k].exists
                   \/ jud'[k].final /\ jud'[k].verdict = jud[k].verdict
                      /\ jud'[k].status = jud[k].status
<1>0. jud[k].status = "Judged" /\ jud[k].verdict # "SystemError"
  BY MarksAssumption DEF VerdictMeansJudged
<1>1. ASSUME OutcomeSettles(k) PROVE Goal
  BY <1>0, <1>1 DEF OutcomeSettles
<1>2. CASE QuietStep
  BY <1>1, <1>2, QuietStepRows DEF QuietRows
<1>3. ASSUME NEW s \in Servers, NEW t \in Tasks, NEW j \in Jids, AdvanceStep(s, t, j)
      PROVE  Goal
  <2>1. Advances(j)
    BY <1>3, AdvanceStepRows
  <2>2. k # j
    BY <1>0, <2>1 DEF Advances, IsSystemError
  <2> QED
    BY <2>1, <2>2 DEF Advances
<1>4. CASE InsertStep
  <2>1. Inserts
    BY <1>4, InsertStepRows DEF Lineage
  <2>2. k # serial + 1
    BY BoundsAssumption DEF TypeOK, Jids, Lineage, RowsAllocated
  <2> QED
    BY <1>1, <2>1, <2>2 DEF Inserts, Retires
<1>5. ASSUME NEW j \in Jids, ApplyJudgement(j) PROVE Goal
  <2>1. Applies(j)
    BY <1>5, ApplyRows
  <2> QED
    BY <2>1 DEF Applies
<1>6. ASSUME NEW j \in Jids, DiscardJudgement(j) PROVE Goal
  <2>1. jud'[k] = IF k = j THEN NoRow ELSE jud[k]
    BY <1>6 DEF DiscardJudgement, TypeOK
  <2> QED
    BY <2>1 DEF NoRow
<1> QED
  BY <1>2, <1>3, <1>4, <1>5, <1>6, StepKinds

-----------------------------------------------------------------------------
(* Theorems *)

\* The inductive invariant holds initially.
LEMMA InvariantInit == Init => IInv
<1> SUFFICES ASSUME Init PROVE IInv
  OBVIOUS
<1>1. TypeOK
  BY TypeInit
<1>2. \A j \in Jids : jud[j] = NoRow
  BY DEF Init
<1>3. \A j \in Jids : ~jud[j].exists
  BY <1>2 DEF NoRow
<1>4. Lineage
  BY <1>3 DEF Lineage, RowsAllocated, OneCurrent, Current
<1>5. \A t \in Tasks : task[t].pc = "idle"
  BY DEF Init, Idle
<1>6. Lockstep /\ SubWriteKnown
  BY <1>3, <1>5 DEF Lockstep, StartsInLockstep, EpochLockstep, Current, SubWriteKnown
<1>7. VerdictFromCurrent /\ ResultsMatchAttempt /\ VerdictMeansJudged /\ FinalMeansEnded
  BY <1>3 DEF Init, VerdictFromCurrent, ResultsMatchAttempt, VerdictMeansJudged,
              FinalMeansEnded
<1> QED
  BY <1>1, <1>4, <1>6, <1>7 DEF IInv

\* Every step of every actor preserves it.
LEMMA InvariantStep == IInv /\ [Next]_vars => IInv'
<1> SUFFICES ASSUME IInv, [Next]_vars PROVE IInv'
  OBVIOUS
<1>1. /\ TypeOK /\ Lineage /\ Lockstep /\ SubWriteKnown /\ VerdictFromCurrent
      /\ ResultsMatchAttempt /\ VerdictMeansJudged /\ FinalMeansEnded
  BY DEF IInv
<1>2. TypeOK'
  BY <1>1, TypeStep DEF Lineage
<1>3. Lineage' /\ Lockstep'
  BY <1>1, LineageStep, LockstepStep
<1>4. SubWriteKnown' /\ VerdictFromCurrent'
  BY <1>1, SubWriteStep, VerdictStep
<1>5. ResultsMatchAttempt' /\ VerdictMeansJudged' /\ FinalMeansEnded'
  BY <1>1, ResultsStep, VerdictMeansJudgedStep, FinalMeansEndedStep
<1> QED
  BY <1>2, <1>3, <1>4, <1>5 DEF IInv

\* The inductive invariant holds in every state the system reaches.
THEOREM Invariant == Spec => []IInv
BY InvariantInit, InvariantStep, PTL DEF Spec

\* Rows, tasks and results keep their types in every reachable state.
THEOREM TypeCorrect == Spec => []TypeOK
<1>1. IInv => TypeOK
  BY DEF IInv
<1> QED
  BY <1>1, Invariant, PTL

\* At most one judgement of a submission is ever current, whichever of claim,
\* steal, detector, reaper and administrator wrote last.
THEOREM OneCurrentJudgement == Spec => []OneCurrent
<1>1. IInv => OneCurrent
  BY DEF IInv, Lineage
<1> QED
  BY <1>1, Invariant, PTL

\* The submission and its current judgement are always on the same epoch, so
\* the epoch gates of the two rows agree on which attempts are stale.
THEOREM EpochsInLockstep == Spec => []EpochLockstep
<1>1. IInv => EpochLockstep
  BY DEF IInv, Lockstep
<1> QED
  BY <1>1, Invariant, PTL

\* A verdict shown on the submission is always that of its current, finalized
\* judgement at the submission's epoch.
THEOREM NoStaleVerdict == Spec => []VerdictFromCurrent
<1>1. IInv => VerdictFromCurrent
  BY DEF IInv
<1> QED
  BY <1>1, Invariant, PTL

\* No stored test-case result ever belongs to an attempt its judgement has left.
THEOREM NoStaleResults == Spec => []ResultsMatchAttempt
<1>1. IInv => ResultsMatchAttempt
  BY DEF IInv
<1> QED
  BY <1>1, Invariant, PTL

\* No retry, steal, detector or failing task reopens or rewrites a finalized
\* contestant verdict.
THEOREM VerdictStands == Spec => ContestantVerdictStands
<1> DEFINE Stands ==
      \A j \in Jids :
        jud[j].exists /\ jud[j].final /\ jud[j].verdict \in ContestantVerdicts =>
          \/ ~jud'[j].exists
          \/ jud'[j].final /\ jud'[j].verdict = jud[j].verdict
             /\ jud'[j].status = jud[j].status
<1>1. IInv /\ [Next]_vars => [Stands]_vars
  <2> SUFFICES ASSUME IInv, [Next]_vars PROVE Stands
    OBVIOUS
  <2>1. TypeOK /\ Lineage /\ VerdictMeansJudged
    BY DEF IInv
  <2> QED
    BY <2>1, VerdictStandsStep
<1>2. ContestantVerdictStands <=> [][Stands]_vars
  BY DEF ContestantVerdictStands
<1> HIDE DEF Stands
<1> QED
  BY <1>1, <1>2, Invariant, PTL DEF Spec
=============================================================================
