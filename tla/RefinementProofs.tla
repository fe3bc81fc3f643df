--------------------------- MODULE RefinementProofs ---------------------------
(***************************************************************************)
(* The judging lifecycle implements VerdictSpec for every number of        *)
(* servers, tasks and judgements and every retry budget: initial states    *)
(* map to initial states and every step of every actor to a step of the    *)
(* abstract system or to no step at all.                                   *)
(*                                                                         *)
(* Under the inductive invariant a record is the contestant verdict of an  *)
(* existing row, whatever its other columns. A quiet step then either      *)
(* records one verdict and leaves the submission alone, or leaves every    *)
(* record alone and moves a submission that showed nothing yet.            *)
(***************************************************************************)
EXTENDS JudgingRefinement, JudgingProofs

-----------------------------------------------------------------------------
(* The mapping *)

\* The official judgement is the one that is current.
LEMMA OfficialIsCurrent ==
  ASSUME OneCurrent, NEW j \in Jids, Current(j)
  PROVE  OfficialId = j
BY DEF OfficialId, HasCurrent, OneCurrent

\* Before the first, there is none.
LEMMA NoOfficial ==
  ASSUME ~HasCurrent
  PROVE  OfficialId = 0
BY DEF OfficialId

\* The same in the next state.
LEMMA OfficialIsCurrentNext ==
  ASSUME OneCurrent', NEW j \in Jids, Current(j)'
  PROVE  OfficialId' = j
BY DEF OfficialId, HasCurrent, OneCurrent

\* Steps that keep the current marks keep the official judgement.
LEMMA OfficialKept ==
  ASSUME OneCurrent, OneCurrent', \A k \in Jids : Current(k)' <=> Current(k)
  PROVE  OfficialId' = OfficialId
<1>1. ASSUME NEW j \in Jids, Current(j) PROVE OfficialId' = OfficialId
  BY <1>1, OfficialIsCurrent, OfficialIsCurrentNext
<1>2. CASE ~HasCurrent
  <2>1. ~HasCurrent'
    BY <1>2 DEF HasCurrent
  <2> QED
    BY <1>2, <2>1 DEF OfficialId
<1> QED
  BY <1>1, <1>2 DEF HasCurrent

\* A contestant verdict stands only on a finalized row, so a record is read off
\* the verdict alone.
LEMMA RecordIsVerdict ==
  ASSUME VerdictMeansJudged, NEW k \in Jids
  PROVE  RecordMap[k] = IF jud[k].exists /\ jud[k].verdict \in ContestantVerdicts
                        THEN jud[k].verdict ELSE None
BY DEF RecordMap, RecordOf, VerdictMeansJudged

\* The same in the next state.
LEMMA RecordIsVerdictNext ==
  ASSUME VerdictMeansJudged', NEW k \in Jids
  PROVE  RecordMap'[k] = IF jud'[k].exists /\ jud'[k].verdict \in ContestantVerdicts
                         THEN jud'[k].verdict ELSE None
BY DEF RecordMap, RecordOf, VerdictMeansJudged

\* Two maps of records with the same records are the same.
LEMMA SameRecords ==
  ASSUME \A k \in Jids : RecordMap'[k] = RecordMap[k]
  PROVE  RecordMap' = RecordMap
BY DEF RecordMap

\* A row keeps its record when it keeps its verdict, or has no verdict about
\* the program before and after.
LEMMA RecordKept ==
  ASSUME VerdictMeansJudged, VerdictMeansJudged', NEW k \in Jids,
         \/ jud'[k].exists = jud[k].exists /\ jud'[k].verdict = jud[k].verdict
         \/ /\ ~jud[k].exists \/ jud[k].verdict \notin ContestantVerdicts
            /\ ~jud'[k].exists \/ jud'[k].verdict \notin ContestantVerdicts
  PROVE  RecordMap'[k] = RecordMap[k]
BY RecordIsVerdict, RecordIsVerdictNext

\* What the submission shows is a verdict only if the official judgement
\* recorded it.
LEMMA ShownIsRecorded ==
  ASSUME IInv, ShownOf(sub) \notin {"pending", "error"}
  PROVE  OfficialId \in Jids /\ RecordMap[OfficialId] = ShownOf(sub)
<1>1. sub.status = "Judged" /\ sub.verdict \in ContestantVerdicts /\ ShownOf(sub) = sub.verdict
  BY DEF ShownOf
<1>2. VerdictMeansJudged /\ OneCurrent /\ VerdictFromCurrent
  BY DEF IInv, Lineage
<1>3. PICK j \in Jids : Current(j) /\ jud[j].verdict = sub.verdict
  BY <1>1, <1>2 DEF VerdictFromCurrent
<1>4. OfficialId = j
  BY <1>2, <1>3, OfficialIsCurrent
<1> QED
  BY <1>1, <1>2, <1>3, <1>4, RecordIsVerdict DEF Current

-----------------------------------------------------------------------------
(* Quiet steps *)

\* What a quiet step may do to the submission and to the records: only a report
\* of the plugin writes a verdict into a row, and it leaves the submission
\* alone; a submission that has ended is left as it is.
VerdictsKept == \A k \in Jids : jud'[k].verdict = jud[k].verdict
SubmissionRests ==
  \/ sub.status \notin Terminal
  \/ sub'.status = sub.status /\ sub'.verdict = sub.verdict

\* A failed row keeps its verdict.
LEMMA MarkedVerdicts ==
  ASSUME TypeOK, NEW e, jud' = MarkedJudgements(e)
  PROVE  VerdictsKept
<1> SUFFICES ASSUME NEW k \in Jids PROVE jud'[k].verdict = jud[k].verdict
  BY DEF VerdictsKept
<1>1. jud'[k] = jud[k] \/ jud'[k] = AsSystemError(jud[k])
  BY DEF MarkedJudgements
<1> QED
  BY <1>1, AsSystemErrorFields, FieldTypes

\* Every task but one that reports leaves the verdicts alone.
LEMMA QuietTaskVerdicts ==
  ASSUME TypeOK, NEW t \in Tasks, QuietTask(t)
  PROVE  PluginProgress(t) \/ PluginVerdict(t) \/ VerdictsKept
<1>1. ASSUME NEW j \in Jids, EnsureAdopt(t, j) PROVE VerdictsKept
  BY <1>1, FieldTypes DEF EnsureAdopt, VerdictsKept, TypeOK, JudgementRow
<1>2. CASE FailDispatch(t)
  <2> SUFFICES ASSUME NEW k \in Jids PROVE jud'[k].verdict = jud[k].verdict
    BY DEF VerdictsKept
  <2>1. jud'[k] = jud[k] \/ jud'[k] = AsSystemError(jud[k])
    BY <1>2 DEF FailDispatch, TypeOK
  <2> QED
    BY <2>1, AsSystemErrorFields, FieldTypes
<1>3. CASE MarkMirror(t)
  BY <1>3, MarkedVerdicts DEF MarkMirror
<1>4. EnsureFails(t) \/ UpdateSubmission(t) \/ PluginStale(t) \/ InsertResults(t)
        \/ DeleteResults(t) \/ MarkSubmission(t) \/ RereadSubmission(t) \/ Wedge(t)
      => UNCHANGED jud
  BY DEF EnsureFails, UpdateSubmission, PluginStale, InsertResults, DeleteResults,
         MarkSubmission, RereadSubmission, Wedge
<1>5. UNCHANGED jud => VerdictsKept
  BY DEF VerdictsKept
<1> QED
  BY <1>1, <1>2, <1>3, <1>4, <1>5 DEF QuietTask

\* So does every scan.
LEMMA QuietFiberVerdicts ==
  ASSUME TypeOK, NEW s \in Servers, QuietFiber(s)
  PROVE  VerdictsKept
<1>1. ASSUME NEW t \in Tasks, NEW j \in Jids, ClaimDeferred(s, t, j) PROVE VerdictsKept
  BY <1>1, FieldTypes DEF ClaimDeferred, VerdictsKept, TypeOK, JudgementRow
<1>2. ASSUME NEW j \in Jids, ExhaustJudgement(s, j) PROVE VerdictsKept
  <2> SUFFICES ASSUME NEW k \in Jids PROVE jud'[k].verdict = jud[k].verdict
    BY DEF VerdictsKept
  <2> DEFINE ended == AsSystemError(jud[k])
  <2>1. jud'[k] = jud[k] \/ jud'[k] = [ended EXCEPT !.retry = jud[k].retry + 1]
    BY <1>2 DEF ExhaustJudgement, TypeOK
  <2>2. ended \in JudgementRow /\ ended.verdict = jud[k].verdict
    BY AsSystemErrorFields, RowOperatorTypes, FieldTypes
  <2> HIDE DEF ended
  <2> QED
    BY <2>1, <2>2 DEF JudgementRow
<1>3. ASSUME NEW j \in Jids, TerminateStuckJudgement(s, j) PROVE VerdictsKept
  <2> SUFFICES ASSUME NEW k \in Jids PROVE jud'[k].verdict = jud[k].verdict
    BY DEF VerdictsKept
  <2>1. jud'[k] = jud[k] \/ jud'[k] = AsSystemError(jud[k])
    BY <1>3 DEF TerminateStuckJudgement, TypeOK
  <2> QED
    BY <2>1, AsSystemErrorFields, FieldTypes
<1>4. CASE ExhaustSubmission(s) \/ TerminateStuckSubmission(s)
  BY <1>4, MarkedVerdicts DEF ExhaustSubmission, TerminateStuckSubmission
<1>5. CASE RefreshLeases(s) \/ Restart(s)
  <2> SUFFICES ASSUME NEW k \in Jids PROVE jud'[k].verdict = jud[k].verdict
    BY DEF VerdictsKept
  <2>1. jud'[k] = jud[k] \/ jud'[k] = Refreshed(jud[k]) \/ jud'[k] = Orphan(jud[k])
    BY <1>5 DEF RefreshLeases, Restart
  <2> QED
    BY <2>1, StampedFields, FieldTypes
<1>6. (\E t \in Tasks : Claim(s, t)) \/ Crash(s) => UNCHANGED jud
  BY DEF Claim, Crash
<1>7. UNCHANGED jud => VerdictsKept
  BY DEF VerdictsKept
<1> QED
  BY <1>1, <1>2, <1>3, <1>4, <1>5, <1>6, <1>7 DEF QuietFiber

\* A quiet step leaves the verdicts alone, or is a plugin's report.
LEMMA QuietStepVerdicts ==
  ASSUME TypeOK, QuietStep
  PROVE  VerdictsKept \/ \E t \in Tasks : PluginProgress(t) \/ PluginVerdict(t)
<1>1. UNCHANGED vars \/ ExpireSubmission \/ (\E j \in Jids : Reconcile(j)) => VerdictsKept
  BY DEF vars, ExpireSubmission, Reconcile, VerdictsKept
<1>2. ASSUME NEW j \in Jids, ExpireJudgement(j) PROVE VerdictsKept
  BY <1>2, FieldTypes DEF ExpireJudgement, VerdictsKept, TypeOK, JudgementRow
<1> QED
  BY <1>1, <1>2, QuietTaskVerdicts, QuietFiberVerdicts DEF QuietStep, TimeStep

\* mark_submission_system_error_with_epoch matches no submission that has ended.
LEMMA MarkedRests ==
  ASSUME NEW e, sub' = MarkedSubmission(e)
  PROVE  SubmissionRests
BY DEF MarkedSubmission, SubmissionRests

\* A quiet step leaves a submission that has ended as it is.
LEMMA QuietSubmissionRests ==
  ASSUME TypeOK, QuietStep
  PROVE  SubmissionRests
<1>1. sub \in SubmissionRow
  BY DEF TypeOK
<1>2. sub' = sub => SubmissionRests
  BY DEF SubmissionRests
<1>3. ASSUME NEW t \in Tasks, QuietTask(t) PROVE SubmissionRests
  <2>1. CASE UpdateSubmission(t)
    BY <2>1 DEF UpdateSubmission, SubmissionFollows, SubmissionRests
  <2>2. CASE MarkSubmission(t)
    BY <2>2, MarkedRests DEF MarkSubmission
  <2>3. ASSUME NEW j \in Jids, EnsureAdopt(t, j) PROVE sub' = sub
    BY <2>3 DEF EnsureAdopt
  <2>4. EnsureFails(t) \/ PluginStale(t) \/ InsertResults(t) \/ DeleteResults(t) => sub' = sub
    BY DEF EnsureFails, PluginStale, InsertResults, DeleteResults
  <2>5. PluginProgress(t) \/ PluginVerdict(t) => sub' = sub
    BY DEF PluginProgress, PluginVerdict, UpdateJudgement
  <2>6. FailDispatch(t) \/ MarkMirror(t) \/ RereadSubmission(t) \/ Wedge(t) => sub' = sub
    BY DEF FailDispatch, MarkMirror, RereadSubmission, Wedge
  <2> QED
    BY <1>2, <1>3, <2>1, <2>2, <2>3, <2>4, <2>5, <2>6 DEF QuietTask
<1>4. ASSUME NEW s \in Servers, QuietFiber(s) PROVE SubmissionRests
  <2>1. ASSUME NEW t \in Tasks, Claim(s, t) PROVE SubmissionRests
    BY <2>1 DEF Claim, SubmissionRests, Terminal
  <2>2. CASE ExhaustSubmission(s)
    BY <2>2 DEF ExhaustSubmission, LeaseExpired, Leased, SubmissionRests, Terminal
  <2>3. CASE RefreshLeases(s)
    BY <1>1, <2>3 DEF RefreshLeases, Refreshed, SubmissionRow, SubmissionRests
  <2>4. CASE Restart(s)
    BY <1>1, <2>4 DEF Restart, Orphan, SubmissionRow, SubmissionRests
  <2>5. (\E j \in Jids : ExhaustJudgement(s, j)) \/ TerminateStuckSubmission(s)
        => SubmissionRests
    BY MarkedRests DEF ExhaustJudgement, TerminateStuckSubmission
  <2>6. ASSUME NEW t \in Tasks, NEW j \in Jids, ClaimDeferred(s, t, j) PROVE sub' = sub
    BY <2>6 DEF ClaimDeferred
  <2>7. ASSUME NEW j \in Jids, TerminateStuckJudgement(s, j) PROVE sub' = sub
    BY <2>7 DEF TerminateStuckJudgement
  <2>8. Crash(s) => sub' = sub
    BY DEF Crash
  <2> QED
    BY <1>2, <1>4, <2>1, <2>2, <2>3, <2>4, <2>5, <2>6, <2>7, <2>8 DEF QuietFiber
<1>5. CASE TimeStep
  <2>1. CASE ExpireSubmission
    BY <1>1, <2>1 DEF ExpireSubmission, SubmissionRow, SubmissionRests
  <2>2. ASSUME NEW j \in Jids, ExpireJudgement(j) PROVE sub' = sub
    BY <2>2 DEF ExpireJudgement
  <2>3. ASSUME NEW j \in Jids, Reconcile(j) PROVE SubmissionRests
    BY <2>3 DEF Reconcile, SubmissionRests
  <2> QED
    BY <1>2, <1>5, <2>1, <2>2, <2>3 DEF TimeStep
<1>6. UNCHANGED vars => sub' = sub
  BY DEF vars
<1> QED
  BY <1>2, <1>3, <1>4, <1>5, <1>6 DEF QuietStep

\* A quiet step keeps what is official.
LEMMA QuietOfficial ==
  ASSUME IInv, IInv', QuietStep
  PROVE  serial' = serial /\ OfficialId' = OfficialId
<1>1. QuietRows /\ OneCurrent /\ OneCurrent'
  BY QuietStepRows DEF IInv, Lineage
<1> QED
  BY <1>1, OfficialKept DEF QuietRows, SameAttempt, Current

\* A submission that shows nothing yet may be given a verdict its official
\* judgement has recorded, or an error.
LEMMA PendingMoves ==
  ASSUME IInv', ShownOf(sub) = "pending",
         serial' = serial, RecordMap' = RecordMap, OfficialId' = OfficialId
  PROVE  Shown!Publish \/ Shown!Fail \/ UNCHANGED Shown!vars
<1>1. CASE ShownOf(sub)' = "pending"
  BY <1>1 DEF Shown!vars
<1>2. CASE ShownOf(sub)' = "error"
  BY <1>2 DEF Shown!Fail
<1>3. CASE ShownOf(sub)' \notin {"pending", "error"}
  <2>1. OfficialId' \in Jids /\ RecordMap'[OfficialId'] = ShownOf(sub)'
    <3>1. /\ sub'.status = "Judged" /\ sub'.verdict \in ContestantVerdicts
          /\ ShownOf(sub)' = sub'.verdict
      BY <1>3 DEF ShownOf
    <3>2. VerdictMeansJudged' /\ OneCurrent' /\ VerdictFromCurrent'
      BY DEF IInv, Lineage
    <3>3. PICK j \in Jids : Current(j)' /\ jud'[j].verdict = sub'.verdict
      BY <3>1, <3>2 DEF VerdictFromCurrent
    <3>4. OfficialId' = j
      BY <3>2, <3>3, OfficialIsCurrentNext
    <3> QED
      BY <3>1, <3>2, <3>3, <3>4, RecordIsVerdictNext DEF Current
  <2>2. ShownOf(sub)' # None
    BY <1>3, MarksAssumption DEF ShownOf
  <2>3. OfficialId # 0
    BY <2>1, BoundsAssumption DEF Jids
  <2> QED
    BY <2>1, <2>2, <2>3 DEF Shown!Publish
<1> QED
  BY <1>1, <1>2, <1>3

\* A plugin's report records at most one verdict, of a row that had none.
LEMMA ReportSimulated ==
  ASSUME IInv, IInv', NEW t \in Tasks, PluginProgress(t) \/ PluginVerdict(t), QuietStep
  PROVE  (\E j \in Jids, v \in ContestantVerdicts : Shown!Record(j, v))
           \/ UNCHANGED Shown!vars
<1>1. /\ TypeOK /\ TypeOK' /\ RowsAllocated /\ VerdictMeansJudged /\ VerdictMeansJudged'
  BY DEF IInv, Lineage
<1>2. sub' = sub /\ serial' = serial /\ OfficialId' = OfficialId
  BY QuietOfficial DEF PluginProgress, PluginVerdict, UpdateJudgement
<1>3. PICK j \in Jids : j = task[t].jid /\ LiveAttempt(t)
  BY <1>1, PluginReport
<1>4. jud[j].exists /\ ~jud[j].final /\ jud[j].verdict \notin ContestantVerdicts
  BY <1>1, <1>3 DEF LiveAttempt, VerdictMeansJudged
<1>5. ASSUME NEW k \in Jids, k # j PROVE jud'[k] = jud[k]
  BY <1>1, <1>3, <1>5 DEF PluginProgress, PluginVerdict, UpdateJudgement, TypeOK
<1>6. \A k \in Jids : k # j => RecordMap'[k] = RecordMap[k]
  BY <1>1, <1>5, RecordKept
<1>7. RecordMap[j] = None
  BY <1>1, <1>4, RecordIsVerdict
<1>8. CASE jud'[j].exists /\ jud'[j].verdict \in ContestantVerdicts
  <2> DEFINE v == jud'[j].verdict
  <2>1. RecordMap'[j] = v
    BY <1>1, <1>8, RecordIsVerdictNext
  <2> HIDE DEF v
  <2>2. RecordMap' = [RecordMap EXCEPT ![j] = v]
    <3>1. RecordMap' = [k \in Jids |-> RecordMap'[k]] /\ RecordMap = [k \in Jids |-> RecordMap[k]]
      BY DEF RecordMap
    <3> QED
      BY <1>6, <2>1, <3>1
  <2>3. j <= serial
    BY <1>1, <1>4 DEF RowsAllocated
  <2>4. Shown!Record(j, v)
    BY <1>2, <1>7, <2>2, <2>3 DEF Shown!Record
  <2> QED
    BY <1>8, <2>4 DEF v
<1>9. CASE ~(jud'[j].exists /\ jud'[j].verdict \in ContestantVerdicts)
  <2>1. RecordMap' = RecordMap
    BY <1>1, <1>6, <1>7, <1>9, RecordIsVerdictNext, SameRecords
  <2> QED
    BY <1>2, <2>1 DEF Shown!vars
<1> QED
  BY <1>8, <1>9

\* Reports, failures, lease traffic, crashes and restarts are steps of the
\* abstract system, or no step.
LEMMA QuietSimulated ==
  ASSUME IInv, IInv', QuietStep
  PROVE  [Shown!Next]_(Shown!vars)
<1>1. /\ TypeOK /\ VerdictMeansJudged /\ VerdictMeansJudged'
  BY DEF IInv
<1>2. serial' = serial /\ OfficialId' = OfficialId
  BY QuietOfficial
<1>3. ASSUME NEW t \in Tasks, PluginProgress(t) \/ PluginVerdict(t)
      PROVE  [Shown!Next]_(Shown!vars)
  BY <1>3, ReportSimulated DEF Shown!Next, Shown!SystemStep
<1>4. CASE VerdictsKept
  <2>1. RecordMap' = RecordMap
    BY <1>1, <1>4, QuietStepRows, RecordKept, SameRecords DEF VerdictsKept, QuietRows, SameAttempt
  <2>2. CASE sub.status \notin Terminal
    <3>1. ShownOf(sub) = "pending"
      BY <2>2 DEF ShownOf
    <3> QED
      BY <1>2, <2>1, <3>1, PendingMoves DEF Shown!Next, Shown!SystemStep
  <2>3. CASE sub'.status = sub.status /\ sub'.verdict = sub.verdict
    <3>1. ShownOf(sub)' = ShownOf(sub)
      BY <2>3 DEF ShownOf
    <3> QED
      BY <1>2, <2>1, <3>1 DEF Shown!vars
  <2> QED
    BY <1>1, <2>2, <2>3, QuietSubmissionRests DEF SubmissionRests
<1> QED
  BY <1>1, <1>3, <1>4, QuietStepVerdicts

-----------------------------------------------------------------------------
(* Advances *)

\* A retry of the same row takes back an error, never a verdict.
LEMMA AdvanceSimulated ==
  ASSUME IInv, IInv', NEW s \in Servers, NEW t \in Tasks, NEW j \in Jids,
         AdvanceStep(s, t, j)
  PROVE  Shown!Retry \/ UNCHANGED Shown!vars
<1>1. /\ TypeOK /\ OneCurrent /\ OneCurrent' /\ EpochLockstep
      /\ VerdictMeansJudged /\ VerdictMeansJudged'
  BY DEF IInv, Lineage, Lockstep
<1>2. Advances(j)
  BY <1>1, AdvanceStepRows
<1>3. serial' = serial
  BY <1>2 DEF Advances
<1>4. OfficialId' = OfficialId
  <2>1. ASSUME NEW k \in Jids PROVE Current(k)' <=> Current(k)
    BY <1>2 DEF Advances, Current
  <2> QED
    BY <1>1, <2>1, OfficialKept
<1>5. jud[j].verdict \notin ContestantVerdicts
  BY <1>1, <1>2, MarksAssumption DEF Advances, VerdictMeansJudged, IsSystemError
<1>6. RecordMap' = RecordMap /\ RecordMap[j] = None
  <2>1. RecordMap[j] = None
    BY <1>1, <1>5, RecordIsVerdict
  <2>2. jud'[j].verdict \notin ContestantVerdicts
    BY <1>2, MarksAssumption DEF Advances
  <2>3. \A k \in Jids : RecordMap'[k] = RecordMap[k]
    BY <1>1, <1>2, <1>5, <2>2, RecordKept DEF Advances
  <2> QED
    BY <2>1, <2>3, SameRecords
<1>7. CASE ~Current(j) /\ sub' = sub
  BY <1>3, <1>4, <1>6, <1>7 DEF Shown!vars
<1>8. CASE Current(j) /\ sub'.status = "Pending"
  <2>1. OfficialId = j /\ j # 0
    BY <1>1, <1>8, OfficialIsCurrent, BoundsAssumption DEF Jids
  <2>2. ShownOf(sub)' = "pending"
    BY <1>8 DEF ShownOf, Terminal
  <2>3. ShownOf(sub) \in {"pending", "error"}
    <3> SUFFICES ASSUME ShownOf(sub) \notin {"pending", "error"} PROVE FALSE
      OBVIOUS
    <3>1. ShownOf(sub) = None
      BY <1>6, <2>1, ShownIsRecorded
    <3> QED
      BY <3>1, MarksAssumption DEF ShownOf, None
  <2>4. CASE ShownOf(sub) = "pending"
    BY <1>3, <1>4, <1>6, <2>2, <2>4 DEF Shown!vars
  <2>5. CASE ShownOf(sub) = "error"
    BY <1>3, <1>4, <1>6, <2>1, <2>2, <2>5 DEF Shown!Retry
  <2> QED
    BY <2>3, <2>4, <2>5
<1> QED
  BY <1>1, <1>7, <1>8, AdvanceSubmission

-----------------------------------------------------------------------------
(* Inserts *)

\* An insert that makes the new row current opens a judgement.
Opens ==
  /\ CanInsert /\ serial' = serial + 1
  /\ jud'[serial + 1].exists /\ jud'[serial + 1].current
  /\ \A k \in Jids : k # serial + 1 => jud'[k].verdict = jud[k].verdict

\* A new row has no record, and no other row loses or gains one.
LEMMA InsertRecords ==
  ASSUME IInv, IInv', Inserts,
         \A k \in Jids : k # serial + 1 => jud'[k].verdict = jud[k].verdict
  PROVE  RecordMap' = RecordMap
<1>1. TypeOK /\ RowsAllocated /\ VerdictMeansJudged /\ VerdictMeansJudged'
  BY DEF IInv, Lineage
<1>2. ~jud[serial + 1].exists
  BY <1>1, BoundsAssumption DEF RowsAllocated, Inserts, TypeOK, Jids
<1>3. jud'[serial + 1].verdict \notin ContestantVerdicts
  BY MarksAssumption DEF Inserts
<1>4. ASSUME NEW k \in Jids PROVE RecordMap'[k] = RecordMap[k]
  BY <1>1, <1>2, <1>3, RecordKept DEF Inserts, Retires
<1> QED
  BY <1>4, SameRecords

\* Opening a row in the lifecycle is opening one in the abstract system.
LEMMA OpensSimulated ==
  ASSUME IInv, IInv', Inserts, Opens
  PROVE  Shown!Open
<1>1. serial + 1 \in Jids /\ serial' = serial + 1
  BY DEF Inserts
<1>2. OfficialId' = serial + 1
  <2>1. PICK j \in Jids : j = serial + 1
    BY <1>1
  <2>2. Current(j)'
    BY <2>1 DEF Opens, Current
  <2> QED
    BY <2>1, <2>2, OfficialIsCurrentNext DEF IInv, Lineage
<1>3. RecordMap' = RecordMap
  BY InsertRecords DEF Opens
<1> QED
  BY <1>1, <1>2, <1>3 DEF Shown!Open

\* The row of a rejudge or of a steal, with every other row demoted.
LEMMA DemotingOpens ==
  ASSUME TypeOK, NEW e, NEW o, CanInsert, serial' = serial + 1,
         jud' = [Demoted EXCEPT ![serial + 1] = NewJudgement("Pending", e, o, TRUE)]
  PROVE  Opens
<1>1. serial + 1 \in Jids
  BY BoundsAssumption DEF CanInsert, TypeOK, Jids
<1>2. Demoted \in [Jids -> JudgementRow]
  BY DemotedType DEF TypeOK
<1>3. jud'[serial + 1] = NewJudgement("Pending", e, o, TRUE)
  BY <1>1, <1>2
<1>4. jud'[serial + 1].exists /\ jud'[serial + 1].current
  BY <1>3 DEF NewJudgement
<1>5. ASSUME NEW k \in Jids, k # serial + 1 PROVE jud'[k].verdict = jud[k].verdict
  <2>1. jud'[k] = Demoted[k]
    BY <1>2, <1>5
  <2> QED
    BY <2>1, DemotedFields
<1> QED
  BY <1>4, <1>5 DEF Opens

\* The row a first dispatch inserts, with no other row touched.
LEMMA EnsureOpens ==
  ASSUME TypeOK, NEW t \in Tasks, EnsureInsert(t)
  PROVE  Opens
<1> DEFINE row == NewJudgement("Pending", task[t].epoch, task[t].server, TRUE)
<1>1. serial + 1 \in Jids
  BY BoundsAssumption DEF EnsureInsert, CanInsert, TypeOK, Jids
<1>2. CanInsert /\ serial' = serial + 1 /\ jud' = [jud EXCEPT ![serial + 1] = row]
  BY DEF EnsureInsert
<1>3. row.exists = TRUE /\ row.current = TRUE
  BY DEF NewJudgement
<1> HIDE DEF row
<1>4. jud'[serial + 1].exists /\ jud'[serial + 1].current
  BY <1>1, <1>2, <1>3 DEF TypeOK
<1>5. ASSUME NEW k \in Jids, k # serial + 1 PROVE jud'[k].verdict = jud[k].verdict
  BY <1>2, <1>5 DEF TypeOK
<1> QED
  BY <1>2, <1>4, <1>5 DEF Opens

\* The row the detector inserts, with the one it gives up ended.
LEMMA RecoverOpens ==
  ASSUME TypeOK, NEW s \in Servers, NEW t \in Tasks, RecoverStuckSubmission(s, t)
  PROVE  Opens
<1> DEFINE row == NewJudgement("Pending", NextEpoch(sub.epoch), s, TRUE)
<1>1. serial + 1 \in Jids
  BY BoundsAssumption DEF RecoverStuckSubmission, CanInsert, TypeOK, Jids
<1>2. CanInsert /\ serial' = serial + 1 /\ jud'[serial + 1] = row
  BY <1>1 DEF RecoverStuckSubmission
<1>3. row.exists = TRUE /\ row.current = TRUE
  BY DEF NewJudgement
<1>4. ASSUME NEW k \in Jids, k # serial + 1 PROVE jud'[k].verdict = jud[k].verdict
  <2> DEFINE ended == AsSystemError(jud[k])
  <2>1. jud'[k] = jud[k] \/ jud'[k] = [ended EXCEPT !.current = FALSE]
    BY <1>4 DEF RecoverStuckSubmission
  <2>2. ended \in JudgementRow /\ ended.verdict = jud[k].verdict
    BY AsSystemErrorFields, RowOperatorTypes, FieldTypes
  <2> HIDE DEF ended
  <2> QED
    BY <2>1, <2>2 DEF JudgementRow
<1> HIDE DEF row
<1>5. jud'[serial + 1].exists /\ jud'[serial + 1].current
  BY <1>2, <1>3
<1> QED
  BY <1>2, <1>4, <1>5 DEF Opens

\* Servers insert only while no verdict is shown; the administrator's rejudge
\* takes back what is shown; a deferred one shows nothing.
LEMMA InsertSimulated ==
  ASSUME IInv, IInv', InsertStep
  PROVE  Shown!Next
<1>1. TypeOK /\ RowsAllocated /\ VerdictFromCurrent /\ OneCurrent /\ OneCurrent'
  BY DEF IInv, Lineage
<1>2. Inserts /\ sub \in SubmissionRow
  BY <1>1, InsertStepRows DEF TypeOK
<1>3. ASSUME NEW t \in Tasks, EnsureInsert(t) PROVE Shown!Redispatch
  <2>1. Shown!Open
    BY <1>1, <1>2, <1>3, EnsureOpens, OpensSimulated
  <2>2. sub' = sub /\ sub.status # "Judged"
    BY <1>1, <1>3 DEF EnsureInsert, HasCurrent, VerdictFromCurrent
  <2>3. ShownOf(sub) \in {"pending", "error"} /\ ShownOf(sub)' = ShownOf(sub)
    BY <2>2 DEF ShownOf
  <2> QED
    BY <2>1, <2>3 DEF Shown!Redispatch
<1>4. ASSUME NEW s \in Servers, NEW t \in Tasks,
             StealSubmission(s, t) \/ RecoverStuckSubmission(s, t)
      PROVE  Shown!Redispatch
  <2>1. Opens
    BY <1>1, <1>4, DemotingOpens, RecoverOpens DEF StealSubmission
  <2>2. Shown!Open
    BY <1>2, <2>1, OpensSimulated
  <2>3. sub.status \in Leased /\ sub'.status = "Pending"
    BY <1>2, <1>4 DEF StealSubmission, RecoverStuckSubmission, LeaseExpired, StuckRow,
                      Redispatched, SubmissionRow
  <2>4. ShownOf(sub) = "pending" /\ ShownOf(sub)' = "pending"
    BY <2>3 DEF ShownOf, Leased, Terminal
  <2> QED
    BY <2>2, <2>4 DEF Shown!Redispatch
<1>5. ASSUME RejudgeImmediate \/ DlqRetry PROVE AdminOps # {} /\ Shown!Rejudge
  <2>1. Opens
    BY <1>1, <1>5, DemotingOpens DEF RejudgeImmediate, DlqRetry, OpenImmediateRejudge
  <2>2. Shown!Open
    BY <1>2, <2>1, OpensSimulated
  <2>3. sub'.status = "Queued"
    BY <1>2, <1>5 DEF RejudgeImmediate, DlqRetry, OpenImmediateRejudge, SubmissionRow
  <2>4. ShownOf(sub)' = "pending"
    BY <2>3 DEF ShownOf, Terminal
  <2> QED
    BY <1>5, <2>2, <2>4 DEF Shown!Rejudge, RejudgeImmediate, DlqRetry
<1>6. ASSUME RejudgeDeferred PROVE AdminOps # {} /\ Shown!Defer
  <2> DEFINE row == NewJudgement("Queued", NextEpoch(sub.epoch), None, FALSE)
  <2>1. /\ AdminOps # {} /\ sub' = sub /\ serial + 1 \in Jids
        /\ jud' = [jud EXCEPT ![serial + 1] = row]
    BY <1>2, <1>6 DEF RejudgeDeferred, Inserts
  <2>2. row.current = FALSE
    BY DEF NewJudgement
  <2> HIDE DEF row
  <2>3. \A k \in Jids : k # serial + 1 => jud'[k] = jud[k]
    BY <2>1 DEF IInv, TypeOK
  <2>4. ~jud'[serial + 1].current /\ ~jud[serial + 1].exists
    <3>1. ~jud'[serial + 1].current
      BY <1>1, <2>1, <2>2 DEF TypeOK
    <3>2. ~jud[serial + 1].exists
      BY <1>1, <2>1, BoundsAssumption DEF RowsAllocated, TypeOK, Jids
    <3> QED
      BY <3>1, <3>2
  <2>5. OfficialId' = OfficialId
    <3>1. ASSUME NEW k \in Jids PROVE Current(k)' <=> Current(k)
      BY <2>3, <2>4 DEF Current
    <3> QED
      BY <1>1, <3>1, OfficialKept
  <2>6. RecordMap' = RecordMap
    BY <1>2, <2>3, InsertRecords
  <2> QED
    BY <1>2, <2>1, <2>5, <2>6 DEF Shown!Defer, Inserts
<1> QED
  BY <1>3, <1>4, <1>5, <1>6 DEF InsertStep, Shown!Next, Shown!SystemStep, Shown!AdminStep

-----------------------------------------------------------------------------
(* Apply and discard *)

\* Applying a judgement makes it official and shows its record.
LEMMA ApplySimulated ==
  ASSUME IInv, IInv', NEW j \in Jids, ApplyJudgement(j)
  PROVE  AdminOps # {} /\ Shown!Apply(j)
<1>1. /\ TypeOK /\ RowsAllocated /\ OneCurrent' /\ FinalMeansEnded
      /\ VerdictMeansJudged /\ VerdictMeansJudged'
  BY DEF IInv, Lineage
<1>2. Applies(j)
  BY <1>1, ApplyRows
<1>3. RecordMap' = RecordMap
  BY <1>1, <1>2, RecordKept, SameRecords DEF Applies
<1>4. OfficialId' = j
  BY <1>1, <1>2, OfficialIsCurrentNext DEF Applies, Current
<1>5. j <= serial /\ serial' = serial
  BY <1>1, <1>2 DEF Applies, RowsAllocated
<1>6. jud[j].status \in Terminal /\ jud[j].exists
  BY <1>1, <1>2 DEF Applies, FinalMeansEnded
<1>7. ShownOf(sub)' = IF RecordMap[j] = None THEN "error" ELSE RecordMap[j]
  <2>1. sub'.status = jud[j].status /\ sub'.verdict = jud[j].verdict
    BY <1>2 DEF Applies
  <2>2. CASE jud[j].verdict \in ContestantVerdicts
    <3>1. RecordMap[j] = jud[j].verdict /\ jud[j].status = "Judged"
      BY <1>1, <1>6, <2>2, RecordIsVerdict DEF VerdictMeansJudged
    <3>2. RecordMap[j] # None
      BY <2>2, <3>1, MarksAssumption
    <3>3. ShownOf(sub)' = jud[j].verdict
      BY <2>1, <2>2, <3>1 DEF ShownOf, Terminal
    <3> QED
      BY <3>1, <3>2, <3>3
  <2>3. CASE jud[j].verdict \notin ContestantVerdicts
    <3>1. RecordMap[j] = None
      BY <1>1, <2>3, RecordIsVerdict
    <3>2. ShownOf(sub)' = "error"
      BY <1>6, <2>1, <2>3 DEF ShownOf
    <3> QED
      BY <3>1, <3>2
  <2> QED
    BY <2>2, <2>3
<1> QED
  BY <1>3, <1>4, <1>5, <1>7 DEF Shown!Apply, ApplyJudgement

\* Discarding a judgement forgets a record that is not official.
LEMMA DiscardSimulated ==
  ASSUME IInv, IInv', NEW j \in Jids, DiscardJudgement(j)
  PROVE  AdminOps # {} /\ Shown!Discard(j)
<1>1. /\ TypeOK /\ OneCurrent /\ OneCurrent'
      /\ VerdictMeansJudged /\ VerdictMeansJudged'
  BY DEF IInv, Lineage
<1>2. /\ AdminOps # {} /\ sub' = sub /\ serial' = serial
      /\ jud[j].exists /\ ~jud[j].current /\ jud' = [jud EXCEPT ![j] = NoRow]
  BY DEF DiscardJudgement
<1>3. ~NoRow.exists
  BY DEF NoRow
<1>4. ~jud'[j].exists /\ \A k \in Jids : k # j => jud'[k] = jud[k]
  BY <1>1, <1>2, <1>3 DEF TypeOK
<1>5. OfficialId' = OfficialId
  <2>1. ASSUME NEW k \in Jids PROVE Current(k)' <=> Current(k)
    BY <1>2, <1>4 DEF Current
  <2> QED
    BY <1>1, <2>1, OfficialKept
<1>6. OfficialId # j
  <2>1. CASE HasCurrent
    <3>1. PICK k \in Jids : Current(k)
      BY <2>1 DEF HasCurrent
    <3> QED
      BY <1>1, <1>2, <3>1, OfficialIsCurrent DEF Current
  <2>2. CASE ~HasCurrent
    BY <2>2, NoOfficial, BoundsAssumption DEF Jids
  <2> QED
    BY <2>1, <2>2
<1>7. RecordMap' = [RecordMap EXCEPT ![j] = None]
  <2>1. RecordMap'[j] = None
    BY <1>1, <1>4, RecordIsVerdictNext
  <2>2. \A k \in Jids : k # j => RecordMap'[k] = RecordMap[k]
    BY <1>1, <1>4, RecordKept
  <2>3. RecordMap' = [k \in Jids |-> RecordMap'[k]] /\ RecordMap = [k \in Jids |-> RecordMap[k]]
    BY DEF RecordMap
  <2> QED
    BY <2>1, <2>2, <2>3
<1> QED
  BY <1>2, <1>5, <1>6, <1>7 DEF Shown!Discard

-----------------------------------------------------------------------------
(* The refinement *)

\* A submission without judgements shows nothing.
LEMMA InitSimulated == Init => Shown!Init
<1> SUFFICES ASSUME Init PROVE Shown!Init
  OBVIOUS
<1>1. \A j \in Jids : ~jud[j].exists
  BY DEF Init, NoRow
<1>2. OfficialId = 0
  BY <1>1, NoOfficial DEF HasCurrent, Current
<1>3. RecordMap = [j \in Jids |-> None]
  BY <1>1 DEF RecordMap, RecordOf
<1>4. serial = 0 /\ ShownOf(sub) = "pending"
  BY DEF Init, ShownOf, Terminal
<1> QED
  BY <1>2, <1>3, <1>4 DEF Shown!Init

\* Every step of every actor maps to a step of the abstract system or to none.
LEMMA StepSimulated ==
  ASSUME IInv, IInv', [Next]_vars
  PROVE  [Shown!Next]_(Shown!vars)
<1>1. ASSUME NEW s \in Servers, NEW t \in Tasks, NEW j \in Jids, AdvanceStep(s, t, j)
      PROVE  [Shown!Next]_(Shown!vars)
  BY <1>1, AdvanceSimulated DEF Shown!Next, Shown!SystemStep
<1>2. ASSUME NEW j \in Jids, ApplyJudgement(j) \/ DiscardJudgement(j)
      PROVE  Shown!Next
  BY <1>2, ApplySimulated, DiscardSimulated DEF Shown!Next, Shown!AdminStep
<1> QED
  BY <1>1, <1>2, QuietSimulated, InsertSimulated, StepKinds

\* The judging lifecycle shows a contestant what VerdictSpec promises, whatever
\* servers, leases, retries, crashes and administrators do: a verdict only from
\* the official judgement, and taken back only by an administrator.
THEOREM LifecycleShowsVerdicts == Spec => ShowsVerdicts
<1>1. IInv /\ IInv' /\ [Next]_vars => [Shown!Next]_(Shown!vars)
  BY StepSimulated
<1> QED
  BY <1>1, InitSimulated, Invariant, PTL DEF Spec, ShowsVerdicts, Shown!Spec

=============================================================================
