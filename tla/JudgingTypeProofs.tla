-------------------------- MODULE JudgingTypeProofs --------------------------
(***************************************************************************)
(* Type correctness of JudgingLifecycle: what every insert computes as the *)
(* next version exists and is bounded by the ids handed out, and every     *)
(* step keeps rows, tasks and results well typed.                          *)
(***************************************************************************)
EXTENDS JudgingInductive, WellFoundedInduction, TLAPS

-----------------------------------------------------------------------------
(* Versions *)

\* Every non-empty set of naturals has a least element.
LEMMA LeastNatural ==
  ASSUME NEW T, T \subseteq Nat, T # {}
  PROVE  \E x \in T : \A y \in T : x <= y
<1> DEFINE R == OpToRel(<, Nat)
<1>1. IsWellFoundedOn(R, Nat)
  BY NatLessThanWellFounded
<1> HIDE DEF R
<1>2. PICK x \in T : \A y \in T : ~(<<y, x>> \in R)
  BY <1>1, WFMin
<1>3. \A y \in T : <<y, x>> \in R <=> y < x
  BY DEF R, OpToRel
<1>4. \A y \in T : x <= y
  <2> TAKE y \in T
  <2>1. x \in Nat /\ y \in Nat
    OBVIOUS
  <2>2. ~(y < x)
    BY <1>2, <1>3
  <2> QED
    BY <2>1, <2>2
<1> QED
  BY <1>4

\* MAX(version) + 1, as every insert computes it, exists and is at most one
\* above the number of ids handed out.
LEMMA NextVersionBound ==
  ASSUME TypeOK, RowsAllocated
  PROVE  NextVersion \in 1..(serial + 1)
<1> DEFINE Above(v) == \A k \in Jids : jud[k].exists => jud[k].version < v
           T == {v \in Nat : v >= 1 /\ Above(v)}
<1>0. serial \in Nat /\ serial <= MaxJudgements /\ MaxJudgements \in Nat
  BY BoundsAssumption DEF TypeOK
<1>1. \A k \in Jids : jud[k].exists => jud[k].version \in 1..serial
  BY DEF RowsAllocated
<1>2. serial + 1 \in T
  BY <1>0, <1>1
<1>3. T \subseteq Nat
  OBVIOUS
<1>4. PICK x \in T : \A y \in T : x <= y
  <2> HIDE DEF T
  <2> QED BY <1>2, <1>3, LeastNatural
<1>5. x \in 1..(serial + 1) /\ Above(x)
  BY <1>0, <1>2, <1>4
<1>6. \A w \in 1..(x - 1) : \E k \in Jids : jud[k].exists /\ w <= jud[k].version
  <2> TAKE w \in 1..(x - 1)
  <2>1. w \in Nat /\ w >= 1 /\ ~(x <= w)
    BY <1>0, <1>5
  <2>2. ~Above(w)
    BY <1>4, <2>1
  <2>3. PICK k \in Jids : jud[k].exists /\ ~(jud[k].version < w)
    BY <2>2
  <2> QED
    BY <1>0, <1>1, <2>1, <2>3
<1> HIDE DEF T
<1> DEFINE Q(v) == /\ Above(v)
                   /\ \A w \in 1..(v - 1) :
                        \E k \in Jids : jud[k].exists /\ w <= jud[k].version
<1>7. x \in 1..(MaxJudgements + 1) /\ Q(x)
  BY <1>0, <1>5, <1>6
<1>8. NextVersion = CHOOSE v \in 1..(MaxJudgements + 1) : Q(v)
  BY DEF NextVersion
<1>9. NextVersion \in 1..(MaxJudgements + 1) /\ Q(NextVersion)
  <2> HIDE DEF Q
  <2> QED BY <1>7, <1>8
<1>10. NextVersion <= serial + 1
  <2> SUFFICES ASSUME serial + 1 < NextVersion PROVE FALSE
    BY <1>0, <1>9
  <2>1. serial + 1 \in 1..(NextVersion - 1)
    BY <1>0, <1>9
  <2>2. PICK k \in Jids : jud[k].exists /\ serial + 1 <= jud[k].version
    BY <1>9, <2>1
  <2> QED
    BY <1>0, <1>1, <2>2
<1> QED
  BY <1>0, <1>9, <1>10

-----------------------------------------------------------------------------
(* Type correctness *)

\* A row that is inserted is well typed.
LEMMA NewJudgementType ==
  ASSUME TypeOK, RowsAllocated, NEW st \in Statuses, NEW e \in Nat,
         NEW o \in Owners, NEW c \in BOOLEAN
  PROVE  /\ NewJudgement(st, e, o, c) \in JudgementRow
         /\ NewJudgement(st, e, o, c).version \in 1..(serial + 1)
<1>1. NextVersion \in 1..(serial + 1) /\ serial \in Nat
  BY NextVersionBound, BoundsAssumption DEF TypeOK
<1> QED
  BY <1>1 DEF NewJudgement, JudgementRow, Statuses, Verdicts, Leases

\* Re-dispatching, failing, demoting and refreshing keep a row well typed.
LEMMA RowOperatorTypes ==
  /\ \A row \in SubmissionRow, s \in Servers, e \in Nat, n \in Nat :
       Redispatched(row, s, e, n) \in SubmissionRow
  /\ \A row \in JudgementRow, s \in Servers, e \in Nat, n \in Nat :
       Redispatched(row, s, e, n) \in JudgementRow
  /\ \A row \in JudgementRow : AsSystemError(row) \in JudgementRow
  /\ \A row \in SubmissionRow : Refreshed(row) \in SubmissionRow /\ Orphan(row) \in SubmissionRow
  /\ \A row \in JudgementRow : Refreshed(row) \in JudgementRow /\ Orphan(row) \in JudgementRow
<1>1. ASSUME NEW row \in SubmissionRow, NEW s \in Servers, NEW e \in Nat, NEW n \in Nat
      PROVE  Redispatched(row, s, e, n) \in SubmissionRow
  BY DEF Redispatched, SubmissionRow, Statuses, Verdicts, Owners, Leases
<1>2. ASSUME NEW row \in JudgementRow, NEW s \in Servers, NEW e \in Nat, NEW n \in Nat
      PROVE  Redispatched(row, s, e, n) \in JudgementRow
  BY DEF Redispatched, JudgementRow, Statuses, Verdicts, Owners, Leases
<1>3. ASSUME NEW row \in JudgementRow PROVE AsSystemError(row) \in JudgementRow
  BY DEF AsSystemError, JudgementRow, Statuses
<1>4. ASSUME NEW row \in SubmissionRow
      PROVE  Refreshed(row) \in SubmissionRow /\ Orphan(row) \in SubmissionRow
  BY DEF Refreshed, Orphan, SubmissionRow, Owners, Leases
<1>5. ASSUME NEW row \in JudgementRow
      PROVE  Refreshed(row) \in JudgementRow /\ Orphan(row) \in JudgementRow
  BY DEF Refreshed, Orphan, JudgementRow, Owners, Leases
<1> QED
  BY <1>1, <1>2, <1>3, <1>4, <1>5

\* A task that is spawned is well typed.
LEMMA SpawnType ==
  ASSUME TypeOK, NEW t \in Tasks, NEW s \in Servers, NEW j \in Nat, NEW e \in Nat,
         NEW pc \in Pcs, Spawn(t, s, j, e, pc)
  PROVE  task' \in [Tasks -> TaskRow]
BY DEF TypeOK, Spawn, Idle, TaskRow, Pcs, Owners, Statuses, Verdicts

\* mark_submission_system_error_with_epoch keeps submission and judgements well
\* typed.
LEMMA MarkedTypes ==
  ASSUME TypeOK, NEW e \in Nat
  PROVE  /\ MarkedSubmission(e) \in SubmissionRow
         /\ MarkedJudgements(e) \in [Jids -> JudgementRow]
<1>1. MarkedSubmission(e) \in SubmissionRow
  BY DEF TypeOK, MarkedSubmission, SubmissionRow, Statuses
<1>2. MarkedJudgements(e) \in [Jids -> JudgementRow]
  BY RowOperatorTypes DEF TypeOK, MarkedJudgements
<1> QED
  BY <1>1, <1>2

\* The row of an id without judgement and the slot of no task are well typed.
LEMMA ConstantRowTypes == NoRow \in JudgementRow /\ Idle \in TaskRow
BY DEF NoRow, Idle, JudgementRow, TaskRow, Statuses, Verdicts, Owners, Leases, Pcs

\* The fields of the rows and of the tasks.
LEMMA FieldTypes ==
  ASSUME TypeOK
  PROVE  /\ sub.epoch \in Nat /\ sub.retry \in Nat
         /\ \A j \in Jids : /\ jud[j] \in JudgementRow /\ j \in Nat
                            /\ jud[j].epoch \in Nat /\ jud[j].retry \in Nat
                            /\ jud[j].status \in Statuses /\ jud[j].verdict \in Verdicts
         /\ \A t \in Tasks : /\ task[t] \in TaskRow /\ task[t].server \in Owners
                             /\ task[t].jid \in Nat /\ task[t].epoch \in Nat
                             /\ task[t].status \in Statuses /\ task[t].verdict \in Verdicts
<1>1. sub.epoch \in Nat /\ sub.retry \in Nat
  BY DEF TypeOK, SubmissionRow
<1>2. ASSUME NEW j \in Jids
      PROVE  /\ jud[j] \in JudgementRow /\ j \in Nat
             /\ jud[j].epoch \in Nat /\ jud[j].retry \in Nat
             /\ jud[j].status \in Statuses /\ jud[j].verdict \in Verdicts
  <2>1. jud[j] \in JudgementRow /\ j \in Nat
    BY DEF TypeOK, Jids
  <2> QED
    BY <2>1 DEF JudgementRow
<1>3. ASSUME NEW t \in Tasks
      PROVE  /\ task[t] \in TaskRow /\ task[t].server \in Owners
             /\ task[t].jid \in Nat /\ task[t].epoch \in Nat
             /\ task[t].status \in Statuses /\ task[t].verdict \in Verdicts
  <2>1. task[t] \in TaskRow
    BY DEF TypeOK
  <2> QED
    BY <2>1 DEF TaskRow
<1> QED
  BY <1>1, <1>2, <1>3

\* Demoting keeps every row well typed.
LEMMA DemotedType ==
  ASSUME TypeOK
  PROVE  Demoted \in [Jids -> JudgementRow]
<1>1. ASSUME NEW j \in Jids PROVE [jud[j] EXCEPT !.current = FALSE] \in JudgementRow
  <2>1. jud[j] \in JudgementRow
    BY FieldTypes
  <2> QED
    BY <2>1 DEF JudgementRow
<1> QED
  BY <1>1 DEF Demoted

\* submission_update's first statement keeps judgement and task well typed.
LEMMA UpdateJudgementType ==
  ASSUME TypeOK, NEW t \in Tasks, NEW st \in Statuses, NEW v \in Verdicts,
         UpdateJudgement(t, st, v)
  PROVE  TypeOK'
<1>1. task[t].jid \in Jids
  BY DEF UpdateJudgement, Writable, LiveAttempt
<1>2. [jud[task[t].jid] EXCEPT !.status = st, !.verdict = v, !.final = (st = "Judged")]
        \in JudgementRow
  BY <1>1, FieldTypes DEF JudgementRow
<1>3. [task[t] EXCEPT !.pc = "subWrite", !.status = st, !.verdict = v] \in TaskRow
  BY FieldTypes DEF TaskRow, Pcs
<1>4. jud' \in [Jids -> JudgementRow]
  BY <1>1, <1>2 DEF UpdateJudgement, TypeOK
<1>5. task' \in [Tasks -> TaskRow]
  BY <1>3 DEF UpdateJudgement, TypeOK
<1> QED
  BY <1>4, <1>5 DEF UpdateJudgement, TypeOK

\* Initially every row, task and result is well typed.
LEMMA TypeInit == Init => TypeOK
<1> SUFFICES ASSUME Init PROVE TypeOK
  OBVIOUS
<1>1. sub \in SubmissionRow
  BY DEF Init, SubmissionRow, Statuses, Verdicts, Owners, Leases
<1>2. serial \in 0..MaxJudgements
  BY BoundsAssumption DEF Init
<1> QED
  BY <1>1, <1>2, ConstantRowTypes DEF Init, TypeOK

\* Every step of every actor keeps the rows, tasks and results well typed.
LEMMA TypeStep ==
  ASSUME TypeOK, RowsAllocated, [Next]_vars
  PROVE  TypeOK'
<1>1. CASE UNCHANGED vars
  BY <1>1 DEF vars, TypeOK
<1>2. ASSUME NEW t \in Tasks, TaskStep(t) PROVE TypeOK'
  <2>1. ASSUME NEW j \in Jids, EnsureAdopt(t, j) PROVE TypeOK'
    <3>0. jud[j] \in JudgementRow /\ task[t].server \in Owners
      BY FieldTypes
    <3>1. [jud[j] EXCEPT !.owner = task[t].server, !.lease = "fresh"] \in JudgementRow
      BY <3>0 DEF JudgementRow, Leases
    <3>2. [task[t] EXCEPT !.pc = "run", !.jid = j] \in TaskRow
      BY FieldTypes DEF TaskRow, Pcs
    <3>3. jud' \in [Jids -> JudgementRow]
      BY <2>1, <3>1 DEF EnsureAdopt, TypeOK
    <3>4. task' \in [Tasks -> TaskRow]
      BY <2>1, <3>2 DEF EnsureAdopt, TypeOK
    <3> QED
      BY <2>1, <3>3, <3>4 DEF EnsureAdopt, TypeOK
  <2>2. CASE EnsureInsert(t)
    <3>1. NewJudgement("Pending", task[t].epoch, task[t].server, TRUE) \in JudgementRow
      BY NewJudgementType, FieldTypes DEF Statuses
    <3>2. serial + 1 \in Jids /\ serial + 1 \in Nat /\ serial' \in 0..MaxJudgements
      BY <2>2, BoundsAssumption DEF EnsureInsert, CanInsert, TypeOK, Jids
    <3>3. [task[t] EXCEPT !.pc = "run", !.jid = serial + 1] \in TaskRow
      BY <3>2, FieldTypes DEF TaskRow, Pcs
    <3>4. jud' \in [Jids -> JudgementRow]
      BY <2>2, <3>1, <3>2 DEF EnsureInsert, TypeOK
    <3>5. task' \in [Tasks -> TaskRow]
      BY <2>2, <3>3 DEF EnsureInsert, TypeOK
    <3> QED
      BY <2>2, <3>2, <3>4, <3>5 DEF EnsureInsert, TypeOK
  <2>3. CASE EnsureFails(t)
    BY <2>3 DEF EnsureFails, Goto, TypeOK, TaskRow, Pcs
  <2>4. CASE PluginProgress(t)
    BY <2>4, UpdateJudgementType DEF PluginProgress, Statuses, Verdicts
  <2>5. CASE PluginVerdict(t)
    BY <2>5, UpdateJudgementType DEF PluginVerdict, Statuses, Verdicts
  <2>6. CASE UpdateSubmission(t)
    <3>1. sub' \in SubmissionRow
      BY <2>6 DEF UpdateSubmission, TypeOK, SubmissionRow, TaskRow
    <3>2. task' \in [Tasks -> TaskRow]
      BY <2>6, ConstantRowTypes DEF UpdateSubmission, End, Goto, TypeOK, TaskRow, Pcs
    <3> QED
      BY <2>6, <3>1, <3>2 DEF UpdateSubmission, TypeOK
  <2>7. CASE PluginStale(t)
    BY <2>7, ConstantRowTypes DEF PluginStale, End, TypeOK
  <2>8. CASE InsertResults(t)
    <3>1. task[t].jid \in Jids /\ task[t].epoch \in Nat
      BY <2>8 DEF InsertResults, LiveAttempt, TypeOK, TaskRow
    <3> QED
      BY <2>8, <3>1 DEF InsertResults, TypeOK
  <2>9. CASE DeleteResults(t)
    BY <2>9 DEF DeleteResults, TypeOK
  <2>10. CASE FailDispatch(t)
    <3>1. jud' \in [Jids -> JudgementRow]
      BY <2>10, RowOperatorTypes DEF FailDispatch, LiveAttempt, TypeOK
    <3> QED
      BY <2>10, <3>1 DEF FailDispatch, Goto, TypeOK, TaskRow, Pcs
  <2>11. CASE MarkSubmission(t)
    <3>1. task[t].epoch \in Nat
      BY DEF TypeOK, TaskRow
    <3> QED
      BY <2>11, <3>1, MarkedTypes DEF MarkSubmission, Goto, TypeOK, TaskRow, Pcs
  <2>12. CASE MarkMirror(t)
    <3>1. task[t].epoch \in Nat
      BY DEF TypeOK, TaskRow
    <3> QED
      BY <2>12, <3>1, MarkedTypes, ConstantRowTypes DEF MarkMirror, End, TypeOK
  <2>13. CASE RereadSubmission(t)
    <3>1. task[t] \in TaskRow /\ sub.epoch \in Nat
      BY FieldTypes
    <3>2. [task[t] EXCEPT !.pc = "run", !.epoch = sub.epoch] \in TaskRow
      BY <3>1 DEF TaskRow, Pcs
    <3> QED
      BY <2>13, <3>2 DEF RereadSubmission, TypeOK
  <2>14. CASE Wedge(t)
    BY <2>14, ConstantRowTypes DEF Wedge, End, TypeOK
  <2> QED
    BY <1>2, <2>1, <2>2, <2>3, <2>4, <2>5, <2>6, <2>7, <2>8,
       <2>9, <2>10, <2>11, <2>12, <2>13, <2>14 DEF TaskStep, EnsureActiveJudgement
<1>3. ASSUME NEW s \in Servers, FiberStep(s) PROVE TypeOK'
  <2>1. ASSUME NEW t \in Tasks, Claim(s, t) PROVE TypeOK'
    <3>0. sub \in SubmissionRow /\ sub.retry + 1 \in Nat
      BY FieldTypes DEF TypeOK
    <3>1. [sub EXCEPT !.status = "Pending", !.owner = s, !.lease = "fresh",
                      !.retry = sub.retry + 1] \in SubmissionRow
      BY <3>0 DEF SubmissionRow, Statuses, Owners, Leases
    <3>2. task' \in [Tasks -> TaskRow]
      BY <2>1, SpawnType, FieldTypes DEF Claim, Pcs
    <3> QED
      BY <2>1, <3>1, <3>2 DEF Claim, TypeOK
  <2>2. ASSUME NEW t \in Tasks, StealSubmission(s, t) PROVE TypeOK'
    <3>1. NextEpoch(sub.epoch) \in Nat /\ sub.retry + 1 \in Nat
      BY FieldTypes DEF NextEpoch
    <3>2. NewJudgement("Pending", NextEpoch(sub.epoch), s, TRUE) \in JudgementRow
      BY <3>1, NewJudgementType DEF Statuses, Owners
    <3>3. serial + 1 \in Jids /\ serial' \in 0..MaxJudgements
      BY <2>2, BoundsAssumption DEF StealSubmission, CanInsert, TypeOK, Jids
    <3>4. jud' \in [Jids -> JudgementRow]
      BY <2>2, <3>2, <3>3, DemotedType DEF StealSubmission
    <3>5. sub' \in SubmissionRow
      BY <2>2, <3>1, RowOperatorTypes DEF StealSubmission, TypeOK
    <3>6. task' \in [Tasks -> TaskRow]
      BY <2>2, <3>1, SpawnType DEF StealSubmission, Pcs
    <3> QED
      BY <2>2, <3>3, <3>4, <3>5, <3>6 DEF StealSubmission, ResultsWithout, TypeOK
  <2>3. ASSUME NEW t \in Tasks, RecoverStuckSubmission(s, t) PROVE TypeOK'
    <3>1. NextEpoch(sub.epoch) \in Nat /\ sub.retry + 1 \in Nat
      BY FieldTypes DEF NextEpoch
    <3>2. NewJudgement("Pending", NextEpoch(sub.epoch), s, TRUE) \in JudgementRow
      BY <3>1, NewJudgementType DEF Statuses, Owners
    <3>3. serial + 1 \in Jids /\ serial' \in 0..MaxJudgements
      BY <2>3, BoundsAssumption DEF RecoverStuckSubmission, CanInsert, TypeOK, Jids
    <3>4. jud' \in [Jids -> JudgementRow]
      <4>1. ASSUME NEW j \in Jids
            PROVE  /\ jud[j] \in JudgementRow
                   /\ [AsSystemError(jud[j]) EXCEPT !.current = FALSE] \in JudgementRow
        <5>1. jud[j] \in JudgementRow /\ AsSystemError(jud[j]) \in JudgementRow
          BY FieldTypes, RowOperatorTypes
        <5> QED
          BY <5>1 DEF JudgementRow
      <4> QED
        BY <2>3, <3>2, <3>3, <4>1 DEF RecoverStuckSubmission
    <3>5. sub' \in SubmissionRow
      BY <2>3, <3>1, RowOperatorTypes DEF RecoverStuckSubmission, TypeOK
    <3>6. task' \in [Tasks -> TaskRow]
      BY <2>3, <3>1, SpawnType DEF RecoverStuckSubmission, Pcs
    <3> QED
      BY <2>3, <3>3, <3>4, <3>5, <3>6 DEF RecoverStuckSubmission, TypeOK
  <2>4. ASSUME NEW t \in Tasks, NEW j \in Jids, ClaimDeferred(s, t, j) PROVE TypeOK'
    <3>1. jud' \in [Jids -> JudgementRow]
      BY <2>4 DEF ClaimDeferred, TypeOK, JudgementRow, Statuses, Owners, Leases
    <3>2. task' \in [Tasks -> TaskRow]
      BY <2>4, SpawnType DEF ClaimDeferred, TypeOK, JudgementRow, Jids, Pcs
    <3> QED
      BY <2>4, <3>1, <3>2 DEF ClaimDeferred, TypeOK
  <2>5. ASSUME NEW t \in Tasks, NEW j \in Jids, StealJudgement(s, t, j) PROVE TypeOK'
    <3>1. NextEpoch(jud[j].epoch) \in Nat /\ jud[j].retry + 1 \in Nat
      BY FieldTypes DEF NextEpoch
    <3>2. Redispatched(jud[j], s, NextEpoch(jud[j].epoch), jud[j].retry + 1) \in JudgementRow
      BY <3>1, FieldTypes, RowOperatorTypes
    <3>3. jud' \in [Jids -> JudgementRow]
      BY <2>5, <3>2 DEF StealJudgement, TypeOK
    <3>4. sub' \in SubmissionRow
      BY <2>5, <3>1, FieldTypes, RowOperatorTypes DEF StealJudgement, PulledAlong, TypeOK
    <3>5. task' \in [Tasks -> TaskRow]
      BY <2>5, <3>1, FieldTypes, SpawnType DEF StealJudgement, Pcs
    <3> QED
      BY <2>5, <3>3, <3>4, <3>5 DEF StealJudgement, ResultsWithout, TypeOK
  <2>6. ASSUME NEW t \in Tasks, NEW j \in Jids, RecoverStuckJudgement(s, t, j) PROVE TypeOK'
    <3>1. NextEpoch(jud[j].epoch) \in Nat /\ jud[j].retry + 1 \in Nat
      BY FieldTypes DEF NextEpoch
    <3>2. Redispatched(jud[j], s, NextEpoch(jud[j].epoch), jud[j].retry + 1) \in JudgementRow
      BY <3>1, FieldTypes, RowOperatorTypes
    <3>3. jud' \in [Jids -> JudgementRow]
      BY <2>6, <3>2 DEF RecoverStuckJudgement, TypeOK
    <3>4. sub' \in SubmissionRow
      BY <2>6, <3>1, RowOperatorTypes DEF RecoverStuckJudgement, TypeOK
    <3>5. task' \in [Tasks -> TaskRow]
      BY <2>6, <3>1, FieldTypes, SpawnType DEF RecoverStuckJudgement, Pcs
    <3> QED
      BY <2>6, <3>3, <3>4, <3>5 DEF RecoverStuckJudgement, ResultsWithout, TypeOK
  <2>7. ASSUME NEW t \in Tasks, NEW j \in Jids, RequeueSystemError(s, t, j) PROVE TypeOK'
    <3>1. NextEpoch(jud[j].epoch) \in Nat /\ jud[j].retry + 1 \in Nat
      BY FieldTypes DEF NextEpoch
    <3>2. [Redispatched(jud[j], s, NextEpoch(jud[j].epoch), jud[j].retry + 1)
             EXCEPT !.final = FALSE] \in JudgementRow
      <4>1. Redispatched(jud[j], s, NextEpoch(jud[j].epoch), jud[j].retry + 1) \in JudgementRow
        BY <3>1, FieldTypes, RowOperatorTypes
      <4> QED
        BY <4>1 DEF JudgementRow
    <3>3. jud' \in [Jids -> JudgementRow]
      BY <2>7, <3>2 DEF RequeueSystemError, TypeOK
    <3>4. sub' \in SubmissionRow
      BY <2>7, <3>1, RowOperatorTypes DEF RequeueSystemError, TypeOK
    <3>5. task' \in [Tasks -> TaskRow]
      BY <2>7, <3>1, FieldTypes, SpawnType DEF RequeueSystemError, Pcs
    <3> QED
      BY <2>7, <3>3, <3>4, <3>5 DEF RequeueSystemError, ResultsWithout, TypeOK
  <2>8. ASSUME NEW j \in Jids, ExhaustJudgement(s, j) PROVE TypeOK'
    <3>1. sub' \in SubmissionRow
      BY <2>8, MarkedTypes, FieldTypes DEF ExhaustJudgement
    <3>2. AsSystemError(jud[j]) \in JudgementRow
      BY RowOperatorTypes, FieldTypes
    <3>3. [AsSystemError(jud[j]) EXCEPT !.retry = jud[j].retry + 1] \in JudgementRow
      BY <3>2, FieldTypes DEF JudgementRow
    <3>4. jud' \in [Jids -> JudgementRow]
      BY <2>8, <3>3 DEF ExhaustJudgement, TypeOK
    <3> QED
      BY <2>8, <3>1, <3>4 DEF ExhaustJudgement, TypeOK
  <2>9. ASSUME NEW j \in Jids, TerminateStuckJudgement(s, j) PROVE TypeOK'
    BY <2>9, RowOperatorTypes DEF TerminateStuckJudgement, TypeOK
  <2>10. CASE ExhaustSubmission(s)
    <3>1. sub.epoch \in Nat
      BY DEF TypeOK, SubmissionRow
    <3>2. MarkedSubmission(sub.epoch) \in SubmissionRow /\ jud' \in [Jids -> JudgementRow]
      BY <2>10, <3>1, MarkedTypes DEF ExhaustSubmission
    <3>3. sub' \in SubmissionRow
      BY <2>10, <3>2 DEF ExhaustSubmission, SubmissionRow
    <3> QED
      BY <2>10, <3>2, <3>3 DEF ExhaustSubmission, TypeOK
  <2>11. CASE TerminateStuckSubmission(s)
    <3>1. sub.epoch \in Nat
      BY DEF TypeOK, SubmissionRow
    <3> QED
      BY <2>11, <3>1, MarkedTypes DEF TerminateStuckSubmission, TypeOK
  <2>12. CASE RefreshLeases(s)
    <3>1. sub' \in SubmissionRow
      BY <2>12, RowOperatorTypes DEF RefreshLeases, TypeOK
    <3>2. jud' \in [Jids -> JudgementRow]
      BY <2>12, RowOperatorTypes DEF RefreshLeases, TypeOK
    <3> QED
      BY <2>12, <3>1, <3>2 DEF RefreshLeases, TypeOK
  <2>13. CASE Crash(s)
    BY <2>13, ConstantRowTypes DEF Crash, TypeOK
  <2>14. CASE Restart(s)
    <3>1. sub' \in SubmissionRow
      BY <2>14, RowOperatorTypes DEF Restart, TypeOK
    <3>2. jud' \in [Jids -> JudgementRow]
      BY <2>14, RowOperatorTypes DEF Restart, TypeOK
    <3> QED
      BY <2>14, <3>1, <3>2 DEF Restart, TypeOK
  <2> QED
    BY <1>3, <2>1, <2>2, <2>3, <2>4, <2>5, <2>6, <2>7, <2>8,
       <2>9, <2>10, <2>11, <2>12, <2>13, <2>14 DEF FiberStep
<1>4. ASSUME AdminStep PROVE TypeOK'
  <2>1. CASE RejudgeImmediate
    <3>1. NextEpoch(sub.epoch) \in Nat /\ sub.retry + 1 \in Nat
      BY FieldTypes DEF NextEpoch
    <3>2. NewJudgement("Pending", NextEpoch(sub.epoch), None, TRUE) \in JudgementRow
      BY <3>1, NewJudgementType DEF Statuses, Owners
    <3>3. serial + 1 \in Jids /\ serial' \in 0..MaxJudgements
      BY <2>1, BoundsAssumption DEF RejudgeImmediate, OpenImmediateRejudge, CanInsert, TypeOK, Jids
    <3>4. jud' \in [Jids -> JudgementRow]
      BY <2>1, <3>2, <3>3, DemotedType DEF RejudgeImmediate, OpenImmediateRejudge
    <3>5. sub' \in SubmissionRow
      BY <2>1, <3>1 DEF RejudgeImmediate, OpenImmediateRejudge, TypeOK,
         SubmissionRow, Statuses, Verdicts
    <3>6. task' \in [Tasks -> TaskRow]
      BY <2>1, <3>1 DEF RejudgeImmediate, TypeOK
    <3> QED
      BY <2>1, <3>3, <3>4, <3>5, <3>6 DEF RejudgeImmediate, OpenImmediateRejudge, TypeOK
  <2>2. CASE RejudgeDeferred
    <3>1. NextEpoch(sub.epoch) \in Nat /\ sub.retry + 1 \in Nat
      BY FieldTypes DEF NextEpoch
    <3>2. NewJudgement("Queued", NextEpoch(sub.epoch), None, FALSE) \in JudgementRow
      BY <3>1, NewJudgementType DEF Statuses, Owners
    <3>3. serial + 1 \in Jids /\ serial' \in 0..MaxJudgements
      BY <2>2, BoundsAssumption DEF RejudgeDeferred, CanInsert, TypeOK, Jids
    <3>4. jud' \in [Jids -> JudgementRow]
      BY <2>2, <3>2, <3>3 DEF RejudgeDeferred, TypeOK
    <3>5. sub' \in SubmissionRow
      BY <2>2, <3>1 DEF RejudgeDeferred, TypeOK
    <3>6. task' \in [Tasks -> TaskRow]
      BY <2>2, <3>1 DEF RejudgeDeferred, TypeOK
    <3> QED
      BY <2>2, <3>3, <3>4, <3>5, <3>6 DEF RejudgeDeferred, TypeOK
  <2>3. CASE DlqRetry
    <3>1. NextEpoch(sub.epoch) \in Nat /\ sub.retry + 1 \in Nat
      BY FieldTypes DEF NextEpoch
    <3>2. NewJudgement("Pending", NextEpoch(sub.epoch), None, TRUE) \in JudgementRow
      BY <3>1, NewJudgementType DEF Statuses, Owners
    <3>3. serial + 1 \in Jids /\ serial' \in 0..MaxJudgements
      BY <2>3, BoundsAssumption DEF DlqRetry, OpenImmediateRejudge, CanInsert, TypeOK, Jids
    <3>4. jud' \in [Jids -> JudgementRow]
      BY <2>3, <3>2, <3>3, DemotedType DEF DlqRetry, OpenImmediateRejudge
    <3>5. sub' \in SubmissionRow
      BY <2>3, <3>1 DEF DlqRetry, OpenImmediateRejudge, TypeOK,
         SubmissionRow, Statuses, Verdicts
    <3>6. task' \in [Tasks -> TaskRow]
      BY <2>3, <3>1 DEF DlqRetry, TypeOK
    <3> QED
      BY <2>3, <3>3, <3>4, <3>5, <3>6 DEF DlqRetry, OpenImmediateRejudge, TypeOK
  <2>4. ASSUME NEW j \in Jids, ApplyJudgement(j) PROVE TypeOK'
    <3>1. sub' \in SubmissionRow
      BY <2>4, FieldTypes DEF ApplyJudgement, Applied, TypeOK, SubmissionRow
    <3>2. Demoted \in [Jids -> JudgementRow]
      BY DemotedType
    <3>3. [Demoted[j] EXCEPT !.current = TRUE] \in JudgementRow
      BY <3>2 DEF JudgementRow
    <3>4. jud' \in [Jids -> JudgementRow]
      BY <2>4, <3>2, <3>3 DEF ApplyJudgement
    <3> QED
      BY <2>4, <3>1, <3>4 DEF ApplyJudgement, TypeOK
  <2>5. ASSUME NEW j \in Jids, DiscardJudgement(j) PROVE TypeOK'
    BY <2>5, ConstantRowTypes DEF DiscardJudgement, ResultsWithout, TypeOK
  <2> QED
    BY <1>4, <2>1, <2>2, <2>3, <2>4, <2>5 DEF AdminStep
<1>5. ASSUME TimeStep PROVE TypeOK'
  <2>1. CASE ExpireSubmission
    BY <2>1 DEF ExpireSubmission, TypeOK, SubmissionRow, Leases
  <2>2. ASSUME NEW j \in Jids, ExpireJudgement(j) PROVE TypeOK'
    BY <2>2 DEF ExpireJudgement, TypeOK, JudgementRow, Leases
  <2>3. ASSUME NEW j \in Jids, Reconcile(j) PROVE TypeOK'
    BY <2>3 DEF Reconcile, TypeOK, SubmissionRow, JudgementRow
  <2> QED
    BY <1>5, <2>1, <2>2, <2>3 DEF TimeStep
<1> QED
  BY <1>1, <1>2, <1>3, <1>4, <1>5 DEF Next

=============================================================================
