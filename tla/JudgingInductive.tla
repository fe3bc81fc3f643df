-------------------------- MODULE JudgingInductive --------------------------
(***************************************************************************)
(* The auxiliary invariants that make the safety properties of             *)
(* JudgingLifecycle inductive. They say what the epochs, ids and rows must *)
(* look like between the steps of a dispatch for the gates of the code to  *)
(* be enough.                                                              *)
(***************************************************************************)
EXTENDS JudgingLifecycle

\* Only ids that were handed out name a row, and versions never run ahead of
\* the ids.
RowsAllocated ==
  \A j \in Jids : jud[j].exists => j <= serial /\ jud[j].version \in 1..serial

\* Until a first judgement is current, a dispatch that is about to insert it
\* is on the submission's epoch.
StartsInLockstep ==
  ~HasCurrent => \A t \in Tasks : task[t].pc = "start" => task[t].epoch = sub.epoch

\* A task between the two statements of submission_update: its judgement has
\* moved to a later epoch, was discarded, or still holds what the first
\* statement wrote when that was a verdict.
SubWriteKnown ==
  \A t \in Tasks : task[t].pc = "subWrite" =>
    LET j == task[t].jid IN
    /\ j \in Jids /\ j <= serial
    /\ jud[j].exists => task[t].epoch <= jud[j].epoch
    /\ jud[j].exists /\ jud[j].epoch = task[t].epoch /\ task[t].status = "Judged" =>
         jud[j].final /\ jud[j].status = "Judged" /\ jud[j].verdict = task[t].verdict

\* A contestant verdict is written together with the final judged status.
VerdictMeansJudged ==
  \A j \in Jids : jud[j].exists /\ jud[j].verdict \in ContestantVerdicts =>
    jud[j].final /\ jud[j].status = "Judged"

\* A finalized row has ended.
FinalMeansEnded ==
  \A j \in Jids : jud[j].exists /\ jud[j].final => jud[j].status \in Terminal

\* The inductive invariant.
Lineage == RowsAllocated /\ OneCurrent
Lockstep == StartsInLockstep /\ EpochLockstep
IInv ==
  /\ TypeOK /\ Lineage /\ Lockstep
  /\ SubWriteKnown /\ VerdictFromCurrent
  /\ ResultsMatchAttempt /\ VerdictMeansJudged /\ FinalMeansEnded
=============================================================================
