-------------------------- MODULE JudgingRefinement --------------------------
(***************************************************************************)
(* The judging lifecycle implements VerdictSpec: the official judgement is *)
(* the current row, a record is the contestant verdict of a finalized row, *)
(* and what is shown is read off the submission's own columns alone.       *)
(***************************************************************************)
EXTENDS JudgingInductive

\* The judgement that is current, 0 before the first.
OfficialId == IF HasCurrent THEN CHOOSE j \in Jids : Current(j) ELSE 0

\* The contestant verdict of a finalized judgement.
RecordOf(row) ==
  IF row.exists /\ row.final /\ row.verdict \in ContestantVerdicts
  THEN row.verdict ELSE None
RecordMap == [j \in Jids |-> RecordOf(jud[j])]

\* What the submission row shows: SystemError is an error whether it stands in
\* the status or in the verdict.
ShownOf(row) ==
  IF row.status \notin Terminal THEN "pending"
  ELSE IF row.status = "Judged" /\ row.verdict \in ContestantVerdicts THEN row.verdict
  ELSE "error"

Shown == INSTANCE VerdictSpec WITH
  Ids <- Jids, Verdicts <- ContestantVerdicts, NoVerdict <- None,
  Administered <- (AdminOps # {}),
  opened <- serial, record <- RecordMap, official <- OfficialId, shown <- ShownOf(sub)

\* The lifecycle shows a contestant what VerdictSpec promises: a verdict only
\* from the official judgement, never a different one later, and taken back
\* only by an administrator; servers, leases, retries, crashes and failing
\* dispatches are steps of the abstract system or no step at all.
ShowsVerdicts == Shown!Spec
=============================================================================
