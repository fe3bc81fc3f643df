----------------------------- MODULE VerdictSpec -----------------------------
(***************************************************************************)
(* What judging promises about the outcome that is shown for a submission. *)
(* Judgements are opened one after another and each may record a verdict   *)
(* about the contestant's program, once. One of them is official. The      *)
(* submission shows "pending", "error", or a verdict, and a verdict only    *)
(* when the official judgement recorded it. The system itself may replace  *)
(* the official judgement only while no verdict is shown; what is shown is     *)
(* taken back only after an error or by an administrator.                  *)
(***************************************************************************)
EXTENDS Naturals

CONSTANTS
  Ids,           \* judgement ids, 1..n
  Verdicts,      \* the verdicts about a program
  NoVerdict,     \* nothing recorded
  Administered   \* whether an administrator may rejudge, apply and discard

VARIABLES
  opened,    \* how many judgements were opened
  record,    \* the verdict each judgement recorded
  official,  \* the judgement that counts, 0 before the first
  shown      \* what the submission shows

vars == <<opened, record, official, shown>>

Init ==
  /\ opened = 0
  /\ record = [j \in Ids |-> NoVerdict]
  /\ official = 0
  /\ shown = "pending"

\* A new judgement becomes official.
Open ==
  /\ opened' = opened + 1 /\ opened' \in Ids
  /\ official' = opened'
  /\ UNCHANGED record

\* A verdict is recorded, by the official judgement or by one that was opened
\* for comparison.
Record(j, v) ==
  /\ j <= opened /\ record[j] = NoVerdict
  /\ record' = [record EXCEPT ![j] = v]
  /\ UNCHANGED <<opened, official, shown>>

\* What the official judgement recorded is shown.
Publish ==
  /\ shown = "pending"
  /\ official # 0 /\ record[official] # NoVerdict
  /\ shown' = record[official]
  /\ UNCHANGED <<opened, record, official>>

Fail ==
  /\ shown = "pending" /\ shown' = "error"
  /\ UNCHANGED <<opened, record, official>>

\* An error is taken back for another attempt of the same judgement.
Retry ==
  /\ shown = "error" /\ official # 0 /\ record[official] = NoVerdict
  /\ shown' = "pending"
  /\ UNCHANGED <<opened, record, official>>

\* The system opens a judgement only while no verdict is shown. A first dispatch
\* may open its judgement after the submission was given up as an error.
Redispatch == shown \in {"pending", "error"} /\ Open /\ UNCHANGED shown

Rejudge == Open /\ shown' = "pending"

Defer ==
  /\ opened' = opened + 1 /\ opened' \in Ids
  /\ UNCHANGED <<record, official, shown>>

\* The administrator makes an earlier judgement official and shows its outcome.
Apply(j) ==
  /\ j <= opened
  /\ official' = j
  /\ shown' = IF record[j] = NoVerdict THEN "error" ELSE record[j]
  /\ UNCHANGED <<opened, record>>

\* The administrator forgets a judgement that is not official.
Discard(j) ==
  /\ j # official
  /\ record' = [record EXCEPT ![j] = NoVerdict]
  /\ UNCHANGED <<opened, official, shown>>

SystemStep ==
  \/ Redispatch \/ Publish \/ Fail \/ Retry
  \/ \E j \in Ids, v \in Verdicts : Record(j, v)

AdminStep ==
  /\ Administered
  /\ Rejudge \/ Defer \/ \E j \in Ids : Apply(j) \/ Discard(j)

Next == SystemStep \/ AdminStep

Spec == Init /\ [][Next]_vars
=============================================================================
