----------------------------- MODULE PluginTimer -----------------------------
(***************************************************************************)
(* One key of the plugin_timer table: plugins schedule, replace and cancel  *)
(* it (host_funcs/timer.rs), and the delivery loops of the replicas claim   *)
(* it when due, call the plugin and delete the row they claimed             *)
(* (dispatcher/plugin_timer.rs).                                            *)
(*                                                                          *)
(* Every statement is a step and so is the call of the plugin, which may    *)
(* itself reschedule the key. A schedule is told from an earlier one by its *)
(* number; the time of a claim by the number of the claim. The soft cap on  *)
(* pending timers of one plugin is about many keys and is left out.         *)
(***************************************************************************)
EXTENDS Naturals

CONSTANTS
  Servers,      \* replicas, each with one delivery in progress at most
  MaxAttempts,  \* TimerConfig::max_attempts
  MaxSchedules, \* bound: calls of timer_schedule
  MaxClaims     \* bound: claims of the row

VARIABLES
  row,        \* the row of the key, or Absent
  delivery,   \* what each replica claimed and is delivering
  schedules,  \* calls of timer_schedule
  claims,     \* claims so far
  fired,      \* the schedules whose callback has succeeded
  given       \* the schedules that were cancelled, replaced or dropped

vars == <<row, delivery, schedules, claims, fired, given>>

Absent == [schedule |-> 0, claimed |-> 0, live |-> FALSE, attempts |-> 0]

Idle == [pc |-> "idle", row |-> Absent]

Exists == row.schedule # 0

Rows == [schedule : 0..MaxSchedules, claimed : 0..MaxClaims, live : BOOLEAN, attempts : 0..MaxClaims]

TypeOK ==
  /\ row \in Rows
  /\ delivery \in [Servers -> [pc : {"idle", "call", "delete", "drop"}, row : Rows]]
  /\ schedules \in 0..MaxSchedules /\ claims \in 0..MaxClaims
  /\ fired \subseteq 1..MaxSchedules /\ given \subseteq 1..MaxSchedules

Init ==
  /\ row = Absent
  /\ delivery = [s \in Servers |-> Idle]
  /\ schedules = 0 /\ claims = 0
  /\ fired = {} /\ given = {}

GiveUp == given' = given \union ({row.schedule} \ {0})

\* schedule: insert, or replace the row and clear its claim and attempts.
Schedule ==
  /\ schedules < MaxSchedules /\ schedules' = schedules + 1
  /\ row' = [Absent EXCEPT !.schedule = schedules']
  /\ GiveUp
  /\ UNCHANGED <<delivery, claims, fired>>

\* cancel, and delete_timers_for_plugin when the plugin is unloaded.
Cancel ==
  /\ Exists /\ row' = Absent
  /\ GiveUp
  /\ UNCHANGED <<delivery, schedules, claims, fired>>

\* Mutant: only timers that were never claimed are due.
ClaimUnclaimed(s) ==
  /\ delivery[s].pc = "idle"
  /\ Exists /\ row.claimed = 0 /\ claims < MaxClaims
  /\ claims' = claims + 1
  /\ row' = [row EXCEPT !.claimed = claims', !.live = TRUE, !.attempts = @ + 1]
  /\ delivery' = [delivery EXCEPT ![s] = [pc |-> "call", row |-> row']]
  /\ UNCHANGED <<schedules, fired, given>>

\* claim_due: the row is due and unclaimed, or its claim has expired.
Claim(s) ==
  /\ delivery[s].pc = "idle"
  /\ Exists /\ ~row.live /\ claims < MaxClaims
  /\ claims' = claims + 1
  /\ row' = [row EXCEPT !.claimed = claims', !.live = TRUE, !.attempts = @ + 1]
  /\ delivery' = [delivery EXCEPT ![s] = [pc |-> "call", row |-> row']]
  /\ UNCHANGED <<schedules, fired, given>>

LeaseExpires ==
  /\ Exists /\ row.live
  /\ row' = [row EXCEPT !.live = FALSE]
  /\ UNCHANGED <<delivery, schedules, claims, fired, given>>

\* deliver: the callback succeeds ...
CallSucceeds(s) ==
  /\ delivery[s].pc = "call"
  /\ fired' = fired \union {delivery[s].row.schedule}
  /\ delivery' = [delivery EXCEPT ![s].pc = "delete"]
  /\ UNCHANGED <<row, schedules, claims, given>>

\* ... or fails: the row is left claimed, and dropped at the last attempt.
CallFails(s) ==
  /\ delivery[s].pc = "call"
  /\ delivery' = IF delivery[s].row.attempts >= MaxAttempts
                 THEN [delivery EXCEPT ![s].pc = "drop"] ELSE [delivery EXCEPT ![s] = Idle]
  /\ UNCHANGED <<row, schedules, claims, fired, given>>

\* timer_function finds no loaded plugin or no handler.
NoHandler(s) ==
  /\ delivery[s].pc = "call"
  /\ delivery' = [delivery EXCEPT ![s].pc = "drop"]
  /\ UNCHANGED <<row, schedules, claims, fired, given>>

\* Mutant: the row is matched by its id alone.
SameClaimById(d) == TRUE

\* delete_timer: only the delivery that was claimed.
SameClaim(d) == row.claimed = d.claimed /\ row.attempts = d.attempts

Delete(s) ==
  /\ delivery[s].pc \in {"delete", "drop"}
  /\ LET d == delivery[s].row
         matches == Exists /\ SameClaim(d)
     IN /\ row' = IF matches THEN Absent ELSE row
        /\ given' = IF matches /\ delivery[s].pc = "drop" THEN given \union {d.schedule} ELSE given
  /\ delivery' = [delivery EXCEPT ![s] = Idle]
  /\ UNCHANGED <<schedules, claims, fired>>

\* The replica dies, or the statement fails and is only logged.
Abandon(s) ==
  /\ delivery[s].pc # "idle"
  /\ delivery' = [delivery EXCEPT ![s] = Idle]
  /\ UNCHANGED <<row, schedules, claims, fired, given>>

Next ==
  \/ Schedule \/ Cancel \/ LeaseExpires
  \/ \E s \in Servers :
       Claim(s) \/ CallSucceeds(s) \/ CallFails(s) \/ NoHandler(s) \/ Delete(s)
       \/ Abandon(s)

Spec == Init /\ [][Next]_vars

-----------------------------------------------------------------------------
(* Properties *)

\* No wake-up is lost: a schedule that is no longer pending has fired, or was
\* cancelled, replaced or dropped after its attempts. In particular a delivery
\* never deletes the row that its own callback, or anybody else, rescheduled.
NoWakeupLost ==
  \A n \in 1..schedules : row.schedule = n \/ n \in fired \union given

\* A pending timer is eventually delivered or given up, unless replicas keep
\* dying under it (the claims run out).
TimerEnds == [](Exists => <>(~Exists \/ claims = MaxClaims))
=============================================================================
