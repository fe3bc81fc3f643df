---------------------------- MODULE SubmissionGate ----------------------------
(***************************************************************************)
(* The two gates a submission passes before it is stored                    *)
(* (handlers/submission/mod.rs, hooks.rs): the submission limit             *)
(* (plugins/submission-limit) and the cooldown (plugins/cooldown), for one  *)
(* contestant and problem. Requests run at the same time. Both gates check  *)
(* before the row exists, so each keeps a claim in a row of its own that    *)
(* one statement takes: the limit a count of pending claims, confirmed in   *)
(* the background once the submission is stored and forgotten after a       *)
(* grace if it never is; the cooldown the time of the last claim, beside a  *)
(* reading of the stored submissions. A gate whose settings cannot be read  *)
(* lets the request pass unchecked. Time is counted in half seconds of the  *)
(* database's clock: the settings are whole seconds, and the cooldown       *)
(* rounds the time since the last submission to whole seconds.              *)
(***************************************************************************)
EXTENDS Integers, Sequences, FiniteSets

CONSTANTS
  Posts,         \* submission requests, numbered as they come
  Settings,      \* a behaviour has one: limit, cooldown, the hooks that are on in their
                 \* order, the requests that come (posts), the half seconds it lasts
  PendingGrace,  \* PENDING_GRACE_SECS
  ClaimGrace,    \* CLAIM_GRACE_SECS
  Quick          \* half seconds a request usually takes, its confirmation included

None == -1

VARIABLES
  gates,          \* the settings of the contest
  clock,
  limitRow,       \* submission_limit_claim: confirmed, pending, oldest_pending_at
  cooldownClaim,  \* cooldown_claim.last_claim_at
  stored,         \* the submissions: created_at, and the gates that did not check them
  post,           \* a request: where it is, the hooks left, when it began, when it
                  \* claimed a slot (until it is stored), the gates it passed unchecked
  dropped,        \* a claim was never confirmed: refused later, failed, or its confirmation lost
  slow            \* a request took longer than Quick

gateVars == <<gates, clock, limitRow, cooldownClaim, stored, post, dropped, slow>>

Waiting == [pc |-> "waiting", hooks |-> <<>>, began |-> None, claimed |-> None,
            open |-> {}]

\* "claim" and "retry": the cooldown is about to claim, for the first time or again.
Pcs == {"waiting", "hooks", "claim", "retry", "insert", "confirm", "refused", "ended"}

TypeOK ==
  /\ gates \in Settings /\ clock \in 0..gates.ticks
  /\ limitRow.confirmed \in 0..Cardinality(Posts) /\ limitRow.pending \in 0..Cardinality(Posts)
  /\ limitRow.oldest \in {None} \union 0..gates.ticks
  /\ cooldownClaim \in {None} \union 0..gates.ticks
  /\ \A p \in Posts : post[p].pc \in Pcs
  /\ dropped \in BOOLEAN /\ slow \in BOOLEAN

Init ==
  /\ gates \in Settings
  /\ clock = 0
  /\ limitRow = [confirmed |-> 0, pending |-> 0, oldest |-> None]
  /\ cooldownClaim = None
  /\ stored = <<>>
  /\ post = [p \in Posts |-> Waiting]
  /\ dropped = FALSE /\ slow = FALSE

On(hook) == \E i \in DOMAIN gates.hooks : gates.hooks[i] = hook

Ticks(seconds) == 2 * seconds

InHand(p) == post[p].pc \in {"hooks", "claim", "retry", "insert", "confirm"}

NextHook(p) == Head(post[p].hooks)

\* The request is answered, or its background work is done.
Leave(p, there) == post' = [post EXCEPT ![p].pc = there, ![p].hooks = <<>>, ![p].began = None]

\* A hook lets the request pass: the next one, or the insert.
Pass(p, claimed, open) ==
  post' = [post EXCEPT ![p].pc = IF Len(post[p].hooks) = 1 THEN "insert" ELSE "hooks",
                       ![p].hooks = Tail(@), ![p].claimed = claimed, ![p].open = open]

\* Refused, or failed: a slot it had claimed stays pending.
Abandon(p, there) ==
  /\ Leave(p, there)
  /\ dropped' = (dropped \/ post[p].claimed # None)

\* A request enters; the hooks that are on run in the order of the contest.
Begin(p) ==
  /\ post[p].pc = "waiting" /\ p <= gates.posts /\ \A q \in Posts : q < p => post[q].pc # "waiting"
  /\ post' = [post EXCEPT ![p] = [Waiting EXCEPT !.pc = "hooks", !.hooks = gates.hooks, !.began = clock]]
  /\ UNCHANGED <<gates, clock, limitRow, cooldownClaim, stored, dropped, slow>>

\* check_limit, check_cooldown: the settings cannot be resolved. The hook lets
\* the request pass ("unlimited", "disabled") without a check and without a claim.
PassOpen(p) ==
  /\ post[p].pc = "hooks"
  /\ Pass(p, post[p].claimed, post[p].open \union {NextHook(p)})
  /\ UNCHANGED <<gates, clock, limitRow, cooldownClaim, stored, dropped, slow>>

-----------------------------------------------------------------------------
(* The submission limit.                                                     *)

\* The pending claims still count.
PendingLive == limitRow.oldest # None /\ limitRow.oldest > clock - Ticks(PendingGrace)

\* Mutant: only confirmed submissions count.
TakenConfirmed == limitRow.confirmed

\* Mutant: pending claims count for ever.
TakenForever == limitRow.confirmed + limitRow.pending

Taken == limitRow.confirmed + (IF PendingLive THEN limitRow.pending ELSE 0)

\* try_claim: one statement, which forgets claims that are too old.
OneMorePending ==
  [limitRow EXCEPT !.pending = IF PendingLive THEN @ + 1 ELSE 1,
                   !.oldest = IF PendingLive THEN @ ELSE clock]

\* check_limit
ClaimSlot(p) ==
  /\ post[p].pc = "hooks" /\ NextHook(p) = "limit"
  /\ IF Taken < gates.limit
     THEN /\ limitRow' = OneMorePending
          /\ Pass(p, clock, post[p].open)
          /\ UNCHANGED dropped
     ELSE Abandon(p, "refused") /\ UNCHANGED limitRow
  /\ UNCHANGED <<gates, clock, cooldownClaim, stored, slow>>

\* confirm_claim
OneMoreConfirmed ==
  LET left == IF limitRow.pending > 0 THEN limitRow.pending - 1 ELSE 0
  IN [confirmed |-> limitRow.confirmed + 1, pending |-> left,
      oldest |-> IF left = 0 THEN None ELSE limitRow.oldest]

\* on_submission_created: in the background, after the insert, for a submission
\* that was not checked too; it then takes the place of another one's claim.
Confirm(p) ==
  /\ post[p].pc = "confirm"
  /\ limitRow' = OneMoreConfirmed
  /\ Leave(p, "ended")
  /\ UNCHANGED <<gates, clock, cooldownClaim, stored, dropped, slow>>

\* The background hook is lost: an error, settings it cannot resolve, a timeout,
\* a server that stops.
LoseConfirm(p) ==
  /\ post[p].pc = "confirm"
  /\ Leave(p, "ended") /\ dropped' = (dropped \/ "limit" \notin post[p].open)
  /\ UNCHANGED <<gates, clock, limitRow, cooldownClaim, stored, slow>>

-----------------------------------------------------------------------------
(* The cooldown.                                                             *)

LastStored == stored[Len(stored)].at

\* EXTRACT(EPOCH FROM NOW() - MAX(created_at))::int, which rounds.
ElapsedSeconds == (clock - LastStored + 1) \div 2

\* check_cooldown first reads the submissions stored ...
ReadStored(p) ==
  /\ post[p].pc = "hooks" /\ NextHook(p) = "cooldown"
  /\ IF stored # <<>> /\ ElapsedSeconds < gates.cooldown
     THEN Abandon(p, "refused")
     ELSE post' = [post EXCEPT ![p].pc = "claim"] /\ UNCHANGED dropped
  /\ UNCHANGED <<gates, clock, limitRow, cooldownClaim, stored, slow>>

\* cooldown.min(CLAIM_GRACE_SECS)
ClaimWindow == IF gates.cooldown < ClaimGrace THEN gates.cooldown ELSE ClaimGrace

\* Mutant: the claim blocks nobody.
ClaimFreeAlways == TRUE

\* Mutant: the claim blocks for the whole cooldown.
ClaimFreeAfterCooldown == cooldownClaim = None \/ cooldownClaim <= clock - Ticks(gates.cooldown)

ClaimFree == cooldownClaim = None \/ cooldownClaim <= clock - Ticks(ClaimWindow)

\* ... and then claims, in one statement.
ClaimCooldown(p) ==
  /\ post[p].pc \in {"claim", "retry"}
  /\ IF ClaimFree
     THEN cooldownClaim' = clock /\ Pass(p, post[p].claimed, post[p].open) /\ UNCHANGED dropped
     ELSE Abandon(p, "refused") /\ UNCHANGED cooldownClaim
  /\ UNCHANGED <<gates, clock, limitRow, stored, slow>>

\* The first claim fails, with or without effect, and is made once more after
\* ensure_schema; one whose answer was lost then stands in its own way.
FailClaim(p) ==
  /\ post[p].pc = "claim"
  /\ post' = [post EXCEPT ![p].pc = "retry"]
  /\ cooldownClaim' \in {cooldownClaim} \union (IF ClaimFree THEN {clock} ELSE {})
  /\ UNCHANGED <<gates, clock, limitRow, stored, dropped, slow>>

-----------------------------------------------------------------------------
\* The row is inserted with the time of now; with the limit on, its hook after
\* the insert is spawned.
Store(p) ==
  /\ post[p].pc = "insert"
  /\ stored' = Append(stored, [at |-> clock, open |-> post[p].open])
  /\ IF ~On("limit") THEN Leave(p, "ended")
     ELSE post' = [post EXCEPT ![p].pc = "confirm", ![p].claimed = None]
  /\ UNCHANGED <<gates, clock, limitRow, cooldownClaim, dropped, slow>>

\* A hook fails or times out, the insert fails, the client or the server goes away.
Break(p) ==
  /\ InHand(p) /\ post[p].pc # "confirm"
  /\ Abandon(p, "ended")
  /\ UNCHANGED <<gates, clock, limitRow, cooldownClaim, stored, slow>>

Tick ==
  /\ clock < gates.ticks
  /\ clock' = clock + 1
  /\ slow' = (slow \/ \E p \in Posts : InHand(p) /\ clock' - post[p].began > Quick)
  /\ UNCHANGED <<gates, limitRow, cooldownClaim, stored, post, dropped>>

Next ==
  \/ \E p \in Posts :
       \/ Begin(p) \/ PassOpen(p) \/ ClaimSlot(p) \/ Confirm(p) \/ LoseConfirm(p)
       \/ ReadStored(p) \/ ClaimCooldown(p) \/ FailClaim(p) \/ Store(p) \/ Break(p)
  \/ Tick

Spec == Init /\ [][Next]_gateVars

-----------------------------------------------------------------------------
\* The limit holds for the submissions it could check, however requests race,
\* also with others that passed it unchecked, while requests are quick (the limit
\* times Quick within the grace) and every claim is confirmed.
LimitHolds ==
  On("limit") /\ ~slow /\ ~dropped =>
    Cardinality({i \in DOMAIN stored : "limit" \notin stored[i].open}) <= gates.limit

\* Submissions the cooldown could check are the cooldown apart, less the half
\* second it rounds away, while requests are quick (two of them within the grace
\* of a claim), whichever of them fail.
CooldownHolds ==
  On("cooldown") /\ ~slow =>
    \A i, k \in DOMAIN stored :
      i < k /\ "cooldown" \notin stored[i].open \union stored[k].open =>
        stored[k].at - stored[i].at >= Ticks(gates.cooldown) - 1

\* The claims a refusal may rest on: not stored, and made within the grace.
OpenClaims(p) ==
  {q \in Posts \ {p} : post[q].claimed # None /\ post[q].claimed > clock - Ticks(PendingGrace)}

RefusedBy(p, hook, at) == post[p].pc \in at /\ post'[p].pc = "refused" /\ NextHook(p) = hook

\* A contestant is refused for a reason that lasts no longer than it should: the
\* limit is used up by stored submissions and claims of the last PendingGrace
\* seconds; the cooldown runs since a stored submission, or a request claimed
\* within the last ClaimGrace seconds. A request that failed costs no more.
RefusalJustified ==
  \A p \in Posts :
    /\ RefusedBy(p, "limit", {"hooks"}) =>
         Len(stored) + Cardinality(OpenClaims(p)) >= gates.limit
    /\ RefusedBy(p, "cooldown", {"hooks"}) => clock - LastStored < Ticks(gates.cooldown)
    /\ RefusedBy(p, "cooldown", {"claim", "retry"}) => clock - cooldownClaim < Ticks(ClaimGrace)
=============================================================================
