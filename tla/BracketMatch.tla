---------------------------- MODULE BracketMatch ----------------------------
(***************************************************************************)
(* A match of plugins/codelink-bracket: two players race through games, and *)
(* the earliest accepted submission (by effective time: arrival plus the    *)
(* penalties for earlier errors) wins a game. Verdicts, durable timers and  *)
(* staff drive the match at the same time; each of them runs the same       *)
(* transition in a compare-and-set loop and then completes what follows it: *)
(* publishing held results, filling the slot of the next round, cancelling  *)
(* timers. Submissions are admitted by the gate of the plugin and an insert *)
(* of the server (services/submission_feedback.rs) that are not one step.   *)
(*                                                                          *)
(* A driver is one run of the transition. Times are ticks. The compare-     *)
(* and-set loop is not given up. The opening of the next stage, the loser's *)
(* slot for third place and the rankings before the first game are left     *)
(* out; verdicts are final (a SystemError is one that is not there yet).    *)
(***************************************************************************)
EXTENDS Integers, Sequences, FiniteSets

CONSTANTS
  Drivers,     \* concurrent runs of the transition, numbers
  Requests,    \* concurrent submission requests, numbers
  Regular,     \* regular games of a match (group_a.len())
  Target,      \* win_target
  Tiebreaks,   \* problems for tiebreaks
  Length,      \* seconds of a game
  Penalty,     \* penalty_seconds
  Break,       \* game_break
  Grace,       \* escalation_grace_seconds
  ContestEnd,
  Horizon,     \* the last tick, not before the end of the contest
  Scenarios    \* a behaviour has one: the extra time of the match, and its bounds: requests
               \* (asks), failed runs (faults), decisions by staff, drivers and requests
               \* at a time

\* setup.rs validates win_target against the regular games; times are not negative.
ASSUME MatchSettings ==
  /\ Regular \in Nat /\ Target \in 1..Regular /\ Tiebreaks \in Nat
  /\ Length \in Nat /\ Penalty \in Nat /\ Break \in Nat /\ Grace \in Nat
  /\ ContestEnd \in Nat /\ Horizon \in Nat
  /\ Scenarios \subseteq [asks : Nat, faults : Nat, staff : Nat, drivers : Nat,
                          requests : Nat, extra : Nat]

Players == {"a", "b"}

Nobody == "nobody"

Other(p) == CHOOSE q \in Players : q # p

VARIABLES
  now,      \* the clock of the database
  match,    \* the stored match
  subs,     \* the submissions, by id
  request,  \* a submission request in progress
  intact,   \* requests whose snapshot of the match is still its value
  driver,   \* a run of the transition
  fresh,    \* drivers whose snapshot is still the stored revision
  timers,   \* durable timers of the match
  claimed,  \* the timers being delivered, <<key, driver>>
  fed,      \* the slot of the next round
  left,     \* what the bounds leave
  flaws     \* what happened that no durable timer makes good:
            \*   "waited"  the match was decided out of AwaitingJudge, not by staff
            \*   "verdict", "staff"  a run with that cause failed

vars == <<now, match, subs, request, intact, driver, fresh, timers, claimed, fed,
          left, flaws>>

Over == {"Decided", "NeedsAdjudication"}

Phases == {"Preparing", "InProgress", "Tiebreak", "Intermission", "AwaitingJudge"} \union Over

MaxGames == Regular + Tiebreaks

GameKey(i) == <<"game", i>>

WaitKey(i) == <<"wait", i>>

StartKey == <<"start">>

EffectiveKey(s, at) == <<"effective", s, at>>

Idle == [pc |-> "idle"]

TypeOK ==
  /\ now \in 0..Horizon
  /\ match.phase \in Phases /\ Len(match.games) <= MaxGames
  /\ match.winner \in Players \union {Nobody}
  /\ \A p \in Players : match.score[p] \in 0..MaxGames
  /\ match.tiebreak \in 0..Tiebreaks /\ match.extra \in 0..left.extra
  /\ \A i \in DOMAIN match.games : match.games[i].winner \in Players \union {Nobody}
  /\ \A s \in DOMAIN subs :
       /\ subs[s].player \in Players /\ subs[s].at \in 0..Horizon /\ subs[s].delay \in Nat
       /\ subs[s].verdict \in {"none", "AC", "WA"}
       /\ subs[s].outcome \in {"pending", "retired", "original", "toolate"}
  /\ \A r \in Requests : request[r].pc \in {"idle", "count", "insert"}
  /\ \A d \in Drivers :
       driver[d].pc \in {"idle", "look", "commit", "publish", "finish"}
  /\ intact \subseteq Requests /\ fresh \subseteq Drivers
  /\ \A t, u \in timers : t.key = u.key => t = u
  /\ claimed \subseteq {t.key : t \in timers} \X Drivers
  /\ fed \in Players \union {Nobody}
  /\ flaws \subseteq {"waited", "verdict", "staff"}

Init ==
  /\ now = 0
  /\ left \in Scenarios /\ flaws = {}
  /\ match = [phase |-> "Preparing", games |-> <<>>, score |-> [p \in Players |-> 0],
              winner |-> Nobody, tiebreak |-> 0, extra |-> left.extra, nextAt |-> 0]
  /\ subs = <<>>
  /\ request = [r \in Requests |-> Idle] /\ intact = {}
  /\ driver = [d \in Drivers |-> Idle] /\ fresh = {}
  /\ timers = {[key |-> StartKey, at |-> 0]} /\ claimed = {}
  /\ fed = Nobody

-----------------------------------------------------------------------------
(* decide.rs. m is a match, S the submissions as they were read, t a time. *)

Game(m) == m.games[Len(m.games)]

IsRegular(m) == Len(m.games) <= Regular

Ended(t) == t >= ContestEnd

Cutoff(deadline) == IF deadline < ContestEnd THEN deadline ELSE ContestEnd

Effective(S, s) == S[s].at + S[s].delay

\* arrival_order
Before(S, s, t) ==
  \/ Effective(S, s) < Effective(S, t)
  \/ Effective(S, s) = Effective(S, t) /\ s < t

\* fetch_subs: the submissions to the problems of the current game.
InGame(m, S) ==
  {s \in DOMAIN S : /\ S[s].game = Len(m.games)
                    /\ Game(m).opened <= S[s].at /\ S[s].at < Game(m).deadline}

Eligible(m, S) == {s \in InGame(m, S) : S[s].at < Cutoff(Game(m).deadline)}

Accepted(m, S) == {s \in Eligible(m, S) : S[s].verdict = "AC"}

InFlight(S, X) == {s \in X : S[s].verdict = "none"}

First(S, X) == CHOOSE s \in X : \A t \in X \ {s} : Before(S, s, t)

BestAC(m, S) == First(S, Accepted(m, S))

\* score_delay_seconds: only regular games have penalties.
Delay(m, S, p) ==
  IF IsRegular(m)
  THEN Penalty * Cardinality({s \in InGame(m, S) : S[s].player = p /\ S[s].verdict = "WA"})
  ELSE 0

\* ac_settlement_at_us
Settles(m, S, ac) == Effective(S, ac) - Delay(m, S, Other(S[ac].player))

\* Mutant: an accepted submission does not wait for an earlier one.
BlockersOfNobody(m, S) == IF Accepted(m, S) = {} THEN InFlight(S, Eligible(m, S)) ELSE {}

\* The submissions that could still turn the game.
Blockers(m, S) ==
  LET unjudged == InFlight(S, Eligible(m, S)) IN
    IF Accepted(m, S) = {} THEN unjudged
    ELSE {s \in unjudged : Before(S, s, BestAC(m, S))}

\* decide_game_at_cutoff
GameOutcome(m, S, t) ==
  LET deadline == Game(m).deadline
      open == IF Accepted(m, S) = {} THEN t < deadline
              ELSE \/ t < Cutoff(deadline) /\ t < Settles(m, S, BestAC(m, S))
                   \/ Blockers(m, S) # {} /\ t < deadline
  IN IF open THEN "NotYet"
     ELSE IF Blockers(m, S) # {} THEN "AwaitingJudge" ELSE "Decided"

\* An undecided game at the end of the contest waits for what is in flight, or
\* is handed to staff.
Outcome(m, S, t) ==
  LET outcome == GameOutcome(m, S, t) IN
    IF outcome # "NotYet" \/ ~Ended(t) THEN outcome
    ELSE IF InFlight(S, InGame(m, S)) # {} THEN "AwaitingJudge" ELSE "CutShort"

Clamp(x, hi) == IF x < 0 THEN 0 ELSE IF x > hi THEN hi ELSE x

\* The result of the game is recorded, with the extra time it used.
Scored(m, S) ==
  LET won == Accepted(m, S) # {}
      winner == IF won THEN S[BestAC(m, S)].player ELSE Nobody
      endedAt == IF won THEN S[BestAC(m, S)].at ELSE Game(m).deadline
      used == IF IsRegular(m) THEN Clamp(endedAt - Game(m).base, m.extra) ELSE 0
  IN [m EXCEPT !.games[Len(m.games)] = [@ EXCEPT !.winner = winner, !.decided = TRUE],
               !.score = [p \in Players |-> IF p = winner THEN @[p] + 1 ELSE @[p]],
               !.extra = @ - used,
               !.phase = IF IsRegular(m) THEN "InProgress" ELSE "Tiebreak"]

Won(m, p) == [m EXCEPT !.phase = "Decided", !.winner = p]

Adjudicate(m) == [m EXCEPT !.phase = "NeedsAdjudication"]

\* decide_match
DecideMatch(m) ==
  IF m.phase = "Tiebreak" THEN
    IF Game(m).winner # Nobody THEN Won(m, Game(m).winner)
    ELSE IF m.tiebreak + 1 < Tiebreaks THEN [m EXCEPT !.tiebreak = @ + 1]
    ELSE Adjudicate(m)
  ELSE IF (\A p \in Players : m.score[p] < Target) /\ Len(m.games) < Regular THEN m
  ELSE IF m.score["a"] = m.score["b"] THEN
    IF Tiebreaks > 0 THEN [m EXCEPT !.phase = "Tiebreak", !.tiebreak = 0] ELSE Adjudicate(m)
  ELSE Won(m, CHOOSE p \in Players : m.score[p] > m.score[Other(p)])

-----------------------------------------------------------------------------
(* judge.rs: what a trigger makes of the match. The timers are set and       *)
(* cancelled before the match is written.                                    *)

Made(m, arm, drop) == [match |-> m, arm |-> arm, drop |-> drop]

Timer(key, at) == [key |-> key, at |-> at]

Index(m) == Len(m.games)

\* open_xiaoju_at
OpenGame(m, phase, at) ==
  LET regular == Len(m.games) < Regular
      base == at + Length
      deadline == base + IF regular THEN m.extra ELSE 0
      game == [opened |-> at, base |-> base, deadline |-> deadline, winner |-> Nobody,
               decided |-> FALSE]
  IN Made([m EXCEPT !.phase = phase, !.games = Append(@, game)],
          {Timer(GameKey(Len(m.games) + 1), Cutoff(deadline))}, {})

\* schedule_wakeups
Wakeups(m, S, t) ==
  LET cutoff == Cutoff(Game(m).deadline) IN
    {Timer(GameKey(Index(m)), cutoff)} \union
      {Timer(EffectiveKey(s, Settles(m, S, s)), Settles(m, S, s)) :
         s \in {s \in Accepted(m, S) : t < Settles(m, S, s) /\ Settles(m, S, s) <= cutoff}}

\* The contest is over, or the next game comes after a break or at once.
GoOn(m, t) ==
  IF Ended(t) THEN Made(Adjudicate(m), {}, {WaitKey(Index(m))})
  ELSE IF Break = 0 THEN OpenGame(m, m.phase, t)
  ELSE Made([m EXCEPT !.phase = "Intermission", !.nextAt = t + Break],
            {Timer(StartKey, t + Break)}, {})

\* step, in the break between two games
EndBreak(m, t) ==
  IF Ended(t) THEN Made(Adjudicate(m), {}, {})
  ELSE IF t < m.nextAt THEN Made(m, {Timer(StartKey, m.nextAt)}, {})
  ELSE OpenGame(m, IF Len(m.games) < Regular THEN "InProgress" ELSE "Tiebreak", m.nextAt)

\* step, while a game is open
PlayGame(m, S, t) ==
  LET outcome == Outcome(m, S, t)
      decided == DecideMatch(Scored(m, S))
      grace == IF m.phase = "AwaitingJudge" THEN {} ELSE {Timer(WaitKey(Index(m)), t + Grace)}
  IN IF outcome = "NotYet" THEN Made(m, Wakeups(m, S, t), {})
     ELSE IF outcome = "CutShort" THEN Made(Adjudicate(m), {}, {WaitKey(Index(m))})
     ELSE IF outcome = "AwaitingJudge" THEN Made([m EXCEPT !.phase = "AwaitingJudge"], grace, {})
     ELSE IF decided.phase \in Over THEN Made(decided, {}, {}) ELSE GoOn(decided, t)

\* Mutant: the break is not told from an open game.
StepInBreakToo(m, S, t) ==
  IF m.phase \in {"InProgress", "Tiebreak", "AwaitingJudge", "Intermission"}
  THEN PlayGame(m, S, t) ELSE Made(m, {}, {})

Step(m, S, t) ==
  IF m.phase = "Intermission" THEN EndBreak(m, t)
  ELSE IF m.phase \in {"InProgress", "Tiebreak", "AwaitingJudge"} THEN PlayGame(m, S, t)
  ELSE Made(m, {}, {})

\* advance_preparation: the first game opens at the announced time.
Prepare(m, t) ==
  IF m.phase # "Preparing" THEN Made(m, {}, {})
  ELSE IF Ended(t) THEN Made(Adjudicate(m), {}, {})
  ELSE OpenGame(m, "InProgress", 0)

\* escalate
Escalate(m) == Made(IF m.phase = "AwaitingJudge" THEN Adjudicate(m) ELSE m, {}, {})

\* apply_force_decide with the timer of force_decide
ForceDecide(m, p, t) ==
  Made(Won(m, p), {Timer(GameKey(IF Index(m) = 0 THEN 1 ELSE Index(m)), t + 1)}, {})

\* handle_timer, finalize and force_decide
Effect(cause, m, S, t) ==
  IF cause[1] = "staff" THEN ForceDecide(m, cause[2], t)
  ELSE IF cause[1] = "wait" THEN Escalate(m)
  ELSE IF cause[1] = "start" /\ m.phase # "Intermission" THEN Prepare(m, t)
  ELSE Step(m, S, t)

-----------------------------------------------------------------------------
(* Timers: setting one replaces it and takes it from a delivery in progress. *)

\* Mutant: a timer that is set again is added.
ArmedBeside(T, arm) == T \union arm

Armed(T, arm) == {t \in T : t.key \notin {a.key : a \in arm}} \union arm

Without(T, keys) == {t \in T : t.key \notin keys}

SetTimers(arm, drop) ==
  /\ timers' = Armed(Without(timers, drop), arm)
  /\ claimed' = {c \in claimed : c[1] \notin drop \union {a.key : a \in arm}}

-----------------------------------------------------------------------------
(* Drivers *)

At(d, pc) == driver[d].pc = pc

\* Which free driver or request is taken makes no difference: the first.
Free(d) == At(d, "idle") /\ d <= left.drivers /\ \A e \in Drivers : At(e, "idle") => d <= e

Starts(d, cause) == Free(d) /\ driver' = [driver EXCEPT ![d] = [pc |-> "look", cause |-> cause]]

\* The last tick stands for all later times, which come when nothing runs.
Due(t) == t.at <= now \/ (now = Horizon /\ \A d \in Drivers : At(d, "idle"))

\* A due timer is delivered.
Fire(d, t) ==
  /\ Due(t) /\ \A c \in claimed : c[1] # t.key
  /\ Starts(d, t.key)
  /\ claimed' = claimed \union {<<t.key, d>>}
  /\ UNCHANGED <<now, match, subs, request, intact, fresh, timers, fed, left, flaws>>

\* CodelinkBracketJudge::finalize writes the verdict and advances the match.
Judge(d, s, verdict) ==
  /\ subs[s].verdict = "none"
  /\ subs' = [subs EXCEPT ![s].verdict = verdict]
  /\ Starts(d, <<"verdict">>)
  /\ UNCHANGED <<now, match, request, intact, fresh, timers, claimed, fed, left, flaws>>

\* The force-decide route.
Staff(d, p) ==
  /\ match.phase # "Decided"
  /\ left.staff > 0 /\ left' = [left EXCEPT !.staff = @ - 1]
  /\ Starts(d, <<"staff", p>>)
  /\ UNCHANGED <<now, match, subs, request, intact, fresh, timers, claimed, fed, flaws>>

\* Mutant: a match that is over needs no more work.
FinishesIfOpen(cause, m) ==
  m.phase \notin Over /\ cause[1] # "wait" /\ (cause[1] = "start" => m.phase = "Intermission")

\* escalate and advance_preparation do not go on to finish_transition.
Finishes(cause, m) == cause[1] # "wait" /\ (cause[1] = "start" => m.phase = "Intermission")

\* One attempt of Storage::modify: the match is read with its revision, then the
\* clock and the submissions, and timers are set. What could change between these
\* reads is a verdict, or changes the revision as well. A forced decision does
\* not overturn one.
Look(d) ==
  /\ At(d, "look")
  /\ ~(driver[d].cause[1] = "staff" /\ match.phase = "Decided")
  /\ LET made == Effect(driver[d].cause, match, subs, now) IN
       /\ driver' = [driver EXCEPT ![d] =
            [pc |-> "commit", cause |-> @.cause, match |-> made.match,
             finish |-> Finishes(@.cause, match)]]
       /\ SetTimers(made.arm, made.drop)
  /\ fresh' = fresh \union {d}
  /\ UNCHANGED <<now, match, subs, request, intact, fed, left, flaws>>

Refuse(d) ==
  /\ At(d, "look")
  /\ driver[d].cause[1] = "staff" /\ match.phase = "Decided"
  /\ driver' = [driver EXCEPT ![d] = Idle]
  /\ UNCHANGED <<now, match, subs, request, intact, fresh, timers, claimed, fed, left, flaws>>

\* Mutant: the match is written without a look at its revision.
CommitAnyRevision(d) ==
  /\ At(d, "commit")
  /\ match' = driver[d].match
  /\ fresh' = {} /\ intact' = {}
  /\ driver' = [driver EXCEPT ![d] =
       [pc |-> IF @.finish THEN "publish" ELSE "finish", cause |-> @.cause, match |-> match',
        finish |-> @.finish, keys |-> {}]]
  /\ UNCHANGED <<now, subs, request, timers, claimed, fed, left, flaws>>

\* The match is written if its revision is still the one read.
Commit(d) ==
  /\ At(d, "commit") /\ d \in fresh
  /\ match' = driver[d].match
  /\ fresh' = {} /\ intact' = IF match' = match THEN intact ELSE {}
  /\ flaws' = flaws \union
       {w \in {"waited"} : /\ match.phase = "AwaitingJudge" /\ match'.phase = "Decided"
                          /\ driver[d].cause[1] # "staff"}
  /\ driver' = [driver EXCEPT ![d] =
       [pc |-> IF @.finish THEN "publish" ELSE "finish", cause |-> @.cause, match |-> match',
        finish |-> @.finish, keys |-> {}]]
  /\ UNCHANGED <<now, subs, request, timers, claimed, fed, left>>

Retry(d) ==
  /\ At(d, "commit") /\ d \notin fresh
  /\ driver' = [driver EXCEPT ![d] = [pc |-> "look", cause |-> @.cause]]
  /\ UNCHANGED <<now, match, subs, request, intact, fresh, timers, claimed, fed, left, flaws>>

-----------------------------------------------------------------------------
(* finish_transition, from the match that was written (u) *)

GameDecided(u, s) == subs[s].game \in DOMAIN u.games /\ u.games[subs[s].game].decided

\* The result of s may be told: its game or the match is decided.
Told(u, s) == u.phase = "Decided" \/ GameDecided(u, s)

Wins(u, s) ==
  subs[s].player = IF GameDecided(u, s) THEN u.games[subs[s].game].winner ELSE u.winner

\* Mutant: an accepted submission is shown before its game is decided.
PublishedAtOnce(u, s) ==
  IF subs[s].verdict = "none" THEN subs[s].outcome ELSE "original"

\* What publish makes of a held submission.
Published(u, s) ==
  IF subs[s].verdict = "none" THEN IF u.phase = "Decided" THEN "retired" ELSE subs[s].outcome
  ELSE IF subs[s].verdict = "WA" THEN "original"
  ELSE IF ~Told(u, s) THEN subs[s].outcome
  ELSE IF Wins(u, s) THEN "original" ELSE "toolate"

Held == {s \in DOMAIN subs : subs[s].outcome \in {"pending", "retired"}}

\* feedback::publish, after the start timer of a match that is over is cancelled,
\* and write_next_round_slots.
Publish(d) ==
  /\ At(d, "publish")
  /\ LET u == driver[d].match IN
       /\ SetTimers({}, IF u.phase \in Over THEN {StartKey} ELSE {})
       /\ subs' = [s \in DOMAIN subs |->
            IF s \in Held THEN [subs[s] EXCEPT !.outcome = Published(u, s)] ELSE subs[s]]
       /\ driver' = [driver EXCEPT ![d] =
            [pc |-> "finish", cause |-> @.cause, match |-> u, finish |-> @.finish,
             keys |-> {EffectiveKey(s, Effective(subs, s)) : s \in {s \in Held : Told(u, s)}}]]
       /\ fed' = IF u.phase = "Decided" THEN u.winner ELSE fed
  /\ UNCHANGED <<now, match, request, intact, fresh, left, flaws>>

\* The timers of decided games, and of all games once the match is over. A match
\* that waits for the judge keeps only the timer for that.
Obsolete(u) ==
  LET done == {i \in DOMAIN u.games : u.games[i].decided \/ u.phase \in Over}
                \union (IF u.phase = "Decided" /\ u.games = <<>> THEN {1} ELSE {})
      stopped == IF u.phase = "AwaitingJudge" THEN DOMAIN u.games ELSE {}
  IN {GameKey(i) : i \in done \union stopped} \union {WaitKey(i) : i \in done}

Ends(d) == driver' = [driver EXCEPT ![d] = Idle] /\ fresh' = fresh \ {d}

\* These timers are cancelled; the delivered one goes unless it was set again.
Finish(d) ==
  /\ At(d, "finish")
  /\ LET cancels == IF driver[d].finish THEN driver[d].keys \union Obsolete(driver[d].match) ELSE {}
     IN SetTimers({}, cancels \union {k \in {driver[d].cause} : <<k, d>> \in claimed})
  /\ Ends(d)
  /\ UNCHANGED <<now, match, subs, request, intact, fed, left, flaws>>

Timed(d) == driver[d].cause[1] \notin {"verdict", "staff"}

GivesUp(d) == flaws' = flaws \union {c \in {driver[d].cause[1]} : ~Timed(d)}

\* Mutant: a failed delivery is not set again.
FailForgetting(d) ==
  /\ ~At(d, "idle") /\ left.faults > 0
  /\ left' = [left EXCEPT !.faults = @ - 1]
  /\ Ends(d)
  /\ SetTimers({}, {driver[d].cause})
  /\ GivesUp(d)
  /\ UNCHANGED <<now, match, subs, request, intact, fed>>

\* A call fails: handle_timer sets the timer again, the other triggers give up.
Fail(d) ==
  /\ ~At(d, "idle") /\ left.faults > 0
  /\ left' = [left EXCEPT !.faults = @ - 1]
  /\ Ends(d)
  /\ SetTimers(IF Timed(d) THEN {Timer(driver[d].cause, now)} ELSE {}, {})
  /\ GivesUp(d)
  /\ UNCHANGED <<now, match, subs, request, intact, fed>>

\* The server stops: the claim of a timer lapses.
Crash(d) ==
  /\ ~At(d, "idle") /\ left.faults > 0
  /\ left' = [left EXCEPT !.faults = @ - 1]
  /\ Ends(d)
  /\ claimed' = {c \in claimed : c[2] # d}
  /\ GivesUp(d)
  /\ UNCHANGED <<now, match, subs, request, intact, timers, fed>>

-----------------------------------------------------------------------------
(* Submissions: gate.rs, then insert_admitted of the server *)

Mine(p) == {s \in DOMAIN subs : subs[s].player = p}

SlotTaken(p) == \E s \in Mine(p) : subs[s].outcome = "pending"

Reject(r) ==
  /\ request' = [request EXCEPT ![r] = Idle] /\ intact' = intact \ {r}
  /\ UNCHANGED subs

\* resolve_rejection reads the match, and player_feedback the slot (the players are
\* alike: the first to ask is a) ...
Ask(r, p) ==
  /\ request[r].pc = "idle" /\ \A q \in Requests : request[q].pc = "idle" => r <= q
  /\ r <= left.requests /\ left.asks > 0 /\ left' = [left EXCEPT !.asks = @ - 1]
  /\ (subs = <<>> /\ \A q \in Requests : request[q].pc = "idle") => p = "a"
  /\ match.phase \in {"InProgress", "Tiebreak"} /\ ~Game(match).decided
  /\ ~SlotTaken(p)
  /\ request' = [request EXCEPT ![r] =
       [pc |-> "count", player |-> p, game |-> Index(match), generation |-> Cardinality(Mine(p))]]
  /\ intact' = intact \union {r}
  /\ UNCHANGED <<now, match, subs, driver, fresh, timers, claimed, fed, flaws>>

Playing(r) == match.games[request[r].game]

\* ... then the errors and the clock.
Count(r) ==
  /\ request[r].pc = "count"
  /\ IF Playing(r).opened <= now /\ now < Cutoff(Playing(r).deadline)
     THEN /\ request' = [request EXCEPT ![r] =
               [pc |-> "insert", player |-> @.player, game |-> @.game,
                generation |-> @.generation,
                delay |-> Delay([match EXCEPT !.games = SubSeq(@, 1, request[r].game)], subs,
                                request[r].player)]]
          /\ UNCHANGED <<subs, intact>>
     ELSE Reject(r)
  /\ UNCHANGED <<now, match, driver, fresh, timers, claimed, fed, left, flaws>>

\* Mutant: the slot is checked for being free, not for being the one that was read.
AdmissibleIfFree(r) ==
  ~SlotTaken(request[r].player) /\ r \in intact /\ now < Cutoff(Playing(r).deadline)

\* insert_admitted, one transaction: slot, guard and deadline are checked, and
\* the revision of the match is advanced.
Admissible(r) ==
  /\ request[r].generation = Cardinality(Mine(request[r].player))
  /\ ~SlotTaken(request[r].player)
  /\ r \in intact
  /\ now < Cutoff(Playing(r).deadline)

Insert(r) ==
  /\ request[r].pc = "insert" /\ Admissible(r)
  /\ subs' = Append(subs, [player |-> request[r].player, game |-> request[r].game, at |-> now,
                           delay |-> request[r].delay, verdict |-> "none", outcome |-> "pending"])
  /\ request' = [request EXCEPT ![r] = Idle] /\ intact' = intact \ {r}
  /\ fresh' = {}
  /\ UNCHANGED <<now, match, driver, timers, claimed, fed, left, flaws>>

Refused(r) ==
  /\ request[r].pc = "insert" /\ ~Admissible(r)
  /\ Reject(r)
  /\ UNCHANGED <<now, match, driver, fresh, timers, claimed, fed, left, flaws>>

Tick ==
  /\ now < Horizon /\ now' = now + 1
  /\ UNCHANGED <<match, subs, request, intact, driver, fresh, timers, claimed, fed, left, flaws>>

-----------------------------------------------------------------------------
Run(d) ==
  \/ Look(d) \/ Refuse(d) \/ Commit(d) \/ Retry(d)
  \/ Publish(d) \/ Finish(d)

Submit(r) == Count(r) \/ Insert(r) \/ Refused(r) \/ \E p \in Players : Ask(r, p)

Deliver == \E d \in Drivers, t \in timers : Fire(d, t)

Next ==
  \/ Tick \/ Deliver
  \/ \E d \in Drivers :
       \/ Run(d) \/ Fail(d) \/ Crash(d)
       \/ \E s \in DOMAIN subs, v \in {"AC", "WA"} : Judge(d, s, v)
       \/ \E p \in Players : Staff(d, p)
  \/ \E r \in Requests : Submit(r)

Spec == Init /\ [][Next]_vars

\* Runs go on, timers fire and time passes; nothing promises a submission, a
\* verdict or staff. Every timer being due at the last tick, two runs could take
\* the revision from each other for ever, which later times do not allow: each
\* gets to write.
Fairness ==
  /\ WF_vars(Tick \/ Deliver \/ \E d \in Drivers : Run(d))
  /\ \A d \in Drivers : SF_vars(Commit(d))

FairSpec == Spec /\ Fairness

-----------------------------------------------------------------------------
(* Properties *)

\* The decided games of m went to their earliest submission that is not wrong, and
\* it is accepted; a game without one has no winner.
EarliestIn(m, S) ==
  \A i \in DOMAIN m.games :
    LET good == {s \in DOMAIN S : S[s].game = i /\ S[s].verdict # "WA"} IN
      m.games[i].decided =>
        IF good = {} THEN m.games[i].winner = Nobody
        ELSE /\ S[First(S, good)].verdict = "AC"
             /\ m.games[i].winner = S[First(S, good)].player

\* A game goes to the earliest effective accepted submission, however late it
\* was judged and whatever was admitted while the decision was being made; a
\* game without a winner has no submission that could still be accepted.
EarliestWins == EarliestIn(match, subs)

\* The delay a submission is admitted with is the penalty for all errors its
\* player made before in the game, and nothing of the player was being judged.
PenaltyExact ==
  \A s \in DOMAIN subs :
    LET earlier == {e \in Mine(subs[s].player) : e < s /\ subs[e].game = subs[s].game} IN
      /\ \A e \in earlier : subs[e].verdict # "none"
      /\ subs[s].delay =
           IF subs[s].game <= Regular
           THEN Penalty * Cardinality({e \in earlier : subs[e].verdict = "WA"}) ELSE 0

\* How far the decided game i went past its regular time.
Overtime(m, S, i) ==
  LET good == {s \in DOMAIN S : S[s].game = i /\ S[s].verdict = "AC"}
      end == IF m.games[i].winner = Nobody THEN m.games[i].deadline ELSE S[First(S, good)].at
  IN IF end > m.games[i].base THEN end - m.games[i].base ELSE 0

\* What of the extra time the first i games leave, i at most Regular: a regular game
\* is opened with all of it.
ExtraAfter(m, S, extra, i) ==
  IF i = 0 THEN extra
  ELSE m.games[i].deadline - m.games[i].base -
         IF m.games[i].decided THEN Overtime(m, S, i) ELSE 0

\* The score counts the games won.
ScoredOnce(m) ==
  \A p \in Players : m.score[p] = Cardinality({i \in DOMAIN m.games : m.games[i].winner = p})

\* Each regular game gets exactly what the games before it left.
ExtraCharged(m, S, extra) ==
  /\ \A i \in DOMAIN m.games :
       i <= Regular => m.games[i].deadline - m.games[i].base = ExtraAfter(m, S, extra, i - 1)
  /\ m.extra = ExtraAfter(m, S, extra, IF Len(m.games) <= Regular THEN Len(m.games) ELSE Regular)

\* Over all redeliveries and overlapping triggers a game is scored once, and the
\* extra time of the match is charged once for each regular game that used it.
ScoreExact == ScoredOnce(match) /\ ExtraCharged(match, subs, left.extra)

\* A player is shown Accepted only for a game, or a match, they won, and is told
\* TooLate only if they did not.
ShownIsWon ==
  \A s \in DOMAIN subs :
    subs[s].verdict = "AC" /\ subs[s].outcome \in {"original", "toolate"} =>
      (subs[s].outcome = "original" <=> Wins(match, s))

\* A decision stands: no trigger reopens a decided match or game.
DecisionKept ==
  /\ match.phase = "Decided" => match'.phase = "Decided" /\ match'.winner = match.winner
  /\ \A i \in DOMAIN match.games : match.games[i].decided => match'.games[i] = match.games[i]

DecisionStands == [][DecisionKept]_vars

\* A match ends with a winner or with staff, through failures and crashes of the
\* runs for its timers and for staff.
MatchEnds == <>(match.phase \in Over \/ "verdict" \in flaws)

\* Whatever fails after the match was decided, the winner reaches the next
\* round: some durable timer redelivers the transition.
WinnerAdvances == match.phase = "Decided" ~> fed = match.winner

\* The same for every match that was not decided out of AwaitingJudge or by a run
\* for staff that failed.
WinnerAdvancesUnwaited ==
  match.phase = "Decided" ~> (fed = match.winner \/ flaws \intersect {"waited", "staff"} # {})

\* A match comes to its end, and a winner to the next round, through failures and
\* crashes at any step, except where flaws names what no timer makes good.
MatchCompletes == MatchEnds /\ WinnerAdvancesUnwaited
=============================================================================
