---------------------------- MODULE DetachedJudge ----------------------------
(***************************************************************************)
(* The driver that judges a submission from a plugin                        *)
(* (server-sdk/src/evaluator/detached.rs) with the policies of three        *)
(* contest formats: ICPC (plugins/icpc), IOI (plugins/ioi) and the CodeLink *)
(* qualifier. The host evaluates the cases in a window and calls the plugin *)
(* back for every result; the callback writes a row per case, lets the      *)
(* policy end the judging early or drop cases that no longer matter, and    *)
(* writes the final verdict. The state of the session travels with the      *)
(* callbacks: a callback that fails leaves the host with the state before   *)
(* it, and the driver makes one attempt to end the submission from there.   *)
(*                                                                          *)
(* A step is one call of the host. The session is seen from the plugin: a   *)
(* result of an evaluated case, or the end of its wait (WindowedSession is  *)
(* the loop behind it). Raw scores are halves. A submission score is the    *)
(* tuple of its subtask scores, each in units of its own maximum.           *)
(***************************************************************************)
EXTENDS Naturals, Sequences, FiniteSets, TLC, FiniteSetsExt, SequencesExt

CONSTANTS
  NTests,     \* the scoring cases are 1..NTests, in their order
  Contests,   \* a behaviour has one: format, window, subtasks, samples
  MaxFaults   \* host calls that may fail

ScoringCases == 1..NTests

VARIABLES
  contest,     \* the contest the submission belongs to
  inWindow,    \* cases under evaluation
  queue,       \* cases the session has not started, in their order
  saved,       \* DetachedEval as the host holds it: the outcomes recorded, marked_running
  callback,    \* the plugin call in progress: what it still does, and its own DetachedEval
  tcRows,      \* test_case_result rows of this attempt, <<case, outcome>>, in insertion order
  shown,       \* the submission as written
  superseded,  \* a newer judgement owns the submission
  faults       \* host calls that failed

judgeVars == <<contest, inWindow, queue, saved, callback, tcRows, shown, superseded, faults>>

Outcome(v, s) == [verdict |-> v, raw |-> s]

Accepted == Outcome("Accepted", 2)

Skipped == Outcome("Skipped", 0)

SystemError == Outcome("SystemError", 0)

\* What an evaluator may answer for a case. Cancelled and Skipped, which interpret.rs
\* can read too, are left out: nothing here produces a result that the host cancelled.
Answers == {Accepted, Outcome("WrongAnswer", 1), Outcome("WrongAnswer", 0),
            Outcome("CompileError", 0), SystemError}

Severity == [Accepted |-> 0, Skipped |-> 0, WrongAnswer |-> 1, SystemError |-> 5, CompileError |-> 7]

Insert(c, o) == [call |-> "insert_results", case |-> c, outcome |-> o]

DeleteResults == [call |-> "delete_results"]

SetCompiling == [call |-> "set_compiling"]

SetRunning == [call |-> "set_running"]

StartDetached == [call |-> "start_detached"]

Update == [call |-> "update"]

Idle == [mode |-> "idle"]

Over == [mode |-> "over"]

InProgress(m, calls, state) == [mode |-> m, calls |-> calls, state |-> state]

Terminal == {"Judged", "CompilationError"}

TypeOK ==
  /\ contest \in Contests
  /\ inWindow \subseteq ScoringCases /\ Cardinality(inWindow) <= contest.window
  /\ queue \in Seq(ScoringCases)
  /\ DOMAIN saved.out \subseteq ScoringCases /\ saved.running \in BOOLEAN
  /\ callback.mode \in {"start", "idle", "result", "recover", "over"}
  /\ shown.status \in {"Pending", "Compiling", "Running"} \union Terminal
  /\ superseded \in BOOLEAN /\ faults \in 0..MaxFaults

-----------------------------------------------------------------------------
(* Scores of an IOI task and the cases that no longer matter.                *)

ScoreOf(out, c) == IF c \in DOMAIN out THEN out[c].raw ELSE 0

\* score_subtask_with_weights, cases of equal weight; Skipped counts as no score.
SubtaskScore(def, out) ==
  CASE def.method = "GroupMin" -> IF \A c \in def.cases : ScoreOf(out, c) = 2 THEN 1 ELSE 0
    [] def.method = "Sum" -> MapThenSumSet(LAMBDA c : ScoreOf(out, c), def.cases)
    [] def.method = "GroupMul" ->
         FoldSet(LAMBDA c, product : product * ScoreOf(out, c), 1, def.cases)

Subtasks == DOMAIN contest.subtasks

CanShortCircuit(s) == contest.subtasks[s].method \in {"GroupMin", "GroupMul"}

\* result_fails_method
FailsMethod(s, raw) ==
  CASE contest.subtasks[s].method = "GroupMin" -> raw < 2
    [] contest.subtasks[s].method = "GroupMul" -> raw = 0
    [] OTHER -> FALSE

\* failing_subtasks_for
FailingFor(c, out) == {s \in Subtasks : c \in contest.subtasks[s].cases /\ FailsMethod(s, out[c].raw)}

\* failed_subtasks: those a result has failed so far.
FailedSubtasks(out) ==
  UNION {FailingFor(c, out) : c \in {d \in DOMAIN out : out[d] # Skipped}}

\* Mutant: one failed subtask is enough, though another still counts the case.
NeededByAFailed(c, out) ==
  \E s \in Subtasks : c \in contest.subtasks[s].cases /\ s \in FailedSubtasks(out)

\* case_is_only_needed_by_failed_short_circuit_subtasks
OnlyNeededByFailed(c, out) ==
  \A s \in Subtasks :
    c \in contest.subtasks[s].cases => CanShortCircuit(s) /\ s \in FailedSubtasks(out)

\* cancellable_after: what the result of c makes pointless.
CancellableAfter(c, out) ==
  IF FailingFor(c, out) = {} THEN {}
  ELSE {d \in ScoringCases \ DOMAIN out :
          /\ d \notin contest.samples
          /\ \E s \in Subtasks : CanShortCircuit(s) /\ {c, d} \subseteq contest.subtasks[s].cases
          /\ OnlyNeededByFailed(d, out)}

-----------------------------------------------------------------------------
(* What a callback does: the host calls it makes, in their order.            *)

Inserts(cases, o) == [i \in DOMAIN cases |-> Insert(cases[i], o)]

InOrder(cases) == SetToSortSeq(cases, <)

\* fill_unrecorded
Fill(out, o) == Inserts(InOrder(ScoringCases \ DOMAIN out), o)

\* continue_or_finish: the update once every case is recorded.
ContinueOrFinish(recorded) == IF recorded = ScoringCases THEN <<Update>> ELSE <<>>

\* next_step of the policy and what the driver makes of it.
NextStep(c, out) ==
  IF contest.format = "ioi"
  THEN LET cancelled == CancellableAfter(c, out)
       IN Inserts(InOrder(cancelled), Skipped) \o ContinueOrFinish(DOMAIN out \union cancelled)
  ELSE IF out[c].verdict = "Accepted" THEN ContinueOrFinish(DOMAIN out)
  ELSE Fill(out, Skipped) \o <<Update>>

\* Mutant: the skipped cases are told from the state before the result.
OnResultBefore(c, o) ==
  LET out == (c :> o) @@ saved.out
  IN IF o.verdict = "CompileError"
     THEN <<Insert(c, o)>> \o Fill(saved.out, Skipped) \o <<Update>>
     ELSE (IF saved.running THEN <<>> ELSE <<SetRunning>>) \o <<Insert(c, o)>> \o NextStep(c, out)

\* on_result for a case that is not recorded. (A recorded one was withdrawn from the
\* session, which does not report it any more: SilentOnceWithdrawn.)
OnResult(c, o) ==
  LET out == (c :> o) @@ saved.out
  IN IF o.verdict = "CompileError"
     THEN <<Insert(c, o)>> \o Fill(out, Skipped) \o <<Update>>
     ELSE (IF saved.running THEN <<>> ELSE <<SetRunning>>) \o <<Insert(c, o)>> \o NextStep(c, out)

\* Mutant: cases that were not judged are called skipped.
GiveUpSkipping(state) == Fill(state.out, Skipped) \o <<Update>>

\* recover, and the callbacks for Timeout and Exhausted.
GiveUp(state) == Fill(state.out, SystemError) \o <<Update>>

\* The cases with a verdict of their own.
Real(out) == {c \in DOMAIN out : out[c] # Skipped}

\* worst verdict; none at all is a SystemError.
Severest(out) ==
  LET worst == CHOOSE c \in Real(out) :
                 \A d \in Real(out) : Severity[out[c].verdict] >= Severity[out[d].verdict]
  IN IF Real(out) = {} THEN "SystemError" ELSE out[worst].verdict

\* all_accepted, of the cases recorded.
AllAccepted(out) == Real(out) # {} /\ \A c \in DOMAIN out : out[c] = Accepted

\* The qualifier counts the cases too.
Earned(out) == AllAccepted(out) /\ DOMAIN out = ScoringCases

VerdictOf(out) ==
  IF contest.format = "qualifier" /\ Severest(out) = "Accepted" /\ ~Earned(out)
  THEN "SystemError" ELSE Severest(out)

TaskScore(out) ==
  [s \in Subtasks |-> IF Real(out) = {} THEN 0 ELSE SubtaskScore(contest.subtasks[s], out)]

Score(out) ==
  CASE contest.format = "icpc" -> <<IF AllAccepted(out) THEN 1 ELSE 0>>
    [] contest.format = "qualifier" -> <<IF Earned(out) THEN 1 ELSE 0>>
    [] contest.format = "ioi" -> TaskScore(out)

\* finalize: persist_and_track (ICPC), persist_results (IOI), persist (qualifier).
Finalized(out) ==
  [status |-> IF VerdictOf(out) = "CompileError" THEN "CompilationError" ELSE "Judged",
   verdict |-> VerdictOf(out), score |-> Score(out), basis |-> out]

-----------------------------------------------------------------------------
Init ==
  /\ contest \in Contests
  /\ inWindow = {} /\ queue = <<>>
  /\ saved = [out |-> <<>>, running |-> FALSE]
  /\ callback = InProgress("start", <<DeleteResults, SetCompiling, StartDetached>>, saved)
  /\ tcRows \in {<<>>, <<<<1, SystemError>>>>}
  /\ shown = [status |-> "Pending"]
  /\ superseded = FALSE /\ faults = 0

\* The session starts what the window has room for, in order.
RefillWindow(running, rest) ==
  LET n == Min({contest.window - Cardinality(running), Len(rest)})
  IN /\ inWindow' = running \union {rest[i] : i \in 1..n}
     /\ queue' = SubSeq(rest, n + 1, Len(rest))

\* The session is over: whatever was running is cancelled.
EndSession == inWindow' = {} /\ queue' = <<>> /\ callback' = Over

KeepSession == UNCHANGED <<inWindow, queue>>

Calling == callback.mode \in {"start", "result", "recover"}

ThisCall == Head(callback.calls)

LastCall == Len(callback.calls) = 1

\* The calls are made: the reply to the host. A recovery replies Cancel with the
\* state before the callback; a final update is the last call of its callback.
Reply(state) ==
  IF callback.mode = "recover" \/ ThisCall = Update
  THEN saved' = (IF callback.mode = "recover" THEN saved ELSE state) /\ EndSession
  ELSE /\ saved' = state /\ callback' = Idle
       /\ RefillWindow(inWindow \ DOMAIN state.out, SelectSeq(queue, LAMBDA c : c \notin DOMAIN state.out))

\* Goes on with the state after a successful call.
GoOn(state) ==
  IF LastCall THEN Reply(state)
  ELSE /\ callback' = [callback EXCEPT !.calls = Tail(@), !.state = state]
       /\ UNCHANGED saved /\ KeepSession

\* record: the row is written unless the epoch is stale, which is no error.
Record ==
  /\ Calling /\ ThisCall.call = "insert_results"
  /\ tcRows' = IF superseded THEN tcRows ELSE Append(tcRows, <<ThisCall.case, ThisCall.outcome>>)
  /\ GoOn([callback.state EXCEPT !.out = (ThisCall.case :> ThisCall.outcome) @@ @])
  /\ UNCHANGED <<contest, shown, superseded, faults>>

\* Rows an earlier dispatch of the attempt left behind are deleted; whether that
\* worked is not looked at.
ClearRows ==
  /\ Calling /\ ThisCall = DeleteResults
  /\ \/ tcRows' = <<>> /\ UNCHANGED faults
     \/ faults < MaxFaults /\ faults' = faults + 1 /\ UNCHANGED tcRows
  /\ GoOn(callback.state)
  /\ UNCHANGED <<contest, shown, superseded>>

\* set_compiling, set_running and the final update, when the epoch is current.
Mark ==
  /\ Calling /\ ThisCall.call \in {"set_compiling", "set_running", "update"} /\ ~superseded
  /\ shown' = CASE ThisCall = SetCompiling -> [status |-> "Compiling"]
                [] ThisCall = SetRunning -> [status |-> "Running"]
                [] ThisCall = Update -> Finalized(callback.state.out)
  /\ GoOn(IF ThisCall = SetRunning THEN [callback.state EXCEPT !.running = TRUE] ELSE callback.state)
  /\ UNCHANGED <<contest, tcRows, superseded, faults>>

\* The same calls on a stale epoch change no row: StaleEpoch ends the session.
MarkStale ==
  /\ Calling /\ ThisCall.call \in {"set_compiling", "set_running", "update"} /\ superseded
  /\ EndSession
  /\ UNCHANGED <<contest, saved, tcRows, shown, superseded, faults>>

\* start_detached: the session begins ...
StartSession ==
  /\ Calling /\ ThisCall = StartDetached
  /\ callback' = Idle /\ RefillWindow({}, InOrder(ScoringCases))
  /\ UNCHANGED <<contest, saved, tcRows, shown, superseded, faults>>

\* Mutant: nobody recovers from a call that fails.
FailUnrecovered ==
  /\ Calling /\ ThisCall # DeleteResults /\ faults < MaxFaults
  /\ faults' = faults + 1 /\ EndSession
  /\ UNCHANGED <<contest, saved, tcRows, shown, superseded>>

\* A host call fails. start: the session that cannot begin is finished as
\* SystemError, any other error is returned to the dispatcher. A result: the
\* driver recovers from the state before the callback. In a recovery the
\* remaining cases are not filled any more and the update is still tried.
Fail ==
  /\ Calling /\ ThisCall # DeleteResults /\ faults < MaxFaults
  /\ faults' = faults + 1
  /\ IF callback.mode = "start" /\ ThisCall = StartDetached
     THEN callback' = [callback EXCEPT !.calls = GiveUp(callback.state)] /\ KeepSession
     ELSE IF callback.mode = "result"
     THEN callback' = InProgress("recover", GiveUp(saved), saved) /\ KeepSession
     ELSE IF callback.mode = "recover" /\ ThisCall # Update
     THEN callback' = [callback EXCEPT !.calls = <<Update>>] /\ KeepSession
     ELSE EndSession
  /\ UNCHANGED <<contest, saved, tcRows, shown, superseded>>

\* A case was evaluated and the plugin is called back.
Result(c) ==
  /\ callback = Idle /\ c \in inWindow
  /\ inWindow' = inWindow \ {c}
  /\ \E o \in Answers : callback' = InProgress("result", OnResult(c, o), saved)
  /\ UNCHANGED <<contest, queue, saved, tcRows, shown, superseded, faults>>

\* The host waited for a case in vain, retries included.
Timeout ==
  /\ callback = Idle
  /\ callback' = InProgress("result", GiveUp(saved), saved)
  /\ UNCHANGED <<contest, inWindow, queue, saved, tcRows, shown, superseded, faults>>

\* A rejudge, a steal or the detector opens a newer attempt.
Supersede ==
  /\ ~superseded /\ callback # Over
  /\ superseded' = TRUE
  /\ UNCHANGED <<contest, inWindow, queue, saved, callback, tcRows, shown, faults>>

CallStep == ClearRows \/ Record \/ Mark \/ MarkStale \/ StartSession

SessionEvent == Timeout \/ \E c \in ScoringCases : Result(c)

Next ==
  \/ CallStep
  \/ Fail
  \/ SessionEvent
  \/ Supersede

\* Host calls return; every case that is waited for is answered or times out.
Fairness ==
  /\ WF_judgeVars(CallStep)
  /\ WF_judgeVars(SessionEvent)

Spec == Init /\ [][Next]_judgeVars /\ Fairness

-----------------------------------------------------------------------------
Finished == shown.status \in Terminal

\* With at most one failed call, and in the qualifier with any number, Accepted
\* (what the standings of ICPC and of the qualifier count, and the full score)
\* says that every scoring case was evaluated and passed.
AcceptedIsEarned ==
  Finished /\ (faults <= 1 \/ contest.format = "qualifier")
    /\ (shown.verdict = "Accepted" \/ (contest.format # "ioi" /\ shown.score = <<1>>)) =>
    shown.basis = [c \in ScoringCases |-> Accepted]

\* A score does not depend on the cases that were skipped: whatever they would
\* have answered, and in whatever order the others did, it would be the same.
SkippingIsFree ==
  LET skipped == {c \in DOMAIN shown.basis : shown.basis[c] = Skipped}
  IN Finished /\ shown.verdict # "CompileError" =>
       \A answer \in [skipped -> Answers \ {Outcome("CompileError", 0)}] :
         Finalized(answer @@ shown.basis).score = shown.score

\* While no call fails, a judged submission has one row per scoring case, the
\* one its verdict was made from.
RowsExact ==
  Finished /\ faults = 0 =>
    /\ Len(tcRows) = NTests
    /\ {tcRows[i] : i \in DOMAIN tcRows} = {<<c, shown.basis[c]>> : c \in ScoringCases}

\* A session that is over has ended its submission, unless a newer attempt owns
\* it, two calls failed, or the dispatcher was told that it could not start.
NotStranded ==
  callback = Over /\ ~superseded /\ faults <= 1 =>
    Finished \/ shown.status = "Pending"

\* A session ends.
JudgeEnds == <>(callback = Over)
=============================================================================
