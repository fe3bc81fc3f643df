---------------------------- MODULE FusedVerdict ----------------------------
(***************************************************************************)
(* From an evaluator's operation to a test case verdict.  The              *)
(* batch-evaluator plugin builds one operation (compile, exec and the      *)
(* checker's steps), a worker executes its steps in isolate, and the       *)
(* evaluator interprets the step results: plugins/batch-evaluator,         *)
(* plugins/standard-checkers, worker sandbox/isolate.rs and                *)
(* handler/execution.rs, server-sdk evaluator/interpret.rs.                *)
(*                                                                         *)
(* `truth' records what happened to a step; `res' is the result the worker *)
(* reports for it, which is all the interpreter sees.                      *)
(***************************************************************************)
EXTENDS Naturals

CONSTANTS
  MaxTransientRetries   \* MAX_TRANSIENT_RETRIES of IsolateSandboxManager

VARIABLES
  format,    \* the checker: "none", "stream" (comparators), "file" (testlib)
  compiled,  \* the language has a compile step
  truth,     \* what happened to each step
  tries,     \* transient retries of the step being executed
  res,       \* task_results
  verdict    \* the test case verdict, or "none"

verdictVars == <<format, compiled, truth, tries, res, verdict>>

StepNames == {"compile", "compile_checker", "exec", "check"}

(* build_operation and splice_checker_stage: the steps of the operation.   *)
Present(s) ==
  CASE s = "compile" -> compiled
    [] s = "compile_checker" -> format = "file"
    [] s = "check" -> format # "none"
    [] s = "exec" -> TRUE

(* A streaming check runs beside exec and shares its dependencies; a check *)
(* of a file follows exec.                                                 *)
DependsOn(s) ==
  {d \in StepNames :
     /\ Present(d)
     /\ \/ d = "compile" /\ s = "exec"
        \/ d = "compile" /\ s = "check" /\ format = "stream"
        \/ d \in {"exec", "compile_checker"} /\ s = "check" /\ format = "file"}

Init ==
  /\ format \in {"none", "stream", "file"}
  /\ compiled \in BOOLEAN
  /\ truth = [s \in StepNames |-> "none"]
  /\ tries = [s \in StepNames |-> 0]
  /\ res = [s \in StepNames |-> [success |-> FALSE, kind |-> "Unknown",
                             exit |-> "none", oom |-> FALSE, out |-> "none"]]
  /\ verdict = "none"

----------------------------------------------------------------------------
(* The worker.  ExecutionResult::default() carries the status "UNKNOWN"    *)
(* and stands for every step that never reached the sandbox.               *)
Default == [success |-> FALSE, kind |-> "Unknown", exit |-> "none",
            oom |-> FALSE, out |-> "none"]

(* parse_meta_file: how isolate's report becomes a result; success is      *)
(* exit_code == Some(0).                                                   *)
Ended(kind, exit, out) ==
  [success |-> exit = "0", kind |-> kind, exit |-> exit, oom |-> FALSE,
   out |-> out]

(* The results of the ways a run can go.  "lost": a declared redirect file *)
(* is missing after the run; "fault": the sandbox could not run the step,  *)
(* was killed at the hard timeout, or its output could not be collected.   *)
ResultOf(w) ==
  CASE w = "ok"       -> Ended("Ok", "0", "none")
    [] w = "rejected" -> Ended("NonZeroExit", "1", "diag")
    [] w = "odd"      -> Ended("NonZeroExit", "other", "diag")
    [] w = "silent"   -> Ended("NonZeroExit", "1", "none")
    [] w = "starved"  -> Ended("NonZeroExit", "1", "infra")
    [] w = "signal"   -> Ended("Signaled", "none", "none")
    [] w = "timeout"  -> Ended("TimedOut", "none", "none")
    [] w = "stalled"  -> Ended("TimedOut", "none", "none")
    [] w = "oom"      -> [Ended("Signaled", "none", "none") EXCEPT !.oom = TRUE]
    [] w = "lost"     -> Ended("InternalError", "0", "none")
    [] w = "fault"    -> Ended("InternalError", "none", "none")
    [] w = "cached"   -> [Default EXCEPT !.success = TRUE]
    [] w \in {"setup", "skipped"} -> Default

Ran == {"ok", "rejected", "odd", "silent", "starved", "signal", "timeout",
        "oom", "lost", "fault"}

DepsOk(s) == \A d \in DependsOn(s) : res[d].success

Ready(s) ==
  /\ verdict = "none"
  /\ Present(s)
  /\ truth[s] = "none"
  /\ \A d \in DependsOn(s) : truth[d] # "none"

Record(s, w) ==
  /\ truth' = [truth EXCEPT ![s] = w]
  /\ res' = [res EXCEPT ![s] = ResultOf(w)]
  /\ UNCHANGED <<format, compiled, tries, verdict>>

(* execute_step_with_deps with deps_ok: the sandbox runs the step.         *)
Run(s) ==
  /\ Ready(s)
  /\ DepsOk(s)
  /\ \E w \in Ran : Record(s, w)

Skip(s) ==
  /\ Ready(s)
  /\ ~DepsOk(s)
  /\ Record(s, "skipped")

(* A compile whose outputs are restored from the task cache.               *)
CacheHit(s) ==
  /\ s \in {"compile", "compile_checker"}
  /\ Ready(s)
  /\ Record(s, "cached")

(* execute_step returns Err: bad redirect, pipe or mount, no environment.  *)
SetupFails(s) ==
  /\ Ready(s)
  /\ DepsOk(s)
  /\ Record(s, "setup")

(* The solution fills the FIFO while its check, over already, will never   *)
(* read it; the keep-alive counts as a reader, so the solution waits until *)
(* its wall time is up.                                                    *)
Stall(s) ==
  /\ s = "exec"
  /\ format = "stream"
  /\ Ready(s)
  /\ DepsOk(s)
  /\ truth["check"] \notin {"none", "ok", "rejected"}
  /\ Record(s, "stalled")

(* IsolateSandboxManager::execute: a guest that cannot be executed for     *)
(* lack of processes is tried again; past the limit the result is tagged   *)
(* InternalError.                                                          *)
Saturated(s) ==
  /\ Ready(s)
  /\ DepsOk(s)
  /\ IF tries[s] < MaxTransientRetries
     THEN /\ tries' = [tries EXCEPT ![s] = @ + 1]
          /\ UNCHANGED <<format, compiled, truth, res, verdict>>
     ELSE Record(s, "fault")

----------------------------------------------------------------------------
(* Mutant: a silent compiler is taken at its word.                         *)
CompileFaultTagged(c) ==
  \/ c.kind = "InternalError"
  \/ c.exit = "none" /\ ~c.success

(* The evaluator: precheck_verdict, in its order of precedence.            *)
CompileFault(c) ==
  \/ c.kind = "InternalError"
  \/ c.exit \notin {"none", "0"} /\ c.out # "diag"
  \/ c.exit = "none" /\ ~c.success

CompileRejected(c) == c.exit \notin {"none", "0"}

(* Mutant: an internal error of the sandbox passes on to the checker.      *)
TerminationOfProgram(e) ==
  CASE e.oom -> "MemoryLimitExceeded"
    [] ~e.oom /\ e.kind = "TimedOut" -> "TimeLimitExceeded"
    [] ~e.oom /\ e.kind \in {"Signaled", "NonZeroExit"} -> "RuntimeError"
    [] ~e.oom /\ e.kind \in {"Ok", "Unknown", "InternalError"} -> "consult"

(* The classification of a sandbox termination; "consult" goes on to the   *)
(* checker.                                                                *)
Termination(e) ==
  CASE e.oom -> "MemoryLimitExceeded"
    [] ~e.oom /\ e.kind = "TimedOut" -> "TimeLimitExceeded"
    [] ~e.oom /\ e.kind \in {"Signaled", "NonZeroExit"} -> "RuntimeError"
    [] ~e.oom /\ e.kind = "InternalError" -> "SystemError"
    [] ~e.oom /\ e.kind \in {"Ok", "Unknown"} -> "consult"

Precheck ==
  IF compiled /\ CompileFault(res["compile"]) THEN "SystemError"
  ELSE IF compiled /\ CompileRejected(res["compile"]) THEN "CompileError"
  ELSE Termination(res["exec"])

(* interpret_builtin and interpret_testlib on the check step's exit code;  *)
(* no exit code, or one they do not know, is a SystemError.                *)
CheckerSays(c) ==
  CASE c.exit = "0" -> "Accepted"
    [] c.exit = "1" -> "WrongAnswer"
    [] c.exit \in {"none", "other"} -> "SystemError"

(* interpret_fused_result once precheck lets the result through.           *)
Checked ==
  IF format = "none" THEN "Accepted"
  ELSE IF res["check"].kind = "InternalError" THEN "SystemError"
  ELSE CheckerSays(res["check"])

Interpret ==
  /\ verdict = "none"
  /\ \A s \in StepNames : Present(s) => truth[s] # "none"
  /\ verdict' = IF Precheck = "consult" THEN Checked ELSE Precheck
  /\ UNCHANGED <<format, compiled, truth, tries, res>>

(* OperationHandler::execute failed as a whole (no step results), or the   *)
(* host cancelled the operation before it ran.                             *)
NoResults ==
  /\ verdict = "none"
  /\ \A s \in StepNames : truth[s] = "none"
  /\ verdict' \in {"SystemError", "Cancelled"}
  /\ UNCHANGED <<format, compiled, truth, tries, res>>

Step(s) ==
  Run(s) \/ Skip(s) \/ CacheHit(s) \/ SetupFails(s) \/ Stall(s) \/ Saturated(s)

Next == (\E s \in StepNames : Step(s)) \/ Interpret \/ NoResults

Spec == Init /\ [][Next]_verdictVars

----------------------------------------------------------------------------
TypeOK ==
  /\ format \in {"none", "stream", "file"}
  /\ compiled \in BOOLEAN
  /\ truth \in [StepNames -> Ran \union {"none", "cached", "setup", "skipped",
                                     "stalled"}]
  /\ tries \in [StepNames -> 0 .. MaxTransientRetries]
  /\ \A s \in StepNames : truth[s] # "none" => res[s] = ResultOf(truth[s])
  /\ verdict \in {"none", "Accepted", "WrongAnswer", "CompileError",
                  "TimeLimitExceeded", "MemoryLimitExceeded", "RuntimeError",
                  "SystemError", "Cancelled"}

(* A verdict against the contestant rests on a run of the contestant's own *)
(* program: a fault of the sandbox or of the toolchain is never reported   *)
(* as a limit, a crash or a compile error.  (A stalled solution did run;   *)
(* see CheckerFaultHeals.)                                                 *)
BlameIsEarned ==
  /\ verdict = "TimeLimitExceeded" => truth["exec"] \in {"timeout", "stalled"}
  /\ verdict = "MemoryLimitExceeded" => truth["exec"] = "oom"
  /\ verdict = "RuntimeError" =>
       truth["exec"] \in {"rejected", "odd", "silent", "starved", "signal"}
  /\ verdict = "CompileError" => truth["compile"] \in {"rejected", "odd"}

(* An output of a program that the sandbox did run is accepted or rejected *)
(* only after a clean exit, and only by the checker where there is one.    *)
ScoredIsChecked ==
  /\ verdict = "Accepted" =>
       /\ truth["exec"] \in {"ok", "setup"}
       /\ format # "none" => truth["check"] = "ok"
  /\ verdict = "WrongAnswer" =>
       /\ truth["exec"] \in {"ok", "setup"}
       /\ truth["check"] \in {"rejected", "silent", "starved"}

(* The contract of precheck_verdict: the checker is consulted only about a *)
(* clean exec result, so a solution that never ran is not scored.  The     *)
(* worker reports such a step with the status UNKNOWN, which precheck      *)
(* lets through.                                                           *)
OnlyRunsScored ==
  verdict \in {"Accepted", "WrongAnswer"} => truth["exec"] # "setup"

(* A check step that the sandbox could not run is an infrastructure fault, *)
(* classified as a self-healing SystemError unless the solution failed by  *)
(* itself.  A solution stalled on the FIFO nobody reads is blamed instead. *)
CheckerFaultHeals ==
  verdict # "none" /\ truth["check"] = "fault" /\ truth["exec"] = "stalled"
    => verdict \in {"SystemError", "CompileError"}

============================================================================
