---------------------------- MODULE WorkerProofs ----------------------------
(***************************************************************************)
(* The safety properties of the parts of a worker, for every value of the  *)
(* constants. Each part has an inductive invariant of its own, its Init    *)
(* and its steps; at the end they are put together over the focus.         *)
(***************************************************************************)
EXTENDS MCWorker, FiniteSetTheorems, WellFoundedInduction, TLAPS

-----------------------------------------------------------------------------
(* From sandbox to verdict *)

\* What happened to a step and what the worker reports of it.
FusedKnown ==
  /\ DOMAIN res = Fused!StepNames
  /\ truth["exec"] # "cached"
  /\ truth["exec"] = "skipped" =>
       compiled /\ truth["compile"] # "none" /\ ~res["compile"].success

FusedInv ==
  Fused!TypeOK /\ FusedKnown /\ Fused!BlameIsEarned /\ Fused!ScoredIsChecked

\* The ways a step can go; "none" is not one of them.
Ways == Fused!Ran \union {"cached", "setup", "skipped", "stalled"}

\* A step that is ready has no result yet, and its result is recorded once.
LEMMA FusedRecord ==
  ASSUME FusedInv, NEW s \in Fused!StepNames, NEW w \in Ways,
         Fused!Ready(s), Fused!Record(s, w),
         s = "exec" => w # "cached",
         s = "exec" /\ w = "skipped" => ~Fused!DepsOk(s)
  PROVE  FusedInv'
<1>1. truth[s] = "none" /\ verdict = "none" /\ verdict' = "none"
  BY DEF Fused!Ready, Fused!Record
<1>2. /\ truth' = [truth EXCEPT ![s] = w]
      /\ res' = [res EXCEPT ![s] = Fused!ResultOf(w)]
      /\ format' = format /\ compiled' = compiled /\ tries' = tries
  BY DEF Fused!Record
<1>3. Fused!TypeOK'
  BY <1>1, <1>2 DEF FusedInv, FusedKnown, Fused!TypeOK, Ways
<1>4. FusedKnown'
  <2>1. DOMAIN res' = Fused!StepNames
    BY <1>2 DEF FusedInv, FusedKnown
  <2>2. truth'["exec"] # "cached"
    BY <1>2 DEF FusedInv, FusedKnown, Fused!TypeOK, Fused!StepNames
  <2>3. ASSUME truth'["exec"] = "skipped"
        PROVE  compiled' /\ truth'["compile"] # "none" /\ ~res'["compile"].success
    <3>1. CASE s = "exec"
      <4>1. w = "skipped"
        BY <1>2, <2>3, <3>1 DEF FusedInv, Fused!TypeOK
      <4>2. PICK d \in Fused!DependsOn("exec") : ~res[d].success
        BY <4>1, <3>1 DEF Fused!DepsOk
      <4>3. d = "compile" /\ compiled
        BY <4>2 DEF Fused!DependsOn, Fused!Present
      <4>4. truth["compile"] # "none"
        BY <4>2, <4>3, <3>1 DEF Fused!Ready
      <4> QED BY <4>2, <4>3, <4>4, <3>1, <1>2
               DEF FusedInv, FusedKnown, Fused!TypeOK, Fused!StepNames
    <3>2. CASE s # "exec"
      <4>1. truth["exec"] = "skipped"
        BY <1>2, <2>3, <3>2 DEF FusedInv, Fused!TypeOK, Fused!StepNames
      <4>2. s # "compile"
        BY <4>1, <1>1 DEF FusedInv, FusedKnown
      <4> QED BY <4>1, <4>2, <1>2
               DEF FusedInv, FusedKnown, Fused!TypeOK, Fused!StepNames
    <3> QED BY <3>1, <3>2
  <2> QED BY <2>1, <2>2, <2>3 DEF FusedKnown
<1>5. Fused!BlameIsEarned' /\ Fused!ScoredIsChecked'
  BY <1>1 DEF Fused!BlameIsEarned, Fused!ScoredIsChecked
<1> QED BY <1>3, <1>4, <1>5 DEF FusedInv

\* What the interpreter can tell from a result about what happened.
LEMMA ResultTells ==
  ASSUME NEW w \in Ways, NEW r, r = Fused!ResultOf(w)
  PROVE  /\ r.oom => w = "oom"
         /\ r.kind = "TimedOut" => w \in {"timeout", "stalled"}
         /\ ~r.oom /\ r.kind \in {"Signaled", "NonZeroExit"} =>
              w \in {"rejected", "odd", "silent", "starved", "signal"}
         /\ ~r.oom /\ r.kind \in {"Ok", "Unknown"} =>
              w \in {"ok", "cached", "setup", "skipped"}
         /\ r.oom \in BOOLEAN /\ r.success \in BOOLEAN
         /\ r.kind \in {"Ok", "NonZeroExit", "Signaled", "TimedOut",
                        "InternalError", "Unknown"}
         /\ r.exit \in {"none", "0", "1", "other"}
         /\ r.exit \notin {"none", "0"} /\ r.out = "diag" => w \in {"rejected", "odd"}
         /\ r.exit = "0" => (w = "lost" /\ r.kind = "InternalError") \/ w = "ok"
         /\ r.exit = "1" => w \in {"rejected", "silent", "starved"}
         /\ ~r.success => r.exit # "0"
<1>1. CASE w \in {"ok", "rejected", "odd", "silent", "starved"}
  BY <1>1 DEF Fused!ResultOf, Fused!Ended
<1>2. CASE w \in {"signal", "timeout", "stalled", "lost", "fault"}
  BY <1>2 DEF Fused!ResultOf, Fused!Ended
<1>3. CASE w \in {"oom", "cached", "setup", "skipped"}
  BY <1>3 DEF Fused!ResultOf, Fused!Ended, Fused!Default
<1> QED BY <1>1, <1>2, <1>3 DEF Ways, Fused!Ran

\* What precheck_verdict and the checker's interpreter make of the results.
LEMMA InterpretTells ==
  ASSUME FusedInv,
         \A s \in Fused!StepNames : Fused!Present(s) => truth[s] # "none",
         NEW v, v = IF Fused!Precheck = "consult" THEN Fused!Checked ELSE Fused!Precheck
  PROVE  /\ v \in {"Accepted", "WrongAnswer", "CompileError", "TimeLimitExceeded",
                   "MemoryLimitExceeded", "RuntimeError", "SystemError"}
         /\ v = "TimeLimitExceeded" => truth["exec"] \in {"timeout", "stalled"}
         /\ v = "MemoryLimitExceeded" => truth["exec"] = "oom"
         /\ v = "RuntimeError" =>
              truth["exec"] \in {"rejected", "odd", "silent", "starved", "signal"}
         /\ v = "CompileError" => truth["compile"] \in {"rejected", "odd"}
         /\ v \in {"Accepted", "WrongAnswer"} => truth["exec"] \in {"ok", "setup"}
         /\ v = "Accepted" /\ format # "none" => truth["check"] = "ok"
         /\ v = "WrongAnswer" => truth["check"] \in {"rejected", "silent", "starved"}
<1> DEFINE e == res["exec"]
           c == res["compile"]
           k == res["check"]
<1>1. truth["exec"] \in Ways /\ e = Fused!ResultOf(truth["exec"])
  <2>1. Fused!Present("exec")
    BY DEF Fused!Present
  <2> QED BY <2>1 DEF FusedInv, Fused!TypeOK, Fused!StepNames, Ways
<1>2. compiled => truth["compile"] \in Ways /\ c = Fused!ResultOf(truth["compile"])
  <2>1. compiled => Fused!Present("compile")
    BY DEF Fused!Present
  <2> QED BY <2>1 DEF FusedInv, Fused!TypeOK, Fused!StepNames, Ways
<1>3. format # "none" =>
        truth["check"] \in Ways /\ k = Fused!ResultOf(truth["check"])
  <2>1. format # "none" => Fused!Present("check")
    BY DEF Fused!Present
  <2> QED BY <2>1 DEF FusedInv, Fused!TypeOK, Fused!StepNames, Ways
<1>4. compiled \in BOOLEAN /\ truth["exec"] # "cached"
      /\ (truth["exec"] = "skipped" => compiled /\ ~c.success)
  BY DEF FusedInv, FusedKnown, Fused!TypeOK
<1>5. CASE compiled /\ Fused!CompileFault(c)
  <2>1. v = "SystemError"
    BY <1>5 DEF Fused!Precheck
  <2> QED BY <2>1
<1>6. CASE compiled /\ ~Fused!CompileFault(c) /\ Fused!CompileRejected(c)
  <2>1. v = "CompileError"
    BY <1>6 DEF Fused!Precheck
  <2>2. truth["compile"] \in {"rejected", "odd"}
    BY <1>2, <1>6, ResultTells DEF Fused!CompileFault, Fused!CompileRejected
  <2> QED BY <2>1, <2>2
<1>7. CASE ~compiled \/ (~Fused!CompileFault(c) /\ ~Fused!CompileRejected(c))
  <2>1. Fused!Precheck = Fused!Termination(e)
    BY <1>7, <1>4 DEF Fused!Precheck
  <2>2. truth["exec"] # "skipped"
    <3>1. compiled => c.exit = "0" \/ (c.exit = "none" /\ c.success)
      BY <1>7, <1>4, <1>2, ResultTells DEF Fused!CompileFault, Fused!CompileRejected
    <3> QED BY <3>1, <1>4, <1>2, ResultTells
  <2>3. /\ e.oom => truth["exec"] = "oom"
        /\ e.kind = "TimedOut" => truth["exec"] \in {"timeout", "stalled"}
        /\ ~e.oom /\ e.kind \in {"Signaled", "NonZeroExit"} =>
             truth["exec"] \in {"rejected", "odd", "silent", "starved", "signal"}
        /\ ~e.oom /\ e.kind \in {"Ok", "Unknown"} => truth["exec"] \in {"ok", "setup"}
        /\ e.oom \in BOOLEAN
        /\ e.kind \in {"Ok", "NonZeroExit", "Signaled", "TimedOut",
                       "InternalError", "Unknown"}
    BY <1>1, <1>4, <2>2, ResultTells
  <2>4. CASE e.oom
    <3>1. v = "MemoryLimitExceeded"
      BY <2>1, <2>4 DEF Fused!Termination
    <3> QED BY <3>1, <2>3, <2>4
  <2>5. CASE ~e.oom /\ e.kind = "TimedOut"
    <3>1. v = "TimeLimitExceeded"
      BY <2>1, <2>5 DEF Fused!Termination
    <3> QED BY <3>1, <2>3, <2>5
  <2>6. CASE ~e.oom /\ e.kind \in {"Signaled", "NonZeroExit"}
    <3>1. v = "RuntimeError"
      BY <2>1, <2>6 DEF Fused!Termination
    <3> QED BY <3>1, <2>3, <2>6
  <2>7. CASE ~e.oom /\ e.kind = "InternalError"
    <3>1. v = "SystemError"
      BY <2>1, <2>7 DEF Fused!Termination
    <3> QED BY <3>1
  <2>8. CASE ~e.oom /\ e.kind \in {"Ok", "Unknown"}
    <3>1. v = Fused!Checked /\ truth["exec"] \in {"ok", "setup"}
      BY <2>1, <2>3, <2>8 DEF Fused!Termination
    <3>2. CASE format = "none"
      BY <3>1, <3>2 DEF Fused!Checked
    <3>3. CASE format # "none" /\ k.kind = "InternalError"
      BY <3>1, <3>3 DEF Fused!Checked
    <3>4. CASE format # "none" /\ k.kind # "InternalError"
      <4>1. v = Fused!CheckerSays(k)
        BY <3>1, <3>4 DEF Fused!Checked
      <4>2. /\ k.exit \in {"none", "0", "1", "other"}
            /\ k.exit = "0" => truth["check"] = "ok"
            /\ k.exit = "1" => truth["check"] \in {"rejected", "silent", "starved"}
        BY <1>3, <3>4, ResultTells
      <4> QED BY <3>1, <4>1, <4>2 DEF Fused!CheckerSays
    <3> QED BY <3>2, <3>3, <3>4
  <2> QED BY <2>3, <2>4, <2>5, <2>6, <2>7, <2>8
<1> QED BY <1>4, <1>5, <1>6, <1>7

\* The operation starts with no step executed and no verdict.
LEMMA FusedInit == Fused!Init => FusedInv
  BY RetriesAssumption
     DEF Fused!Init, FusedInv, FusedKnown, Fused!TypeOK, Fused!BlameIsEarned,
         Fused!ScoredIsChecked, Fused!StepNames

\* Every step of the worker and of the evaluator keeps what is known.
LEMMA FusedStep ==
  ASSUME FusedInv, Fused!Next
  PROVE  FusedInv'
<1>1. ASSUME NEW s \in Fused!StepNames, Fused!Run(s) PROVE FusedInv'
  <2>1. PICK w \in Fused!Ran : Fused!Record(s, w)
    BY <1>1 DEF Fused!Run
  <2> QED BY <1>1, <2>1, FusedRecord DEF Fused!Run, Fused!Ran, Ways
<1>2. ASSUME NEW s \in Fused!StepNames, Fused!Skip(s) PROVE FusedInv'
  BY <1>2, FusedRecord DEF Fused!Skip, Ways
<1>3. ASSUME NEW s \in Fused!StepNames, Fused!CacheHit(s) PROVE FusedInv'
  BY <1>3, FusedRecord DEF Fused!CacheHit, Ways
<1>4. ASSUME NEW s \in Fused!StepNames, Fused!SetupFails(s) PROVE FusedInv'
  BY <1>4, FusedRecord DEF Fused!SetupFails, Ways
<1>5. ASSUME NEW s \in Fused!StepNames, Fused!Stall(s) PROVE FusedInv'
  BY <1>5, FusedRecord DEF Fused!Stall, Ways
<1>6. ASSUME NEW s \in Fused!StepNames, Fused!Saturated(s) PROVE FusedInv'
  <2>1. CASE tries[s] < MaxTransientRetries
    <3>1. /\ tries' = [tries EXCEPT ![s] = @ + 1]
          /\ UNCHANGED <<format, compiled, truth, res, verdict>>
      BY <1>6, <2>1 DEF Fused!Saturated
    <3>2. tries' \in [Fused!StepNames -> 0 .. MaxTransientRetries]
      BY <3>1, <2>1, RetriesAssumption DEF FusedInv, Fused!TypeOK
    <3> QED BY <3>1, <3>2
             DEF FusedInv, FusedKnown, Fused!TypeOK, Fused!BlameIsEarned,
                 Fused!ScoredIsChecked
  <2>2. CASE ~(tries[s] < MaxTransientRetries)
    BY <1>6, <2>2, FusedRecord DEF Fused!Saturated, Ways, Fused!Ran
  <2> QED BY <2>1, <2>2
<1>7. CASE Fused!Interpret
  <2>1. /\ verdict' = IF Fused!Precheck = "consult" THEN Fused!Checked ELSE Fused!Precheck
        /\ UNCHANGED <<format, compiled, truth, tries, res>>
        /\ \A s \in Fused!StepNames : Fused!Present(s) => truth[s] # "none"
    BY <1>7 DEF Fused!Interpret
  <2>2. Fused!TypeOK'
    BY <2>1, InterpretTells DEF FusedInv, Fused!TypeOK
  <2>3. FusedKnown'
    BY <2>1 DEF FusedInv, FusedKnown
  <2>4. Fused!BlameIsEarned' /\ Fused!ScoredIsChecked'
    BY <2>1, InterpretTells DEF Fused!BlameIsEarned, Fused!ScoredIsChecked
  <2> QED BY <2>2, <2>3, <2>4 DEF FusedInv
<1>8. CASE Fused!NoResults
  BY <1>8 DEF Fused!NoResults, FusedInv, FusedKnown, Fused!TypeOK,
              Fused!BlameIsEarned, Fused!ScoredIsChecked
<1> QED BY <1>1, <1>2, <1>3, <1>4, <1>5, <1>6, <1>7, <1>8 DEF Fused!Next, Fused!Step

-----------------------------------------------------------------------------
(* FIFOs between steps *)

\* A resolved step holds no descriptor; a keep-alive is let go only behind a
\* resolved producer; whatever was written is in the FIFO or read until the
\* consumer resolves or the runaway guard gives it up; a dropped keep-alive leaves
\* an empty FIFO behind; and where there is none, nothing is written before the
\* consumer has opened the FIFO, nor read before the producer has.
ChannelKnown(c) ==
  /\ Pipes!Done(Producer[c]) => wr[c] = "closed"
  /\ keep[c] \in {"dropped", "released", "abandoned"} => Pipes!Done(Producer[c])
  /\ wr[c] = "writing" => sent[c] < MaxWrites
  /\ got[c] + buf[c] <= sent[c]
  /\ Pipes!Waits(c) /\ keep[c] # "abandoned" => got[c] + buf[c] = sent[c]
  /\ Pipes!Waits(c) /\ keep[c] \in {"dropped", "released"} => buf[c] = 0
  /\ eof[c] => wr[c] = "closed"
  /\ rd[c] \in {"opening", "open", "reading"} => Pipes!Waits(c)
  /\ rd[c] = "closed" => ~Pipes!Waits(c)
  /\ keep[c] = "absent" /\ rd[c] = "no" =>
       sent[c] = 0 /\ wr[c] \in {"no", "opening", "closed"}
  /\ keep[c] = "absent" /\ rd[c] \in {"open", "reading"} =>
       wr[c] \notin {"no", "opening"}

ChannelsInv ==
  Pipes!TypeOK /\ (\A c \in Channels : ChannelKnown(c)) /\ Pipes!NoOutputLost

\* The layer starts with every keep-alive held or absent and nothing written.
LEMMA ChannelsInit == Pipes!Init => ChannelsInv
  BY ChannelsAssumption
     DEF Pipes!Init, ChannelsInv, ChannelKnown, Pipes!TypeOK, Pipes!NoOutputLost,
         Pipes!Done, Pipes!Waits

\* A step's own life: it is spawned, resolves (also by a timeout), and is over. Resolving closes its
\* descriptors and loses no output that a consumer still waits for.
LEMMA ProgramStep ==
  ASSUME ChannelsInv, NEW s \in Steps,
         Pipes!Spawn(s) \/ Pipes!Finish(s) \/ Pipes!TimeOut(s) \/ Pipes!Over(s)
  PROVE  ChannelsInv'
<1>1. CASE Pipes!Spawn(s) \/ Pipes!Over(s)
  <2>1. /\ UNCHANGED <<keep, rd, wr, buf, sent, got, eof>>
        /\ step' \in [Steps -> {"start", "run", "release", "over"}]
        /\ \A x \in Steps : Pipes!Done(x)' = Pipes!Done(x)
    BY <1>1 DEF ChannelsInv, Pipes!TypeOK, Pipes!Done, Pipes!Spawn, Pipes!Over, Pipes!ends
  <2>2. Pipes!TypeOK' /\ Pipes!NoOutputLost'
    BY <2>1 DEF ChannelsInv, Pipes!TypeOK, Pipes!NoOutputLost
  <2>3. ASSUME NEW c \in Channels PROVE ChannelKnown(c)'
    BY <2>1, ChannelsAssumption DEF ChannelsInv, ChannelKnown, Pipes!Waits
  <2> QED BY <2>2, <2>3 DEF ChannelsInv
<1>2. CASE Pipes!Finish(s) \/ Pipes!TimeOut(s)
  <2>1. /\ step' = [step EXCEPT ![s] = "release"]
        /\ step[s] \in {"start", "run"}
        /\ UNCHANGED <<keep, sent, got, eof>>
        /\ rd' = [c \in Channels |-> IF c \in Pipes!Consumes(s) THEN "closed" ELSE rd[c]]
        /\ wr' = [c \in Channels |-> IF c \in Pipes!Produces(s) THEN "closed" ELSE wr[c]]
        /\ buf' = [c \in Channels |-> Pipes!Left(c, keep[c], rd'[c], wr'[c])]
    BY <1>2 DEF Pipes!Finish, Pipes!TimeOut, Pipes!Runs, Pipes!Resolve
  <2>2. \A c \in Channels :
          \/ buf'[c] = buf[c]
          \/ buf'[c] = 0 /\ keep[c] # "held" /\ rd'[c] \notin {"opening", "open", "reading"}
    BY <2>1 DEF Pipes!Left
  <2>3. Pipes!TypeOK'
    BY <2>1, <2>2, ChannelsAssumption DEF ChannelsInv, Pipes!TypeOK
  <2>4. ASSUME NEW c \in Channels PROVE ChannelKnown(c)'
    BY <2>1, <2>2, ChannelsAssumption
       DEF ChannelsInv, ChannelKnown, Pipes!TypeOK, Pipes!Done, Pipes!Waits,
           Pipes!Consumes, Pipes!Produces
  <2>5. Pipes!NoOutputLost'
    BY <2>1 DEF ChannelsInv, Pipes!NoOutputLost
  <2> QED BY <2>3, <2>4, <2>5 DEF ChannelsInv
<1> QED BY <1>1, <1>2

\* One channel: opening, reading, writing, and the release of its keep-alive.
LEMMA ChannelStep ==
  ASSUME ChannelsInv, NEW c \in Channels, Pipes!Channel(c)
  PROVE  ChannelsInv'
<1> USE ChannelsAssumption
     DEF ChannelsInv, ChannelKnown, Pipes!TypeOK, Pipes!NoOutputLost, Pipes!Done,
         Pipes!Waits
<1>1. CASE Pipes!OpenRead(c)
  BY <1>1 DEF Pipes!OpenRead, Pipes!Runs, Pipes!HasWriter
<1>2. CASE Pipes!OpenWrite(c)
  BY <1>2 DEF Pipes!OpenWrite, Pipes!Runs, Pipes!HasReader
<1>3. CASE Pipes!StartRead(c)
  BY <1>3 DEF Pipes!StartRead, Pipes!Runs
<1>4. CASE Pipes!ReadData(c)
  <2>1. /\ got[c] + 1 \in 0 .. MaxWrites
        /\ buf[c] - 1 \in 0 .. Capacity
        /\ c \notin Orphans /\ (eof[c] => keep[c] = "abandoned")
    BY <1>4 DEF Pipes!ReadData
  <2>2. Pipes!TypeOK'
    BY <1>4, <2>1 DEF Pipes!ReadData
  <2>3. ASSUME NEW d \in Channels PROVE ChannelKnown(d)'
    BY <1>4 DEF Pipes!ReadData
  <2>4. Pipes!NoOutputLost'
    BY <1>4, <2>1 DEF Pipes!ReadData
  <2> QED BY <2>2, <2>3, <2>4
<1>5. CASE Pipes!ReadEof(c)
  <2>1. wr[c] = "closed" /\ (keep[c] # "abandoned" => got[c] = sent[c])
    BY <1>5 DEF Pipes!ReadEof, Pipes!HasWriter
  <2> QED BY <1>5, <2>1 DEF Pipes!ReadEof
<1>6. CASE Pipes!StartWrite(c)
  BY <1>6 DEF Pipes!StartWrite, Pipes!Runs
<1>7. CASE Pipes!WriteData(c)
  BY <1>7 DEF Pipes!WriteData, Pipes!HasReader
<1>8. CASE Pipes!Drop(c)
  BY <1>8 DEF Pipes!Drop, Pipes!Releasing, Pipes!MayDrop, Pipes!Left
<1>9. CASE Pipes!Restore(c)
  BY <1>9 DEF Pipes!Restore, Pipes!Releasing
<1>10. CASE Pipes!LetGo(c)
  BY <1>10 DEF Pipes!LetGo, Pipes!Releasing, Pipes!ends
<1>11. CASE Pipes!WriteFails(c)
  <2>1. rd[c] = "closed" /\ keep[c] = "absent"
    BY <1>11 DEF Pipes!WriteFails, Pipes!HasReader
  <2>2. buf' = [buf EXCEPT ![c] = 0]
    BY <1>11, <2>1 DEF Pipes!WriteFails, Pipes!Left
  <2> QED BY <1>11, <2>1, <2>2 DEF Pipes!WriteFails
<1>12. CASE Pipes!GiveUp(c)
  BY <1>12 DEF Pipes!GiveUp, Pipes!Releasing, Pipes!Left
<1> QED BY <1>1, <1>2, <1>3, <1>4, <1>5, <1>6, <1>7, <1>8, <1>9, <1>10, <1>11, <1>12
         DEF Pipes!Channel, Pipes!ReleaseStep

\* Every step of the layer keeps what is known of its channels.
LEMMA ChannelsStep ==
  ASSUME ChannelsInv, Pipes!Next
  PROVE  ChannelsInv'
BY ProgramStep, ChannelStep DEF Pipes!Next, Pipes!Program

-----------------------------------------------------------------------------
(* The compile cache *)

\* A worker that has not run the step holds no lease, a release script is
\* spawned only by a worker that is through, and a result is final.
WorkerKnown(w) ==
  /\ pc[w] \in {"look", "elect", "poll"} => w \notin led
  /\ w \in release => pc[w] = "done"
  /\ pc[w] = "store" => result[w] = "ran"
  /\ result[w] # "none" => pc[w] \in {"store", "done"}

CacheInv ==
  /\ Cache!TypeOK /\ \A w \in Workers : WorkerKnown(w)
  /\ Cache!LeaseKept /\ Cache!OnlySuccessCached

\* At first nobody leads and nothing is cached.
LEMMA CacheInit == Cache!Init => CacheInv
  BY DEF Cache!Init, CacheInv, WorkerKnown, Cache!TypeOK, Cache!LeaseKept, Cache!Leading,
         Cache!OnlySuccessCached, Cache!Results

\* A worker's own step.
LEMMA CacheWorkerStep ==
  ASSUME CacheInv, NEW w \in Workers, Cache!Step(w)
  PROVE  CacheInv'
<1> USE WorkersAssumption
     DEF CacheInv, WorkerKnown, Cache!TypeOK, Cache!Results, Cache!LeaseKept,
         Cache!Leading, Cache!OnlySuccessCached, Cache!Nobody
<1>1. CASE Cache!Hit(w)
  BY <1>1 DEF Cache!Hit
<1>2. CASE Cache!Miss(w)
  BY <1>2 DEF Cache!Miss
<1>3. CASE Cache!Lead(w)
  BY <1>3 DEF Cache!Lead
<1>4. CASE Cache!Follow(w)
  BY <1>4 DEF Cache!Follow
<1>5. CASE Cache!ElectFails(w)
  BY <1>5 DEF Cache!ElectFails
<1>6. CASE Cache!PollHit(w)
  BY <1>6 DEF Cache!PollHit
<1>7. CASE Cache!PollGivesUp(w)
  BY <1>7 DEF Cache!PollGivesUp
<1>8. CASE Cache!RunOk(w)
  BY <1>8 DEF Cache!RunOk
<1>9. CASE Cache!RunFails(w)
  BY <1>9 DEF Cache!RunFails, Cache!DropLease
<1>10. CASE Cache!Store(w)
  BY <1>10 DEF Cache!Store, Cache!Put, Cache!DropLease
<1> QED BY <1>1, <1>2, <1>3, <1>4, <1>5, <1>6, <1>7, <1>8, <1>9, <1>10
         DEF Cache!Step, Cache!Poll

\* Every step keeps the leases and the cache as promised, those of Redis and the
\* crash of a worker included.
LEMMA CacheStep ==
  ASSUME CacheInv, Cache!Next
  PROVE  CacheInv'
<1> USE WorkersAssumption
     DEF CacheInv, WorkerKnown, Cache!TypeOK, Cache!Results, Cache!LeaseKept,
         Cache!Leading, Cache!OnlySuccessCached, Cache!Nobody
<1>1. ASSUME NEW w \in Workers, Cache!Release(w) PROVE CacheInv'
  BY <1>1 DEF Cache!Release, Cache!Deleted
<1>2. ASSUME NEW w \in Workers, Cache!ReleaseLost(w) PROVE CacheInv'
  BY <1>2 DEF Cache!ReleaseLost
<1>3. ASSUME NEW w \in Workers, Cache!Crash(w) PROVE CacheInv'
  BY <1>3 DEF Cache!Crash
<1>4. CASE Cache!Expire
  BY <1>4 DEF Cache!Expire
<1> HIDE DEF CacheInv
<1> QED BY <1>1, <1>2, <1>3, <1>4, CacheWorkerStep DEF Cache!Next

-----------------------------------------------------------------------------
(* The order of the steps *)

\* The steps placed so far are closed under their dependencies and no group of
\* them waits for itself; while ordering goes on, a step's degree counts its
\* dependencies that are not placed and the current layer is what those placed
\* make ready.
LayersKnown ==
  /\ layers \in Seq((SUBSET StepIds) \ {{}})
  /\ \A i, j \in DOMAIN layers : i # j => layers[i] \intersect layers[j] = {}
  /\ \A t \in Order!Placed : deps[t] \subseteq Order!Placed
  /\ \A S \in (SUBSET Order!Placed) \ {{}} : \E t \in S : deps[t] \intersect S = {}

OrderingKnown ==
  phase = "order" =>
    /\ Order!Known(deps)
    /\ degree = [t \in StepIds |-> Cardinality(deps[t] \ Order!Placed)]
    /\ layer = {t \in StepIds : t \notin Order!Placed /\ deps[t] \subseteq Order!Placed}

\* The layers up to the k-th have been run, the later ones have not.
RunUpTo(k) ==
  \A j \in DOMAIN layers : \A t \in layers[j] : (outcome[t] = "none") <=> j > k

RunKnown ==
  /\ phase = "order" => outcome = [t \in StepIds |-> "none"]
  /\ phase \in {"run", "done"} => Order!Placed = StepIds /\ Order!Known(deps)
  /\ phase = "run" => \E k \in 0 .. Len(layers) : RunUpTo(k)

OrderInv ==
  /\ Order!TypeOK /\ LayersKnown /\ OrderingKnown /\ RunKnown
  /\ Order!RefusedExactly /\ Order!RanAfterDeps

\* ExecutionOrder counts with the library's cardinality.
LEMMA OrderCardinality == \A S : Order!Cardinality(S) = Cardinality(S)
  BY DEF Order!Cardinality, Cardinality

\* A degree counts a finite set of dependencies: it is a natural number, zero when
\* none is left, and one pass over a layer takes away those in the layer.
LEMMA Degrees ==
  ASSUME NEW D, D \subseteq StepIds \union {Missing}
  PROVE  /\ IsFiniteSet(D) /\ Cardinality(D) \in Nat
         /\ Cardinality(D) = 0 <=> D = {}
         /\ \A P, L : L \intersect P = {} =>
              /\ Cardinality(D \ P) \in Nat
              /\ Cardinality(D \ P) = 0 <=> D \subseteq P
              /\ Cardinality(D \ P) - Cardinality(D \intersect L)
                   = Cardinality(D \ (P \union L))
<1>1. IsFiniteSet(StepIds \union {Missing})
  BY OrderAssumption, FS_AddElement
<1>2. ASSUME NEW E, E \subseteq D
      PROVE  IsFiniteSet(E) /\ Cardinality(E) \in Nat /\ (Cardinality(E) = 0 <=> E = {})
  <2>1. IsFiniteSet(E)
    BY <1>1, <1>2, FS_Subset
  <2> QED BY <2>1, FS_CardinalityType, FS_EmptySet
<1>3. ASSUME NEW P, NEW L, L \intersect P = {}
      PROVE  /\ Cardinality(D \ P) \in Nat
             /\ Cardinality(D \ P) = 0 <=> D \subseteq P
             /\ Cardinality(D \ P) - Cardinality(D \intersect L)
                  = Cardinality(D \ (P \union L))
  <2>1. IsFiniteSet(D \ P) /\ Cardinality(D \ P) \in Nat
        /\ (Cardinality(D \ P) = 0 <=> D \ P = {})
    BY <1>2
  <2>2. Cardinality((D \ P) \ L) = Cardinality(D \ P) - Cardinality((D \ P) \intersect L)
    BY <2>1, FS_Difference
  <2>3. (D \ P) \ L = D \ (P \union L) /\ (D \ P) \intersect L = D \intersect L
    BY <1>3
  <2> QED BY <2>1, <2>2, <2>3
<1> QED BY <1>2, <1>3

\* Before the first round nothing is placed.
LEMMA OrderInit == Order!Init => OrderInv
<1> SUFFICES ASSUME Order!Init PROVE OrderInv
  OBVIOUS
<1>1. /\ deps \in [StepIds -> SUBSET (StepIds \union {Missing})]
      /\ degree = [t \in StepIds |-> Cardinality(deps[t])]
      /\ layer = {t \in StepIds : deps[t] = {}}
      /\ layers = <<>>
      /\ phase = IF Order!Known(deps) THEN "order" ELSE "error"
      /\ outcome = [t \in StepIds |-> "none"]
  BY OrderCardinality DEF Order!Init
<1>2. Order!Placed = {} /\ DOMAIN layers = {}
  BY <1>1 DEF Order!Placed
<1>3. degree \in [StepIds -> Nat]
  BY <1>1, Degrees
<1>4. LayersKnown
  BY <1>1, <1>2 DEF LayersKnown
<1>5. OrderingKnown
  BY <1>1, <1>2 DEF OrderingKnown
<1> QED BY <1>1, <1>2, <1>3, <1>4, <1>5
         DEF OrderInv, Order!TypeOK, RunKnown, Order!RefusedExactly, Order!RanAfterDeps

\* What is placed after a round.
LEMMA PlacedNext ==
  ASSUME layers \in Seq((SUBSET StepIds) \ {{}}), layer \in (SUBSET StepIds) \ {{}},
         layers' = Append(layers, layer)
  PROVE  /\ layers' \in Seq((SUBSET StepIds) \ {{}})
         /\ Order!Placed' = Order!Placed \union layer
         /\ DOMAIN layers' = 1 .. Len(layers) + 1
         /\ DOMAIN layers = 1 .. Len(layers)
         /\ \A i \in DOMAIN layers : layers'[i] = layers[i]
         /\ layers'[Len(layers) + 1] = layer
<1>1. /\ layers' \in Seq((SUBSET StepIds) \ {{}})
      /\ DOMAIN layers' = 1 .. Len(layers) + 1
      /\ DOMAIN layers = 1 .. Len(layers)
      /\ \A i \in DOMAIN layers : layers'[i] = layers[i]
      /\ layers'[Len(layers) + 1] = layer
      /\ Len(layers) \in Nat
  OBVIOUS
<1>2. DOMAIN layers' = DOMAIN layers \union {Len(layers) + 1}
  BY <1>1
<1>3. ASSUME NEW t PROVE t \in Order!Placed' <=> t \in Order!Placed \union layer
  <2>1. t \in Order!Placed' <=> \E i \in DOMAIN layers' : t \in layers'[i]
    BY DEF Order!Placed
  <2>2. t \in Order!Placed <=> \E i \in DOMAIN layers : t \in layers[i]
    BY DEF Order!Placed
  <2> QED BY <2>1, <2>2, <1>1, <1>2
<1> QED BY <1>1, <1>3

\* A round of the while loop.
LEMMA NextLayerStep ==
  ASSUME OrderInv, Order!NextLayer
  PROVE  OrderInv'
<1>1. /\ phase = "order" /\ layer # {} /\ phase' = phase /\ deps' = deps
      /\ outcome' = outcome
      /\ degree' = [t \in StepIds |-> Order!Lowered(t)]
      /\ layer' = {t \in StepIds : degree[t] > 0 /\ Order!Lowered(t) = 0}
      /\ layers' = Append(layers, layer)
  BY DEF Order!NextLayer
<1> DEFINE P == Order!Placed
           L == layer
<1>2. /\ L \in (SUBSET StepIds) \ {{}}
      /\ Order!Known(deps)
      /\ degree = [t \in StepIds |-> Cardinality(deps[t] \ P)]
      /\ L = {t \in StepIds : t \notin P /\ deps[t] \subseteq P}
      /\ deps \in [StepIds -> SUBSET (StepIds \union {Missing})]
  BY <1>1 DEF OrderInv, OrderingKnown, Order!TypeOK
<1>3. /\ layers' \in Seq((SUBSET StepIds) \ {{}})
      /\ Order!Placed' = P \union L
      /\ DOMAIN layers' = 1 .. Len(layers) + 1
      /\ DOMAIN layers = 1 .. Len(layers)
      /\ \A i \in DOMAIN layers : layers'[i] = layers[i]
      /\ layers'[Len(layers) + 1] = L
      /\ Len(layers) \in Nat
  BY <1>1, <1>2, PlacedNext DEF OrderInv, LayersKnown
<1>4. \A t \in P : deps[t] \subseteq P
  BY DEF OrderInv, LayersKnown
<1>5. P \subseteq StepIds /\ L \intersect P = {}
  <2>1. ASSUME NEW i \in DOMAIN layers PROVE layers[i] \subseteq StepIds
    BY <2>1 DEF OrderInv, Order!TypeOK
  <2> QED BY <1>2, <2>1 DEF Order!Placed
<1>6. ASSUME NEW t \in StepIds
      PROVE  /\ Order!Lowered(t) = Cardinality(deps[t] \ (P \union L))
             /\ Order!Lowered(t) \in Nat
             /\ degree[t] > 0 <=> ~(deps[t] \subseteq P)
             /\ Order!Lowered(t) = 0 <=> deps[t] \subseteq P \union L
  <2>1. deps[t] \subseteq StepIds \union {Missing}
    BY <1>2
  <2>2. Order!Lowered(t) = Cardinality(deps[t] \ P) - Cardinality(deps[t] \intersect L)
    BY <1>2, OrderCardinality DEF Order!Lowered
  <2>3. /\ Cardinality(deps[t] \ P) \in Nat
        /\ Cardinality(deps[t] \ P) = 0 <=> deps[t] \subseteq P
        /\ Cardinality(deps[t] \ P) - Cardinality(deps[t] \intersect L)
             = Cardinality(deps[t] \ (P \union L))
    BY <2>1, <1>5, Degrees, ZenonT(60)
  <2>4. {} \intersect (P \union L) = {}
    OBVIOUS
  <2>5. /\ Cardinality(deps[t] \ (P \union L)) \in Nat
        /\ Cardinality(deps[t] \ (P \union L)) = 0 <=> deps[t] \subseteq P \union L
    BY <2>1, <2>4, Degrees
  <2>6. degree[t] = Cardinality(deps[t] \ P)
    BY <1>2
  <2> HIDE DEF P, L
  <2> QED BY <2>2, <2>3, <2>5, <2>6
<1>7. OrderingKnown'
  <2>1. degree' = [t \in StepIds |-> Cardinality(deps'[t] \ Order!Placed')]
    BY <1>1, <1>3, <1>6
  <2>2. layer' = {t \in StepIds : t \notin Order!Placed' /\ deps'[t] \subseteq Order!Placed'}
    <3>1. ASSUME NEW t \in StepIds
          PROVE  degree[t] > 0 /\ Order!Lowered(t) = 0
                   <=> t \notin P \union L /\ deps[t] \subseteq P \union L
      BY <1>2, <1>4, <1>6
    <3> HIDE DEF P, L
    <3> QED BY <3>1, <1>1, <1>3
  <2> QED BY <2>1, <2>2, <1>1, <1>2 DEF OrderingKnown, Order!Known
<1>8. LayersKnown'
  <2>1. ASSUME NEW i \in DOMAIN layers', NEW j \in DOMAIN layers', i # j
        PROVE  layers'[i] \intersect layers'[j] = {}
    <3>1. \A k \in DOMAIN layers : layers[k] \intersect L = {}
      BY <1>5 DEF Order!Placed
    <3>2. CASE i \in DOMAIN layers /\ j \in DOMAIN layers
      BY <2>1, <3>2, <1>3 DEF OrderInv, LayersKnown
    <3>3. CASE i = Len(layers) + 1 /\ j \in DOMAIN layers
      BY <3>1, <3>3, <1>3
    <3>4. CASE j = Len(layers) + 1 /\ i \in DOMAIN layers
      BY <3>1, <3>4, <1>3
    <3> QED BY <2>1, <3>2, <3>3, <3>4, <1>3
  <2>2. \A t \in Order!Placed' : deps'[t] \subseteq Order!Placed'
    BY <1>1, <1>2, <1>3, <1>4
  <2>3. ASSUME NEW S \in (SUBSET Order!Placed') \ {{}}
        PROVE  \E t \in S : deps'[t] \intersect S = {}
    <3>1. CASE S \intersect P = {}
      <4>1. PICK t \in S : TRUE
        BY <2>3
      <4>2. t \in L /\ deps[t] \subseteq P
        BY <4>1, <3>1, <2>3, <1>3, <1>2
      <4> QED BY <4>2, <3>1, <1>1
    <3>2. CASE S \intersect P # {}
      <4>1. S \intersect P \in (SUBSET P) \ {{}}
        BY <3>2
      <4>2. PICK t \in S \intersect P : deps[t] \intersect (S \intersect P) = {}
        BY <4>1 DEF OrderInv, LayersKnown
      <4>3. deps[t] \subseteq P
        BY <4>2, <1>4
      <4> QED BY <4>2, <4>3, <1>1
    <3> QED BY <3>1, <3>2
  <2> QED BY <2>1, <2>2, <2>3, <1>3 DEF LayersKnown
<1>9. RunKnown' /\ Order!RefusedExactly' /\ Order!RanAfterDeps'
  BY <1>1 DEF OrderInv, RunKnown, Order!RefusedExactly, Order!RanAfterDeps, Order!DepsOk
<1>10. Order!TypeOK'
  <2>1. \A i \in DOMAIN layers' : layers'[i] \subseteq StepIds
    BY <1>3
  <2>2. degree' \in [StepIds -> Nat]
    BY <1>1, <1>6
  <2> QED BY <1>1, <2>1, <2>2 DEF OrderInv, Order!TypeOK
<1> QED BY <1>7, <1>8, <1>9, <1>10 DEF OrderInv

\* The loop is over: the steps that were not placed wait for each other, and
\* when all are placed no group of steps does.
LEMMA OrderedStep ==
  ASSUME OrderInv, Order!Ordered
  PROVE  OrderInv'
<1>1. /\ phase = "order" /\ layer = {}
      /\ phase' = IF Order!Complete THEN "run" ELSE "error"
      /\ UNCHANGED <<deps, degree, layer, layers, outcome>>
  BY DEF Order!Ordered
<1>2. /\ Order!Known(deps)
      /\ layer = {t \in StepIds : t \notin Order!Placed /\ deps[t] \subseteq Order!Placed}
      /\ outcome = [t \in StepIds |-> "none"]
  BY <1>1 DEF OrderInv, OrderingKnown, RunKnown
<1>3. Order!Placed' = Order!Placed /\ Order!Known(deps)' /\ Order!Cyclic' = Order!Cyclic
  BY <1>1, <1>2 DEF Order!Placed, Order!Known, Order!Cyclic
<1>4. Order!TypeOK' /\ LayersKnown' /\ OrderingKnown' /\ Order!RanAfterDeps'
  <2>1. Order!TypeOK'
    BY <1>1 DEF OrderInv, Order!TypeOK
  <2>2. LayersKnown'
    BY <1>1, <1>3 DEF OrderInv, LayersKnown
  <2>3. OrderingKnown'
    BY <1>1 DEF OrderingKnown
  <2>4. Order!RanAfterDeps'
    BY <1>1, <1>2 DEF Order!RanAfterDeps
  <2> QED BY <2>1, <2>2, <2>3, <2>4
<1>5. CASE Order!Complete
  <2>1. phase' = "run" /\ Order!Placed = StepIds
    BY <1>1, <1>5 DEF Order!Complete
  <2>2. ~Order!Cyclic
    <3>1. \A S \in (SUBSET StepIds) \ {{}} : \E t \in S : deps[t] \intersect S = {}
      BY <2>1 DEF OrderInv, LayersKnown
    <3> QED BY <3>1 DEF Order!Cyclic
  <2>3. RunUpTo(0)'
    <3>1. \A j \in DOMAIN layers : j \in Nat /\ j > 0 /\ layers[j] \subseteq StepIds
      BY DEF OrderInv, LayersKnown
    <3> QED BY <3>1, <1>1, <1>2 DEF RunUpTo
  <2>4. 0 \in 0 .. Len(layers')
    BY <1>1 DEF OrderInv, LayersKnown
  <2>5. RunKnown'
    BY <2>1, <2>3, <2>4, <1>3 DEF RunKnown
  <2>6. Order!RefusedExactly'
    BY <2>1, <2>2, <1>3 DEF Order!RefusedExactly
  <2> QED BY <1>4, <2>5, <2>6 DEF OrderInv
<1>6. CASE ~Order!Complete
  <2>1. phase' = "error"
    BY <1>1, <1>6
  <2>2. Order!Cyclic
    <3> DEFINE S == StepIds \ Order!Placed
    <3>1. S \in (SUBSET StepIds) \ {{}}
      <4>1. Order!Placed \subseteq StepIds
        BY DEF OrderInv, Order!TypeOK, Order!Placed
      <4> QED BY <4>1, <1>6 DEF Order!Complete
    <3>2. \A t \in S : deps[t] \intersect S # {}
      <4>1. \A t \in S : ~(deps[t] \subseteq Order!Placed)
        BY <1>1, <1>2
      <4>2. \A t \in S : deps[t] \subseteq StepIds
        BY <1>2 DEF Order!Known
      <4> QED BY <4>1, <4>2
    <3> HIDE DEF S
    <3> QED BY <3>1, <3>2 DEF Order!Cyclic
  <2>3. RunKnown' /\ Order!RefusedExactly'
    BY <2>1, <2>2, <1>3 DEF RunKnown, Order!RefusedExactly
  <2> QED BY <1>4, <2>3 DEF OrderInv
<1> QED BY <1>5, <1>6

\* What does not change while the layers are run.
LEMMA OrderFrame ==
  ASSUME OrderInv, phase = "run", phase' \in {"run", "done"},
         UNCHANGED <<deps, degree, layer, layers>>,
         outcome' \in [StepIds -> {"none", "ok", "failed", "skipped"}]
  PROVE  /\ Order!TypeOK' /\ LayersKnown' /\ OrderingKnown' /\ Order!RefusedExactly'
         /\ Order!Placed' = StepIds /\ Order!Known(deps)' /\ Order!Placed = StepIds
<1>1. /\ Order!Placed' = Order!Placed /\ Order!Known(deps)' = Order!Known(deps)
      /\ Order!Cyclic' = Order!Cyclic
  BY DEF Order!Placed, Order!Known, Order!Cyclic
<1>2. Order!TypeOK'
  BY DEF OrderInv, Order!TypeOK
<1>3. LayersKnown'
  BY <1>1 DEF OrderInv, LayersKnown
<1>4. OrderingKnown'
  BY DEF OrderingKnown
<1> QED BY <1>1, <1>2, <1>3, <1>4 DEF OrderInv, RunKnown, Order!RefusedExactly

\* A layer is run: its steps had no result, so no dependency of a step that
\* already ran, or runs now, changes its own.
LEMMA RunLayerStep ==
  ASSUME OrderInv, Order!RunLayer
  PROVE  OrderInv'
<1>1. phase = "run" /\ UNCHANGED <<deps, degree, layer, layers, phase>>
  BY DEF Order!RunLayer
<1>2. PICK i \in DOMAIN layers :
        /\ Order!Current(i)
        /\ outcome' \in [StepIds -> {"none", "ok", "failed", "skipped"}]
        /\ \A t \in StepIds : IF t \in layers[i] THEN outcome'[t] \in Order!Results(t)
                                                 ELSE outcome'[t] = outcome[t]
  BY DEF Order!RunLayer
<1>3. /\ Order!TypeOK' /\ LayersKnown' /\ OrderingKnown' /\ Order!RefusedExactly'
      /\ Order!Placed' = StepIds /\ Order!Known(deps)' /\ Order!Known(deps)
  BY <1>1, <1>2, OrderFrame DEF OrderInv, RunKnown
<1>4. /\ \A j \in DOMAIN layers : j \in 1 .. Len(layers) /\ layers[j] # {}
                                  /\ layers[j] \subseteq StepIds
      /\ Len(layers) \in Nat /\ DOMAIN layers = 1 .. Len(layers)
      /\ \A j, k \in DOMAIN layers : j # k => layers[j] \intersect layers[k] = {}
  BY DEF OrderInv, LayersKnown
<1>5. /\ \A t \in layers[i] : outcome[t] = "none" /\ outcome'[t] # "none"
      /\ \A t \in StepIds \ layers[i] : outcome'[t] = outcome[t]
      /\ \A j \in 1 .. i - 1 : \A t \in layers[j] : outcome[t] # "none"
  BY <1>2, <1>4 DEF Order!Current, Order!Results
<1>6. Order!RanAfterDeps'
  <2>1. ASSUME NEW t \in StepIds, outcome'[t] \in {"ok", "failed"}, NEW d \in deps[t]
        PROVE  outcome'[d] = "ok"
    <3>1. d \in StepIds
      BY <1>3, <2>1 DEF Order!Known
    <3>2. outcome[d] = "ok"
      <4>1. CASE t \in layers[i]
        <5>1. outcome'[t] \in Order!Results(t)
          BY <1>2, <2>1, <4>1
        <5>2. Order!DepsOk(t)
          BY <5>1, <2>1 DEF Order!Results
        <5> QED BY <5>2, <2>1 DEF Order!DepsOk
      <4>2. CASE t \notin layers[i]
        <5>1. outcome[t] \in {"ok", "failed"}
          BY <1>5, <2>1, <4>2
        <5> QED BY <5>1, <2>1 DEF OrderInv, Order!RanAfterDeps, Order!DepsOk
      <4> QED BY <4>1, <4>2
    <3>3. d \notin layers[i]
      BY <3>2, <1>5
    <3> QED BY <3>1, <3>2, <3>3, <1>5
  <2> QED BY <2>1, <1>1 DEF Order!RanAfterDeps, Order!DepsOk
<1>7. RunKnown'
  <2>1. PICK k \in 0 .. Len(layers) : RunUpTo(k)
    BY <1>1 DEF OrderInv, RunKnown
  <2>2. \A j \in DOMAIN layers : \A t \in layers[j] : (outcome[t] = "none") <=> j > k
    BY <2>1 DEF RunUpTo
  <2>3. i > k
    BY <2>2, <1>4, <1>5
  <2>4. i <= k + 1
    <3>1. SUFFICES ASSUME i > k + 1 PROVE FALSE
      BY <1>4
    <3>2. k + 1 \in 1 .. i - 1 /\ k + 1 \in DOMAIN layers
      BY <3>1, <1>4
    <3>3. \A t \in layers[k + 1] : outcome[t] = "none" /\ outcome[t] # "none"
      BY <3>2, <2>2, <1>5
    <3> QED BY <3>2, <3>3, <1>4
  <2>5. i = k + 1 /\ k + 1 \in 0 .. Len(layers')
    BY <2>3, <2>4, <1>1, <1>4
  <2>6. ASSUME NEW j \in DOMAIN layers, NEW t \in layers[j]
        PROVE  (outcome'[t] = "none") <=> j > k + 1
    <3>1. CASE j = i
      BY <3>1, <2>5, <2>6, <1>4, <1>5
    <3>2. CASE j # i
      <4>1. t \in StepIds \ layers[i]
        BY <3>2, <2>6, <1>4
      <4>2. outcome'[t] = outcome[t]
        BY <4>1, <1>5
      <4> QED BY <4>2, <3>2, <2>2, <2>5, <2>6, <1>4
    <3> QED BY <3>1, <3>2
  <2>7. RunUpTo(k + 1)'
    BY <2>6, <1>1 DEF RunUpTo
  <2> QED BY <2>5, <2>7, <1>1, <1>3 DEF RunKnown
<1> QED BY <1>3, <1>6, <1>7 DEF OrderInv

\* No layer is left to run: every step has a result.
LEMMA FinishedStep ==
  ASSUME OrderInv, Order!Finished
  PROVE  OrderInv'
<1>1. /\ phase = "run" /\ phase' = "done"
      /\ \A i \in DOMAIN layers : ~Order!Current(i)
      /\ UNCHANGED <<deps, degree, layer, layers, outcome>>
  BY DEF Order!Finished
<1>2. /\ Order!TypeOK' /\ LayersKnown' /\ OrderingKnown' /\ Order!RefusedExactly'
      /\ Order!Placed' = StepIds /\ Order!Known(deps)' /\ Order!Placed = StepIds
  BY <1>1, OrderFrame DEF OrderInv, Order!TypeOK
<1>3. PICK k \in 0 .. Len(layers) : RunUpTo(k)
  BY <1>1 DEF OrderInv, RunKnown
<1>4. DOMAIN layers = 1 .. Len(layers) /\ Len(layers) \in Nat
  BY SMTT(30) DEF OrderInv, LayersKnown
<1>5. k = Len(layers)
  <2>1. ASSUME k < Len(layers) PROVE FALSE
    <3>1. k + 1 \in DOMAIN layers
      BY <2>1, <1>4
    <3>2. Order!Current(k + 1)
      BY <2>1, <3>1, <1>3, <1>4 DEF RunUpTo, Order!Current
    <3> QED BY <3>1, <3>2, <1>1
  <2>2. k \in Nat /\ k <= Len(layers)
    BY <1>4
  <2>3. \A m, n \in Nat : m <= n /\ ~(m < n) => m = n
    OBVIOUS
  <2> QED BY <2>1, <2>2, <2>3, <1>4
<1>6. ASSUME NEW t \in StepIds PROVE outcome[t] # "none"
  <2>1. PICK j \in DOMAIN layers : t \in layers[j]
    BY <1>2 DEF Order!Placed
  <2> QED BY <2>1, <1>3, <1>4, <1>5 DEF RunUpTo
<1>7. Order!RanAfterDeps' /\ RunKnown'
  BY <1>1, <1>2, <1>6 DEF OrderInv, Order!RanAfterDeps, Order!DepsOk, RunKnown
<1> QED BY <1>2, <1>7 DEF OrderInv

\* Every step of the ordering and of the layer loop keeps what is known.
LEMMA OrderStep ==
  ASSUME OrderInv, Order!Next
  PROVE  OrderInv'
BY NextLayerStep, OrderedStep, RunLayerStep, FinishedStep DEF Order!Next

-----------------------------------------------------------------------------
(* isolate boxes *)

Env == [offset : 0 .. Width - 1, reserved : BOOLEAN, made : BOOLEAN]

OpRow == [proc : Procs \union {Boxes!NoProc},
          phase : {"idle", "setup", "run", "clean", "done"}, envs : Seq(Env)]

BoxesTyped ==
  /\ Boxes!TypeOK
  /\ op \in [Ops -> OpRow]
  /\ box \in [0 .. Slots * Width - 1 -> {Boxes!Free} \union (Ops \X (1 .. NEnvs))]
  /\ \A o \in Ops : op[o].phase = "idle" => op[o].envs = <<>>
  /\ \A o \in Ops : Boxes!Live(o) => op[o].proc \in Procs /\ slot[op[o].proc] # -1

\* The lock of a slot has one owner; a process without one shares slot 0.
LocksKnown ==
  /\ \A p \in Procs : locked[p] => slot[p] # -1
  /\ \A p \in Procs : ~locked[p] /\ slot[p] # -1 => slot[p] = 0 /\ crowded
  /\ \A p, q \in Procs : locked[p] /\ locked[q] /\ p # q => slot[p] # slot[q]

\* Two live environments of a process never have the same reserved offset, and
\* until the slot was saturated every offset is reserved.
EnvsKnown ==
  /\ \A o, q \in Ops : Boxes!Live(o) /\ Boxes!Live(q) /\ op[o].proc = op[q].proc =>
       \A i \in DOMAIN op[o].envs, j \in DOMAIN op[q].envs :
         /\ op[o].envs[i].reserved /\ op[q].envs[j].reserved
         /\ op[o].envs[i].offset = op[q].envs[j].offset
         => o = q /\ i = j
  /\ \A o \in Ops : Boxes!Live(o) /\ ~laps[op[o].proc].used =>
       \A i \in DOMAIN op[o].envs : op[o].envs[i].reserved

\* A box that some environment still has to clean up is the one it was given.
BoxPlaced ==
  \A b \in DOMAIN box, o \in Ops, i \in 1 .. NEnvs : box[b] = <<o, i>> =>
    \/ <<o, i>> \in spilled
    \/ /\ Boxes!Live(o) /\ i \in Boxes!Made(o)
       /\ b = Boxes!BoxId(op[o].proc, op[o].envs[i].offset)

BoxesInv ==
  /\ BoxesTyped /\ LocksKnown /\ EnvsKnown /\ BoxPlaced
  /\ Boxes!BoxIsOwn /\ Boxes!ReservationsExact

\* The lowest free slot or offset exists: Min of a set of naturals is its member.
LEMMA LowestIsMember ==
  ASSUME NEW T, T \subseteq Nat, T # {}
  PROVE  Boxes!Min(T) \in T
<1> DEFINE R == OpToRel(<, Nat)
<1>1. IsWellFoundedOn(R, Nat)
  BY NatLessThanWellFounded
<1> HIDE DEF R
<1>2. PICK x \in T : \A y \in T : ~(<<y, x>> \in R)
  BY <1>1, WFMin
<1>3. \A y \in T : <<y, x>> \in R <=> y < x
  BY DEF R, OpToRel
<1>4. \A y \in T : x <= y
  <2> TAKE y \in T
  <2>1. x \in Nat /\ y \in Nat
    OBVIOUS
  <2>2. ~(y < x)
    BY <1>2, <1>3
  <2> QED BY <2>1, <2>2
<1> QED BY <1>4 DEF Boxes!Min

\* The boxes of a slot are its own: ids of different slots, and of different
\* offsets of a slot, are different, and every id names a box of the host.
LEMMA BoxIds ==
  ASSUME NEW s \in 0 .. Slots - 1, NEW t \in 0 .. Slots - 1,
         NEW x \in 0 .. Width - 1, NEW y \in 0 .. Width - 1
  PROVE  /\ s * Width + x \in 0 .. Slots * Width - 1
         /\ s * Width + x = t * Width + y => s = t /\ x = y
<1>1. \A a, b \in Nat : a < b => a * Width + Width <= b * Width
  <2> TAKE a, b \in Nat
  <2> HAVE a < b
  <2>1. PICK d \in Nat : b = a + 1 + d
    <3>1. b - a - 1 \in Nat /\ b = a + 1 + (b - a - 1)
      OBVIOUS
    <3> QED BY <3>1
  <2>2. b * Width = a * Width + Width + d * Width
    BY <2>1, BoxesAssumption
  <2>3. a * Width \in Nat /\ d * Width \in Nat
    BY BoxesAssumption
  <2> QED BY <2>2, <2>3, BoxesAssumption
<1>2. /\ s \in Nat /\ t \in Nat /\ s < Slots
      /\ s * Width \in Nat /\ t * Width \in Nat /\ Slots * Width \in Nat
  BY BoxesAssumption
<1>3. s * Width + Width <= Slots * Width
  BY <1>1, <1>2, BoxesAssumption
<1>4. s < t => s * Width + Width <= t * Width
  BY <1>1, <1>2
<1>5. t < s => t * Width + Width <= s * Width
  BY <1>1, <1>2
<1> QED BY <1>2, <1>3, <1>4, <1>5, BoxesAssumption

\* The host starts without slots, operations and boxes.
LEMMA BoxesInit == Boxes!Init => BoxesInv
<1> SUFFICES ASSUME Boxes!Init PROVE BoxesInv
  OBVIOUS
<1> USE BoxesAssumption DEF Boxes!Init
<1>1. \A o \in Ops : ~Boxes!Live(o) /\ op[o] \in OpRow /\ op[o].envs = <<>>
                     /\ op[o].proc = Boxes!NoProc
  BY DEF Boxes!Live, OpRow
<1>2. BoxesTyped
  <2>1. op \in [Ops -> OpRow]
    BY <1>1
  <2>2. \A o \in Ops : /\ op[o].phase \in {"idle", "setup", "run", "clean", "done"}
                       /\ op[o].proc \in Procs \union {Boxes!NoProc}
                       /\ Boxes!Live(o) => op[o].proc # Boxes!NoProc
                       /\ Len(op[o].envs) <= NEnvs
                       /\ DOMAIN op[o].envs = {}
    BY <1>1 DEF OpRow
  <2>3. /\ slot \in [Procs -> -1 .. Slots - 1]
        /\ locked \in [Procs -> BOOLEAN]
        /\ crowded \in BOOLEAN
        /\ inUse \in [Procs -> SUBSET (0 .. Width - 1)]
        /\ laps \in [Procs -> [next : 0 .. Width - 1, used : BOOLEAN]]
    <3>1. -1 \in -1 .. Slots - 1 /\ 0 \in 0 .. Width - 1
      OBVIOUS
    <3> QED BY <3>1
  <2>4. box \in [0 .. Slots * Width - 1 -> {Boxes!Free} \union (Ops \X (1 .. NEnvs))]
    OBVIOUS
  <2> QED BY <1>1, <2>1, <2>2, <2>3, <2>4 DEF BoxesTyped, Boxes!TypeOK
<1>3. LocksKnown /\ EnvsKnown /\ BoxPlaced /\ Boxes!BoxIsOwn
  BY <1>1 DEF LocksKnown, EnvsKnown, BoxPlaced, Boxes!BoxIsOwn, Boxes!Free
<1>4. Boxes!ReservationsExact
  BY <1>1 DEF Boxes!ReservationsExact
<1> QED BY <1>2, <1>3, <1>4 DEF BoxesInv

\* Within the capacity limits no other process has the slot.
LEMMA SlotIsOwn ==
  ASSUME BoxesTyped, LocksKnown, NEW p \in Procs, NEW q \in Procs, p # q,
         slot[p] # -1, slot[q] # -1, ~Boxes!Overcommitted(p)
  PROVE  slot[p] # slot[q]
BY DEF BoxesTyped, Boxes!TypeOK, LocksKnown, Boxes!Overcommitted

\* A reserved offset of a live environment is in use.
LEMMA ReservedInUse ==
  ASSUME BoxesTyped, Boxes!ReservationsExact, NEW o \in Ops, Boxes!Live(o),
         NEW i \in DOMAIN op[o].envs, op[o].envs[i].reserved
  PROVE  op[o].envs[i].offset \in inUse[op[o].proc]
<1>1. op[o].proc \in Procs
  BY DEF BoxesTyped
<1>2. op[o].envs[i].offset \in Boxes!Offsets(o)
  BY DEF Boxes!Offsets
<1> QED BY <1>1, <1>2 DEF Boxes!ReservationsExact

\* A process claims a slot: it has no operation yet.
LEMMA ClaimSlotStep ==
  ASSUME BoxesInv, NEW p \in Procs, Boxes!ClaimSlot(p)
  PROVE  BoxesInv'
<1>0. PICK S \in SUBSET Boxes!FreeSlots :
        /\ slot' = [slot EXCEPT ![p] = IF S = {} THEN 0 ELSE Boxes!Min(S)]
        /\ locked' = [locked EXCEPT ![p] = S # {}]
        /\ crowded' = (crowded \/ S = {})
  BY DEF Boxes!ClaimSlot
<1>1. slot[p] = -1 /\ UNCHANGED <<inUse, laps, op, box, spilled>>
  BY DEF Boxes!ClaimSlot
<1>2. S # {} =>
        /\ Boxes!Min(S) \in 0 .. Slots - 1
        /\ \A q \in Procs : ~(locked[q] /\ slot[q] = Boxes!Min(S))
  <2>1. S \subseteq Nat
    BY BoxesAssumption DEF Boxes!FreeSlots
  <2>2. S # {} => Boxes!Min(S) \in S
    BY <2>1, LowestIsMember
  <2> QED BY <2>2 DEF Boxes!FreeSlots
<1>3. /\ slot'[p] \in 0 .. Slots - 1
      /\ \A q \in Procs \ {p} : slot'[q] = slot[q] /\ locked'[q] = locked[q]
      /\ locked'[p] = (S # {})
      /\ slot'[p] = IF S = {} THEN 0 ELSE Boxes!Min(S)
      /\ slot' \in [Procs -> -1 .. Slots - 1]
      /\ locked' \in [Procs -> BOOLEAN] /\ crowded' \in BOOLEAN
      /\ slot'[p] # -1
  <2>1. slot \in [Procs -> -1 .. Slots - 1] /\ locked \in [Procs -> BOOLEAN]
        /\ crowded \in BOOLEAN
    BY DEF BoxesInv, BoxesTyped, Boxes!TypeOK
  <2>2. 0 \in 0 .. Slots - 1
    BY BoxesAssumption
  <2>3. \A k \in 0 .. Slots - 1 : k \in -1 .. Slots - 1 /\ k # -1
    BY BoxesAssumption
  <2> QED BY <2>1, <2>2, <2>3, <1>0, <1>1, <1>2
<1>4. \A o \in Ops : Boxes!Live(o) => op[o].proc \in Procs \ {p}
  BY <1>1 DEF BoxesInv, BoxesTyped
<1>5. BoxesTyped'
  BY <1>1, <1>3, <1>4 DEF BoxesInv, BoxesTyped, Boxes!TypeOK, Boxes!Live
<1>6. LocksKnown'
  <2>1. \A q \in Procs : locked'[q] => slot'[q] # -1
    BY <1>3 DEF BoxesInv, LocksKnown
  <2>2. \A q \in Procs : ~locked'[q] /\ slot'[q] # -1 => slot'[q] = 0 /\ crowded'
    BY <1>0, <1>1, <1>3 DEF BoxesInv, LocksKnown
  <2>3. ASSUME NEW q \in Procs, NEW r \in Procs, locked'[q], locked'[r], q # r
        PROVE  slot'[q] # slot'[r]
    <3>1. CASE q # p /\ r # p
      BY <2>3, <3>1, <1>3 DEF BoxesInv, LocksKnown
    <3>2. CASE q = p \/ r = p
      BY <2>3, <3>2, <1>2, <1>3
    <3> QED BY <3>1, <3>2
  <2> QED BY <2>1, <2>2, <2>3 DEF LocksKnown
<1>7. EnvsKnown' /\ BoxPlaced' /\ Boxes!ReservationsExact'
  <2>1. EnvsKnown'
    BY <1>1 DEF BoxesInv, EnvsKnown, Boxes!Live
  <2>2. BoxPlaced'
    BY <1>1, <1>3, <1>4 DEF BoxesInv, BoxPlaced, Boxes!Live, Boxes!Made, Boxes!BoxId
  <2>3. Boxes!ReservationsExact'
    BY <1>1 DEF BoxesInv, Boxes!ReservationsExact, Boxes!Live, Boxes!Offsets
  <2> QED BY <2>1, <2>2, <2>3
<1>8. Boxes!BoxIsOwn'
  <2> SUFFICES ASSUME NEW o \in Ops, Boxes!Live(o)', ~Boxes!Overcommitted(op[o].proc)',
                      NEW i \in Boxes!Made(o)'
               PROVE  (box[Boxes!BoxId(op[o].proc, op[o].envs[i].offset)] = <<o, i>>)'
    BY DEF Boxes!BoxIsOwn
  <2>1. Boxes!Live(o) /\ i \in Boxes!Made(o) /\ op[o].proc \in Procs \ {p}
    BY <1>1, <1>4 DEF Boxes!Live, Boxes!Made
  <2>2. ~Boxes!Overcommitted(op[o].proc)
    BY <1>0, <1>1, <1>3, <2>1 DEF Boxes!Overcommitted
  <2>3. box[Boxes!BoxId(op[o].proc, op[o].envs[i].offset)] = <<o, i>>
    BY <2>1, <2>2 DEF BoxesInv, Boxes!BoxIsOwn
  <2> QED BY <2>1, <2>3, <1>1, <1>3 DEF Boxes!BoxId
<1> QED BY <1>5, <1>6, <1>7, <1>8 DEF BoxesInv

\* An operation begins, without any environment.
LEMMA BeginStep ==
  ASSUME BoxesInv, NEW o \in Ops, NEW p \in Procs, Boxes!Begin(o, p)
  PROVE  BoxesInv'
<1>1. /\ op[o].phase = "idle" /\ slot[p] # -1
      /\ op' = [op EXCEPT ![o].proc = p, ![o].phase = "setup"]
      /\ UNCHANGED <<slot, locked, crowded, inUse, laps, box, spilled>>
  BY DEF Boxes!Begin
<1>2. /\ op'[o] = [op[o] EXCEPT !.proc = p, !.phase = "setup"]
      /\ \A q \in Ops \ {o} : op'[q] = op[q]
      /\ op[o].envs = <<>> /\ op'[o].envs = <<>> /\ op'[o].proc = p
      /\ op'[o].phase = "setup" /\ op'[o] \in OpRow
      /\ op' \in [Ops -> OpRow]
  BY <1>1, SMTT(30) DEF BoxesInv, BoxesTyped, OpRow
<1>3. /\ ~Boxes!Live(o) /\ Boxes!Live(o)'
      /\ \A q \in Ops \ {o} : Boxes!Live(q)' = Boxes!Live(q)
      /\ \A q \in Ops : Boxes!Made(q)' = Boxes!Made(q) /\ Boxes!Offsets(q)' = Boxes!Offsets(q)
      /\ Boxes!Made(o) = {} /\ Boxes!Offsets(o) = {}
  BY <1>1, <1>2 DEF Boxes!Live, Boxes!Made, Boxes!Offsets
<1>4. BoxesTyped'
  <2>1. Len(op'[o].envs) <= NEnvs /\ DOMAIN op'[o].envs = {}
    BY <1>2, BoxesAssumption
  <2>2. p # Boxes!NoProc
    BY ProcsAssumption DEF Boxes!NoProc
  <2>3. Boxes!TypeOK'
    BY <1>1, <1>2, <1>3, <2>1, <2>2 DEF BoxesInv, BoxesTyped, Boxes!TypeOK
  <2> QED BY <1>1, <1>2, <1>3, <2>3 DEF BoxesInv, BoxesTyped
<1>5. LocksKnown'
  BY <1>1 DEF BoxesInv, LocksKnown
<1>6. EnvsKnown'
  BY <1>1, <1>2, <1>3 DEF BoxesInv, EnvsKnown
<1>7. BoxPlaced'
  BY <1>1, <1>2, <1>3 DEF BoxesInv, BoxPlaced, Boxes!BoxId
<1>8. Boxes!BoxIsOwn'
  <2> SUFFICES ASSUME NEW q \in Ops, Boxes!Live(q)', ~Boxes!Overcommitted(op[q].proc)',
                      NEW i \in Boxes!Made(q)'
               PROVE  (box[Boxes!BoxId(op[q].proc, op[q].envs[i].offset)] = <<q, i>>)'
    BY DEF Boxes!BoxIsOwn
  <2>1. q \in Ops \ {o} /\ Boxes!Live(q) /\ i \in Boxes!Made(q)
    BY <1>3
  <2>2. ~Boxes!Overcommitted(op[q].proc)
    BY <1>1, <1>2, <2>1 DEF Boxes!Overcommitted
  <2> QED BY <2>1, <2>2, <1>1, <1>2, ZenonT(60) DEF BoxesInv, Boxes!BoxIsOwn, Boxes!BoxId
<1>9. Boxes!ReservationsExact'
  <2> SUFFICES ASSUME NEW r \in Procs
               PROVE  inUse[r] = UNION {Boxes!Offsets(q)' :
                                        q \in {x \in Ops : Boxes!Live(x)' /\ op'[x].proc = r}}
    BY <1>1 DEF Boxes!ReservationsExact
  <2>1. inUse[r] = UNION {Boxes!Offsets(q) : q \in {x \in Ops : Boxes!Live(x) /\ op[x].proc = r}}
    BY DEF BoxesInv, Boxes!ReservationsExact
  <2> QED BY <2>1, <1>2, <1>3
<1> QED BY <1>4, <1>5, <1>6, <1>7, <1>8, <1>9 DEF BoxesInv

\* What allocate_box_id gives: a free offset, then reserved, or the next of the
\* wrapping counter, and then the slot is known to be saturated.
Allocates(p, e) ==
  /\ e \in Env
  /\ inUse' \in [Procs -> SUBSET (0 .. Width - 1)]
  /\ laps' \in [Procs -> [next : 0 .. Width - 1, used : BOOLEAN]]
  /\ \A q \in Procs \ {p} : inUse'[q] = inUse[q] /\ laps'[q] = laps[q]
  /\ laps[p].used => laps'[p].used
  /\ \/ /\ e.reserved /\ e.offset \notin inUse[p]
        /\ inUse'[p] = inUse[p] \union {e.offset}
     \/ /\ ~e.reserved /\ inUse'[p] = inUse[p] /\ laps'[p].used

\* allocate_box_id does what it should, whether or not the box could be made.
LEMMA AllocatedEnv ==
  ASSUME BoxesInv, NEW p \in Procs, Boxes!Reserve(p)
  PROVE  /\ Allocates(p, Boxes!Allocated(p, TRUE)) /\ Boxes!Allocated(p, TRUE).made
         /\ Allocates(p, Boxes!Allocated(p, FALSE)) /\ ~Boxes!Allocated(p, FALSE).made
<1> DEFINE F == Boxes!FreeOffsets(p)
<1>1. /\ inUse \in [Procs -> SUBSET (0 .. Width - 1)]
      /\ laps \in [Procs -> [next : 0 .. Width - 1, used : BOOLEAN]]
      /\ laps[p].next \in 0 .. Width - 1
  BY DEF BoxesInv, BoxesTyped, Boxes!TypeOK
<1>2. CASE F # {}
  <2>1. F \subseteq Nat
    BY BoxesAssumption DEF Boxes!FreeOffsets
  <2>2. Boxes!Min(F) \in (0 .. Width - 1) \ inUse[p]
    <3>1. Boxes!Min(F) \in F
      BY <1>2, <2>1, LowestIsMember
    <3> QED BY <3>1 DEF Boxes!FreeOffsets
  <2>3. /\ Boxes!Allocated(p, TRUE)
             = [offset |-> Boxes!Min(F), reserved |-> TRUE, made |-> TRUE]
        /\ Boxes!Allocated(p, FALSE)
             = [offset |-> Boxes!Min(F), reserved |-> TRUE, made |-> FALSE]
    BY <1>2 DEF Boxes!Allocated
  <2>4. inUse' = [inUse EXCEPT ![p] = @ \union {Boxes!Min(F)}] /\ laps' = laps
    BY <1>2 DEF Boxes!Reserve
  <2> HIDE DEF F
  <2>5. inUse' \in [Procs -> SUBSET (0 .. Width - 1)]
    BY <1>1, <2>2, <2>4
  <2>6. /\ Allocates(p, [offset |-> Boxes!Min(F), reserved |-> TRUE, made |-> TRUE])
        /\ Allocates(p, [offset |-> Boxes!Min(F), reserved |-> TRUE, made |-> FALSE])
    BY <1>1, <2>2, <2>4, <2>5 DEF Allocates, Env
  <2>7. /\ [offset |-> Boxes!Min(F), reserved |-> TRUE, made |-> TRUE].made
        /\ ~[offset |-> Boxes!Min(F), reserved |-> TRUE, made |-> FALSE].made
    OBVIOUS
  <2> QED BY <2>3, <2>6, <2>7, Zenon
<1>3. CASE F = {}
  <2>1. /\ Boxes!Allocated(p, TRUE)
             = [offset |-> laps[p].next, reserved |-> FALSE, made |-> TRUE]
        /\ Boxes!Allocated(p, FALSE)
             = [offset |-> laps[p].next, reserved |-> FALSE, made |-> FALSE]
    BY <1>3 DEF Boxes!Allocated, Boxes!Fallback
  <2>2. /\ laps' = [laps EXCEPT ![p] = [next |-> (@.next + 1) % Width, used |-> TRUE]]
        /\ inUse' = inUse
    BY <1>3 DEF Boxes!Reserve
  <2>3. (laps[p].next + 1) % Width \in 0 .. Width - 1
    BY <1>1, BoxesAssumption
  <2>4. laps' \in [Procs -> [next : 0 .. Width - 1, used : BOOLEAN]] /\ laps'[p].used
    BY <1>1, <2>2, <2>3
  <2>5. /\ Allocates(p, [offset |-> laps[p].next, reserved |-> FALSE, made |-> TRUE])
        /\ Allocates(p, [offset |-> laps[p].next, reserved |-> FALSE, made |-> FALSE])
    BY <1>1, <2>2, <2>4 DEF Allocates, Env
  <2>6. /\ [offset |-> laps[p].next, reserved |-> FALSE, made |-> TRUE].made
        /\ ~[offset |-> laps[p].next, reserved |-> FALSE, made |-> FALSE].made
    OBVIOUS
  <2> QED BY <2>1, <2>5, <2>6, Zenon
<1> QED BY <1>2, <1>3

\* What Append does to the elements of a sequence.
LEMMA AppendElements ==
  ASSUME NEW S, NEW s \in Seq(S), NEW x \in S
  PROVE  /\ Len(Append(s, x)) = Len(s) + 1 /\ DOMAIN Append(s, x) = 1 .. Len(s) + 1
         /\ \A i \in DOMAIN s : Append(s, x)[i] = s[i]
         /\ Append(s, x)[Len(s) + 1] = x
OBVIOUS

\* A round of the loop over the environments of an operation: the n-th of them.
Round(o, ph, p, e, n) ==
  /\ p = op[o].proc /\ n = Len(op[o].envs) + 1
  /\ op[o].phase = "setup" /\ Len(op[o].envs) < NEnvs
  /\ op' = [op EXCEPT ![o].envs = Append(@, e), ![o].phase = ph]
  /\ UNCHANGED <<slot, locked, crowded, spilled>>

Initializes(o, p, e, n) ==
  box' = IF e.made THEN [box EXCEPT ![Boxes!BoxId(p, e.offset)] = <<o, n>>] ELSE box

\* What a round makes of the operation and its environments.
LEMMA RoundEnvs ==
  ASSUME BoxesInv, NEW o \in Ops, NEW ph \in {"setup", "clean"}, NEW p, NEW e \in Env, NEW n,
         Round(o, ph, p, e, n)
  PROVE  /\ Boxes!Live(o) /\ p \in Procs /\ slot[p] \in 0 .. Slots - 1
         /\ op[o].proc = p /\ op'[o].proc = p /\ op'[o].phase = ph
         /\ op' \in [Ops -> OpRow] /\ n \in 1 .. NEnvs /\ Len(op'[o].envs) = n
         /\ DOMAIN op'[o].envs = DOMAIN op[o].envs \union {n}
         /\ n \notin DOMAIN op[o].envs
         /\ \A i \in DOMAIN op[o].envs : op'[o].envs[i] = op[o].envs[i]
         /\ op'[o].envs[n] = e
         /\ \A q \in Ops \ {o} : op'[q] = op[q]
<1>0. /\ op[o].proc = p /\ n = Len(op[o].envs) + 1
      /\ op[o].phase = "setup" /\ Len(op[o].envs) < NEnvs
      /\ op' = [op EXCEPT ![o].envs = Append(@, e), ![o].phase = ph]
  BY DEF Round
<1>1. Boxes!Live(o)
  BY <1>0 DEF Boxes!Live
<1>2. p \in Procs /\ slot[p] # -1 /\ slot[p] \in -1 .. Slots - 1
  BY <1>0, <1>1 DEF BoxesInv, BoxesTyped, Boxes!TypeOK
<1>3. slot[p] \in 0 .. Slots - 1
  BY <1>2, BoxesAssumption
<1>4. op \in [Ops -> OpRow] /\ op[o] \in OpRow
  BY DEF BoxesInv, BoxesTyped
<1>5. op[o].envs \in Seq(Env)
  BY <1>4 DEF OpRow
<1>6. Len(op[o].envs) \in Nat /\ DOMAIN op[o].envs = 1 .. Len(op[o].envs)
  BY <1>5
<1>7. /\ n \in 1 .. NEnvs /\ n \notin DOMAIN op[o].envs
      /\ 1 .. n = DOMAIN op[o].envs \union {n}
  BY <1>0, <1>6, BoxesAssumption, SMTT(30)
<1>8. /\ op'[o] = [op[o] EXCEPT !.envs = Append(op[o].envs, e), !.phase = ph]
      /\ \A q \in Ops \ {o} : op'[q] = op[q]
  BY <1>0, <1>4
<1>9. Append(op[o].envs, e) \in Seq(Env)
  BY <1>5
<1>10. op'[o] \in OpRow
  BY <1>4, <1>8, <1>9 DEF OpRow
<1>11. op' \in [Ops -> OpRow]
  BY <1>0, <1>4, <1>10
<1>12. /\ op'[o].envs = Append(op[o].envs, e)
       /\ op'[o].phase = ph /\ op'[o].proc = p
  BY <1>0, <1>4, <1>8 DEF OpRow
<1>13. /\ Len(op'[o].envs) = n /\ DOMAIN op'[o].envs = 1 .. n
       /\ \A i \in DOMAIN op[o].envs : op'[o].envs[i] = op[o].envs[i]
       /\ op'[o].envs[n] = e
  <2>1. /\ Len(Append(op[o].envs, e)) = Len(op[o].envs) + 1
        /\ DOMAIN Append(op[o].envs, e) = 1 .. Len(op[o].envs) + 1
        /\ \A i \in DOMAIN op[o].envs : Append(op[o].envs, e)[i] = op[o].envs[i]
        /\ Append(op[o].envs, e)[Len(op[o].envs) + 1] = e
    BY <1>5, AppendElements
  <2>2. n = Len(op[o].envs) + 1
    BY <1>0
  <2> QED BY <1>12, <2>1, <2>2, Zenon
<1> QED BY <1>0, <1>1, <1>2, <1>3, <1>7, <1>8, <1>11, <1>12, <1>13

\* The box of a live environment is a box of the host, and different slots or
\* offsets are different boxes.
LEMMA EnvBox ==
  ASSUME BoxesTyped, NEW p \in Procs, NEW q \in Procs,
         NEW x \in 0 .. Width - 1, NEW y \in 0 .. Width - 1,
         slot[p] # -1, slot[q] # -1
  PROVE  /\ Boxes!BoxId(p, x) \in DOMAIN box
         /\ Boxes!BoxId(p, x) = Boxes!BoxId(q, y) => slot[p] = slot[q] /\ x = y
<1>1. slot[p] \in 0 .. Slots - 1 /\ slot[q] \in 0 .. Slots - 1
  <2>1. slot[p] \in -1 .. Slots - 1 /\ slot[q] \in -1 .. Slots - 1
    BY DEF BoxesTyped, Boxes!TypeOK
  <2> QED BY <2>1, BoxesAssumption
<1>2. DOMAIN box = 0 .. Slots * Width - 1
  BY DEF BoxesTyped, Boxes!TypeOK
<1> QED BY <1>1, <1>2, BoxIds DEF Boxes!BoxId

\* What is known of one live environment.
LEMMA EnvTyped ==
  ASSUME BoxesTyped, NEW o \in Ops, Boxes!Live(o), NEW i \in DOMAIN op[o].envs
  PROVE  /\ op[o].proc \in Procs /\ slot[op[o].proc] # -1
         /\ op[o].envs[i] \in Env /\ op[o].envs[i].offset \in 0 .. Width - 1
         /\ i \in 1 .. NEnvs
<1>1. op[o].proc \in Procs /\ slot[op[o].proc] # -1
  BY DEF BoxesTyped
<1>2. op[o].envs \in Seq(Env)
  BY DEF BoxesTyped, OpRow
<1>3. op[o].envs[i] \in Env /\ i \in 1 .. Len(op[o].envs) /\ Len(op[o].envs) \in Nat
  BY <1>2
<1>4. Len(op[o].envs) <= NEnvs
  BY DEF BoxesTyped, Boxes!TypeOK
<1> QED BY <1>1, <1>3, <1>4, BoxesAssumption DEF Env

\* A round keeps the types, the locks and the reservations.
LEMMA RoundTyped ==
  ASSUME BoxesInv, NEW o \in Ops, NEW ph \in {"setup", "clean"}, NEW p, NEW e, NEW n,
         Round(o, ph, p, e, n), Allocates(p, e), Initializes(o, p, e, n)
  PROVE  BoxesTyped' /\ LocksKnown' /\ EnvsKnown' /\ Boxes!ReservationsExact'
<1>1. /\ Boxes!Live(o) /\ p \in Procs /\ slot[p] \in 0 .. Slots - 1
      /\ op[o].proc = p /\ op'[o].proc = p /\ op'[o].phase = ph
      /\ op' \in [Ops -> OpRow] /\ n \in 1 .. NEnvs /\ Len(op'[o].envs) = n
      /\ DOMAIN op'[o].envs = DOMAIN op[o].envs \union {n}
      /\ n \notin DOMAIN op[o].envs
      /\ \A i \in DOMAIN op[o].envs : op'[o].envs[i] = op[o].envs[i]
      /\ op'[o].envs[n] = e
      /\ \A q \in Ops \ {o} : op'[q] = op[q]
  BY RoundEnvs DEF Allocates
<1>2. UNCHANGED <<slot, locked, crowded, spilled>>
  BY DEF Round
<1>3. \A q \in Ops : Boxes!Live(q)' = Boxes!Live(q) /\ op'[q].proc = op[q].proc
  BY <1>1 DEF Boxes!Live
<1>4. e \in Env /\ e.offset \in 0 .. Width - 1
  BY DEF Allocates, Env
<1>5. BoxesTyped'
  <2>1. box' \in [0 .. Slots * Width - 1 -> {Boxes!Free} \union (Ops \X (1 .. NEnvs))]
    <3>1. box \in [0 .. Slots * Width - 1 -> {Boxes!Free} \union (Ops \X (1 .. NEnvs))]
      BY DEF BoxesInv, BoxesTyped
    <3>2. <<o, n>> \in Ops \X (1 .. NEnvs)
      BY <1>1
    <3>3. box' = box \/ box' = [box EXCEPT ![Boxes!BoxId(p, e.offset)] = <<o, n>>]
      BY DEF Initializes
    <3> QED BY <3>1, <3>2, <3>3
  <2>2. /\ inUse' \in [Procs -> SUBSET (0 .. Width - 1)]
        /\ laps' \in [Procs -> [next : 0 .. Width - 1, used : BOOLEAN]]
    BY DEF Allocates
  <2>3. ASSUME NEW q \in Ops
        PROVE  /\ op'[q].phase \in {"idle", "setup", "run", "clean", "done"}
               /\ op'[q].proc \in Procs \union {Boxes!NoProc}
               /\ Boxes!Live(q)' => op'[q].proc # Boxes!NoProc
               /\ Len(op'[q].envs) <= NEnvs
               /\ \A i \in DOMAIN op'[q].envs : op'[q].envs[i].offset \in 0 .. Width - 1
    <3>1. CASE q # o
      BY <3>1, <1>1, <1>3 DEF BoxesInv, BoxesTyped, Boxes!TypeOK
    <3>2. CASE q = o
      <4>1. op'[q] \in OpRow
        BY <1>1
      <4>2. Boxes!Live(q)' => op'[q].proc # Boxes!NoProc
        BY <1>3 DEF BoxesInv, BoxesTyped, Boxes!TypeOK
      <4>3. Len(op'[q].envs) <= NEnvs
        BY <3>2, <1>1, BoxesAssumption
      <4>4. \A i \in DOMAIN op'[q].envs : op'[q].envs[i].offset \in 0 .. Width - 1
        BY <3>2, <1>1, <1>4 DEF BoxesInv, BoxesTyped, Boxes!TypeOK
      <4> QED BY <4>1, <4>2, <4>3, <4>4 DEF OpRow
    <3> QED BY <3>1, <3>2
  <2>4. Boxes!TypeOK'
    <3>1. DOMAIN box' = 0 .. Slots * Width - 1
      BY <2>1
    <3> QED BY <2>2, <2>3, <3>1, <1>2 DEF BoxesInv, BoxesTyped, Boxes!TypeOK
  <2>5. \A q \in Ops : op'[q].phase = "idle" => op'[q].envs = <<>>
    BY <1>1 DEF BoxesInv, BoxesTyped
  <2>6. \A q \in Ops : Boxes!Live(q)' => op'[q].proc \in Procs /\ slot'[op'[q].proc] # -1
    BY <1>2, <1>3 DEF BoxesInv, BoxesTyped
  <2> QED BY <1>1, <2>1, <2>4, <2>5, <2>6 DEF BoxesTyped
<1>6. LocksKnown'
  BY <1>2 DEF BoxesInv, LocksKnown
<1>7. EnvsKnown'
  <2>1. ASSUME NEW q \in Ops, NEW r \in Ops, Boxes!Live(q), Boxes!Live(r),
               op[q].proc = op[r].proc,
               NEW i \in DOMAIN op'[q].envs, NEW j \in DOMAIN op'[r].envs,
               op'[q].envs[i].reserved, op'[r].envs[j].reserved,
               op'[q].envs[i].offset = op'[r].envs[j].offset
        PROVE  q = r /\ i = j
    <3>1. ASSUME NEW s \in Ops, Boxes!Live(s), op[s].proc = p, NEW k \in DOMAIN op[s].envs,
                 op[s].envs[k].reserved, e.reserved
          PROVE  op[s].envs[k].offset # e.offset
      <4>1. op[s].envs[k].offset \in inUse[p]
        BY <3>1, ReservedInUse DEF BoxesInv
      <4> QED BY <4>1, <3>1 DEF Allocates
    <3>2. CASE ~(q = o /\ i = n) /\ ~(r = o /\ j = n)
      <4>1. /\ i \in DOMAIN op[q].envs /\ op'[q].envs[i] = op[q].envs[i]
            /\ j \in DOMAIN op[r].envs /\ op'[r].envs[j] = op[r].envs[j]
        BY <1>1, <2>1, <3>2
      <4> QED BY <4>1, <2>1 DEF BoxesInv, EnvsKnown
    <3>3. CASE q = o /\ i = n /\ ~(r = o /\ j = n)
      <4>1. j \in DOMAIN op[r].envs /\ op'[r].envs[j] = op[r].envs[j]
        BY <1>1, <2>1, <3>3
      <4> QED BY <4>1, <1>1, <2>1, <3>1, <3>3
    <3>4. CASE r = o /\ j = n /\ ~(q = o /\ i = n)
      <4>1. i \in DOMAIN op[q].envs /\ op'[q].envs[i] = op[q].envs[i]
        BY <1>1, <2>1, <3>4
      <4> QED BY <4>1, <1>1, <2>1, <3>1, <3>4
    <3> QED BY <3>2, <3>3, <3>4
  <2>2. ASSUME NEW q \in Ops, Boxes!Live(q), ~laps'[op[q].proc].used,
               NEW i \in DOMAIN op'[q].envs
        PROVE  op'[q].envs[i].reserved
    <3>1. op[q].proc \in Procs
      BY <2>2 DEF BoxesInv, BoxesTyped
    <3>2. ~laps[op[q].proc].used
      BY <2>2, <3>1 DEF Allocates
    <3>3. CASE q = o /\ i = n
      BY <3>3, <2>2, <1>1 DEF Allocates
    <3>4. CASE ~(q = o /\ i = n)
      <4>1. i \in DOMAIN op[q].envs /\ op'[q].envs[i] = op[q].envs[i]
        BY <3>4, <2>2, <1>1
      <4> QED BY <4>1, <3>2, <2>2 DEF BoxesInv, EnvsKnown
    <3> QED BY <3>3, <3>4
  <2> QED BY <2>1, <2>2, <1>3 DEF EnvsKnown
<1>8. Boxes!ReservationsExact'
  <2>1. \A q \in Ops \ {o} : Boxes!Offsets(q)' = Boxes!Offsets(q)
    BY <1>1 DEF Boxes!Offsets
  <2>2. \A x : x \in Boxes!Offsets(o)' <=>
               x \in Boxes!Offsets(o) \/ (e.reserved /\ x = e.offset)
    <3>1. \A x : x \in Boxes!Offsets(o)' <=>
            \E i \in DOMAIN op'[o].envs : op'[o].envs[i].reserved /\ x = op'[o].envs[i].offset
      BY DEF Boxes!Offsets
    <3>2. \A x : x \in Boxes!Offsets(o) <=>
            \E i \in DOMAIN op[o].envs : op[o].envs[i].reserved /\ x = op[o].envs[i].offset
      BY DEF Boxes!Offsets
    <3> QED BY <3>1, <3>2, <1>1
  <2> SUFFICES ASSUME NEW r \in Procs
               PROVE  inUse'[r] = UNION {Boxes!Offsets(q)' :
                                    q \in {s \in Ops : Boxes!Live(s) /\ op[s].proc = r}}
    BY <1>3 DEF Boxes!ReservationsExact
  <2>3. inUse[r] = UNION {Boxes!Offsets(q) : q \in {s \in Ops : Boxes!Live(s) /\ op[s].proc = r}}
    BY DEF BoxesInv, Boxes!ReservationsExact
  <2>4. CASE r # p
    <3>1. inUse'[r] = inUse[r]
      BY <2>4 DEF Allocates
    <3>2. \A s \in Ops : op[s].proc = r => Boxes!Offsets(s)' = Boxes!Offsets(s)
      BY <2>1, <2>4, <1>1
    <3> QED BY <2>3, <3>1, <3>2
  <2>5. CASE r = p
    <3>1. \A x : x \in inUse'[r] <=> x \in inUse[r] \/ (e.reserved /\ x = e.offset)
      BY <2>5 DEF Allocates
    <3> QED BY <2>1, <2>2, <2>3, <2>5, <3>1, <1>1
  <2> QED BY <2>4, <2>5
<1> QED BY <1>5, <1>6, <1>7, <1>8

\* A round gives the operation a box that no other live environment within the
\* capacity limits has.
LEMMA RoundOwn ==
  ASSUME BoxesInv, NEW o \in Ops, NEW ph \in {"setup", "clean"}, NEW p, NEW e, NEW n,
         Round(o, ph, p, e, n), Allocates(p, e), Initializes(o, p, e, n)
  PROVE  BoxPlaced' /\ Boxes!BoxIsOwn'
<1>1. /\ Boxes!Live(o) /\ p \in Procs /\ slot[p] \in 0 .. Slots - 1
      /\ op[o].proc = p /\ op'[o].proc = p
      /\ n \in 1 .. NEnvs
      /\ DOMAIN op'[o].envs = DOMAIN op[o].envs \union {n}
      /\ n \notin DOMAIN op[o].envs
      /\ \A i \in DOMAIN op[o].envs : op'[o].envs[i] = op[o].envs[i]
      /\ op'[o].envs[n] = e
      /\ \A q \in Ops \ {o} : op'[q] = op[q]
      /\ op'[o].phase = ph
  BY RoundEnvs DEF Allocates
<1>2. UNCHANGED <<slot, locked, crowded, spilled>>
  BY DEF Round
<1>3. \A q \in Ops : Boxes!Live(q)' = Boxes!Live(q) /\ op'[q].proc = op[q].proc
  BY <1>1 DEF Boxes!Live
<1>4. e \in Env /\ e.offset \in 0 .. Width - 1
  BY DEF Allocates, Env
<1>5. \A q \in Ops : \A i \in Boxes!Made(q)' :
        \/ q = o /\ i = n /\ e.made
        \/ ~(q = o /\ i = n) /\ i \in Boxes!Made(q) /\ op'[q].envs[i] = op[q].envs[i]
  BY <1>1 DEF Boxes!Made
<1>6. \A q \in Ops : \A i \in Boxes!Made(q) :
        i \in Boxes!Made(q)' /\ op'[q].envs[i] = op[q].envs[i] /\ ~(q = o /\ i = n)
  BY <1>1 DEF Boxes!Made
<1>7. e.made => n \in Boxes!Made(o)'
  BY <1>1 DEF Boxes!Made
<1>8. slot[p] # -1
  BY <1>1
<1>9. Boxes!BoxId(p, e.offset) \in DOMAIN box
  BY <1>1, <1>4, <1>8, EnvBox DEF BoxesInv
<1>10. \A q \in Procs : \A x : Boxes!BoxId(q, x)' = Boxes!BoxId(q, x)
  BY <1>2 DEF Boxes!BoxId
<1>11. /\ DOMAIN box' = DOMAIN box
       /\ \A b \in DOMAIN box : b # Boxes!BoxId(p, e.offset) => box'[b] = box[b]
       /\ ~e.made => box' = box
       /\ e.made => box'[Boxes!BoxId(p, e.offset)] = <<o, n>>
  <2>1. CASE e.made
    BY <2>1, <1>9 DEF Initializes, BoxesInv, BoxesTyped
  <2>2. CASE ~e.made
    BY <2>2 DEF Initializes
  <2> QED BY <2>1, <2>2
<1>12. BoxPlaced'
  <2> SUFFICES ASSUME NEW b \in DOMAIN box, NEW q \in Ops, NEW i \in 1 .. NEnvs,
                      box'[b] = <<q, i>>, <<q, i>> \notin spilled
               PROVE  /\ Boxes!Live(q) /\ i \in Boxes!Made(q)'
                      /\ b = Boxes!BoxId(op[q].proc, op'[q].envs[i].offset)
    BY <1>1, <1>2, <1>3, <1>11 DEF BoxPlaced, Boxes!BoxId
  <2>1. CASE box'[b] = box[b]
    <3>1. /\ Boxes!Live(q) /\ i \in Boxes!Made(q)
          /\ b = Boxes!BoxId(op[q].proc, op[q].envs[i].offset)
      BY <2>1 DEF BoxesInv, BoxPlaced
    <3> QED BY <3>1, <1>6
  <2>2. CASE box'[b] # box[b]
    <3>1. e.made /\ b = Boxes!BoxId(p, e.offset) /\ q = o /\ i = n
      BY <2>2, <1>11
    <3> QED BY <3>1, <1>1, <1>7
  <2> QED BY <2>1, <2>2
<1>13. Boxes!BoxIsOwn'
  <2> SUFFICES ASSUME NEW q \in Ops, Boxes!Live(q), ~Boxes!Overcommitted(op[q].proc)',
                      NEW i \in Boxes!Made(q)'
               PROVE  box'[Boxes!BoxId(op[q].proc, op'[q].envs[i].offset)] = <<q, i>>
    BY <1>2, <1>3 DEF Boxes!BoxIsOwn, Boxes!BoxId
  <2>1. CASE q = o /\ i = n /\ e.made
    BY <2>1, <1>1, <1>11
  <2>2. CASE ~(q = o /\ i = n) /\ i \in Boxes!Made(q) /\ op'[q].envs[i] = op[q].envs[i]
    <3> DEFINE r == op[q].proc
               x == op[q].envs[i].offset
    <3>1. i \in DOMAIN op[q].envs
      BY <2>2 DEF Boxes!Made
    <3>2. r \in Procs /\ slot[r] # -1 /\ x \in 0 .. Width - 1
      BY <3>1, EnvTyped DEF BoxesInv
    <3>3. ~laps'[r].used /\ ~(crowded /\ slot[r] = 0)
      BY <1>2, <1>3 DEF Boxes!Overcommitted
    <3>4. ~laps[r].used
      BY <3>2, <3>3 DEF Allocates
    <3>5. ~Boxes!Overcommitted(r)
      BY <3>3, <3>4 DEF Boxes!Overcommitted
    <3>6. box[Boxes!BoxId(r, x)] = <<q, i>>
      BY <3>5, <2>2 DEF BoxesInv, Boxes!BoxIsOwn
    <3>7. Boxes!BoxId(r, x) \in DOMAIN box
      BY <3>2, EnvBox DEF BoxesInv
    <3>8. Boxes!BoxId(r, x) # Boxes!BoxId(p, e.offset)
      <4>1. CASE r # p
        <5>1. slot[r] # slot[p]
          BY <4>1, <3>2, <3>5, <1>1, <1>8, SlotIsOwn DEF BoxesInv
        <5> HIDE DEF r, x
        <5> QED BY <5>1, <3>2, <1>1, <1>4, <1>8, EnvBox DEF BoxesInv
      <4>2. CASE r = p
        <5>1. e.offset \notin inUse[p]
          BY <3>3, <4>2 DEF Allocates
        <5>2. op[q].envs[i].reserved
          BY <3>1, <3>4 DEF BoxesInv, EnvsKnown
        <5>3. x \in inUse[p]
          BY <5>2, <3>1, <4>2, ReservedInUse DEF BoxesInv
        <5> HIDE DEF r, x
        <5> QED BY <5>1, <5>3, <3>2, <1>1, <1>4, <1>8, EnvBox DEF BoxesInv
      <4> QED BY <4>1, <4>2
    <3> QED BY <3>6, <3>7, <3>8, <2>2, <1>11
  <2> QED BY <2>1, <2>2, <1>5
<1> QED BY <1>12, <1>13

\* Every round of execute's loop, whether the box is made, cannot be made, or
\* cannot be filled, keeps what is known.
LEMMA AddsStep ==
  ASSUME BoxesInv, NEW o \in Ops,
         Boxes!Create(o) \/ Boxes!CreateFails(o) \/ Boxes!LoadFails(o)
  PROVE  BoxesInv'
<1> DEFINE p == op[o].proc
           n == Len(op[o].envs) + 1
<1>1. ASSUME NEW ph \in {"setup", "clean"}, Boxes!Adds(o, ph, TRUE) PROVE BoxesInv'
  <2> DEFINE e == Boxes!Allocated(p, TRUE)
  <2>1. Round(o, ph, p, e, n) /\ Boxes!Reserve(p) /\ op[o].phase = "setup"
    BY <1>1 DEF Boxes!Adds, Round
  <2>2. box' = [box EXCEPT ![Boxes!BoxId(p, e.offset)] = <<o, n>>]
    BY <1>1 DEF Boxes!Adds
  <2>3. p \in Procs
    BY <2>1 DEF BoxesInv, BoxesTyped, Boxes!Live
  <2>4. Allocates(p, e) /\ e.made
    BY <2>1, <2>3, AllocatedEnv
  <2>5. Initializes(o, p, e, n)
    BY <2>2, <2>4 DEF Initializes
  <2> HIDE DEF e, p, n
  <2> QED BY <2>1, <2>4, <2>5, RoundTyped, RoundOwn DEF BoxesInv
<1>2. ASSUME NEW ph \in {"setup", "clean"}, Boxes!Adds(o, ph, FALSE) PROVE BoxesInv'
  <2> DEFINE e == Boxes!Allocated(p, FALSE)
  <2>1. Round(o, ph, p, e, n) /\ Boxes!Reserve(p) /\ op[o].phase = "setup"
    BY <1>2 DEF Boxes!Adds, Round
  <2>2. box' = box
    BY <1>2 DEF Boxes!Adds
  <2>3. p \in Procs
    BY <2>1 DEF BoxesInv, BoxesTyped, Boxes!Live
  <2>4. Allocates(p, e) /\ ~e.made
    BY <2>1, <2>3, AllocatedEnv
  <2>5. Initializes(o, p, e, n)
    BY <2>2, <2>4 DEF Initializes
  <2> HIDE DEF e, p, n
  <2> QED BY <2>1, <2>4, <2>5, RoundTyped, RoundOwn DEF BoxesInv
<1> QED BY <1>1, <1>2 DEF Boxes!Create, Boxes!CreateFails, Boxes!LoadFails

\* The operation goes on to its steps, or to its cleanup.
LEMMA PhaseStep ==
  ASSUME BoxesInv, NEW o \in Ops, Boxes!Start(o) \/ Boxes!Leave(o)
  PROVE  BoxesInv'
<1>1. PICK ph \in {"run", "clean"} : op' = [op EXCEPT ![o].phase = ph]
  BY DEF Boxes!Start, Boxes!Leave
<1>2. op[o].phase \in {"setup", "run"} /\ UNCHANGED <<slot, locked, crowded, inUse, laps, box, spilled>>
  BY DEF Boxes!Start, Boxes!Leave
<1>3. op \in [Ops -> OpRow]
  BY DEF BoxesInv, BoxesTyped
<1>4. /\ op' \in [Ops -> OpRow]
      /\ \A q \in Ops : op'[q].proc = op[q].proc /\ op'[q].envs = op[q].envs
      /\ op'[o].phase = ph
      /\ \A q \in Ops \ {o} : op'[q].phase = op[q].phase
  <2>1. op'[o] = [op[o] EXCEPT !.phase = ph] /\ \A q \in Ops \ {o} : op'[q] = op[q]
    BY <1>1, <1>3
  <2>2. op'[o] \in OpRow
    BY <1>3, <2>1 DEF OpRow
  <2> QED BY <1>1, <1>3, <2>1, <2>2 DEF OpRow
<1>5. /\ \A q \in Ops : Boxes!Live(q)' = Boxes!Live(q)
      /\ \A q \in Ops : Boxes!Made(q)' = Boxes!Made(q) /\ Boxes!Offsets(q)' = Boxes!Offsets(q)
  BY <1>2, <1>4 DEF Boxes!Live, Boxes!Made, Boxes!Offsets
<1>6. BoxesTyped'
  <2>1. \A q \in Ops : op'[q].phase \in {"idle", "setup", "run", "clean", "done"}
    BY <1>4 DEF OpRow
  <2>2. Boxes!TypeOK'
    BY <1>2, <1>4, <1>5, <2>1 DEF BoxesInv, BoxesTyped, Boxes!TypeOK
  <2>3. \A q \in Ops : op'[q].phase = "idle" => op'[q].envs = <<>>
    BY <1>4 DEF BoxesInv, BoxesTyped
  <2> QED BY <1>2, <1>4, <1>5, <2>2, <2>3 DEF BoxesInv, BoxesTyped
<1>7. LocksKnown' /\ EnvsKnown'
  BY <1>2, <1>4, <1>5 DEF BoxesInv, LocksKnown, EnvsKnown
<1>8. BoxPlaced'
  BY <1>2, <1>4, <1>5 DEF BoxesInv, BoxPlaced, Boxes!BoxId
<1>9. Boxes!BoxIsOwn'
  <2> SUFFICES ASSUME NEW q \in Ops, Boxes!Live(q), ~Boxes!Overcommitted(op[q].proc)',
                      NEW i \in Boxes!Made(q)
               PROVE  box[Boxes!BoxId(op[q].proc, op[q].envs[i].offset)] = <<q, i>>
    BY <1>2, <1>4, <1>5 DEF Boxes!BoxIsOwn, Boxes!BoxId
  <2>1. ~Boxes!Overcommitted(op[q].proc)
    BY <1>2, <1>4 DEF Boxes!Overcommitted
  <2> QED BY <2>1 DEF BoxesInv, Boxes!BoxIsOwn
<1>10. Boxes!ReservationsExact'
  BY <1>2, <1>4, <1>5 DEF BoxesInv, Boxes!ReservationsExact
<1> QED BY <1>6, <1>7, <1>8, <1>9, <1>10 DEF BoxesInv

\* execute returns, after its cleanup or without: the reservations go with the
\* environments, and only those.
LEMMA DropsStep ==
  ASSUME BoxesInv, NEW o \in Ops, Boxes!LeaveUncleaned(o) \/ Boxes!Return(o)
  PROVE  BoxesInv'
<1>1. /\ op[o].phase \in {"setup", "clean"}
      /\ inUse' = [inUse EXCEPT ![op[o].proc] = @ \ Boxes!Offsets(o)]
      /\ op' = [op EXCEPT ![o].phase = "done"]
      /\ UNCHANGED <<slot, locked, crowded, laps, box>>
  BY DEF Boxes!LeaveUncleaned, Boxes!Return, Boxes!Drops
<1>2. spilled \subseteq spilled' /\ \A i \in Boxes!Made(o) : <<o, i>> \in spilled'
  BY DEF Boxes!LeaveUncleaned, Boxes!Return, Boxes!AllRemoved
<1>3. op \in [Ops -> OpRow] /\ Boxes!Live(o)
  BY <1>1 DEF BoxesInv, BoxesTyped, Boxes!Live
<1>4. /\ op' \in [Ops -> OpRow]
      /\ \A q \in Ops : op'[q].proc = op[q].proc /\ op'[q].envs = op[q].envs
      /\ op'[o].phase = "done"
      /\ \A q \in Ops \ {o} : op'[q].phase = op[q].phase
  <2>1. op'[o] = [op[o] EXCEPT !.phase = "done"] /\ \A q \in Ops \ {o} : op'[q] = op[q]
    BY <1>1, <1>3
  <2>2. op'[o] \in OpRow
    BY <1>3, <2>1 DEF OpRow
  <2> QED BY <1>1, <1>3, <2>1, <2>2 DEF OpRow
<1>5. /\ ~Boxes!Live(o)' /\ \A q \in Ops \ {o} : Boxes!Live(q)' = Boxes!Live(q)
      /\ \A q \in Ops : Boxes!Made(q)' = Boxes!Made(q) /\ Boxes!Offsets(q)' = Boxes!Offsets(q)
  BY <1>4 DEF Boxes!Live, Boxes!Made, Boxes!Offsets
<1>6. op[o].proc \in Procs /\ inUse \in [Procs -> SUBSET (0 .. Width - 1)]
  BY <1>3 DEF BoxesInv, BoxesTyped, Boxes!TypeOK
<1>7. BoxesTyped'
  <2>1. \A q \in Ops : op'[q].phase \in {"idle", "setup", "run", "clean", "done"}
    BY <1>4 DEF OpRow
  <2>2. inUse' \in [Procs -> SUBSET (0 .. Width - 1)]
    BY <1>1, <1>6
  <2>3. Boxes!TypeOK'
    BY <1>1, <1>4, <1>5, <2>1, <2>2 DEF BoxesInv, BoxesTyped, Boxes!TypeOK
  <2>4. \A q \in Ops : op'[q].phase = "idle" => op'[q].envs = <<>>
    BY <1>4 DEF BoxesInv, BoxesTyped
  <2> QED BY <1>1, <1>4, <1>5, <2>3, <2>4 DEF BoxesInv, BoxesTyped
<1>8. LocksKnown' /\ EnvsKnown'
  BY <1>1, <1>4, <1>5 DEF BoxesInv, LocksKnown, EnvsKnown
<1>9. BoxPlaced'
  BY <1>1, <1>2, <1>4, <1>5 DEF BoxesInv, BoxPlaced, Boxes!BoxId
<1>10. Boxes!BoxIsOwn'
  <2> SUFFICES ASSUME NEW q \in Ops, Boxes!Live(q)', ~Boxes!Overcommitted(op[q].proc)',
                      NEW i \in Boxes!Made(q)'
               PROVE  (box[Boxes!BoxId(op[q].proc, op[q].envs[i].offset)] = <<q, i>>)'
    BY DEF Boxes!BoxIsOwn
  <2>1. Boxes!Live(q) /\ i \in Boxes!Made(q)
    BY <1>5
  <2>2. ~Boxes!Overcommitted(op[q].proc)
    BY <1>1, <1>4 DEF Boxes!Overcommitted
  <2>3. box[Boxes!BoxId(op[q].proc, op[q].envs[i].offset)] = <<q, i>>
    BY <2>1, <2>2 DEF BoxesInv, Boxes!BoxIsOwn
  <2> QED BY <2>3, <1>1, <1>4 DEF Boxes!BoxId
<1>11. Boxes!ReservationsExact'
  <2> SUFFICES ASSUME NEW r \in Procs, NEW x
               PROVE  x \in inUse'[r] <=>
                        \E q \in Ops : Boxes!Live(q)' /\ op'[q].proc = r /\ x \in Boxes!Offsets(q)'
    BY DEF Boxes!ReservationsExact
  <2>1. x \in inUse[r] <=>
          \E q \in Ops : Boxes!Live(q) /\ op[q].proc = r /\ x \in Boxes!Offsets(q)
    BY DEF BoxesInv, Boxes!ReservationsExact
  <2>2. CASE r # op[o].proc
    <3>1. inUse'[r] = inUse[r]
      BY <2>2, <1>1, <1>6
    <3> QED BY <2>1, <2>2, <3>1, <1>4, <1>5
  <2>3. CASE r = op[o].proc
    <3>1. x \in inUse'[r] <=> x \in inUse[r] /\ x \notin Boxes!Offsets(o)
      BY <2>3, <1>1, <1>6
    <3>2. ASSUME NEW q \in Ops \ {o}, Boxes!Live(q), op[q].proc = r, x \in Boxes!Offsets(q)
          PROVE  x \notin Boxes!Offsets(o)
      BY <2>3, <3>2, <1>3 DEF BoxesInv, EnvsKnown, Boxes!Offsets
    <3> QED BY <2>1, <3>1, <3>2, <1>4, <1>5
  <2> QED BY <2>2, <2>3
<1> QED BY <1>7, <1>8, <1>9, <1>10, <1>11 DEF BoxesInv

\* An environment removes its box: within the capacity limits nobody else's.
LEMMA RemoveStep ==
  ASSUME BoxesInv, NEW o \in Ops, NEW i, Boxes!Remove(o, i)
  PROVE  BoxesInv'
<1> DEFINE p == op[o].proc
           x == op[o].envs[i].offset
<1>1. /\ op[o].phase = "clean" /\ i \in Boxes!Made(o)
      /\ op' = [op EXCEPT ![o].envs[i].made = FALSE]
      /\ \/ box' = [box EXCEPT ![Boxes!BoxId(p, x)] = Boxes!Free] /\ spilled' = spilled
         \/ spilled' = spilled \union {<<o, i>>} /\ box' = box
      /\ UNCHANGED <<slot, locked, crowded, inUse, laps>>
  BY DEF Boxes!Remove
<1>2. /\ op \in [Ops -> OpRow] /\ Boxes!Live(o) /\ i \in DOMAIN op[o].envs
      /\ op[o] \in OpRow
  BY <1>1 DEF BoxesInv, BoxesTyped, Boxes!Live, Boxes!Made
<1>3. op[o].envs \in Seq(Env) /\ op[o].envs[i] \in Env
  <2>1. op[o].envs \in Seq(Env)
    BY <1>2 DEF OpRow
  <2> QED BY <1>2, <2>1
<1>4. /\ op'[o] = [op[o] EXCEPT !.envs[i].made = FALSE]
      /\ \A q \in Ops \ {o} : op'[q] = op[q]
  BY <1>1, <1>2
<1>5. /\ op'[o].proc = op[o].proc /\ op'[o].phase = op[o].phase
      /\ op'[o].envs = [op[o].envs EXCEPT ![i] = [op[o].envs[i] EXCEPT !.made = FALSE]]
  BY <1>2, <1>4 DEF OpRow
<1>6. /\ [op[o].envs[i] EXCEPT !.made = FALSE] \in Env
      /\ [op[o].envs[i] EXCEPT !.made = FALSE].offset = x
      /\ [op[o].envs[i] EXCEPT !.made = FALSE].reserved = op[o].envs[i].reserved
      /\ ~[op[o].envs[i] EXCEPT !.made = FALSE].made
  BY <1>3 DEF Env
<1>7. /\ op'[o].envs \in Seq(Env) /\ Len(op'[o].envs) = Len(op[o].envs)
      /\ DOMAIN op'[o].envs = DOMAIN op[o].envs
      /\ \A j \in DOMAIN op[o].envs : j # i => op'[o].envs[j] = op[o].envs[j]
      /\ op'[o].envs[i] = [op[o].envs[i] EXCEPT !.made = FALSE]
  <2> DEFINE r == [op[o].envs[i] EXCEPT !.made = FALSE]
  <2>1. r \in Env /\ op'[o].envs = [op[o].envs EXCEPT ![i] = r]
    BY <1>5, <1>6
  <2> HIDE DEF r
  <2>2. /\ op'[o].envs \in Seq(Env) /\ Len(op'[o].envs) = Len(op[o].envs)
        /\ DOMAIN op'[o].envs = DOMAIN op[o].envs
        /\ \A j \in DOMAIN op[o].envs : j # i => op'[o].envs[j] = op[o].envs[j]
        /\ op'[o].envs[i] = r
    BY <2>1, <1>2, <1>3
  <2> QED BY <2>2 DEF r
<1>8. op' \in [Ops -> OpRow]
  <2>1. op'[o] \in OpRow
    BY <1>2, <1>4, <1>5, <1>7 DEF OpRow
  <2> QED BY <1>1, <1>2, <2>1
<1>9. /\ \A q \in Ops : Boxes!Live(q)' = Boxes!Live(q) /\ op'[q].proc = op[q].proc
      /\ \A q \in Ops : op'[q].phase = op[q].phase
      /\ \A q \in Ops : DOMAIN op'[q].envs = DOMAIN op[q].envs
      /\ \A q \in Ops : \A j \in DOMAIN op[q].envs :
           /\ op'[q].envs[j].offset = op[q].envs[j].offset
           /\ op'[q].envs[j].reserved = op[q].envs[j].reserved
      /\ \A q \in Ops : Boxes!Offsets(q)' = Boxes!Offsets(q)
  <2>1. /\ \A q \in Ops : Boxes!Live(q)' = Boxes!Live(q) /\ op'[q].proc = op[q].proc
        /\ \A q \in Ops : op'[q].phase = op[q].phase
    BY <1>4, <1>5 DEF Boxes!Live
  <2>2. \A q \in Ops : DOMAIN op'[q].envs = DOMAIN op[q].envs
    BY <1>4, <1>7
  <2>3. ASSUME NEW q \in Ops, NEW j \in DOMAIN op[q].envs
        PROVE  /\ op'[q].envs[j].offset = op[q].envs[j].offset
               /\ op'[q].envs[j].reserved = op[q].envs[j].reserved
    BY <1>4, <1>6, <1>7
  <2>4. \A q \in Ops : Boxes!Offsets(q)' = Boxes!Offsets(q)
    BY <2>2, <2>3 DEF Boxes!Offsets
  <2> QED BY <2>1, <2>2, <2>3, <2>4
<1>10. \A q \in Ops : \A j : j \in Boxes!Made(q)' <=> j \in Boxes!Made(q) /\ ~(q = o /\ j = i)
  BY <1>4, <1>6, <1>7 DEF Boxes!Made
<1>11. p \in Procs /\ slot[p] # -1 /\ x \in 0 .. Width - 1
  BY <1>2, EnvTyped DEF BoxesInv
<1>12. Boxes!BoxId(p, x) \in DOMAIN box
  BY <1>11, EnvBox DEF BoxesInv
<1>13. BoxesTyped'
  <2>1. box' \in [0 .. Slots * Width - 1 -> {Boxes!Free} \union (Ops \X (1 .. NEnvs))]
    BY <1>1 DEF BoxesInv, BoxesTyped
  <2>2. DOMAIN box' = 0 .. Slots * Width - 1
    BY <2>1
  <2>3. \A q \in Ops : Len(op'[q].envs) <= NEnvs
    BY <1>4, <1>7 DEF BoxesInv, BoxesTyped, Boxes!TypeOK
  <2>4. Boxes!TypeOK'
    BY <1>1, <1>9, <2>2, <2>3 DEF BoxesInv, BoxesTyped, Boxes!TypeOK
  <2>5. \A q \in Ops : op'[q].phase = "idle" => op'[q].envs = <<>>
    BY <1>1, <1>4, <1>9 DEF BoxesInv, BoxesTyped
  <2> QED BY <1>1, <1>8, <1>9, <2>1, <2>4, <2>5 DEF BoxesInv, BoxesTyped
<1>14. LocksKnown' /\ EnvsKnown' /\ Boxes!ReservationsExact'
  <2>1. LocksKnown'
    BY <1>1, SMTT(30) DEF BoxesInv, LocksKnown
  <2>2. EnvsKnown'
    BY <1>1, <1>9, SMTT(30) DEF BoxesInv, EnvsKnown
  <2>3. Boxes!ReservationsExact'
    BY <1>1, <1>9 DEF BoxesInv, Boxes!ReservationsExact
  <2> QED BY <2>1, <2>2, <2>3
<1>15. BoxPlaced'
  <2> SUFFICES ASSUME NEW b \in DOMAIN box', NEW q \in Ops, NEW j \in 1 .. NEnvs,
                      box'[b] = <<q, j>>, <<q, j>> \notin spilled'
               PROVE  /\ Boxes!Live(q) /\ j \in Boxes!Made(q)'
                      /\ b = Boxes!BoxId(op[q].proc, op'[q].envs[j].offset)
    BY <1>1, <1>9 DEF BoxPlaced, Boxes!BoxId
  <2>1. b \in DOMAIN box /\ box[b] = <<q, j>> /\ <<q, j>> \notin spilled
    <3>1. <<q, j>> \notin spilled /\ DOMAIN box' = DOMAIN box
      BY <1>1
    <3>2. CASE box' = box
      BY <3>1, <3>2, Zenon
    <3>3. CASE box' = [box EXCEPT ![Boxes!BoxId(p, x)] = Boxes!Free]
      <4>1. box'[b] # Boxes!Free
        BY DEF Boxes!Free
      <4> QED BY <3>1, <3>3, <4>1
    <3> QED BY <1>1, <3>2, <3>3
  <2>2. /\ Boxes!Live(q) /\ j \in Boxes!Made(q)
        /\ b = Boxes!BoxId(op[q].proc, op[q].envs[j].offset)
    BY <2>1 DEF BoxesInv, BoxPlaced
  <2>3. ~(q = o /\ j = i)
    <3>1. SUFFICES ASSUME q = o, j = i PROVE FALSE
      OBVIOUS
    <3>2. box' = [box EXCEPT ![Boxes!BoxId(p, x)] = Boxes!Free]
      BY <3>1, <1>1
    <3>3. box'[b] = <<>>
      BY <3>1, <3>2, <2>1, <2>2 DEF Boxes!Free, BoxesInv, BoxesTyped
    <3> QED BY <3>3
  <2>4. j \in DOMAIN op[q].envs
    BY <2>2 DEF Boxes!Made
  <2> QED BY <2>2, <2>3, <2>4, <1>9, <1>10
<1>16. Boxes!BoxIsOwn'
  <2> SUFFICES ASSUME NEW q \in Ops, Boxes!Live(q), ~Boxes!Overcommitted(op[q].proc)',
                      NEW j \in Boxes!Made(q)'
               PROVE  box'[Boxes!BoxId(op[q].proc, op'[q].envs[j].offset)] = <<q, j>>
    BY <1>1, <1>9 DEF Boxes!BoxIsOwn, Boxes!BoxId
  <2> DEFINE r == op[q].proc
             y == op[q].envs[j].offset
  <2>1. j \in Boxes!Made(q) /\ ~(q = o /\ j = i) /\ j \in DOMAIN op[q].envs
        /\ op'[q].envs[j].offset = y
    BY <1>9, <1>10 DEF Boxes!Made
  <2>2. ~Boxes!Overcommitted(r)
    BY <1>1, <1>9 DEF Boxes!Overcommitted
  <2>3. box[Boxes!BoxId(r, y)] = <<q, j>>
    BY <2>1, <2>2 DEF BoxesInv, Boxes!BoxIsOwn
  <2>4. r \in Procs /\ slot[r] # -1 /\ y \in 0 .. Width - 1
    BY <2>1, EnvTyped DEF BoxesInv
  <2>5. Boxes!BoxId(r, y) \in DOMAIN box
    BY <2>4, EnvBox DEF BoxesInv
  <2>6. Boxes!BoxId(r, y) # Boxes!BoxId(p, x)
    <3>1. CASE r # p
      <4>1. slot[r] # slot[p]
        BY <3>1, <2>2, <2>4, <1>11, SlotIsOwn DEF BoxesInv
      <4> HIDE DEF r, y, p, x
      <4> QED BY <4>1, <2>4, <1>11, EnvBox DEF BoxesInv
    <3>2. CASE r = p
      <4>1. ~laps[r].used
        BY <2>2 DEF Boxes!Overcommitted
      <4>2. op[q].envs[j].reserved /\ op[o].envs[i].reserved
        BY <4>1, <3>2, <2>1, <1>2 DEF BoxesInv, EnvsKnown
      <4>3. x # y
        BY <4>2, <3>2, <2>1, <1>2 DEF BoxesInv, EnvsKnown
      <4> HIDE DEF r, y, p, x
      <4> QED BY <4>3, <2>4, <1>11, EnvBox DEF BoxesInv
    <3> QED BY <3>1, <3>2
  <2> QED BY <2>1, <2>3, <2>5, <2>6, <1>1 DEF BoxesInv, BoxesTyped
<1> QED BY <1>13, <1>14, <1>15, <1>16 DEF BoxesInv

\* A dead process leaves its boxes to be initialized again by whoever gets its slot.
LEMMA CrashStep ==
  ASSUME BoxesInv, NEW p \in Procs, Boxes!Crash(p)
  PROVE  BoxesInv'
<1>1. /\ slot' = [slot EXCEPT ![p] = -1]
      /\ locked' = [locked EXCEPT ![p] = FALSE]
      /\ inUse' = [inUse EXCEPT ![p] = {}]
      /\ laps' = [laps EXCEPT ![p] = [next |-> 0, used |-> FALSE]]
      /\ op' = [o \in Ops |-> IF op[o].proc = p
                              THEN [op[o] EXCEPT !.phase = "done", !.proc = Boxes!NoProc]
                              ELSE op[o]]
      /\ spilled' = spilled \union
           UNION {{<<o, i>> : i \in Boxes!Made(o)} : o \in {q \in Ops : op[q].proc = p}}
      /\ crowded' = crowded /\ box' = box
  BY DEF Boxes!Crash
<1>2. op \in [Ops -> OpRow] /\ Boxes!TypeOK
  BY DEF BoxesInv, BoxesTyped
<1>3. \A q \in Ops : op[q].proc # p => op'[q] = op[q]
  BY <1>1
<1>4. \A q \in Ops : op[q].proc = p =>
        op'[q].phase = "done" /\ op'[q].proc = Boxes!NoProc /\ op'[q].envs = op[q].envs
  BY <1>1, <1>2 DEF OpRow
<1>5. \A q \in Ops : Boxes!Live(q)' => Boxes!Live(q) /\ op[q].proc # p /\ op'[q] = op[q]
  BY <1>3, <1>4 DEF Boxes!Live
<1>6. \A q \in Ops : Boxes!Live(q) /\ op[q].proc # p => Boxes!Live(q)'
  BY <1>3 DEF Boxes!Live
<1>7. \A q \in Procs : q # p =>
        /\ slot'[q] = slot[q] /\ locked'[q] = locked[q]
        /\ inUse'[q] = inUse[q] /\ laps'[q] = laps[q]
  BY <1>1, <1>2 DEF Boxes!TypeOK
<1>8. slot'[p] = -1 /\ ~locked'[p] /\ inUse'[p] = {} /\ laps'[p].used = FALSE
  BY <1>1, <1>2 DEF Boxes!TypeOK
<1>9. op' \in [Ops -> OpRow]
  <2>1. \A q \in Ops : op'[q] \in OpRow
    <3> TAKE q \in Ops
    <3>1. CASE op[q].proc # p
      BY <1>2, <1>3, <3>1
    <3>2. CASE op[q].proc = p
      <4>1. op'[q] = [op[q] EXCEPT !.phase = "done", !.proc = Boxes!NoProc]
        BY <1>1, <3>2
      <4> QED BY <1>2, <4>1 DEF OpRow
    <3> QED BY <3>1, <3>2
  <2> QED BY <1>1, <2>1
<1>10. \A q \in Ops : op'[q].envs = op[q].envs
  BY <1>3, <1>4
<1>11. BoxesTyped'
  <2>1. slot' \in [Procs -> -1 .. Slots - 1]
    <3>1. -1 \in -1 .. Slots - 1
      BY BoxesAssumption
    <3>2. slot \in [Procs -> -1 .. Slots - 1] /\ slot' = [slot EXCEPT ![p] = -1]
      BY <1>1, <1>2 DEF Boxes!TypeOK
    <3> QED BY <3>1, <3>2, Zenon
  <2>2. locked' \in [Procs -> BOOLEAN] /\ crowded' \in BOOLEAN
    BY <1>1, <1>2 DEF Boxes!TypeOK
  <2>3. inUse' \in [Procs -> SUBSET (0 .. Width - 1)]
    BY <1>1, <1>2 DEF Boxes!TypeOK
  <2>4. laps' \in [Procs -> [next : 0 .. Width - 1, used : BOOLEAN]]
    <3>1. [next |-> 0, used |-> FALSE] \in [next : 0 .. Width - 1, used : BOOLEAN]
      BY BoxesAssumption
    <3>2. /\ laps \in [Procs -> [next : 0 .. Width - 1, used : BOOLEAN]]
          /\ laps' = [laps EXCEPT ![p] = [next |-> 0, used |-> FALSE]]
      BY <1>1, <1>2 DEF Boxes!TypeOK
    <3> QED BY <3>1, <3>2, Zenon
  <2>5. ASSUME NEW q \in Ops
        PROVE  /\ op'[q].phase \in {"idle", "setup", "run", "clean", "done"}
               /\ op'[q].proc \in Procs \union {Boxes!NoProc}
               /\ Boxes!Live(q)' => op'[q].proc # Boxes!NoProc
               /\ Len(op'[q].envs) <= NEnvs
               /\ \A i \in DOMAIN op'[q].envs : op'[q].envs[i].offset \in 0 .. Width - 1
    <3>1. /\ op'[q].phase \in {"idle", "setup", "run", "clean", "done"}
          /\ op'[q].proc \in Procs \union {Boxes!NoProc}
      BY <1>9 DEF OpRow
    <3>2. Boxes!Live(q)' => op'[q].proc # Boxes!NoProc
      BY <1>2, <1>5 DEF Boxes!TypeOK
    <3> QED BY <1>2, <1>10, <3>1, <3>2 DEF Boxes!TypeOK
  <2>6. Boxes!TypeOK'
    BY <1>1, <1>2, <2>1, <2>2, <2>3, <2>4, <2>5 DEF Boxes!TypeOK
  <2>7. \A q \in Ops : op'[q].phase = "idle" => op'[q].envs = <<>>
    BY <1>3, <1>4 DEF BoxesInv, BoxesTyped
  <2>8. \A q \in Ops : Boxes!Live(q)' => op'[q].proc \in Procs /\ slot'[op'[q].proc] # -1
    BY <1>5, <1>7 DEF BoxesInv, BoxesTyped
  <2>9. box' \in [0 .. Slots * Width - 1 -> {Boxes!Free} \union (Ops \X (1 .. NEnvs))]
    BY <1>1 DEF BoxesInv, BoxesTyped
  <2> QED BY <1>9, <2>6, <2>7, <2>8, <2>9 DEF BoxesTyped
<1>12. LocksKnown'
  <2>1. \A q \in Procs : locked'[q] => q # p /\ locked[q] /\ slot'[q] = slot[q]
    BY <1>7, <1>8
  <2>2. \A q \in Procs : locked'[q] => slot'[q] # -1
    BY <2>1 DEF BoxesInv, LocksKnown
  <2>3. \A q \in Procs : ~locked'[q] /\ slot'[q] # -1 => slot'[q] = 0 /\ crowded'
    <3> SUFFICES ASSUME NEW q \in Procs, ~locked'[q], slot'[q] # -1
                 PROVE  slot'[q] = 0 /\ crowded'
      OBVIOUS
    <3>1. q # p /\ ~locked[q] /\ slot'[q] = slot[q] /\ crowded' = crowded
      BY <1>1, <1>7, <1>8
    <3> QED BY <3>1 DEF BoxesInv, LocksKnown
  <2>4. \A q, r \in Procs : locked'[q] /\ locked'[r] /\ q # r => slot'[q] # slot'[r]
    BY <2>1 DEF BoxesInv, LocksKnown
  <2> QED BY <2>2, <2>3, <2>4 DEF LocksKnown
<1>13. EnvsKnown'
  <2>1. ASSUME NEW o \in Ops, NEW q \in Ops, Boxes!Live(o)', Boxes!Live(q)',
               op'[o].proc = op'[q].proc,
               NEW i \in DOMAIN op'[o].envs, NEW j \in DOMAIN op'[q].envs,
               op'[o].envs[i].reserved, op'[q].envs[j].reserved,
               op'[o].envs[i].offset = op'[q].envs[j].offset
        PROVE  o = q /\ i = j
    <3>1. op'[o] = op[o] /\ op'[q] = op[q] /\ Boxes!Live(o) /\ Boxes!Live(q)
      BY <1>5, <2>1
    <3> QED BY <2>1, <3>1 DEF BoxesInv, EnvsKnown
  <2>2. ASSUME NEW o \in Ops, Boxes!Live(o)', ~laps'[op'[o].proc].used,
               NEW i \in DOMAIN op'[o].envs
        PROVE  op'[o].envs[i].reserved
    <3>1. op'[o] = op[o] /\ Boxes!Live(o) /\ op[o].proc # p /\ op[o].proc \in Procs
      BY <1>5, <2>2 DEF BoxesInv, BoxesTyped
    <3>2. ~laps[op[o].proc].used
      BY <1>7, <2>2, <3>1
    <3> QED BY <2>2, <3>1, <3>2 DEF BoxesInv, EnvsKnown
  <2> QED BY <2>1, <2>2 DEF EnvsKnown
<1>14. BoxPlaced'
  <2> SUFFICES ASSUME NEW b \in DOMAIN box', NEW q \in Ops, NEW j \in 1 .. NEnvs,
                      box'[b] = <<q, j>>, <<q, j>> \notin spilled'
               PROVE  (/\ Boxes!Live(q) /\ j \in Boxes!Made(q)
                       /\ b = Boxes!BoxId(op[q].proc, op[q].envs[j].offset))'
    BY Zenon DEF BoxPlaced
  <2>1. <<q, j>> \notin spilled /\ b \in DOMAIN box /\ box[b] = <<q, j>>
    BY <1>1
  <2>2. /\ Boxes!Live(q) /\ j \in Boxes!Made(q)
        /\ b = Boxes!BoxId(op[q].proc, op[q].envs[j].offset)
    BY <2>1 DEF BoxesInv, BoxPlaced
  <2>3. op[q].proc # p
    <3> SUFFICES ASSUME op[q].proc = p PROVE FALSE
      OBVIOUS
    <3>1. <<q, j>> \in {<<q, k>> : k \in Boxes!Made(q)}
      BY <2>2
    <3>2. q \in {o \in Ops : op[o].proc = p}
      OBVIOUS
    <3>3. {<<q, k>> : k \in Boxes!Made(q)} \in
            {{<<o, k>> : k \in Boxes!Made(o)} : o \in {r \in Ops : op[r].proc = p}}
      BY <3>2
    <3>4. spilled' = spilled \union
            UNION {{<<o, k>> : k \in Boxes!Made(o)} : o \in {r \in Ops : op[r].proc = p}}
      BY <1>1
    <3> QED BY <3>1, <3>3, <3>4, Zenon
  <2>4. op'[q] = op[q] /\ op[q].proc \in Procs /\ Boxes!Live(q)'
    BY <1>3, <1>6, <2>2, <2>3 DEF BoxesInv, BoxesTyped
  <2>5. slot'[op[q].proc] = slot[op[q].proc]
    BY <1>7, <2>3, <2>4, SMTT(30)
  <2> QED BY <2>2, <2>4, <2>5 DEF Boxes!Made, Boxes!BoxId
<1>15. Boxes!BoxIsOwn'
  <2> SUFFICES ASSUME NEW q \in Ops, Boxes!Live(q)', ~Boxes!Overcommitted(op[q].proc)',
                      NEW j \in Boxes!Made(q)'
               PROVE  (box[Boxes!BoxId(op[q].proc, op[q].envs[j].offset)] = <<q, j>>)'
    BY DEF Boxes!BoxIsOwn
  <2>1. op'[q] = op[q] /\ Boxes!Live(q) /\ op[q].proc # p /\ op[q].proc \in Procs
    BY <1>5 DEF BoxesInv, BoxesTyped
  <2>2. slot'[op[q].proc] = slot[op[q].proc] /\ laps'[op[q].proc] = laps[op[q].proc]
    BY <1>7, <2>1
  <2>3. ~Boxes!Overcommitted(op[q].proc) /\ j \in Boxes!Made(q)
    BY <1>1, <2>1, <2>2 DEF Boxes!Overcommitted, Boxes!Made
  <2>4. box[Boxes!BoxId(op[q].proc, op[q].envs[j].offset)] = <<q, j>>
    BY <2>1, <2>3 DEF BoxesInv, Boxes!BoxIsOwn
  <2> QED BY <1>1, <2>1, <2>2, <2>4 DEF Boxes!BoxId
<1>16. Boxes!ReservationsExact'
  <2> SUFFICES ASSUME NEW q \in Procs
               PROVE  (inUse[q] = UNION {Boxes!Offsets(o) :
                         o \in {r \in Ops : Boxes!Live(r) /\ op[r].proc = q}})'
    BY DEF Boxes!ReservationsExact
  <2>1. CASE q = p
    <3>1. {r \in Ops : Boxes!Live(r) /\ op[r].proc = p}' = {}
      BY <1>5
    <3> QED BY <1>8, <2>1, <3>1
  <2>2. CASE q # p
    <3>1. {r \in Ops : Boxes!Live(r) /\ op[r].proc = q}'
            = {r \in Ops : Boxes!Live(r) /\ op[r].proc = q}
      BY <1>3, <1>5, <1>6, <2>2
    <3>2. \A o \in {r \in Ops : Boxes!Live(r) /\ op[r].proc = q} :
            Boxes!Offsets(o)' = Boxes!Offsets(o)
      BY <1>10 DEF Boxes!Offsets
    <3>3. inUse[q] = UNION {Boxes!Offsets(o) :
            o \in {r \in Ops : Boxes!Live(r) /\ op[r].proc = q}}
      BY DEF BoxesInv, Boxes!ReservationsExact
    <3> QED BY <1>7, <2>2, <3>1, <3>2, <3>3
  <2> QED BY <2>1, <2>2
<1> QED BY <1>11, <1>12, <1>13, <1>14, <1>15, <1>16 DEF BoxesInv

\* Every step of a worker process keeps the boxes in order.
LEMMA BoxesStep ==
  ASSUME BoxesInv, Boxes!Next
  PROVE  BoxesInv'
BY ClaimSlotStep, CrashStep, BeginStep, AddsStep, PhaseStep, DropsStep, RemoveStep
   DEF Boxes!Next

\* What the operations know of their boxes says that none is left behind.
LEMMA NoneLeftBehind == BoxesInv => Boxes!NoBoxLeftBehind
<1> SUFFICES ASSUME BoxesInv, NEW b \in DOMAIN box, box[b] # Boxes!Free,
                    box[b] \notin spilled
             PROVE  Boxes!Live(box[b][1]) /\ box[b][2] \in Boxes!Made(box[b][1])
  BY DEF Boxes!NoBoxLeftBehind
<1>1. box[b] \in Ops \X (1 .. NEnvs)
  BY DEF BoxesInv, BoxesTyped
<1>2. PICK o \in Ops, i \in 1 .. NEnvs : box[b] = <<o, i>>
  BY <1>1
<1> QED BY <1>2 DEF BoxesInv, BoxPlaced

-----------------------------------------------------------------------------
(* The worker: the component in focus moves, the others stand still.         *)

WorkerInv ==
  /\ focus = "order" => OrderInv
  /\ focus = "channels" => ChannelsInv
  /\ focus = "cache" => CacheInv
  /\ focus = "boxes" => BoxesInv
  /\ focus = "fused" => FusedInv

\* Every component starts in its invariant.
LEMMA WorkerInit == Init => WorkerInv
<1> SUFFICES ASSUME Init PROVE WorkerInv
  OBVIOUS
<1>1. Pipes!Init /\ Cache!Init /\ Boxes!Init
  BY DEF Init
<1>2. (focus = "order" => Order!Init) /\ (focus = "fused" => Fused!Init)
  BY DEF Init
<1> QED
  BY <1>1, <1>2, OrderInit, ChannelsInit, CacheInit, BoxesInit, FusedInit DEF WorkerInv

\* A step of the component in focus keeps that component's invariant.
LEMMA WorkerStep ==
  ASSUME WorkerInv, Next
  PROVE  WorkerInv'
<1>1. CASE focus = "order"
  <2>1. Order!Next /\ focus' = "order" /\ OrderInv
    BY <1>1 DEF Next, WorkerInv
  <2> QED BY <2>1, OrderStep DEF WorkerInv
<1>2. CASE focus = "channels"
  <2>1. Pipes!Next /\ focus' = "channels" /\ ChannelsInv
    BY <1>2 DEF Next, WorkerInv
  <2> QED BY <2>1, ChannelsStep DEF WorkerInv
<1>3. CASE focus = "cache"
  <2>1. Cache!Next /\ focus' = "cache" /\ CacheInv
    BY <1>3 DEF Next, WorkerInv
  <2> QED BY <2>1, CacheStep DEF WorkerInv
<1>4. CASE focus = "boxes"
  <2>1. Boxes!Next /\ focus' = "boxes" /\ BoxesInv
    BY <1>4 DEF Next, WorkerInv
  <2> QED BY <2>1, BoxesStep DEF WorkerInv
<1>5. CASE focus = "fused"
  <2>1. Fused!Next /\ focus' = "fused" /\ FusedInv
    BY <1>5 DEF Next, WorkerInv
  <2> QED BY <2>1, FusedStep DEF WorkerInv
<1> QED BY <1>1, <1>2, <1>3, <1>4, <1>5 DEF Next

\* A stuttering step changes nothing the invariant speaks of.
LEMMA WorkerStutter ==
  ASSUME WorkerInv, UNCHANGED vars
  PROVE  WorkerInv'
<1>1. UNCHANGED <<focus, deps, degree, layer, layers, phase, outcome, step, rd, wr, keep,
                  buf, sent, got, eof, pc, led, lock, lapsed, release, cache, result, slot,
                  locked, crowded, inUse, laps, op, box, spilled, format, compiled, truth,
                  tries, res, verdict>>
  BY DEF vars, orderVars, channelsVars, cacheVars, boxesVars, fusedVars
<1>2. OrderInv => OrderInv'
  <2>1. Order!TypeOK => Order!TypeOK'
    BY <1>1 DEF Order!TypeOK
  <2>2. LayersKnown => LayersKnown'
    BY <1>1 DEF LayersKnown, Order!Placed
  <2>3. OrderingKnown => OrderingKnown'
    BY <1>1 DEF OrderingKnown, Order!Placed, Order!Known
  <2>4. RunKnown => RunKnown'
    BY <1>1 DEF RunKnown, RunUpTo, Order!Placed, Order!Known
  <2>5. Order!RefusedExactly => Order!RefusedExactly'
    BY <1>1 DEF Order!RefusedExactly, Order!Known, Order!Cyclic
  <2>6. Order!RanAfterDeps => Order!RanAfterDeps'
    BY <1>1 DEF Order!RanAfterDeps, Order!DepsOk
  <2> QED BY <2>1, <2>2, <2>3, <2>4, <2>5, <2>6 DEF OrderInv
<1>3. ChannelsInv => ChannelsInv'
  BY <1>1 DEF ChannelsInv, ChannelKnown, Pipes!TypeOK, Pipes!NoOutputLost, Pipes!Done,
     Pipes!Waits
<1>4. CacheInv => CacheInv'
  BY <1>1 DEF CacheInv, WorkerKnown, Cache!TypeOK, Cache!LeaseKept, Cache!Leading,
     Cache!OnlySuccessCached
<1>5. BoxesInv => BoxesInv'
  <2>1. BoxesTyped => BoxesTyped'
    <3>1. Boxes!TypeOK => Boxes!TypeOK'
      BY <1>1 DEF Boxes!TypeOK, Boxes!Live
    <3> QED BY <1>1, <3>1 DEF BoxesTyped, Boxes!Live
  <2>2. LocksKnown => LocksKnown'
    BY <1>1 DEF LocksKnown
  <2>3. EnvsKnown => EnvsKnown'
    BY <1>1 DEF EnvsKnown, Boxes!Live
  <2>4. BoxPlaced => BoxPlaced'
    BY <1>1 DEF BoxPlaced, Boxes!Live, Boxes!Made, Boxes!BoxId
  <2>5. Boxes!BoxIsOwn => Boxes!BoxIsOwn'
    BY <1>1 DEF Boxes!BoxIsOwn, Boxes!Live, Boxes!Made, Boxes!BoxId, Boxes!Overcommitted
  <2>6. Boxes!ReservationsExact => Boxes!ReservationsExact'
    BY <1>1 DEF Boxes!ReservationsExact, Boxes!Live, Boxes!Offsets
  <2> QED BY <2>1, <2>2, <2>3, <2>4, <2>5, <2>6 DEF BoxesInv
<1>6. FusedInv => FusedInv'
  BY <1>1 DEF FusedInv, FusedKnown, Fused!TypeOK, Fused!BlameIsEarned,
     Fused!ScoredIsChecked
<1> QED BY <1>1, <1>2, <1>3, <1>4, <1>5, <1>6 DEF WorkerInv

\* The inductive invariant of the worker holds in every state it can reach.
THEOREM WorkerInvariant == Spec => []WorkerInv
<1>1. Init => WorkerInv
  BY WorkerInit
<1>2. WorkerInv /\ [Next]_vars => WorkerInv'
  BY WorkerStep, WorkerStutter
<1> QED BY <1>1, <1>2, PTL DEF Spec

\* compute_execution_order and execute_layers, for any dependency graph over any
\* finite set of steps: an operation is refused exactly when its dependencies have a
\* cycle or name a step that is not there, and a step runs only after all its
\* dependencies succeeded.
THEOREM StepsOrdered == Spec => []OrderSound
<1>1. WorkerInv => OrderSound
  BY DEF WorkerInv, OrderInv, OrderSound
<1> QED BY <1>1, WorkerInvariant, PTL

\* release_channel_keepalive, for any steps joined by any channels, with and without
\* keep-alives: a consumer that sees the end of its input has read all that its
\* producer wrote, unless the runaway guard gave the channel up.
THEOREM OutputKept == Spec => []NoOutputLost
<1>1. WorkerInv => NoOutputLost
  BY DEF WorkerInv, ChannelsInv, NoOutputLost
<1> QED BY <1>1, WorkerInvariant, PTL

\* The compile cache, for any number of workers: whoever leads and has not lapsed
\* holds the key, and what is cached is the result of a successful run.
THEOREM LeaseHeld == Spec => []CacheSound
<1>1. WorkerInv => CacheSound
  BY DEF WorkerInv, CacheInv, CacheSound
<1> QED BY <1>1, WorkerInvariant, PTL

\* isolate boxes, for any number of workers, slots, offsets and operations: within
\* the capacity limits a box belongs to the environment it was made for, the
\* reservations are exact on every exit path, and no box is left behind.
THEOREM BoxesKept == Spec => []BoxesSound
<1>1. WorkerInv => BoxesSound
  BY NoneLeftBehind DEF WorkerInv, BoxesInv, BoxesTyped, BoxesSound
<1> QED BY <1>1, WorkerInvariant, PTL

\* interpret_fused_result, for any number of retries: a verdict against the
\* contestant rests on a run of the contestant's own program, and an output is
\* scored only after a clean exit and by the checker where there is one.
THEOREM BlameEarned == Spec => []VerdictEarned
<1>1. WorkerInv => VerdictEarned
  BY DEF WorkerInv, FusedInv, VerdictEarned
<1> QED BY <1>1, WorkerInvariant, PTL

=============================================================================
