------------------------------ MODULE MCWorker ------------------------------
(***************************************************************************)
(* The parts of a worker that share no state with each other, each checked  *)
(* on its own: a behaviour picks one component (focus) and the others stay  *)
(* as they started. The verdict a server-side evaluator gives is checked    *)
(* together with the sandbox results it is computed from.                   *)
(***************************************************************************)
EXTENDS Naturals, Sequences, FiniteSets

CONSTANTS
  StepIds, Missing, Steps, Channels, Producer, Consumer, Orphans,
  Capacity, MaxWrites, Workers, Procs, Ops, NEnvs, Slots, Width,
  MaxTransientRetries

ASSUME OrderAssumption == IsFiniteSet(StepIds)

ASSUME RetriesAssumption == MaxTransientRetries \in Nat

ASSUME ChannelsAssumption ==
  /\ Capacity \in Nat /\ MaxWrites \in Nat
  /\ Producer \in [Channels -> Steps] /\ Consumer \in [Channels -> Steps]

ASSUME WorkersAssumption == "nobody" \notin Workers  \* CacheLeader's Nobody

ASSUME BoxesAssumption == Slots \in Nat \ {0} /\ Width \in Nat \ {0} /\ NEnvs \in Nat

ASSUME ProcsAssumption == "no process" \notin Procs  \* SandboxBoxes's NoProc

VARIABLES
  focus,  \* the component of this behaviour; the others stand still
  deps, degree, layer, layers, phase, outcome,
  step, rd, wr, keep, buf, sent, got, eof,
  pc, led, lock, lapsed, release, cache, result,
  slot, locked, crowded, inUse, laps, op, box, spilled,
  format, compiled, truth, tries, res, verdict

Order == INSTANCE ExecutionOrder WITH Tasks <- StepIds

Pipes == INSTANCE StepChannels

Cache == INSTANCE CacheLeader

Boxes == INSTANCE SandboxBoxes

Fused == INSTANCE FusedVerdict

orderVars == <<deps, degree, layer, layers, phase, outcome>>
channelsVars == <<step, rd, wr, keep, buf, sent, got, eof>>
cacheVars == <<pc, led, lock, lapsed, release, cache, result>>
boxesVars == <<slot, locked, crowded, inUse, laps, op, box, spilled>>
fusedVars == <<format, compiled, truth, tries, res, verdict>>

vars == <<focus, orderVars, channelsVars, cacheVars, boxesVars, fusedVars>>

Off == "off"

\* Two steps that feed each other, and an orphan channel.
MCProducer == [c \in Channels |-> IF c = "ba" THEN "b" ELSE "a"]
MCConsumer == [c \in Channels |-> IF c = "ba" THEN "a" ELSE "b"]

orderOff == deps = Off /\ degree = Off /\ layer = Off /\ layers = Off /\ phase
  = Off /\ outcome = Off
channelsOff == keep = [c \in Channels |-> "held"]
fusedOff == format = Off /\ compiled = Off /\ truth = Off /\ tries = Off /\
  res = Off /\ verdict = Off

Init ==
  /\ focus \in {"order", "channels", "cache", "boxes", "fused"}
  /\ IF focus = "order" THEN Order!Init ELSE orderOff
  /\ Pipes!Init /\ (focus = "channels" \/ channelsOff)
  /\ Cache!Init
  /\ Boxes!Init
  /\ IF focus = "fused" THEN Fused!Init ELSE fusedOff

\* One step of the component in focus.
Next ==
  \/ /\ focus = "order" /\ Order!Next
     /\ UNCHANGED <<focus, channelsVars, cacheVars, boxesVars, fusedVars>>
  \/ /\ focus = "channels" /\ Pipes!Next
     /\ UNCHANGED <<focus, orderVars, cacheVars, boxesVars, fusedVars>>
  \/ /\ focus = "cache" /\ Cache!Next
     /\ UNCHANGED <<focus, orderVars, channelsVars, boxesVars, fusedVars>>
  \/ /\ focus = "boxes" /\ Boxes!Next
     /\ UNCHANGED <<focus, orderVars, channelsVars, cacheVars, fusedVars>>
  \/ /\ focus = "fused" /\ Fused!Next
     /\ UNCHANGED <<focus, orderVars, channelsVars, cacheVars, boxesVars>>

\* FIFOs: a program that is not blocked exits in the end (its time limit sees
\* to it), the kernel completes what can be completed, and the release loops
\* run. That blocked programs time out too is not assumed here: it is a premise
\* of the one property that needs it. A reader need not notice one particular drop before the writer is
\* restored, but the loop drops again and again: strong fairness.
ChannelsFairness ==
  /\ \A s \in Steps : WF_channelsVars(focus = "channels" /\ (Pipes!Finish(s) \/ Pipes!Over(s)))
  /\ \A c \in Channels :
       /\ WF_channelsVars(focus = "channels" /\ Pipes!ReadData(c))
       /\ WF_channelsVars(focus = "channels" /\ (Pipes!WriteData(c) \/ Pipes!WriteFails(c)))
       /\ SF_channelsVars(focus = "channels" /\ Pipes!ReadEof(c))
       /\ WF_channelsVars(focus = "channels" /\ Pipes!ReleaseStep(c))

\* The cache: every worker's step goes on; polling is bounded in the code.
CacheFairness ==
  \A w \in Workers : WF_cacheVars(focus = "cache" /\ Cache!Step(w))

Spec == Init /\ [][Next]_vars /\ ChannelsFairness /\ CacheFairness

-----------------------------------------------------------------------------
(* What each component promises; the parts are defined in its module.        *)

\* The order of the steps. An operation is refused exactly when its dependencies
\* have a cycle or name a step that is not there; a step runs only after all its
\* dependencies succeeded, and in the end every step has a result.
OrderSound ==
  focus = "order" => Order!TypeOK /\ Order!RefusedExactly /\ Order!RanAfterDeps

\* FIFOs between steps. A consumer that sees the end of its input has read all
\* that was written: the keep-alive is never dropped over buffered output, except
\* by the runaway guard.
NoOutputLost == focus = "channels" => Pipes!TypeOK /\ Pipes!NoOutputLost

\* The compile cache. A lease that has not lapsed is in Redis under its owner's
\* token, so no release of another worker deletes it; and what is cached is the
\* result of a successful run.
CacheSound ==
  focus = "cache" => Cache!TypeOK /\ Cache!LeaseKept /\ Cache!OnlySuccessCached

\* isolate's wall time and the worker's hard timeout end every blocked program.
BlockedTimeOut ==
  \A s \in Steps : WF_channelsVars(focus = "channels" /\ Pipes!TimeOut(s))

\* Nobody waits for ever. With timeouts, the release of the keep-alives of a step
\* comes to an end, also when two steps feed each other and each waits for the
\* other; without any timeout, a consumer is not left waiting on the open or the
\* read of a FIFO whose producer has resolved; and every worker's cached step returns, whatever becomes of the leader it follows: a crash,
\* a lost release or a store that never happens.
WaitsEnd ==
  /\ focus = "channels" => (BlockedTimeOut => Pipes!ReleaseEnds) /\ Pipes!ReadersServed
  /\ focus = "cache" => Cache!StepReturns

\* isolate boxes. Within the capacity limits a box belongs to the environment it
\* was made for until that environment removes it; the reserved ids of a process
\* are exactly those of its live environments; and a box that is still initialized
\* belongs to a live environment, except where a removal failed, the process died,
\* or mkfifo could not be run.
BoxesSound ==
  focus = "boxes" =>
    /\ Boxes!TypeOK /\ Boxes!BoxIsOwn
    /\ Boxes!ReservationsExact /\ Boxes!NoBoxLeftBehind

\* From sandbox to verdict. A verdict against the contestant rests on a run of the
\* contestant's own program: a fault of the sandbox or of the toolchain is never
\* reported as a limit, a crash or a compile error. An output of a program that
\* the sandbox did run is accepted or rejected only after a clean exit, and only
\* by the checker where there is one.
VerdictEarned ==
  focus = "fused" => Fused!TypeOK /\ Fused!BlameIsEarned /\ Fused!ScoredIsChecked
=============================================================================
