--------------------------- MODULE ExecutionOrder ---------------------------
(***************************************************************************)
(* How a worker orders and runs the steps of one operation:                *)
(* get_execution_order and the layer loop of OperationHandler::execute in  *)
(* worker/src/models/operation/handler/execution.rs.  The graph is any     *)
(* dependency relation a plugin can send; one action per layer.  The ids   *)
(* of an operation's steps are distinct: one listed twice, which the final *)
(* count would refuse as well, is left out.                                *)
(***************************************************************************)
EXTENDS Naturals, Sequences, FiniteSets

CONSTANTS
  Tasks,     \* the step ids of the operation
  Missing    \* an id that names no step

VARIABLES
  deps,      \* depends_on of every step
  degree,    \* in_degree
  layer,     \* current_layer
  layers,    \* the layers found so far
  phase,     \* "order", "run", "error" or "done"
  outcome    \* task_results

orderVars == <<deps, degree, layer, layers, phase, outcome>>

(* A dependency that names no step is refused before anything is ordered.  *)
Known(d) == \A t \in Tasks : d[t] \subseteq Tasks

Init ==
  /\ deps \in [Tasks -> SUBSET (Tasks \union {Missing})]
  /\ degree = [t \in Tasks |-> Cardinality(deps[t])]
  /\ layer = {t \in Tasks : deps[t] = {}}
  /\ layers = <<>>
  /\ phase = IF Known(deps) THEN "order" ELSE "error"
  /\ outcome = [t \in Tasks |-> "none"]

(* Mutant: the next layer takes every neighbour whose degree was lowered.  *)
LoweredOnce(t) == IF deps[t] \intersect layer # {} THEN 0 ELSE degree[t]

(* What one pass over the layer leaves of a step's degree.                 *)
Lowered(t) == degree[t] - Cardinality(deps[t] \intersect layer)

(* One round of the while loop: the neighbours whose degree reaches zero   *)
(* form the next layer.                                                    *)
NextLayer ==
  /\ phase = "order"
  /\ layer # {}
  /\ degree' = [t \in Tasks |-> Lowered(t)]
  /\ layer' = {t \in Tasks : degree[t] > 0 /\ Lowered(t) = 0}
  /\ layers' = Append(layers, layer)
  /\ UNCHANGED <<deps, phase, outcome>>

(* The steps placed in layers so far.                                      *)
Placed == UNION {layers[i] : i \in DOMAIN layers}

(* The loop is over: fewer steps placed than there are is an error.        *)
Complete == Placed = Tasks

Ordered ==
  /\ phase = "order"
  /\ layer = {}
  /\ phase' = IF Complete THEN "run" ELSE "error"
  /\ UNCHANGED <<deps, degree, layer, layers, outcome>>

(* deps_ok: every dependency has a successful result.                      *)
DepsOk(t) == \A d \in deps[t] : outcome[d] = "ok"

(* Mutant: a step runs unless a dependency failed itself; a skipped one passes.*)
ResultsUnlessFailed(t) ==
  IF \A d \in deps[t] : outcome[d] # "failed" THEN {"ok", "failed"}
                                              ELSE {"skipped"}

Results(t) == IF DepsOk(t) THEN {"ok", "failed"} ELSE {"skipped"}

(* The results of the layer being run: the one whose steps have none yet   *)
(* while all earlier ones have theirs.                                     *)
Current(i) ==
  /\ \A t \in layers[i] : outcome[t] = "none"
  /\ \A j \in 1 .. i - 1 : \A t \in layers[j] : outcome[t] # "none"

(* join_all over the steps of a layer; the results are recorded together.  *)
RunLayer ==
  /\ phase = "run"
  /\ \E i \in DOMAIN layers :
       /\ Current(i)
       /\ outcome' \in
            {o \in [Tasks -> {"none", "ok", "failed", "skipped"}] :
               \A t \in Tasks : IF t \in layers[i] THEN o[t] \in Results(t)
                                                   ELSE o[t] = outcome[t]}
  /\ UNCHANGED <<deps, degree, layer, layers, phase>>

Finished ==
  /\ phase = "run"
  /\ \A i \in DOMAIN layers : ~Current(i)
  /\ phase' = "done"
  /\ UNCHANGED <<deps, degree, layer, layers, outcome>>

Next == NextLayer \/ Ordered \/ RunLayer \/ Finished

Spec == Init /\ [][Next]_orderVars

----------------------------------------------------------------------------
TypeOK ==
  /\ deps \in [Tasks -> SUBSET (Tasks \union {Missing})]
  /\ degree \in [Tasks -> Nat]
  /\ layer \subseteq Tasks
  /\ \A i \in DOMAIN layers : layers[i] \subseteq Tasks
  /\ phase \in {"order", "run", "error", "done"}
  /\ outcome \in [Tasks -> {"none", "ok", "failed", "skipped"}]

(* A set of steps each of which waits for another one of the set.          *)
Cyclic == \E S \in (SUBSET Tasks) \ {{}} : \A t \in S : deps[t] \intersect S # {}

(* An operation is refused exactly when a dependency is unknown or a group *)
(* of steps waits for itself: the degree counting never loses a step that  *)
(* could have run and never admits a cycle.                                *)
RefusedExactly ==
  /\ phase = "error" => ~Known(deps) \/ Cyclic
  /\ phase \in {"run", "done"} => Known(deps) /\ ~Cyclic

(* A step has run only after every one of its dependencies succeeded, and  *)
(* a finished operation has a result for every step.                       *)
RanAfterDeps ==
  /\ \A t \in Tasks : outcome[t] \in {"ok", "failed"} => DepsOk(t)
  /\ phase = "done" => \A t \in Tasks : outcome[t] # "none"

============================================================================
