---------------------------- MODULE SandboxBoxes ----------------------------
(***************************************************************************)
(* The isolate boxes of one judging host, shared by several worker         *)
(* processes: worker handler/box_id.rs (slots and reservations) and the    *)
(* environments OperationHandler::execute creates and removes              *)
(* (handler/execution.rs, environment.rs, sandbox/isolate.rs).  isolate    *)
(* itself is external: --init silently re-initializes an idle box.         *)
(***************************************************************************)
EXTENDS Integers, Sequences, FiniteSets, FiniteSetsExt

CONSTANTS
  Procs,   \* worker processes of the host, with a shared slot lock directory
  Ops,     \* operations
  NEnvs,   \* environments per operation
  Slots,   \* BOX_ID_SLOTS
  Width    \* BOX_IDS_PER_SLOT

VARIABLES
  slot,    \* the slot of each process; -1 before the first environment
  locked,  \* whether the process holds the flock of its slot
  crowded, \* whether some process started without a slot of its own
  inUse,   \* IN_USE of each process: reserved offsets
  laps,    \* SATURATION_FALLBACK of each process (modulo Width) and its use
  op,      \* the operations
  box,     \* who initialized each box last and did not clean it up
  spilled  \* environments whose box was never cleaned up (removal failed, or
           \* execute returned without its cleanup)

boxVars == <<slot, locked, crowded, inUse, laps, op, box, spilled>>

Free == <<>>

NoProc == "no process"

Init ==
  /\ slot = [p \in Procs |-> -1]
  /\ locked = [p \in Procs |-> FALSE]
  /\ crowded = FALSE
  /\ inUse = [p \in Procs |-> {}]
  /\ laps = [p \in Procs |-> [next |-> 0, used |-> FALSE]]
  /\ op = [o \in Ops |-> [proc |-> NoProc, phase |-> "idle", envs |-> <<>>]]
  /\ box = [b \in 0 .. Slots * Width - 1 |-> Free]
  /\ spilled = {}

----------------------------------------------------------------------------
(* Mutant: any slot file can be opened; nobody looks at its lock.          *)
AnySlots == 0 .. Slots - 1

(* claim_box_id_slot_in: the lowest slot whose lock file opens and whose   *)
(* flock is free; slot 0 without a lock when there is none.                *)
FreeSlots == {k \in 0 .. Slots - 1 :
                \A p \in Procs : ~(locked[p] /\ slot[p] = k)}

ClaimSlot(p) ==
  /\ slot[p] = -1
  /\ \E S \in SUBSET FreeSlots :
       /\ slot' = [slot EXCEPT ![p] = IF S = {} THEN 0 ELSE Min(S)]
       /\ locked' = [locked EXCEPT ![p] = S # {}]
       /\ crowded' = (crowded \/ S = {})
  /\ UNCHANGED <<inUse, laps, op, box, spilled>>

(* A worker takes the operation from its queue.                            *)
Begin(o, p) ==
  /\ op[o].phase = "idle"
  /\ slot[p] # -1
  /\ op' = [op EXCEPT ![o].proc = p, ![o].phase = "setup"]
  /\ UNCHANGED <<slot, locked, crowded, inUse, laps, box, spilled>>

BoxId(p, offset) == slot[p] * Width + offset

FreeOffsets(p) == (0 .. Width - 1) \ inUse[p]

(* Mutant: a fallback id frees the offset it shares when it is dropped.    *)
FallbackReserved == TRUE

(* A saturation-fallback id is not a reservation.                          *)
Fallback == FALSE

(* allocate_box_id: the lowest free offset, or the next one of the         *)
(* wrapping counter when the slot is saturated.                            *)
Allocated(p, made) ==
  IF FreeOffsets(p) # {}
  THEN [offset |-> Min(FreeOffsets(p)), reserved |-> TRUE, made |-> made]
  ELSE [offset |-> laps[p].next, reserved |-> Fallback, made |-> made]

Reserve(p) ==
  IF FreeOffsets(p) # {}
  THEN /\ inUse' = [inUse EXCEPT ![p] = @ \union {Min(FreeOffsets(p))}]
       /\ UNCHANGED laps
  ELSE /\ laps' = [laps EXCEPT ![p] = [next |-> (@.next + 1) % Width,
                                      used |-> TRUE]]
       /\ UNCHANGED inUse

(* One round of execute's loop over the environments: allocate,            *)
(* create_sandbox, load_environment_files.                                 *)
Adds(o, phase, made) ==
  LET p == op[o].proc
      e == Allocated(p, made)
  IN /\ op[o].phase = "setup"
     /\ Len(op[o].envs) < NEnvs
     /\ Reserve(p)
     /\ op' = [op EXCEPT ![o].envs = Append(@, e), ![o].phase = phase]
     /\ box' = IF made
               THEN [box EXCEPT ![BoxId(p, e.offset)] = <<o, Len(op[o].envs) + 1>>]
               ELSE box
     /\ UNCHANGED <<slot, locked, crowded, spilled>>

Create(o) == Adds(o, "setup", TRUE)

(* isolate --init fails: the environments made so far are cleaned up.      *)
CreateFails(o) == Adds(o, "clean", FALSE)

(* Mutant: a box whose files could not be loaded is forgotten.             *)
LoadFailsForgetting(o) ==
  LET p == op[o].proc
      e == Allocated(p, FALSE)
  IN /\ op[o].phase = "setup"
     /\ Len(op[o].envs) < NEnvs
     /\ Reserve(p)
     /\ op' = [op EXCEPT ![o].envs = Append(@, e), ![o].phase = "clean"]
     /\ box' = [box EXCEPT ![BoxId(p, e.offset)] = <<o, Len(op[o].envs) + 1>>]
     /\ UNCHANGED <<slot, locked, crowded, spilled>>

(* A file cannot be loaded: this box too is removed.                       *)
LoadFails(o) == Adds(o, "clean", TRUE)

(* The channels directory and the execution order are ready.               *)
Start(o) ==
  /\ op[o].phase = "setup"
  /\ Len(op[o].envs) = NEnvs
  /\ op' = [op EXCEPT ![o].phase = "run"]
  /\ UNCHANGED <<slot, locked, crowded, inUse, laps, box, spilled>>

(* A bad channel name, a directory or FIFO that cannot be made, a graph    *)
(* that cannot be ordered; or the layers completed, failed or panicked:    *)
(* cleanup_environments runs.                                              *)
Leave(o) ==
  /\ \/ op[o].phase = "run"
     \/ op[o].phase = "setup" /\ Len(op[o].envs) = NEnvs
  /\ op' = [op EXCEPT ![o].phase = "clean"]
  /\ UNCHANGED <<slot, locked, crowded, inUse, laps, box, spilled>>

(* Dropping the environment map drops every BoxId guard.                   *)
Offsets(o) == {op[o].envs[i].offset :
                 i \in {j \in DOMAIN op[o].envs : op[o].envs[j].reserved}}

Drops(o) ==
  /\ inUse' = [inUse EXCEPT ![op[o].proc] = @ \ Offsets(o)]
  /\ op' = [op EXCEPT ![o].phase = "done"]

Made(o) == {i \in DOMAIN op[o].envs : op[o].envs[i].made}

(* mkfifo cannot be executed: the error is returned with `?' and nothing   *)
(* is cleaned up.                                                          *)
LeaveUncleaned(o) ==
  /\ op[o].phase = "setup"
  /\ Len(op[o].envs) = NEnvs
  /\ Drops(o)
  /\ spilled' = spilled \union {<<o, i>> : i \in Made(o)}
  /\ UNCHANGED <<slot, locked, crowded, laps, box>>

(* remove_sandbox: isolate --cleanup of the box, whoever uses it; an error *)
(* is logged and the next environment follows.  The earlier --cleanup that *)
(* a hard timeout does of the same box is part of the run and left out.    *)
Remove(o, i) ==
  /\ op[o].phase = "clean"
  /\ i \in Made(o)
  /\ op' = [op EXCEPT ![o].envs[i].made = FALSE]
  /\ \/ /\ box' = [box EXCEPT ![BoxId(op[o].proc, op[o].envs[i].offset)] = Free]
        /\ UNCHANGED spilled
     \/ /\ spilled' = spilled \union {<<o, i>>}
        /\ UNCHANGED box
  /\ UNCHANGED <<slot, locked, crowded, inUse, laps>>

AllRemoved(o) == Made(o) = {}

(* execute returns after the cleanup; the guards are dropped then.         *)
Return(o) ==
  /\ op[o].phase = "clean"
  /\ AllRemoved(o)
  /\ Drops(o)
  /\ UNCHANGED <<slot, locked, crowded, laps, box, spilled>>

(* A worker process dies and is restarted: the kernel releases its flock,  *)
(* its boxes stay as they are.                                             *)
Crash(p) ==
  /\ slot[p] # -1
  /\ slot' = [slot EXCEPT ![p] = -1]
  /\ locked' = [locked EXCEPT ![p] = FALSE]
  /\ inUse' = [inUse EXCEPT ![p] = {}]
  /\ laps' = [laps EXCEPT ![p] = [next |-> 0, used |-> FALSE]]
  /\ op' = [o \in Ops |-> IF op[o].proc = p
                          THEN [op[o] EXCEPT !.phase = "done", !.proc = NoProc]
                          ELSE op[o]]
  /\ spilled' = spilled \union
       UNION {{<<o, i>> : i \in Made(o)} : o \in {q \in Ops : op[q].proc = p}}
  /\ UNCHANGED <<crowded, box>>

Next ==
  \/ \E p \in Procs : ClaimSlot(p) \/ Crash(p) \/ \E o \in Ops : Begin(o, p)
  \/ \E o \in Ops :
       \/ Create(o) \/ CreateFails(o) \/ LoadFails(o) \/ Start(o)
       \/ Leave(o) \/ LeaveUncleaned(o) \/ Return(o)
       \/ \E i \in 1 .. NEnvs : Remove(o, i)

Spec == Init /\ [][Next]_boxVars

----------------------------------------------------------------------------
Live(o) == op[o].phase \in {"setup", "run", "clean"}

TypeOK ==
  /\ slot \in [Procs -> -1 .. Slots - 1]
  /\ locked \in [Procs -> BOOLEAN]
  /\ crowded \in BOOLEAN
  /\ inUse \in [Procs -> SUBSET (0 .. Width - 1)]
  /\ laps \in [Procs -> [next : 0 .. Width - 1, used : BOOLEAN]]
  /\ \A o \in Ops :
       /\ op[o].phase \in {"idle", "setup", "run", "clean", "done"}
       /\ op[o].proc \in Procs \union {NoProc}
       /\ Live(o) => op[o].proc # NoProc
       /\ Len(op[o].envs) <= NEnvs
       /\ \A i \in DOMAIN op[o].envs : op[o].envs[i].offset \in 0 .. Width - 1
  /\ DOMAIN box = 0 .. Slots * Width - 1

(* More environments than the slot holds, or more workers than slots (the  *)
(* extra one shares slot 0): the two documented capacity limits.           *)
Overcommitted(p) == laps[p].used \/ (crowded /\ slot[p] = 0)

(* Within those limits a box belongs to the environment it was made for    *)
(* until that environment removes it: no other operation, of this worker   *)
(* or of another one of the host, initializes or cleans it up, whatever    *)
(* crashed, failed or was removed in between.                              *)
BoxIsOwn ==
  \A o \in Ops : Live(o) /\ ~Overcommitted(op[o].proc) =>
    \A i \in Made(o) : box[BoxId(op[o].proc, op[o].envs[i].offset)] = <<o, i>>

(* A process's reservations are exactly those of its live environments:    *)
(* none leaks on any exit path, none is given back by somebody else.       *)
ReservationsExact ==
  \A p \in Procs :
    inUse[p] = UNION {Offsets(o) : o \in {q \in Ops : Live(q) /\ op[q].proc = p}}

(* A box that is still initialized belongs to a live environment, except   *)
(* where a removal failed, the process died, or mkfifo could not be run.   *)
NoBoxLeftBehind ==
  \A b \in DOMAIN box : box[b] # Free =>
    \/ box[b] \in spilled
    \/ Live(box[b][1]) /\ box[b][2] \in Made(box[b][1])

============================================================================
