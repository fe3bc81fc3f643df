---------------------------- MODULE CacheLeader ----------------------------
(***************************************************************************)
(* One cached step (a compile) that several workers execute at the same    *)
(* time for the same cache key: worker/src/models/operation.  A worker     *)
(* looks the key up in the task_cache table, on a miss tries to become the *)
(* key's leader with SET NX EX in Redis, and otherwise polls the table as  *)
(* a follower until its deadline.  Whoever runs the step stores a          *)
(* successful output; dropping the lease spawns a compare-and-delete.      *)
(***************************************************************************)
EXTENDS FiniteSets

CONSTANTS Workers    \* the worker processes that execute the step once each

VARIABLES
  pc,       \* where execute_step_with_deps of each worker is
  led,      \* the workers that acquired the lease
  lock,     \* the Redis key: the token in it, or Nobody
  lapsed,   \* tokens whose key expired while their owner still held a lease
  release,  \* release scripts spawned by Drop and not yet run
  cache,    \* the task_cache row: the worker that inserted it, or Nobody
  result    \* what each worker's step returned

cacheVars == <<pc, led, lock, lapsed, release, cache, result>>

(* Each worker draws one fresh token (a UUID) in acquire: its own name.    *)
Nobody == "nobody"

Results == {"none", "hit", "ran", "failed"}

Init ==
  /\ pc = [w \in Workers |-> "look"]
  /\ led = {}
  /\ lock = Nobody
  /\ lapsed = {}
  /\ release = {}
  /\ cache = Nobody
  /\ result = [w \in Workers |-> "none"]

(* try_cache_hit: the row is there and its outputs are restored.           *)
Hit(w) ==
  /\ pc[w] = "look"
  /\ cache # Nobody
  /\ pc' = [pc EXCEPT ![w] = "done"]
  /\ result' = [result EXCEPT ![w] = "hit"]
  /\ UNCHANGED <<led, lock, lapsed, release, cache>>

(* No row, or an error of the lookup or of the restore: all three return   *)
(* None, and the worker goes on to the election.                           *)
Miss(w) ==
  /\ pc[w] = "look"
  /\ pc' = [pc EXCEPT ![w] = "elect"]
  /\ UNCHANGED <<led, lock, lapsed, release, cache, result>>

(* acquire: SET key token NX EX ttl.                                       *)
Lead(w) ==
  /\ pc[w] = "elect"
  /\ lock = Nobody
  /\ lock' = w
  /\ led' = led \union {w}
  /\ pc' = [pc EXCEPT ![w] = "run"]
  /\ UNCHANGED <<lapsed, release, cache, result>>

Follow(w) ==
  /\ pc[w] = "elect"
  /\ lock # Nobody
  /\ pc' = [pc EXCEPT ![w] = "poll"]
  /\ UNCHANGED <<led, lock, lapsed, release, cache, result>>

(* A transport error of Redis: the worker executes without a lease.  If    *)
(* only the answer was lost, its token stays in the key until the TTL.     *)
ElectFails(w) ==
  /\ pc[w] = "elect"
  /\ pc' = [pc EXCEPT ![w] = "run"]
  /\ lock' = lock \/ (lock = Nobody /\ lock' = w)
  /\ UNCHANGED <<led, lapsed, release, cache, result>>

(* follower_poll_loop sees the leader's row and restores it.               *)
PollHit(w) ==
  /\ pc[w] = "poll"
  /\ cache # Nobody
  /\ pc' = [pc EXCEPT ![w] = "done"]
  /\ result' = [result EXCEPT ![w] = "hit"]
  /\ UNCHANGED <<led, lock, lapsed, release, cache>>

(* The deadline passed, the poll failed, or the restore failed.            *)
PollGivesUp(w) ==
  /\ pc[w] = "poll"
  /\ pc' = [pc EXCEPT ![w] = "run"]
  /\ UNCHANGED <<led, lock, lapsed, release, cache, result>>

(* drop(lease): the heartbeat stops and a release script is spawned.       *)
DropLease(w) ==
  release' = IF w \in led THEN release \union {w} ELSE release

(* execute_step: a successful step goes on to store_in_cache, a failed one *)
(* returns and drops the lease.                                            *)
RunOk(w) ==
  /\ pc[w] = "run"
  /\ pc' = [pc EXCEPT ![w] = "store"]
  /\ result' = [result EXCEPT ![w] = "ran"]
  /\ UNCHANGED <<led, lock, lapsed, release, cache>>

(* Mutant: a failed run goes on to store_in_cache.                         *)
RunFailsAndStores(w) ==
  /\ pc[w] = "run"
  /\ pc' = [pc EXCEPT ![w] = "store"]
  /\ result' = [result EXCEPT ![w] = "failed"]
  /\ UNCHANGED <<led, lock, lapsed, release, cache>>

RunFails(w) ==
  /\ pc[w] = "run"
  /\ pc' = [pc EXCEPT ![w] = "done"]
  /\ result' = [result EXCEPT ![w] = "failed"]
  /\ DropLease(w)
  /\ UNCHANGED <<led, lock, lapsed, cache>>

(* put: INSERT ... ON CONFLICT DO NOTHING.                                 *)
Put(w) == cache' = IF cache = Nobody THEN w ELSE cache

(* store_in_cache may also fail (upload, database); the lease is dropped   *)
(* after it either way.                                                    *)
Store(w) ==
  /\ pc[w] = "store"
  /\ \/ Put(w)
     \/ UNCHANGED cache
  /\ pc' = [pc EXCEPT ![w] = "done"]
  /\ DropLease(w)
  /\ UNCHANGED <<led, lock, lapsed, result>>

(* Mutant: the release deletes the key without comparing the token.        *)
DeletedAnyway(w) == TRUE

(* The spawned RELEASE_SCRIPT: deletes the key only if it holds our token. *)
Deleted(w) == lock = w

Release(w) ==
  /\ w \in release
  /\ release' = release \ {w}
  /\ lock' = IF Deleted(w) THEN Nobody ELSE lock
  /\ UNCHANGED <<pc, led, lapsed, cache, result>>

(* The script fails or the process has no runtime any more: the key waits  *)
(* for its TTL.                                                            *)
ReleaseLost(w) ==
  /\ w \in release
  /\ release' = release \ {w}
  /\ UNCHANGED <<pc, led, lock, lapsed, cache, result>>

(* The TTL runs out: the heartbeat of spawn_heartbeat could not extend the *)
(* key in time (Redis unreachable, a stalled process), or it has stopped.  *)
(* A heartbeat that finds another token ends without touching the key.     *)
Expire ==
  /\ lock # Nobody
  /\ lock' = Nobody
  /\ lapsed' = lapsed \union {lock}
  /\ UNCHANGED <<pc, led, release, cache, result>>

(* The worker process dies; nothing of it runs any more.                   *)
Crash(w) ==
  /\ pc[w] # "done"
  /\ pc' = [pc EXCEPT ![w] = "done"]
  /\ release' = release \ {w}
  /\ UNCHANGED <<led, lock, lapsed, cache, result>>

(* Mutant: the follower polls without a deadline.                          *)
PollForever(w) == PollHit(w)

Poll(w) == PollHit(w) \/ PollGivesUp(w)

Step(w) ==
  \/ Hit(w) \/ Miss(w)
  \/ Lead(w) \/ Follow(w) \/ ElectFails(w)
  \/ Poll(w)
  \/ RunOk(w) \/ RunFails(w) \/ Store(w)

Next ==
  \/ \E w \in Workers : Step(w) \/ Release(w) \/ ReleaseLost(w) \/ Crash(w)
  \/ Expire

Spec == Init /\ [][Next]_cacheVars

----------------------------------------------------------------------------
TypeOK ==
  /\ pc \in [Workers -> {"look", "elect", "poll", "run", "store", "done"}]
  /\ led \subseteq Workers
  /\ lock \in Workers \union {Nobody}
  /\ lapsed \subseteq Workers
  /\ release \subseteq Workers
  /\ cache \in Workers \union {Nobody}
  /\ result \in [Workers -> Results]

Leading(w) == w \in led /\ pc[w] \in {"run", "store"}

(* The lease of a leader whose key did not expire under it is still in     *)
(* Redis: the release of a former leader, however late, never removes its  *)
(* successor's key, so two leaders at once mean that one of them lapsed.   *)
LeaseKept == \A w \in Workers : Leading(w) /\ w \notin lapsed => lock = w

(* What a follower or a later worker restores from the cache was produced  *)
(* by a run that succeeded; a failed compile is never served as a hit.     *)
OnlySuccessCached == cache # Nobody => result[cache] = "ran"

(* Every worker's step returns, whatever becomes of the leader it follows: *)
(* a crash, a lost release or a store that never happens.                  *)
StepReturns == \A w \in Workers : <>(pc[w] = "done")

============================================================================
