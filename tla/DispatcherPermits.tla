-------------------------- MODULE DispatcherPermits --------------------------
(***************************************************************************)
(* Admission control of the dispatcher (dispatcher/permits.rs): a semaphore *)
(* of Concurrency permits and a bounded counter of reservations that wait   *)
(* for one. The steal scan and the SystemError reaper reserve before they   *)
(* claim rows, and drop what they did not use. A disabled semaphore admits  *)
(* everything and keeps no state; it is not modelled.                       *)
(*                                                                          *)
(* try_acquire and the counter update are two atomic operations with every  *)
(* other thread in between. The tokio semaphore is fair: a released permit  *)
(* goes to the longest waiting task, and to the pool only when none waits.  *)
(***************************************************************************)
EXTENDS Naturals, Sequences, FiniteSets

CONSTANTS
  Reservations,  \* the reservations in the process, one per reserve() call
  Concurrency,   \* Semaphore::new(concurrency.max(1))
  MaxQueued      \* max_queued


VARIABLES
  pc,       \* where each reservation stands
  avail,    \* permits in the pool
  waiters,  \* tasks parked in acquire_owned, oldest first
  queued    \* the shared counter of queued reservations

vars == <<pc, avail, waiters, queued>>

\* "full": try_acquire failed, the counter is not yet updated. "held": permit
\* acquired, nothing spawned. "slot": counted as queued, nothing spawned.
\* "spawned", "waiting": the spawned task asks for a permit, is parked.
\* "granted": it has one and has not yet left the counter.
States == {"idle", "full", "held", "slot", "spawned", "waiting", "granted", "running"}

TypeOK ==
  /\ pc \in [Reservations -> States]
  /\ avail \in 0..Concurrency
  /\ waiters \in Seq(Reservations)
  /\ queued \in 0..MaxQueued

Init ==
  /\ pc = [r \in Reservations |-> "idle"]
  /\ avail = Concurrency
  /\ waiters = <<>>
  /\ queued = 0

\* Mutant: a released permit passes the waiting tasks by.
ReleaseToPool(r, next) ==
  /\ avail' = avail + 1
  /\ pc' = [pc EXCEPT ![r] = next]
  /\ UNCHANGED waiters

\* Release of one permit by the semaphore, on top of r moving to state next.
Release(r, next) ==
  IF waiters = <<>>
  THEN /\ avail' = avail + 1
       /\ pc' = [pc EXCEPT ![r] = next]
       /\ UNCHANGED waiters
  ELSE /\ pc' = [pc EXCEPT ![r] = next, ![Head(waiters)] = "granted"]
       /\ waiters' = Tail(waiters)
       /\ UNCHANGED avail

\* reserve: try_acquire_owned succeeds or reports NoPermits.
TryAcquire(r) ==
  /\ pc[r] = "idle"
  /\ IF avail > 0
     THEN avail' = avail - 1 /\ pc' = [pc EXCEPT ![r] = "held"]
     ELSE pc' = [pc EXCEPT ![r] = "full"] /\ UNCHANGED avail
  /\ UNCHANGED <<waiters, queued>>

\* Mutant: the bound is off by one.
QueueHasRoomAtLimit == queued <= MaxQueued

\* The bound of the compare-and-swap loop in reserve_queued_slot.
QueueHasRoom == queued < MaxQueued

\* reserve_queued_slot: count the reservation, or refuse it as overloaded.
ReserveQueuedSlot(r) ==
  /\ pc[r] = "full"
  /\ IF QueueHasRoom
     THEN queued' = queued + 1 /\ pc' = [pc EXCEPT ![r] = "slot"]
     ELSE pc' = [pc EXCEPT ![r] = "idle"] /\ UNCHANGED queued
  /\ UNCHANGED <<avail, waiters>>

\* DispatcherReservation::spawn
Spawn(r) ==
  /\ \/ pc[r] = "held" /\ pc' = [pc EXCEPT ![r] = "running"]
     \/ pc[r] = "slot" /\ pc' = [pc EXCEPT ![r] = "spawned"]
  /\ UNCHANGED <<avail, waiters, queued>>

\* Mutant: a task is parked in front of those already waiting.
ParkedFirst(r) == <<r>> \o waiters

\* Where the semaphore parks a task: behind the tasks already waiting.
Parked(r) == Append(waiters, r)

\* permits.acquire_owned().await in the spawned task
AcquireOwned(r) ==
  /\ pc[r] = "spawned"
  /\ IF avail > 0
     THEN /\ avail' = avail - 1
          /\ pc' = [pc EXCEPT ![r] = "granted"]
          /\ UNCHANGED waiters
     ELSE /\ waiters' = Parked(r)
          /\ pc' = [pc EXCEPT ![r] = "waiting"]
          /\ UNCHANGED avail
  /\ UNCHANGED queued

\* Mutant: the counter is not decremented.
LeaveQueueUncounted(r) ==
  /\ pc[r] = "granted"
  /\ pc' = [pc EXCEPT ![r] = "running"]
  /\ UNCHANGED <<avail, waiters, queued>>

\* queued.fetch_sub once the permit is there
LeaveQueue(r) ==
  /\ pc[r] = "granted"
  /\ queued' = queued - 1
  /\ pc' = [pc EXCEPT ![r] = "running"]
  /\ UNCHANGED <<avail, waiters>>

\* run_with_permit returns and drops the permit.
Finish(r) ==
  /\ pc[r] = "running"
  /\ Release(r, "idle")
  /\ UNCHANGED queued

\* Mutant: an unused permit is not given back.
DropReservationKeepingPermit(r) ==
  \/ /\ pc[r] = "held"
     /\ pc' = [pc EXCEPT ![r] = "idle"]
     /\ UNCHANGED <<avail, waiters, queued>>
  \/ /\ pc[r] = "slot"
     /\ queued' = queued - 1
     /\ pc' = [pc EXCEPT ![r] = "idle"]
     /\ UNCHANGED <<avail, waiters>>

\* Drop for DispatcherReservation: an unused reservation gives back its permit
\* or its place in the counter.
DropReservation(r) ==
  \/ /\ pc[r] = "held"
     /\ Release(r, "idle")
     /\ UNCHANGED queued
  \/ /\ pc[r] = "slot"
     /\ queued' = queued - 1
     /\ pc' = [pc EXCEPT ![r] = "idle"]
     /\ UNCHANGED <<avail, waiters>>

Next ==
  \E r \in Reservations :
    \/ TryAcquire(r) \/ ReserveQueuedSlot(r) \/ Spawn(r) \/ AcquireOwned(r)
    \/ LeaveQueue(r) \/ Finish(r) \/ DropReservation(r)

Spec == Init /\ [][Next]_vars

-----------------------------------------------------------------------------
In(S) == {r \in Reservations : pc[r] \in S}

\* No permit is lost or minted: dispatches in flight and the pool add up to the
\* configured concurrency, through refusals, drops and hand-overs.
PermitsConserved ==
  Cardinality(In({"held", "granted", "running"})) + avail = Concurrency

\* The queued counter counts exactly the reservations that still hold a place,
\* so it never leaks a place and never underflows (fetch_sub on usize wraps).
QueuedCounterExact ==
  queued = Cardinality(In({"slot", "spawned", "waiting", "granted"}))

\* No lost wake-up: while a dispatch waits, the pool is empty.
NoIdlePermit == waiters # <<>> => avail = 0

\* A dispatch that was admitted to the queue gets to run.
AdmittedRuns ==
  \A r \in Reservations : pc[r] = "spawned" ~> pc[r] = "running"
=============================================================================
