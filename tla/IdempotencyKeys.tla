--------------------------- MODULE IdempotencyKeys ---------------------------
(***************************************************************************)
(* One idempotency key of one user (middleware/idempotency.rs): requests    *)
(* that carry it, to one of two paths, claim it, run the handler and store  *)
(* the response for replays. A pending key older than the limit may be      *)
(* reclaimed, so that the key of a dead server does not block for ever.     *)
(*                                                                          *)
(* Every statement is a step, and so is the handler. Requests without a     *)
(* key, a body too large to store and a key cleaned up after a day go the   *)
(* way of a stored or of a deleted key and are not told apart.              *)
(***************************************************************************)
EXTENDS Naturals, FiniteSets

CONSTANTS
  Requests,   \* requests with the key
  Paths       \* paths they may be sent to

VARIABLES
  key,        \* the row: its status, path, age and the request it answers for
  req,        \* where each request stands, and its path
  applied,    \* the requests whose handler took effect
  replayed,   \* request -> the request whose response it was given
  disturbed   \* a server died, a statement failed, or a handler took too long
              \* or failed after it had taken effect

vars == <<key, req, applied, replayed, disturbed>>

None == "none"

NoKey == [status |-> None, path |-> None, old |-> FALSE, response |-> None]

\* "bare": the handler runs without the key. "store", "discard": it has
\* succeeded, or failed.
Pcs == {"new", "exists", "reclaim", "run", "bare", "store", "discard", "done"}

TypeOK ==
  /\ key \in [status : {None, "pending", "completed"}, path : Paths \union {None},
              old : BOOLEAN, response : Requests \union {None}]
  /\ req \in [Requests -> [pc : Pcs, path : Paths]]
  /\ applied \subseteq Requests
  /\ replayed \in [Requests -> Requests \union {None}]
  /\ disturbed \in BOOLEAN

Init ==
  /\ key = NoKey
  /\ \E p \in [Requests -> Paths] : req = [r \in Requests |-> [pc |-> "new", path |-> p[r]]]
  /\ applied = {}
  /\ replayed = [r \in Requests |-> None]
  /\ disturbed = FALSE

Goto(r, pc) == req' = [req EXCEPT ![r].pc = pc]

\* try_claim_key: INSERT ... ON CONFLICT DO NOTHING.
ClaimKey(r) ==
  /\ req[r].pc = "new"
  /\ IF key.status = None
     THEN /\ key' = [NoKey EXCEPT !.status = "pending", !.path = req[r].path]
          /\ Goto(r, "run")
     ELSE Goto(r, "exists") /\ UNCHANGED key
  /\ UNCHANGED <<applied, replayed, disturbed>>

\* Mutant: a stored response is replayed for any path.
SamePathAny(r) == TRUE

SamePath(r) == key.path = req[r].path

\* The SELECT after the conflict, and handle_existing_key: replay, refuse a
\* different path, refuse while in progress, or go on to reclaim. A row that
\* vanished in between counts as a database error.
ExistingKey(r) ==
  /\ req[r].pc = "exists"
  /\ \/ key.status = None /\ Goto(r, "bare") /\ disturbed' = TRUE /\ UNCHANGED replayed
     \/ /\ key.status = "completed"
        /\ replayed' = IF SamePath(r)
                       THEN [replayed EXCEPT ![r] = key.response] ELSE replayed
        /\ Goto(r, "done") /\ UNCHANGED disturbed
     \/ /\ key.status = "pending"
        /\ Goto(r, IF key.old THEN "reclaim" ELSE "done")
        /\ UNCHANGED <<replayed, disturbed>>
  /\ UNCHANGED <<key, applied>>

\* A statement of the claim fails: the handler runs without a key.
DatabaseError(r) ==
  /\ req[r].pc \in {"new", "exists", "reclaim"}
  /\ Goto(r, "bare") /\ disturbed' = TRUE
  /\ UNCHANGED <<key, applied, replayed>>

\* The key is older than STALE_PENDING_SECS. If its request still runs, it has
\* taken longer than it should.
KeyAges ==
  /\ key.status = "pending" /\ ~key.old
  /\ key' = [key EXCEPT !.old = TRUE]
  /\ disturbed' = TRUE
  /\ UNCHANGED <<req, applied, replayed>>

\* Mutant: a pending key is reclaimed whatever its age.
ReclaimAnyAge(r) ==
  /\ req[r].pc = "exists" /\ key.status = "pending"
  /\ key' = [key EXCEPT !.path = req[r].path]
  /\ Goto(r, "run")
  /\ UNCHANGED <<applied, replayed, disturbed>>

\* reclaim_stale_key
Reclaim(r) ==
  /\ req[r].pc = "reclaim"
  /\ IF key.status = "pending" /\ key.old
     THEN key' = [key EXCEPT !.path = req[r].path, !.old = FALSE] /\ Goto(r, "run")
     ELSE Goto(r, "done") /\ UNCHANGED key
  /\ UNCHANGED <<applied, replayed, disturbed>>

\* The handler: it takes effect and succeeds, or changes nothing and fails.
Handle(r) ==
  /\ req[r].pc \in {"run", "bare"}
  /\ \/ applied' = applied \union {r} /\ Goto(r, IF req[r].pc = "run" THEN "store" ELSE "done")
     \/ Goto(r, IF req[r].pc = "run" THEN "discard" ELSE "done") /\ UNCHANGED applied
  /\ UNCHANGED <<key, replayed, disturbed>>

\* The handler takes effect and then fails (create_submission inserts the row and
\* may fail to build its response): the key is deleted all the same.
HandleHalfway(r) ==
  /\ req[r].pc \in {"run", "bare"}
  /\ applied' = applied \union {r} /\ disturbed' = TRUE
  /\ Goto(r, IF req[r].pc = "run" THEN "discard" ELSE "done")
  /\ UNCHANGED <<key, replayed>>

\* Mutant: the response is stored over one that is stored already.
StoreAgain(r) ==
  /\ req[r].pc = "store"
  /\ key' = IF key.status # None
            THEN [key EXCEPT !.status = "completed", !.response = r] ELSE key
  /\ Goto(r, "done")
  /\ UNCHANGED <<applied, replayed, disturbed>>

Store(r) ==
  /\ req[r].pc = "store"
  /\ key' = IF key.status = "pending"
            THEN [key EXCEPT !.status = "completed", !.response = r] ELSE key
  /\ Goto(r, "done")
  /\ UNCHANGED <<applied, replayed, disturbed>>

\* delete_key after a response that is no success: the row, whatever its status.
Discard(r) ==
  /\ req[r].pc = "discard"
  /\ key' = NoKey
  /\ Goto(r, "done")
  /\ UNCHANGED <<applied, replayed, disturbed>>

\* The server dies, or the last statement fails and is only logged.
Dies(r) ==
  /\ req[r].pc \notin {"new", "done"}
  /\ Goto(r, "done") /\ disturbed' = TRUE
  /\ UNCHANGED <<key, applied, replayed>>

\* cleanup_expired_keys, a day later.
Expire ==
  /\ key.status # None /\ key' = NoKey /\ disturbed' = TRUE
  /\ UNCHANGED <<req, applied, replayed>>

Next ==
  \/ KeyAges \/ Expire
  \/ \E r \in Requests :
       \/ ClaimKey(r) \/ ExistingKey(r) \/ DatabaseError(r) \/ Reclaim(r)
       \/ Handle(r) \/ HandleHalfway(r) \/ Store(r) \/ Discard(r) \/ Dies(r)

Spec == Init /\ [][Next]_vars

-----------------------------------------------------------------------------
(* Properties *)

\* The request takes effect at most once, however often it is sent, while no
\* server dies, no statement fails, no handler outlives the limit and none fails
\* after it has taken effect.
AppliedOnce == ~disturbed => Cardinality(applied) <= 1

\* A replay answers with what a request took effect with, and, undisturbed,
\* with the response for its own path.
ReplayFaithful ==
  \A r \in Requests : replayed[r] # None =>
    /\ replayed[r] \in applied
    /\ ~disturbed => req[replayed[r]].path = req[r].path

\* Once a key is stored it is not taken for anything else until it is removed.
StoredKept == key.status = "completed" => key' \in {key, NoKey}

StoredStands == [][StoredKept]_vars
=============================================================================
