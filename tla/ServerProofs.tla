---------------------------- MODULE ServerProofs ----------------------------
(***************************************************************************)
(* Safety of four services of the API server for every value of the         *)
(* constants: idempotency keys, plugin timers, admission control and code   *)
(* runs. Each has an inductive invariant of its own; the steps of the       *)
(* others leave its variables alone.                                        *)
(***************************************************************************)
EXTENDS MCServer, FiniteSetTheorems, TLAPS

-----------------------------------------------------------------------------
(* Idempotency keys.                                                         *)

\* The requests that hold the key: between their claim and the end.
Holds(r) == req[r].pc \in {"run", "store", "discard"}

\* What a request answers with has taken effect.
AnswersApplied ==
  /\ \A r \in Requests : req[r].pc = "store" => r \in applied
  /\ key.status = "completed" => key.response \in applied
  /\ \A r \in Requests : replayed[r] # Key!None => replayed[r] \in applied

\* Undisturbed, the key has at most one holder, who is on the path of the key,
\* and nobody else's request has taken effect.
KeyOfOne ==
  /\ ~key.old
  /\ \A r \in Requests : req[r].pc \notin {"bare", "reclaim"}
  /\ key.status # "pending" => \A r \in Requests : ~Holds(r)
  /\ key.status = Key!None => applied = {}
  /\ key.status = "pending" =>
       \E r \in Requests :
         /\ Holds(r) /\ \A q \in Requests : Holds(q) => q = r
         /\ key.path = req[r].path
         /\ applied = IF req[r].pc = "store" THEN {r} ELSE {}
  /\ key.status = "completed" =>
       /\ key.response \in Requests /\ applied = {key.response}
       /\ key.path = req[key.response].path

SamePathReplayed ==
  \A r \in Requests : replayed[r] # Key!None =>
    replayed[r] \in Requests /\ req[replayed[r]].path = req[r].path

KeyInv == Key!TypeOK /\ AnswersApplied /\ (~disturbed => KeyOfOne /\ SamePathReplayed)

\* A fresh key: no row, every request new, nothing applied.
LEMMA KeyInitial == Key!Init => KeyInv
<1> SUFFICES ASSUME Key!Init PROVE KeyInv
  OBVIOUS
<1>1. PICK p \in [Requests -> Paths] :
        req = [r \in Requests |-> [pc |-> "new", path |-> p[r]]]
  BY DEF Key!Init
<1>2. \A r \in Requests : req[r].pc = "new" /\ replayed[r] = Key!None
  BY <1>1 DEF Key!Init
<1>3. key.status = Key!None /\ ~key.old
  BY DEF Key!Init, Key!NoKey, Key!None
<1>4. Key!TypeOK
  BY <1>1 DEF Key!Init, Key!TypeOK, Key!NoKey, Key!None, Key!Pcs
<1>5. AnswersApplied
  BY <1>2, <1>3 DEF AnswersApplied, Key!None
<1>6. KeyOfOne /\ SamePathReplayed
  BY <1>2, <1>3 DEF KeyOfOne, SamePathReplayed, Holds, Key!None, Key!Init
<1> QED
  BY <1>4, <1>5, <1>6 DEF KeyInv

\* Where a request goes: its path stays, and the other requests stand still.
LEMMA GoneTo ==
  ASSUME Key!TypeOK, NEW r \in Requests, NEW at \in Key!Pcs, Key!Goto(r, at)
  PROVE  /\ req' \in [Requests -> [pc : Key!Pcs, path : Paths]]
         /\ req'[r].pc = at
         /\ \A q \in Requests : req'[q].path = req[q].path
         /\ \A q \in Requests \ {r} : req'[q].pc = req[q].pc
  BY DEF Key!TypeOK, Key!Goto

\* The steps of the middleware and of the handlers keep keys and requests well formed.
LEMMA KeyTyped == ASSUME Key!TypeOK, Key!Next PROVE Key!TypeOK'
<1> USE DEF Key!TypeOK, Key!NoKey, Key!None, Key!Pcs
<1>1. CASE Key!KeyAges
  BY <1>1 DEF Key!KeyAges
<1>2. CASE Key!Expire
  BY <1>2 DEF Key!Expire
<1>3. ASSUME NEW r \in Requests, Key!ClaimKey(r) PROVE Key!TypeOK'
  <2> USE <1>3 DEF Key!ClaimKey, Key!Goto
  <2>0. req[r].path \in Paths
    OBVIOUS
  <2>1. CASE key.status = Key!None
    <3>1. key' \in [status : {Key!None, "pending", "completed"}, path : Paths \union {Key!None},
                    old : BOOLEAN, response : Requests \union {Key!None}]
      BY <2>0, <2>1
    <3>2. req' \in [Requests -> [pc : Key!Pcs, path : Paths]]
      BY <2>1
    <3> QED
      BY <3>1, <3>2
  <2>2. CASE key.status # Key!None
    BY <2>2
  <2> QED
    BY <2>1, <2>2
<1>4. ASSUME NEW r \in Requests, Key!ExistingKey(r) PROVE Key!TypeOK'
  <2>1. req' \in [Requests -> [pc : Key!Pcs, path : Paths]]
    BY <1>4 DEF Key!ExistingKey, Key!Goto
  <2>2. replayed' \in [Requests -> Requests \union {Key!None}]
    BY <1>4 DEF Key!ExistingKey
  <2>3. key' = key /\ applied' = applied /\ disturbed' \in BOOLEAN
    BY <1>4 DEF Key!ExistingKey
  <2> QED
    BY <2>1, <2>2, <2>3
<1>5. ASSUME NEW r \in Requests, Key!DatabaseError(r) PROVE Key!TypeOK'
  BY <1>5 DEF Key!DatabaseError, Key!Goto
<1>6. ASSUME NEW r \in Requests, Key!Reclaim(r) PROVE Key!TypeOK'
  <2> USE <1>6 DEF Key!Reclaim, Key!Goto
  <2>0. req[r].path \in Paths
    OBVIOUS
  <2>1. CASE key.status = "pending" /\ key.old
    <3>1. key' \in [status : {Key!None, "pending", "completed"}, path : Paths \union {Key!None},
                    old : BOOLEAN, response : Requests \union {Key!None}]
      BY <2>0, <2>1
    <3>2. req' \in [Requests -> [pc : Key!Pcs, path : Paths]]
      BY <2>1
    <3> QED
      BY <3>1, <3>2
  <2>2. CASE ~(key.status = "pending" /\ key.old)
    BY <2>2
  <2> QED
    BY <2>1, <2>2
<1>7. ASSUME NEW r \in Requests, Key!Handle(r) PROVE Key!TypeOK'
  BY <1>7 DEF Key!Handle, Key!Goto
<1>8. ASSUME NEW r \in Requests, Key!Store(r) PROVE Key!TypeOK'
  BY <1>8 DEF Key!Store, Key!Goto
<1>9. ASSUME NEW r \in Requests, Key!Discard(r) PROVE Key!TypeOK'
  BY <1>9 DEF Key!Discard, Key!Goto
<1>10. ASSUME NEW r \in Requests, Key!Dies(r) PROVE Key!TypeOK'
  BY <1>10 DEF Key!Dies, Key!Goto
<1>11. ASSUME NEW r \in Requests, Key!HandleHalfway(r) PROVE Key!TypeOK'
  BY <1>11 DEF Key!HandleHalfway, Key!Goto
<1> QED
  BY <1>1, <1>2, <1>3, <1>4, <1>5, <1>6, <1>7, <1>8, <1>9, <1>10, <1>11 DEF Key!Next

\* Whatever is answered, now or in a replay, has taken effect.
LEMMA AnswersAppliedStep ==
  ASSUME Key!TypeOK, AnswersApplied, Key!Next PROVE AnswersApplied'
<1>1. CASE Key!KeyAges
  BY <1>1 DEF Key!KeyAges, Key!TypeOK, AnswersApplied, Key!None
<1>2. CASE Key!Expire
  BY <1>2 DEF Key!Expire, Key!TypeOK, AnswersApplied, Key!NoKey, Key!None
<1>3. ASSUME NEW r \in Requests, Key!ClaimKey(r) PROVE AnswersApplied'
  <2>1. /\ \A q \in Requests : req'[q].pc = "store" => req[q].pc = "store"
        /\ key'.status = "completed" => key' = key
    BY <1>3, ZenonT(60) DEF Key!ClaimKey, Key!Goto, Key!TypeOK, Key!NoKey
  <2> QED
    BY <1>3, <2>1 DEF Key!ClaimKey, AnswersApplied
<1>4. ASSUME NEW r \in Requests, Key!ExistingKey(r) PROVE AnswersApplied'
  <2>1. \A q \in Requests : req'[q].pc = "store" => req[q].pc = "store"
    BY <1>4 DEF Key!ExistingKey, Key!Goto, Key!TypeOK
  <2>2. \/ replayed' = replayed
        \/ key.status = "completed" /\ replayed' = [replayed EXCEPT ![r] = key.response]
    <3>1. CASE key.status = "completed"
      BY <1>4, <3>1, Zenon DEF Key!ExistingKey, Key!None
    <3>2. CASE key.status # "completed"
      BY <1>4, <3>2, Zenon DEF Key!ExistingKey
    <3> QED
      BY <3>1, <3>2
  <2>3. ASSUME NEW q \in Requests
        PROVE  \/ replayed'[q] = replayed[q]
               \/ key.status = "completed" /\ replayed'[q] = key.response
    <3>1. CASE replayed' = replayed
      BY <3>1
    <3>2. CASE key.status = "completed" /\ replayed' = [replayed EXCEPT ![r] = key.response]
      BY <3>2 DEF Key!TypeOK
    <3> QED
      BY <2>2, <3>1, <3>2
  <2> QED
    BY <1>4, <2>1, <2>3 DEF Key!ExistingKey, AnswersApplied
<1>5. ASSUME NEW r \in Requests, Key!DatabaseError(r) PROVE AnswersApplied'
  <2>1. \A q \in Requests : req'[q].pc = "store" => req[q].pc = "store"
    BY <1>5 DEF Key!DatabaseError, Key!Goto, Key!TypeOK
  <2> QED
    BY <1>5, <2>1 DEF Key!DatabaseError, AnswersApplied
<1>6. ASSUME NEW r \in Requests, Key!Reclaim(r) PROVE AnswersApplied'
  <2>1. /\ \A q \in Requests : req'[q].pc = "store" => req[q].pc = "store"
        /\ key'.status = "completed" => key' = key
    BY <1>6, ZenonT(60) DEF Key!Reclaim, Key!Goto, Key!TypeOK
  <2> QED
    BY <1>6, <2>1 DEF Key!Reclaim, AnswersApplied
<1>7. ASSUME NEW r \in Requests, Key!Handle(r) PROVE AnswersApplied'
  <2>1. \A q \in Requests : req'[q].pc = "store" => req[q].pc = "store" \/ q \in applied'
    BY <1>7 DEF Key!Handle, Key!Goto, Key!TypeOK
  <2>2. applied \subseteq applied'
    BY <1>7 DEF Key!Handle
  <2> QED
    BY <1>7, <2>1, <2>2 DEF Key!Handle, AnswersApplied
<1>8. ASSUME NEW r \in Requests, Key!Store(r) PROVE AnswersApplied'
  <2>1. /\ \A q \in Requests : req'[q].pc = "store" => req[q].pc = "store"
        /\ key' = key \/ key'.response = r
    BY <1>8 DEF Key!Store, Key!Goto, Key!TypeOK
  <2> QED
    BY <1>8, <2>1 DEF Key!Store, AnswersApplied
<1>9. ASSUME NEW r \in Requests, Key!Discard(r) PROVE AnswersApplied'
  <2>1. \A q \in Requests : req'[q].pc = "store" => req[q].pc = "store"
    BY <1>9 DEF Key!Discard, Key!Goto, Key!TypeOK
  <2> QED
    BY <1>9, <2>1 DEF Key!Discard, AnswersApplied, Key!NoKey, Key!None
<1>10. ASSUME NEW r \in Requests, Key!Dies(r) PROVE AnswersApplied'
  <2>1. \A q \in Requests : req'[q].pc = "store" => req[q].pc = "store"
    BY <1>10 DEF Key!Dies, Key!Goto, Key!TypeOK
  <2> QED
    BY <1>10, <2>1 DEF Key!Dies, AnswersApplied
<1>11. ASSUME NEW r \in Requests, Key!HandleHalfway(r) PROVE AnswersApplied'
  <2>1. \A q \in Requests : req'[q].pc = "store" => req[q].pc = "store"
    BY <1>11 DEF Key!HandleHalfway, Key!Goto, Key!TypeOK
  <2>2. applied \subseteq applied' /\ key' = key /\ replayed' = replayed
    BY <1>11 DEF Key!HandleHalfway
  <2> QED
    BY <2>1, <2>2 DEF AnswersApplied
<1> QED
  BY <1>1, <1>2, <1>3, <1>4, <1>5, <1>6, <1>7, <1>8, <1>9, <1>10, <1>11 DEF Key!Next

\* The paths of the requests never change.
LEMMA PathsStand ==
  ASSUME Key!TypeOK, Key!Next
  PROVE  \A q \in Requests : req'[q].path = req[q].path
<1>1. ASSUME NEW r \in Requests, NEW at, Key!Goto(r, at)
      PROVE  \A q \in Requests : req'[q].path = req[q].path
  BY <1>1 DEF Key!TypeOK, Key!Goto
<1>2. req' = req \/ \E r \in Requests, at \in Key!Pcs : Key!Goto(r, at)
  BY ZenonT(60) DEF Key!Next, Key!KeyAges, Key!Expire, Key!ClaimKey, Key!ExistingKey, Key!DatabaseError,
         Key!Reclaim, Key!Handle, Key!HandleHalfway, Key!Store, Key!Discard, Key!Dies, Key!Pcs
<1> QED
  BY <1>1, <1>2

\* A step that leaves the row, its holder and the effects alone.
LEMMA KeyOfOneKept ==
  ASSUME Key!TypeOK, KeyOfOne, key' = key, applied' = applied,
         \A q \in Requests : /\ req'[q].path = req[q].path
                             /\ req'[q].pc \notin {"bare", "reclaim"}
                             /\ Holds(q)' <=> Holds(q)
                             /\ req'[q].pc = "store" <=> req[q].pc = "store"
  PROVE  KeyOfOne'
<1>1. CASE key.status = "pending"
  <2>1. PICK r \in Requests :
          /\ Holds(r) /\ \A q \in Requests : Holds(q) => q = r
          /\ key.path = req[r].path
          /\ applied = IF req[r].pc = "store" THEN {r} ELSE {}
    BY <1>1 DEF KeyOfOne
  <2>2. /\ Holds(r)' /\ \A q \in Requests : Holds(q)' => q = r
        /\ key'.path = req'[r].path
        /\ applied' = IF req'[r].pc = "store" THEN {r} ELSE {}
    BY <2>1
  <2> QED
    BY <1>1, <2>2 DEF KeyOfOne, Key!None
<1>2. CASE key.status # "pending"
  BY <1>2 DEF KeyOfOne
<1> QED
  BY <1>1, <1>2

\* While nothing disturbs it, the key stays with one request, from the claim to
\* the response that is stored or thrown away.
LEMMA KeyOfOneStep ==
  ASSUME Key!TypeOK, AnswersApplied, KeyOfOne, SamePathReplayed, ~disturbed, Key!Next, ~disturbed'
  PROVE  KeyOfOne' /\ SamePathReplayed'
<1>0. \A q \in Requests : req'[q].path = req[q].path
  BY PathsStand
<1>1. /\ ~Key!KeyAges /\ ~Key!Expire
      /\ \A r \in Requests : ~Key!DatabaseError(r) /\ ~Key!HandleHalfway(r) /\ ~Key!Dies(r)
  BY DEF Key!KeyAges, Key!Expire, Key!DatabaseError, Key!HandleHalfway, Key!Dies
<1>2. ASSUME replayed' = replayed PROVE SamePathReplayed'
  BY <1>0, <1>2 DEF SamePathReplayed
<1>3. ASSUME NEW r \in Requests, Key!ClaimKey(r) PROVE KeyOfOne' /\ SamePathReplayed'
  <2>1. SamePathReplayed'
    BY <1>2, <1>3 DEF Key!ClaimKey
  <2>2. CASE key.status = Key!None
    <3>1. key'.status = "pending" /\ key'.path = req[r].path /\ ~key'.old /\ applied' = {}
      BY <1>3, <2>2 DEF Key!ClaimKey, Key!NoKey, Key!None, KeyOfOne
    <3>2. Key!Goto(r, "run")
      BY <1>3, <2>2 DEF Key!ClaimKey
    <3>3. req'[r].pc = "run" /\ \A q \in Requests \ {r} : req'[q].pc = req[q].pc
      BY <3>2 DEF Key!Goto, Key!TypeOK
    <3>4. \A q \in Requests : ~Holds(q)
      BY <2>2 DEF KeyOfOne, Key!None
    <3>5. Holds(r)' /\ \A q \in Requests : Holds(q)' => q = r
      BY <3>3, <3>4 DEF Holds
    <3>6. \A q \in Requests : req'[q].pc \notin {"bare", "reclaim"}
      BY <3>3 DEF KeyOfOne
    <3>7. applied' = IF req'[r].pc = "store" THEN {r} ELSE {}
      BY <3>1, <3>3
    <3> QED
      BY <2>1, <1>0, <3>1, <3>5, <3>6, <3>7 DEF KeyOfOne, Key!None
  <2>3. CASE key.status # Key!None
    <3>1. Key!Goto(r, "exists") /\ key' = key /\ applied' = applied /\ req[r].pc = "new"
      BY <1>3, <2>3 DEF Key!ClaimKey
    <3>2. req'[r].pc = "exists" /\ \A q \in Requests \ {r} : req'[q].pc = req[q].pc
      BY <3>1 DEF Key!Goto, Key!TypeOK
    <3>3. \A q \in Requests : /\ req'[q].pc \notin {"bare", "reclaim"}
                              /\ Holds(q)' <=> Holds(q)
                              /\ req'[q].pc = "store" <=> req[q].pc = "store"
      BY <3>1, <3>2 DEF KeyOfOne, Holds
    <3> QED
      BY <2>1, <1>0, <3>1, <3>3, KeyOfOneKept
  <2> QED
    BY <2>2, <2>3
<1>4. ASSUME NEW r \in Requests, Key!ExistingKey(r) PROVE KeyOfOne' /\ SamePathReplayed'
  <2>1. key' = key /\ applied' = applied /\ req[r].pc = "exists" /\ key.status # Key!None
    <3>1. CASE key.status = Key!None
      <4>1. disturbed' = TRUE
        BY <1>4, <3>1, Zenon DEF Key!ExistingKey, Key!None
      <4> QED
        BY <4>1
    <3> QED
      BY <1>4, <3>1, Zenon DEF Key!ExistingKey
  <2>2. Key!Goto(r, "done")
    <3>1. ~key.old
      BY DEF KeyOfOne
    <3>2. CASE key.status = "completed"
      BY <1>4, <3>2, Zenon DEF Key!ExistingKey, Key!None
    <3>3. CASE key.status = "pending"
      BY <1>4, <3>1, <3>3 DEF Key!ExistingKey, Key!None, Key!Goto
    <3> QED
      BY <2>1, <3>2, <3>3 DEF Key!TypeOK
  <2>3. req'[r].pc = "done" /\ \A q \in Requests \ {r} : req'[q].pc = req[q].pc
    BY <2>2 DEF Key!Goto, Key!TypeOK
  <2>4. \A q \in Requests : /\ req'[q].pc \notin {"bare", "reclaim"}
                            /\ Holds(q)' <=> Holds(q)
                            /\ req'[q].pc = "store" <=> req[q].pc = "store"
    BY <2>1, <2>3 DEF KeyOfOne, Holds
  <2>5. KeyOfOne'
    BY <1>0, <2>1, <2>4, KeyOfOneKept
  <2>6. CASE key.status = "completed" /\ Key!SamePath(r)
    <3>1. replayed' = [replayed EXCEPT ![r] = key.response]
      BY <1>4, <2>6, Zenon DEF Key!ExistingKey, Key!None
    <3>2. key.response \in Requests /\ req[key.response].path = req[r].path
      BY <2>6 DEF KeyOfOne, Key!SamePath
    <3> QED
      BY <1>0, <2>5, <3>1, <3>2 DEF SamePathReplayed, Key!TypeOK
  <2>7. CASE ~(key.status = "completed" /\ Key!SamePath(r))
    <3>1. CASE key.status = "completed"
      BY <1>2, <1>4, <2>5, <2>7, <3>1, Zenon DEF Key!ExistingKey, Key!None
    <3>2. CASE key.status # "completed"
      BY <1>2, <1>4, <2>5, <3>2, Zenon DEF Key!ExistingKey
    <3> QED
      BY <3>1, <3>2
  <2> QED
    BY <2>6, <2>7
<1>5. ASSUME NEW r \in Requests, Key!Reclaim(r) PROVE FALSE
  BY <1>5 DEF Key!Reclaim, KeyOfOne
<1>6. ASSUME NEW r \in Requests, Holds(r)
      PROVE  /\ key.status = "pending" /\ key.path = req[r].path
             /\ \A q \in Requests : Holds(q) => q = r
             /\ applied = IF req[r].pc = "store" THEN {r} ELSE {}
  BY <1>6 DEF KeyOfOne
<1>7. ASSUME NEW r \in Requests, Key!Handle(r) PROVE KeyOfOne' /\ SamePathReplayed'
  <2>1. req[r].pc = "run" /\ key' = key /\ replayed' = replayed
    BY <1>7 DEF Key!Handle, KeyOfOne
  <2>2. /\ key.status = "pending" /\ key.path = req[r].path
        /\ \A q \in Requests : Holds(q) => q = r
        /\ applied = {}
    BY <1>6, <2>1 DEF Holds
  <2>3. \/ Key!Goto(r, "store") /\ applied' = {r}
        \/ Key!Goto(r, "discard") /\ applied' = {}
    BY <1>7, <2>1, <2>2 DEF Key!Handle
  <2>4. /\ \A q \in Requests \ {r} : req'[q].pc = req[q].pc
        /\ \/ req'[r].pc = "store" /\ applied' = {r}
           \/ req'[r].pc = "discard" /\ applied' = {}
    BY <2>3 DEF Key!Goto, Key!TypeOK
  <2>5. Holds(r)' /\ \A q \in Requests : Holds(q)' => q = r
    BY <2>2, <2>4 DEF Holds
  <2>6. \A q \in Requests : req'[q].pc \notin {"bare", "reclaim"}
    BY <2>4 DEF KeyOfOne
  <2>7. applied' = IF req'[r].pc = "store" THEN {r} ELSE {}
    BY <2>4
  <2> QED
    BY <1>0, <1>2, <2>1, <2>2, <2>5, <2>6, <2>7 DEF KeyOfOne, Key!None
<1>8. ASSUME NEW r \in Requests, Key!Store(r) PROVE KeyOfOne' /\ SamePathReplayed'
  <2>1. req[r].pc = "store" /\ Key!Goto(r, "done") /\ applied' = applied /\ replayed' = replayed
    BY <1>8 DEF Key!Store
  <2>2. /\ key.status = "pending" /\ key.path = req[r].path
        /\ \A q \in Requests : Holds(q) => q = r
        /\ applied = {r}
    BY <1>6, <2>1 DEF Holds
  <2>3. /\ key'.status = "completed" /\ key'.response = r /\ key'.path = key.path
        /\ key'.old = key.old
    BY <1>8, <2>2 DEF Key!Store, Key!TypeOK
  <2>4. req'[r].pc = "done" /\ \A q \in Requests \ {r} : req'[q].pc = req[q].pc
    BY <2>1 DEF Key!Goto, Key!TypeOK
  <2>5. \A q \in Requests : ~Holds(q)' /\ req'[q].pc \notin {"bare", "reclaim"}
    BY <2>2, <2>4 DEF Holds, KeyOfOne
  <2> QED
    BY <1>0, <1>2, <2>1, <2>2, <2>3, <2>5 DEF KeyOfOne, Key!None
<1>9. ASSUME NEW r \in Requests, Key!Discard(r) PROVE KeyOfOne' /\ SamePathReplayed'
  <2>1. /\ req[r].pc = "discard" /\ Key!Goto(r, "done") /\ key' = Key!NoKey
        /\ applied' = applied /\ replayed' = replayed
    BY <1>9 DEF Key!Discard
  <2>2. applied = {} /\ \A q \in Requests : Holds(q) => q = r
    BY <1>6, <2>1 DEF Holds
  <2>3. req'[r].pc = "done" /\ \A q \in Requests \ {r} : req'[q].pc = req[q].pc
    BY <2>1 DEF Key!Goto, Key!TypeOK
  <2>4. \A q \in Requests : ~Holds(q)' /\ req'[q].pc \notin {"bare", "reclaim"}
    BY <2>2, <2>3 DEF Holds, KeyOfOne
  <2> QED
    BY <1>2, <2>1, <2>2, <2>4 DEF KeyOfOne, Key!NoKey, Key!None
<1> QED
  BY <1>1, <1>3, <1>4, <1>5, <1>7, <1>8, <1>9 DEF Key!Next

\* KeyInv is inductive.
LEMMA KeyStep == ASSUME KeyInv, Key!Next PROVE KeyInv'
<1>1. Key!TypeOK'
  BY KeyTyped DEF KeyInv
<1>2. AnswersApplied'
  BY AnswersAppliedStep DEF KeyInv
<1>3. ASSUME ~disturbed' PROVE KeyOfOne' /\ SamePathReplayed'
  <2>1. ~disturbed
    BY <1>3, ZenonT(60) DEF Key!Next, Key!KeyAges, Key!Expire, Key!ClaimKey, Key!ExistingKey, Key!DatabaseError,
         Key!Reclaim, Key!Handle, Key!HandleHalfway, Key!Store, Key!Discard, Key!Dies
  <2> QED
    BY <1>3, <2>1, KeyOfOneStep, SMTT(30) DEF KeyInv
<1> QED
  BY <1>1, <1>2, <1>3 DEF KeyInv

\* The cardinality of the component's module is that of FiniteSets.
LEMMA KeyCounts == Key!Cardinality(applied) = Cardinality(applied)
  BY Zenon DEF Key!Cardinality, Cardinality

\* What KeyInv says to a client.
LEMMA KeyInvSays == KeyInv => Key!TypeOK /\ Key!AppliedOnce /\ Key!ReplayFaithful
<1> SUFFICES ASSUME KeyInv PROVE Key!AppliedOnce /\ Key!ReplayFaithful
  BY DEF KeyInv
<1>1. ASSUME ~disturbed PROVE Cardinality(applied) <= 1
  <2>1. applied = {} \/ \E r \in Requests : applied = {r}
    BY <1>1 DEF KeyInv, KeyOfOne, Key!TypeOK
  <2> QED
    BY <2>1, FS_EmptySet, FS_Singleton
<1>2. Key!ReplayFaithful
  BY DEF KeyInv, AnswersApplied, SamePathReplayed, Key!ReplayFaithful
<1> QED
  BY <1>1, <1>2, KeyCounts DEF Key!AppliedOnce

\* A stored key is replaced by nothing, only removed.
LEMMA StoredKeptStep == ASSUME Key!TypeOK, Key!Next PROVE Key!StoredKept
<1> SUFFICES ASSUME key.status = "completed" PROVE key' = key \/ key' = Key!NoKey
  BY DEF Key!StoredKept
<1> QED
  BY DEF Key!Next, Key!KeyAges, Key!Expire, Key!ClaimKey, Key!ExistingKey, Key!DatabaseError,
         Key!Reclaim, Key!Handle, Key!HandleHalfway, Key!Store, Key!Discard, Key!Dies, Key!None

\* Idempotency keys (middleware/idempotency.rs), for any number of requests and
\* paths: undisturbed a request takes effect at most once, a replay answers with
\* what took effect for its own path, and a stored key stands until it is removed.
THEOREM KeysAreHonest == Spec => KeysHonest
<1>1. Init => (focus = "key" => KeyInv)
  BY KeyInitial DEF Init
<1>2. ASSUME focus = "key" => KeyInv, [Next]_vars PROVE (focus = "key" => KeyInv)'
  <2>1. CASE UNCHANGED vars
    BY <1>2, <2>1 DEF vars, serviceVars, keyVars, KeyInv, Key!TypeOK, AnswersApplied, KeyOfOne,
         SamePathReplayed, Holds
  <2>2. CASE focus = "key" /\ Key!Next
    BY <1>2, <2>2, KeyStep
  <2>3. CASE focus # "key" /\ focus' = focus
    BY <2>3
  <2> QED
    BY <1>2, <2>1, <2>2, <2>3 DEF Next
<1>3. ASSUME focus = "key" => KeyInv, [Next]_vars PROVE [focus = "key" => Key!StoredKept]_vars
  <2>1. CASE focus = "key" /\ Key!Next
    BY <1>3, <2>1, StoredKeptStep DEF KeyInv
  <2> QED
    BY <1>3, <2>1 DEF Next
<1> QED
  BY <1>1, <1>2, <1>3, KeyInvSays, PTL DEF Spec, KeysHonest

-----------------------------------------------------------------------------
(* Plugin timers.                                                            *)

\* A claim has a number of its own: a delivery whose number the row still has
\* is a delivery of the schedule in the row. What is about to be deleted after a
\* success has fired.
ClaimsTell ==
  /\ row.schedule <= schedules /\ row.claimed <= claims /\ row.attempts <= claims
  /\ \A s \in Servers : delivery[s].pc # "idle" =>
       LET d == delivery[s].row IN
       /\ d.schedule \in 1..schedules /\ d.claimed \in 1..claims
       /\ Timer!Exists /\ row.claimed = d.claimed => row.schedule = d.schedule
       /\ delivery[s].pc = "delete" => d.schedule \in fired

TimerInv == Timer!TypeOK /\ ClaimsTell /\ Timer!NoWakeupLost

\* No row, no delivery, no schedule.
LEMMA TimerInitial == Timer!Init => TimerInv
  BY TimerBounds
     DEF Timer!Init, TimerInv, Timer!TypeOK, ClaimsTell, Timer!NoWakeupLost, Timer!Absent,
         Timer!Idle, Timer!Rows

\* A schedule replaces the row and its claim: no delivery matches it any more.
LEMMA TimerScheduleStep == ASSUME TimerInv, Timer!Schedule PROVE TimerInv'
<1> USE TimerBounds DEF Timer!Schedule, TimerInv
<1>0. /\ row'.schedule = schedules + 1 /\ row'.claimed = 0 /\ row'.attempts = 0
      /\ row' \in Timer!Rows /\ schedules' = schedules + 1 /\ schedules' \in 1..MaxSchedules
  <2>1. schedules' = schedules + 1 /\ schedules' \in 1..MaxSchedules
    BY DEF Timer!TypeOK
  <2>2. row' = [schedule |-> schedules', claimed |-> 0, live |-> FALSE, attempts |-> 0]
    BY DEF Timer!Absent
  <2>3. row' \in Timer!Rows
    <3>1. schedules' \in 0..MaxSchedules /\ 0 \in 0..MaxClaims
      BY <2>1
    <3> HIDE DEF Timer!Schedule, TimerInv
    <3> QED
      BY <2>2, <3>1 DEF Timer!Rows
  <2> QED
    BY <2>1, <2>2, <2>3
<1>1. given' \subseteq 1..MaxSchedules /\ given \subseteq given'
  BY DEF Timer!TypeOK, Timer!Rows, Timer!GiveUp
<1>2. Timer!TypeOK'
  <2>1. UNCHANGED <<delivery, claims, fired>>
    OBVIOUS
  <2> QED
    BY <1>0, <1>1, <2>1 DEF Timer!TypeOK
<1>3. ClaimsTell'
  <2>1. \A s \in Servers : delivery[s].row \in Timer!Rows
    BY DEF Timer!TypeOK
  <2> QED
    BY <1>0, <2>1 DEF Timer!TypeOK, ClaimsTell, Timer!Rows
<1>4. ASSUME NEW n \in 1..schedules' PROVE row'.schedule = n \/ n \in fired' \union given'
  <2>1. CASE n = row.schedule
    BY <2>1 DEF Timer!GiveUp
  <2>2. CASE n # row.schedule
    BY <1>0, <1>1, <2>2 DEF Timer!NoWakeupLost, Timer!TypeOK
  <2> QED
    BY <2>1, <2>2
<1> QED
  BY <1>2, <1>3, <1>4 DEF Timer!NoWakeupLost

\* Somebody cancels, or a claim expires: the row keeps its claim or goes.
LEMMA TimerRowStep == ASSUME TimerInv, Timer!Cancel \/ Timer!LeaseExpires PROVE TimerInv'
<1> USE TimerBounds DEF TimerInv
<1>1. CASE Timer!Cancel
  <2>0. UNCHANGED <<delivery, schedules, claims, fired>> /\ row' = Timer!Absent
    BY <1>1 DEF Timer!Cancel
  <2>1. given' \subseteq 1..MaxSchedules /\ given' = given \union {row.schedule}
    <3>1. row.schedule \in 1..MaxSchedules
      BY <1>1 DEF Timer!TypeOK, Timer!Rows, Timer!Cancel, Timer!Exists
    <3>2. given' = given \union ({row.schedule} \ {0})
      BY <1>1 DEF Timer!GiveUp, Timer!Cancel
    <3>3. given' = given \union {row.schedule}
      BY <3>1, <3>2
    <3>4. given \subseteq 1..MaxSchedules
      BY DEF Timer!TypeOK
    <3> QED
      BY <3>1, <3>3, <3>4
  <2>2. Timer!TypeOK'
    <3>1. Timer!Absent \in Timer!Rows
      BY DEF Timer!Absent, Timer!Rows
    <3> QED
      BY <2>0, <2>1, <3>1 DEF Timer!TypeOK
  <2>3. ClaimsTell'
    BY <2>0 DEF Timer!TypeOK, ClaimsTell, Timer!Absent, Timer!Exists
  <2>4. Timer!NoWakeupLost'
    BY <2>0, <2>1 DEF Timer!NoWakeupLost
  <2> QED
    BY <2>2, <2>3, <2>4
<1>2. CASE Timer!LeaseExpires
  <2>0. /\ UNCHANGED <<delivery, schedules, claims, fired, given>> /\ row' \in Timer!Rows
        /\ row'.schedule = row.schedule /\ row'.claimed = row.claimed
        /\ row'.attempts = row.attempts
    BY <1>2 DEF Timer!LeaseExpires, Timer!TypeOK, Timer!Rows
  <2>2. Timer!TypeOK'
    BY <2>0 DEF Timer!TypeOK
  <2>3. ClaimsTell'
    BY <2>0 DEF Timer!TypeOK, ClaimsTell, Timer!Exists
  <2>4. Timer!NoWakeupLost'
    BY <2>0 DEF Timer!NoWakeupLost
  <2> QED
    BY <2>2, <2>3, <2>4
<1> QED
  BY <1>1, <1>2

\* A claim takes a new number, which no other delivery has.
LEMMA TimerClaimStep == ASSUME TimerInv, NEW s \in Servers, Timer!Claim(s) PROVE TimerInv'
<1> USE TimerBounds DEF TimerInv
<1>0. /\ UNCHANGED <<schedules, fired, given>> /\ claims' = claims + 1 /\ claims' \in 1..MaxClaims
      /\ delivery' = [delivery EXCEPT ![s] = [pc |-> "call", row |-> row']]
      /\ row.schedule # 0
  BY DEF Timer!Claim, Timer!TypeOK, Timer!Exists
<1>1. /\ row'.schedule = row.schedule /\ row'.claimed = claims' /\ row'.attempts = row.attempts + 1
      /\ row'.live = TRUE
      /\ row' = [schedule |-> row.schedule, claimed |-> claims', live |-> TRUE,
                 attempts |-> row.attempts + 1]
  BY DEF Timer!Claim, Timer!TypeOK, Timer!Rows
<1>2. row.attempts + 1 \in 0..MaxClaims /\ row.schedule \in 1..schedules
      /\ row.schedule \in 0..MaxSchedules
  BY <1>0 DEF ClaimsTell, Timer!TypeOK, Timer!Rows
<1>3. row' \in Timer!Rows
  BY <1>0, <1>1, <1>2 DEF Timer!Rows
<1>4. delivery'[s] = [pc |-> "call", row |-> row'] /\ \A q \in Servers \ {s} : delivery'[q] = delivery[q]
  BY <1>0 DEF Timer!TypeOK
<1>5. Timer!TypeOK'
  <2>1. delivery' \in [Servers -> [pc : {"idle", "call", "delete", "drop"}, row : Timer!Rows]]
    BY <1>0, <1>3 DEF Timer!TypeOK
  <2> QED
    BY <1>0, <1>3, <2>1 DEF Timer!TypeOK
<1>6. ClaimsTell'
  <2>1. row'.schedule <= schedules' /\ row'.claimed <= claims' /\ row'.attempts <= claims'
    BY <1>0, <1>1, <1>2 DEF ClaimsTell, Timer!TypeOK, Timer!Rows
  <2>2. ASSUME NEW q \in Servers, delivery'[q].pc # "idle"
        PROVE  LET d == delivery'[q].row IN
               /\ d.schedule \in 1..schedules' /\ d.claimed \in 1..claims'
               /\ Timer!Exists' /\ row'.claimed = d.claimed => row'.schedule = d.schedule
               /\ delivery'[q].pc = "delete" => d.schedule \in fired'
    <3>1. CASE q = s
      BY <1>0, <1>1, <1>2, <1>4, <3>1
    <3>2. CASE q # s
      BY <1>0, <1>1, <1>4, <2>2, <3>2 DEF ClaimsTell, Timer!TypeOK, Timer!Rows
    <3> QED
      BY <3>1, <3>2
  <2> QED
    BY <2>1, <2>2 DEF ClaimsTell
<1>7. Timer!NoWakeupLost'
  BY <1>0, <1>1 DEF Timer!NoWakeupLost
<1> QED
  BY <1>5, <1>6, <1>7

\* A delivery goes on or ends without touching the row.
LEMMA TimerDeliveryStep ==
  ASSUME TimerInv, NEW s \in Servers,
         NEW at \in {"idle", "delete", "drop"}, NEW d \in Timer!Rows,
         UNCHANGED <<row, schedules, claims, given>>,
         fired \subseteq fired', fired' \subseteq 1..MaxSchedules,
         delivery' = [delivery EXCEPT ![s] = [pc |-> at, row |-> d]],
         at # "idle" => d = delivery[s].row /\ delivery[s].pc # "idle",
         at = "delete" => d.schedule \in fired'
  PROVE  TimerInv'
<1> USE DEF TimerInv
<1>1. delivery'[s] = [pc |-> at, row |-> d] /\ \A q \in Servers \ {s} : delivery'[q] = delivery[q]
  BY DEF Timer!TypeOK
<1>2. Timer!TypeOK'
  <2>1. delivery' \in [Servers -> [pc : {"idle", "call", "delete", "drop"}, row : Timer!Rows]]
    BY DEF Timer!TypeOK
  <2> QED
    BY <2>1 DEF Timer!TypeOK
<1>3. ClaimsTell'
  <2>1. ASSUME NEW q \in Servers, delivery'[q].pc # "idle"
        PROVE  LET e == delivery'[q].row IN
               /\ e.schedule \in 1..schedules' /\ e.claimed \in 1..claims'
               /\ Timer!Exists' /\ row'.claimed = e.claimed => row'.schedule = e.schedule
               /\ delivery'[q].pc = "delete" => e.schedule \in fired'
    <3>1. CASE q = s
      BY <1>1, <2>1, <3>1 DEF ClaimsTell, Timer!Exists
    <3>2. CASE q # s
      BY <1>1, <2>1, <3>2 DEF ClaimsTell, Timer!Exists
    <3> QED
      BY <3>1, <3>2
  <2> QED
    BY <2>1 DEF ClaimsTell
<1>4. Timer!NoWakeupLost'
  BY DEF Timer!NoWakeupLost
<1> QED
  BY <1>2, <1>3, <1>4

\* The callback succeeds, fails or has no handler, or the replica dies.
LEMMA TimerCallStep ==
  ASSUME TimerInv, NEW s \in Servers,
         \/ Timer!CallSucceeds(s) \/ Timer!CallFails(s) \/ Timer!NoHandler(s) \/ Timer!Abandon(s)
  PROVE  TimerInv'
<1>0. /\ delivery \in [Servers -> [pc : {"idle", "call", "delete", "drop"}, row : Timer!Rows]]
      /\ delivery[s].row \in Timer!Rows /\ fired \subseteq 1..MaxSchedules
  BY DEF TimerInv, Timer!TypeOK
<1>1. Timer!Absent \in Timer!Rows
  BY TimerBounds DEF Timer!Absent, Timer!Rows
<1>2. ASSUME delivery' = [delivery EXCEPT ![s] = Timer!Idle],
             UNCHANGED <<row, schedules, claims, fired, given>>
      PROVE  TimerInv'
  BY <1>0, <1>1, <1>2, TimerDeliveryStep DEF Timer!Idle
<1>3. ASSUME delivery' = [delivery EXCEPT ![s].pc = "drop"], delivery[s].pc = "call",
             UNCHANGED <<row, schedules, claims, fired, given>>
      PROVE  TimerInv'
  <2>1. delivery' = [delivery EXCEPT ![s] = [pc |-> "drop", row |-> delivery[s].row]]
    <3>1. [delivery[s] EXCEPT !.pc = "drop"] = [pc |-> "drop", row |-> delivery[s].row]
      BY <1>0
    <3> QED
      BY <1>3, <3>1, Zenon
  <2> QED
    BY <1>0, <1>3, <2>1, TimerDeliveryStep
<1>4. CASE Timer!CallSucceeds(s)
  <2>1. delivery' = [delivery EXCEPT ![s] = [pc |-> "delete", row |-> delivery[s].row]]
    <3>1. [delivery[s] EXCEPT !.pc = "delete"] = [pc |-> "delete", row |-> delivery[s].row]
      BY <1>0
    <3> QED
      BY <1>4, <3>1, Zenon DEF Timer!CallSucceeds
  <2>2. delivery[s].pc = "call" /\ fired' = fired \union {delivery[s].row.schedule}
        /\ UNCHANGED <<row, schedules, claims, given>>
    BY <1>4 DEF Timer!CallSucceeds
  <2>3. delivery[s].row.schedule \in 1..MaxSchedules
    BY <1>0, <2>2, TimerBounds DEF TimerInv, ClaimsTell, Timer!TypeOK
  <2> QED
    BY <1>0, <2>1, <2>2, <2>3, TimerDeliveryStep
<1>5. CASE Timer!CallFails(s)
  BY <1>2, <1>3, <1>5 DEF Timer!CallFails
<1>6. CASE Timer!NoHandler(s)
  BY <1>3, <1>6 DEF Timer!NoHandler
<1>7. CASE Timer!Abandon(s)
  BY <1>2, <1>7 DEF Timer!Abandon
<1> QED
  BY <1>4, <1>5, <1>6, <1>7

\* The row that is deleted is the one that was claimed: it has fired, or is
\* given up.
LEMMA TimerDeleteStep == ASSUME TimerInv, NEW s \in Servers, Timer!Delete(s) PROVE TimerInv'
<1> DEFINE d == delivery[s].row
<1>0. /\ delivery \in [Servers -> [pc : {"idle", "call", "delete", "drop"}, row : Timer!Rows]]
      /\ d \in Timer!Rows /\ row \in Timer!Rows /\ given \subseteq 1..MaxSchedules
  BY DEF TimerInv, Timer!TypeOK
<1>1. /\ delivery[s].pc \in {"delete", "drop"}
      /\ delivery' = [delivery EXCEPT ![s] = Timer!Idle]
      /\ UNCHANGED <<schedules, claims, fired>>
  BY DEF Timer!Delete
<1>2. delivery'[s] = Timer!Idle /\ \A q \in Servers \ {s} : delivery'[q] = delivery[q]
  BY <1>0, <1>1
<1>3. Timer!Absent \in Timer!Rows
  BY TimerBounds DEF Timer!Absent, Timer!Rows
<1>4. CASE ~(Timer!Exists /\ Timer!SameClaim(d))
  <2>1. row' = row /\ given' = given
    BY <1>4 DEF Timer!Delete, Timer!Exists, Timer!SameClaim
  <2> QED
    BY <1>0, <1>1, <1>3, <2>1, TimerDeliveryStep DEF Timer!Idle, TimerInv, Timer!TypeOK
<1>5. CASE Timer!Exists /\ Timer!SameClaim(d)
  <2>1. row' = Timer!Absent /\ given \subseteq given'
        /\ (delivery[s].pc = "drop" => d.schedule \in given')
    BY <1>5 DEF Timer!Delete, Timer!Exists, Timer!SameClaim
  <2>2. row.schedule = d.schedule /\ d.schedule \in 1..schedules
        /\ (delivery[s].pc = "delete" => d.schedule \in fired)
    BY <1>1, <1>5 DEF Timer!SameClaim, TimerInv, ClaimsTell
  <2>3. given' \subseteq 1..MaxSchedules
    <3>1. d.schedule \in 1..MaxSchedules
      BY <2>2, TimerBounds DEF TimerInv, Timer!TypeOK
    <3>2. given' = given \/ given' = given \union {d.schedule}
      BY DEF Timer!Delete
    <3> QED
      BY <1>0, <3>1, <3>2
  <2>4. Timer!TypeOK'
    <3>1. Timer!Idle \in [pc : {"idle", "call", "delete", "drop"}, row : Timer!Rows]
      BY <1>3 DEF Timer!Idle
    <3>2. delivery' \in [Servers -> [pc : {"idle", "call", "delete", "drop"}, row : Timer!Rows]]
      BY <1>0, <1>1, <3>1
    <3> QED
      BY <1>1, <1>3, <2>1, <2>3, <3>2 DEF Timer!TypeOK, TimerInv
  <2>5. ClaimsTell'
    <3>1. row'.schedule = 0 /\ row'.claimed = 0 /\ row'.attempts = 0
      BY <2>1 DEF Timer!Absent
    <3>2. \A q \in Servers : delivery'[q].pc # "idle" => delivery'[q] = delivery[q]
      BY <1>2 DEF Timer!Idle
    <3> QED
      BY <1>1, <3>1, <3>2 DEF TimerInv, ClaimsTell, Timer!Exists, Timer!TypeOK
  <2>6. Timer!NoWakeupLost'
    BY <1>1, <2>1, <2>2 DEF TimerInv, Timer!NoWakeupLost
  <2> QED
    BY <2>4, <2>5, <2>6 DEF TimerInv
<1> QED
  BY <1>4, <1>5

\* Plugin timers (dispatcher/plugin_timer.rs, host_funcs/timer.rs), for any number
\* of replicas, attempts and schedules: no wake-up is lost. A schedule that is no
\* longer in the table has fired, or was cancelled, replaced or given up.
THEOREM NoTimerLost == Spec => [](focus = "timer" => Timer!NoWakeupLost)
<1>1. Init => (focus = "timer" => TimerInv)
  BY TimerInitial DEF Init
<1>2. ASSUME focus = "timer" => TimerInv, [Next]_vars PROVE (focus = "timer" => TimerInv)'
  <2>1. CASE UNCHANGED vars
    BY <1>2, <2>1 DEF vars, serviceVars, timerVars, TimerInv, Timer!TypeOK, ClaimsTell,
         Timer!NoWakeupLost, Timer!Exists
  <2>2. CASE focus = "timer" /\ Timer!Next
    BY <1>2, <2>2, TimerScheduleStep, TimerRowStep, TimerClaimStep, TimerCallStep, TimerDeleteStep
       DEF Timer!Next
  <2>3. CASE focus # "timer" /\ focus' = focus
    BY <2>3
  <2> QED
    BY <1>2, <2>1, <2>2, <2>3 DEF Next
<1>3. TimerInv => Timer!NoWakeupLost
  BY DEF TimerInv
<1> QED
  BY <1>1, <1>2, <1>3, PTL DEF Spec

-----------------------------------------------------------------------------
(* Admission control.                                                        *)

Holders == {"held", "granted", "running"}

Places == {"slot", "spawned", "waiting", "granted"}

\* The semaphore's queue has every task once, and they all wait.
ParkedWait ==
  /\ \A i \in 1..Len(waiters) : pc[waiters[i]] = "waiting"
  /\ \A i, j \in 1..Len(waiters) : waiters[i] = waiters[j] => i = j

PermitsInv ==
  /\ Permits!TypeOK /\ ParkedWait
  /\ Permits!PermitsConserved /\ Permits!QueuedCounterExact /\ Permits!NoIdlePermit

\* The reservations in a set of states are finitely many.
LEMMA InFinite ==
  ASSUME NEW S
  PROVE  /\ IsFiniteSet(Permits!In(S)) /\ Cardinality(Permits!In(S)) \in Nat
         /\ Permits!Cardinality(Permits!In(S)) = Cardinality(Permits!In(S))
<1>1. Permits!In(S) \subseteq Reservations
  BY DEF Permits!In
<1>2. IsFiniteSet(Permits!In(S))
  BY <1>1, PermitSettings, FS_Subset
<1>3. Permits!Cardinality(Permits!In(S)) = Cardinality(Permits!In(S))
  BY Zenon DEF Permits!Cardinality, Cardinality
<1> QED
  BY <1>2, <1>3, FS_CardinalityType

\* A reservation that moves from one state to another leaves the count of a set of
\* states as it is, or changes it by one.
LEMMA Moves ==
  ASSUME NEW r \in Reservations, NEW next, NEW S,
         pc \in [Reservations -> Permits!States], pc' = [pc EXCEPT ![r] = next]
  PROVE  /\ (pc[r] \in S <=> next \in S) =>
              Cardinality(Permits!In(S)') = Cardinality(Permits!In(S))
         /\ pc[r] \notin S /\ next \in S =>
              Cardinality(Permits!In(S)') = Cardinality(Permits!In(S)) + 1
         /\ pc[r] \in S /\ next \notin S =>
              /\ Cardinality(Permits!In(S)') = Cardinality(Permits!In(S)) - 1
              /\ Cardinality(Permits!In(S)) > 0
<1>1. IsFiniteSet(Permits!In(S)) /\ Cardinality(Permits!In(S)) \in Nat
  BY InFinite
<1>2. CASE pc[r] \in S <=> next \in S
  <2>1. Permits!In(S)' = Permits!In(S)
    BY <1>2 DEF Permits!In
  <2> QED
    BY <1>2, <2>1
<1>3. CASE pc[r] \notin S /\ next \in S
  <2>1. Permits!In(S)' = Permits!In(S) \union {r} /\ r \notin Permits!In(S)
    BY <1>3 DEF Permits!In
  <2>2. Cardinality(Permits!In(S) \union {r}) = Cardinality(Permits!In(S)) + 1
    BY <1>1, <2>1, FS_AddElement
  <2> QED
    BY <1>3, <2>1, <2>2
<1>4. CASE pc[r] \in S /\ next \notin S
  <2>1. Permits!In(S)' = Permits!In(S) \ {r} /\ r \in Permits!In(S)
    BY <1>4 DEF Permits!In
  <2>2. Cardinality(Permits!In(S) \ {r}) = Cardinality(Permits!In(S)) - 1
    BY <1>1, <2>1, FS_RemoveElement
  <2>3. Cardinality(Permits!In(S)) # 0
    BY <1>1, <2>1, FS_EmptySet
  <2> QED
    BY <1>1, <1>4, <2>1, <2>2, <2>3
<1> QED
  BY <1>2, <1>3, <1>4

\* The two sums, in the terms of FiniteSets.
LEMMA PermitsInvMeans ==
  PermitsInv <=>
    /\ Permits!TypeOK /\ ParkedWait /\ Permits!NoIdlePermit
    /\ Cardinality(Permits!In(Holders)) + avail = Concurrency
    /\ queued = Cardinality(Permits!In(Places))
<1>1. /\ Permits!Cardinality(Permits!In(Holders)) = Cardinality(Permits!In(Holders))
      /\ Permits!Cardinality(Permits!In(Places)) = Cardinality(Permits!In(Places))
  BY InFinite
<1> QED
  BY <1>1 DEF PermitsInv, Permits!PermitsConserved, Permits!QueuedCounterExact, Holders, Places

\* What PermitsInv says of the counters, for the steps below.
LEMMA PermitsFacts ==
  ASSUME PermitsInv
  PROVE  /\ pc \in [Reservations -> Permits!States] /\ waiters \in Seq(Reservations)
         /\ avail \in Nat /\ avail <= Concurrency /\ queued \in Nat /\ queued <= MaxQueued
         /\ Cardinality(Permits!In(Holders)) \in Nat
         /\ Cardinality(Permits!In(Holders)) + avail = Concurrency
         /\ queued = Cardinality(Permits!In(Places))
         /\ waiters # <<>> => avail = 0
  BY PermitsInvMeans, InFinite, PermitSettings DEF Permits!TypeOK, Permits!NoIdlePermit

\* One permit for a holder, one place in the queue.
Permit(at) == IF at \in Holders THEN 1 ELSE 0

Place(at) == IF at \in Places THEN 1 ELSE 0

\* What a move does to the two counts.
LEMMA MoveCounts ==
  ASSUME PermitsInv, NEW r \in Reservations, NEW next, pc' = [pc EXCEPT ![r] = next]
  PROVE  /\ Cardinality(Permits!In(Holders)') =
              Cardinality(Permits!In(Holders)) + Permit(next) - Permit(pc[r])
         /\ Cardinality(Permits!In(Places)') =
              Cardinality(Permits!In(Places)) + Place(next) - Place(pc[r])
<1>0. pc \in [Reservations -> Permits!States]
  BY PermitsFacts
<1>1. Cardinality(Permits!In(Holders)) \in Nat /\ Cardinality(Permits!In(Places)) \in Nat
  BY InFinite
<1>2. Cardinality(Permits!In(Holders)') =
        Cardinality(Permits!In(Holders)) + Permit(next) - Permit(pc[r])
  <2>1. /\ (pc[r] \in Holders <=> next \in Holders) =>
             Cardinality(Permits!In(Holders)') = Cardinality(Permits!In(Holders))
        /\ pc[r] \notin Holders /\ next \in Holders =>
             Cardinality(Permits!In(Holders)') = Cardinality(Permits!In(Holders)) + 1
        /\ pc[r] \in Holders /\ next \notin Holders =>
             Cardinality(Permits!In(Holders)') = Cardinality(Permits!In(Holders)) - 1
    BY <1>0, Moves
  <2> QED
    BY <1>1, <2>1 DEF Permit
<1>3. Cardinality(Permits!In(Places)') =
        Cardinality(Permits!In(Places)) + Place(next) - Place(pc[r])
  <2>1. /\ (pc[r] \in Places <=> next \in Places) =>
             Cardinality(Permits!In(Places)') = Cardinality(Permits!In(Places))
        /\ pc[r] \notin Places /\ next \in Places =>
             Cardinality(Permits!In(Places)') = Cardinality(Permits!In(Places)) + 1
        /\ pc[r] \in Places /\ next \notin Places =>
             Cardinality(Permits!In(Places)') = Cardinality(Permits!In(Places)) - 1
    BY <1>0, Moves
  <2> QED
    BY <1>1, <2>1 DEF Place
<1> QED
  BY <1>2, <1>3

\* PermitsInv again after a step, from the two sums.
LEMMA PermitsInvAfter ==
  ASSUME pc' \in [Reservations -> Permits!States], waiters' \in Seq(Reservations), ParkedWait',
         avail' \in Nat, queued' \in Nat, queued' <= MaxQueued, waiters' # <<>> => avail' = 0,
         Cardinality(Permits!In(Holders)') + avail' = Concurrency,
         queued' = Cardinality(Permits!In(Places)')
  PROVE  PermitsInv'
<1>1. /\ Cardinality(Permits!In(Holders)') \in Nat
      /\ (Permits!Cardinality(Permits!In(Holders)))' = Cardinality(Permits!In(Holders)')
      /\ (Permits!Cardinality(Permits!In(Places)))' = Cardinality(Permits!In(Places)')
  <2>1. \A S : Permits!In(S)' \subseteq Reservations
    BY DEF Permits!In
  <2>2. IsFiniteSet(Permits!In(Holders)')
    BY <2>1, PermitSettings, FS_Subset
  <2>3. \A T : Permits!Cardinality(T) = Cardinality(T)
    BY Zenon DEF Permits!Cardinality, Cardinality
  <2> QED
    BY <2>2, <2>3, FS_CardinalityType
<1>2. avail' \in 0..Concurrency
  BY <1>1, PermitSettings
<1>3. Permits!TypeOK'
  BY <1>2, PermitSettings DEF Permits!TypeOK
<1> QED
  BY <1>1, <1>3
     DEF PermitsInv, Permits!PermitsConserved, Permits!QueuedCounterExact, Permits!NoIdlePermit,
         Holders, Places

\* A step that moves one reservation that is not parked, and parks nobody: the
\* pool gives or takes what the reservation takes or gives, and so does the counter.
LEMMA OneMoves ==
  ASSUME PermitsInv, NEW r \in Reservations, NEW next \in Permits!States,
         pc' = [pc EXCEPT ![r] = next], waiters' = waiters, pc[r] # "waiting",
         avail' = avail + Permit(pc[r]) - Permit(next), avail' >= 0,
         queued' = queued + Place(next) - Place(pc[r]), queued' <= MaxQueued,
         waiters # <<>> => avail' = 0
  PROVE  PermitsInv'
<1>0. pc \in [Reservations -> Permits!States] /\ waiters \in Seq(Reservations) /\ ParkedWait
  BY DEF PermitsInv, Permits!TypeOK
<1>1. /\ Cardinality(Permits!In(Holders)') =
           Cardinality(Permits!In(Holders)) + Permit(next) - Permit(pc[r])
      /\ Cardinality(Permits!In(Places)') =
           Cardinality(Permits!In(Places)) + Place(next) - Place(pc[r])
  BY MoveCounts
<1>2. ParkedWait'
  <2>1. \A i \in 1..Len(waiters) : waiters[i] \in Reservations /\ pc[waiters[i]] = "waiting"
    BY <1>0 DEF ParkedWait
  <2>2. \A i \in 1..Len(waiters) : pc'[waiters[i]] = "waiting"
    BY <1>0, <2>1
  <2> QED
    BY <1>0, <2>2 DEF ParkedWait
<1>3. /\ Permit(next) \in {0, 1} /\ Permit(pc[r]) \in {0, 1}
      /\ Place(next) \in {0, 1} /\ Place(pc[r]) \in {0, 1}
  BY DEF Permit, Place
<1>4. Cardinality(Permits!In(Holders)') + avail' = Concurrency
  BY <1>1, <1>3, PermitsFacts, PermitSettings
<1>5. queued' = Cardinality(Permits!In(Places)')
  BY <1>1, <1>3, PermitsFacts
<1>6. Permits!In(Places)' \subseteq Reservations
  BY DEF Permits!In
<1>7. queued' \in Nat
  BY <1>5, <1>6, PermitSettings, FS_Subset, FS_CardinalityType
<1>8. avail' \in Nat
  BY <1>3, PermitsFacts
<1>9. pc' \in [Reservations -> Permits!States]
  BY <1>0
<1> QED
  BY <1>0, <1>2, <1>4, <1>5, <1>7, <1>8, <1>9, PermitsInvAfter

\* The steps of a reservation that neither parks a task nor gives back a permit.
LEMMA PermitsMoveStep ==
  ASSUME PermitsInv, NEW r \in Reservations,
         \/ Permits!TryAcquire(r) \/ Permits!ReserveQueuedSlot(r) \/ Permits!Spawn(r)
         \/ Permits!LeaveQueue(r)
  PROVE  PermitsInv'
<1>0. /\ avail \in Nat /\ queued \in Nat /\ queued <= MaxQueued /\ MaxQueued \in Nat
      /\ waiters # <<>> => avail = 0
  BY PermitsFacts, PermitSettings
<1>1. /\ Permit("idle") = 0 /\ Permit("full") = 0 /\ Permit("held") = 1 /\ Permit("slot") = 0
      /\ Permit("spawned") = 0 /\ Permit("granted") = 1 /\ Permit("running") = 1
      /\ Place("idle") = 0 /\ Place("full") = 0 /\ Place("held") = 0 /\ Place("slot") = 1
      /\ Place("spawned") = 1 /\ Place("granted") = 1 /\ Place("running") = 0
  BY DEF Permit, Place, Holders, Places
<1>2. {"idle", "full", "held", "slot", "spawned", "granted", "running"} \subseteq Permits!States
  BY DEF Permits!States
<1>3. CASE Permits!TryAcquire(r)
  <2>1. /\ pc[r] = "idle" /\ UNCHANGED <<waiters, queued>>
        /\ \/ avail > 0 /\ avail' = avail - 1 /\ pc' = [pc EXCEPT ![r] = "held"]
           \/ pc' = [pc EXCEPT ![r] = "full"] /\ avail' = avail
    BY <1>3 DEF Permits!TryAcquire
  <2>2. CASE avail > 0 /\ avail' = avail - 1 /\ pc' = [pc EXCEPT ![r] = "held"]
    <3>1. avail' = avail + Permit(pc[r]) - Permit("held") /\ avail' >= 0
      BY <1>0, <1>1, <1>2, <2>1, <2>2
    <3>2. queued' = queued + Place("held") - Place(pc[r]) /\ queued' <= MaxQueued
      BY <1>0, <1>1, <1>2, <2>1, <2>2
    <3>3. waiters # <<>> => avail' = 0
      BY <1>0, <1>1, <1>2, <2>1, <2>2
    <3> QED
      BY <1>0, <1>1, <1>2, <2>1, <2>2, <3>1, <3>2, <3>3, OneMoves
  <2>3. CASE pc' = [pc EXCEPT ![r] = "full"] /\ avail' = avail
    <3>1. avail' = avail + Permit(pc[r]) - Permit("full") /\ avail' >= 0
      BY <1>0, <1>1, <1>2, <2>1, <2>3
    <3>2. queued' = queued + Place("full") - Place(pc[r]) /\ queued' <= MaxQueued
      BY <1>0, <1>1, <1>2, <2>1, <2>3
    <3>3. waiters # <<>> => avail' = 0
      BY <1>0, <1>1, <1>2, <2>1, <2>3
    <3> QED
      BY <1>0, <1>1, <1>2, <2>1, <2>3, <3>1, <3>2, <3>3, OneMoves
  <2> QED
    BY <2>1, <2>2, <2>3
<1>4. CASE Permits!ReserveQueuedSlot(r)
  <2>1. /\ pc[r] = "full" /\ UNCHANGED <<avail, waiters>>
        /\ \/ queued < MaxQueued /\ queued' = queued + 1 /\ pc' = [pc EXCEPT ![r] = "slot"]
           \/ pc' = [pc EXCEPT ![r] = "idle"] /\ queued' = queued
    BY <1>4 DEF Permits!ReserveQueuedSlot, Permits!QueueHasRoom
  <2> QED
    BY <1>0, <1>1, <1>2, <2>1, OneMoves
<1>5. CASE Permits!Spawn(r)
  <2>1. /\ UNCHANGED <<avail, waiters, queued>>
        /\ \/ pc[r] = "held" /\ pc' = [pc EXCEPT ![r] = "running"]
           \/ pc[r] = "slot" /\ pc' = [pc EXCEPT ![r] = "spawned"]
    BY <1>5 DEF Permits!Spawn
  <2> QED
    BY <1>0, <1>1, <1>2, <2>1, OneMoves
<1>6. CASE Permits!LeaveQueue(r)
  <2>1. /\ UNCHANGED <<avail, waiters>> /\ queued' = queued - 1
        /\ pc[r] = "granted" /\ pc' = [pc EXCEPT ![r] = "running"]
    BY <1>6 DEF Permits!LeaveQueue
  <2>2. avail' = avail + Permit(pc[r]) - Permit("running") /\ avail' >= 0
    BY <1>0, <1>1, <1>2, <2>1
  <2>3. queued' = queued + Place("running") - Place(pc[r]) /\ queued' <= MaxQueued
    BY <1>0, <1>1, <1>2, <2>1
  <2>4. waiters # <<>> => avail' = 0
    BY <1>0, <1>1, <1>2, <2>1
  <2> QED
    BY <1>0, <1>1, <1>2, <2>1, <2>2, <2>3, <2>4, OneMoves
<1> QED
  BY <1>3, <1>4, <1>5, <1>6

\* acquire_owned: a permit is there, or the task is parked behind the others.
LEMMA AcquireOwnedStep ==
  ASSUME PermitsInv, NEW r \in Reservations, Permits!AcquireOwned(r) PROVE PermitsInv'
<1>0. /\ avail \in Nat /\ queued \in Nat /\ queued <= MaxQueued /\ MaxQueued \in Nat
      /\ waiters # <<>> => avail = 0
      /\ pc \in [Reservations -> Permits!States] /\ waiters \in Seq(Reservations)
  BY PermitsFacts, PermitSettings
<1>1. /\ Permit("spawned") = 0 /\ Permit("waiting") = 0 /\ Permit("granted") = 1
      /\ Place("spawned") = 1 /\ Place("waiting") = 1 /\ Place("granted") = 1
  BY DEF Permit, Place, Holders, Places
<1>2. pc[r] = "spawned" /\ queued' = queued
  BY DEF Permits!AcquireOwned
<1>3. CASE avail > 0
  <2>1. avail' = avail - 1 /\ pc' = [pc EXCEPT ![r] = "granted"] /\ waiters' = waiters
    BY <1>3 DEF Permits!AcquireOwned
  <2>2. "granted" \in Permits!States
    BY DEF Permits!States
  <2>3. avail' = avail + Permit(pc[r]) - Permit("granted") /\ avail' >= 0
    BY <1>0, <1>1, <1>2, <1>3, <2>1
  <2>4. queued' = queued + Place("granted") - Place(pc[r]) /\ queued' <= MaxQueued
    BY <1>0, <1>1, <1>2
  <2>5. waiters # <<>> => avail' = 0
    BY <1>0, <1>3
  <2> QED
    BY <1>0, <1>1, <1>2, <1>3, <2>1, <2>2, <2>3, <2>4, <2>5, OneMoves
<1>4. CASE ~(avail > 0)
  <2>1. avail' = avail /\ pc' = [pc EXCEPT ![r] = "waiting"] /\ waiters' = Append(waiters, r)
    BY <1>4 DEF Permits!AcquireOwned, Permits!Parked
  <2>2. avail' = 0
    BY <1>0, <1>4, <2>1
  <2>3. /\ Cardinality(Permits!In(Holders)') = Cardinality(Permits!In(Holders))
        /\ Cardinality(Permits!In(Places)') = Cardinality(Permits!In(Places))
    <3>1. /\ Cardinality(Permits!In(Holders)') = Cardinality(Permits!In(Holders)) + 0 - 0
          /\ Cardinality(Permits!In(Places)') = Cardinality(Permits!In(Places)) + 1 - 1
      BY <1>1, <1>2, <2>1, MoveCounts
    <3> QED
      BY <3>1, InFinite
  <2>4. pc' \in [Reservations -> Permits!States] /\ waiters' \in Seq(Reservations)
    BY <1>0, <2>1 DEF Permits!States
  <2>5. ParkedWait'
    <3>0. ParkedWait
      BY DEF PermitsInv
    <3>1. Len(waiters') = Len(waiters) + 1 /\ waiters'[Len(waiters) + 1] = r
          /\ \A i \in 1..Len(waiters) : waiters'[i] = waiters[i]
      BY <1>0, <2>1
    <3>2. \A i \in 1..Len(waiters) : /\ waiters[i] \in Reservations /\ waiters[i] # r
                                     /\ pc[waiters[i]] = "waiting"
      BY <1>0, <1>2, <3>0 DEF ParkedWait
    <3>3. \A i \in 1..Len(waiters) : pc'[waiters[i]] = "waiting"
      BY <1>0, <2>1, <3>2
    <3>4. pc'[r] = "waiting"
      BY <1>0, <2>1
    <3>5. Len(waiters) \in Nat /\ 1..Len(waiters') = 1..Len(waiters) \union {Len(waiters) + 1}
      BY <1>0, <3>1
    <3>6. \A i \in 1..Len(waiters') : pc'[waiters'[i]] = "waiting"
      BY <3>1, <3>3, <3>4, <3>5
    <3>7. \A i, j \in 1..Len(waiters') : waiters'[i] = waiters'[j] => i = j
      BY <3>0, <3>1, <3>2, <3>5 DEF ParkedWait
    <3> QED
      BY <3>6, <3>7 DEF ParkedWait
  <2> QED
    BY <1>0, <1>2, <2>1, <2>2, <2>3, <2>4, <2>5, PermitsFacts, PermitsInvAfter
<1> QED
  BY <1>3, <1>4

\* A permit that is given back goes to the task that waits longest, and to the
\* pool only if nobody waits.
LEMMA ReleaseStep ==
  ASSUME PermitsInv, NEW r \in Reservations, pc[r] \in {"held", "running"},
         Permits!Release(r, "idle"), queued' = queued
  PROVE  PermitsInv'
<1>0. /\ avail \in Nat /\ queued \in Nat /\ queued <= MaxQueued /\ MaxQueued \in Nat
      /\ waiters # <<>> => avail = 0
      /\ pc \in [Reservations -> Permits!States] /\ waiters \in Seq(Reservations)
  BY PermitsFacts, PermitSettings
<1>1. CASE waiters = <<>>
  <2>1. avail' = avail + 1 /\ pc' = [pc EXCEPT ![r] = "idle"] /\ waiters' = waiters
    BY <1>1 DEF Permits!Release
  <2>2. Permit(pc[r]) = 1 /\ Permit("idle") = 0 /\ Place(pc[r]) = 0 /\ Place("idle") = 0
    BY DEF Permit, Place, Holders, Places
  <2>3. "idle" \in Permits!States
    BY DEF Permits!States
  <2>4. avail' = avail + Permit(pc[r]) - Permit("idle") /\ avail' >= 0
    BY <1>0, <2>1, <2>2
  <2>5. queued' = queued + Place("idle") - Place(pc[r]) /\ queued' <= MaxQueued
    BY <1>0, <2>2
  <2> QED
    BY <1>1, <2>1, <2>3, <2>4, <2>5, OneMoves
<1>2. CASE waiters # <<>>
  <2> DEFINE h == Head(waiters)
  <2>0. ParkedWait
    BY DEF PermitsInv
  <2>1. /\ pc' = [pc EXCEPT ![r] = "idle", ![h] = "granted"]
        /\ waiters' = Tail(waiters) /\ avail' = avail
    BY <1>2 DEF Permits!Release
  <2>2. h = waiters[1] /\ Len(waiters) \in Nat /\ Len(waiters) > 0
    BY <1>0, <1>2
  <2>3. h \in Reservations /\ pc[h] = "waiting" /\ h # r
    BY <1>0, <2>0, <2>2 DEF ParkedWait
  <2> HIDE DEF h
  <2>4. /\ pc'[r] = "idle" /\ pc'[h] = "granted"
        /\ \A q \in Reservations \ {r, h} : pc'[q] = pc[q]
        /\ pc' \in [Reservations -> Permits!States]
    BY <1>0, <2>1, <2>3 DEF Permits!States
  <2>5. Cardinality(Permits!In(Holders)') = Cardinality(Permits!In(Holders))
    <3>1. /\ r \in Permits!In(Holders)
          /\ Permits!In(Holders)' = (Permits!In(Holders) \ {r}) \union {h}
          /\ h \notin Permits!In(Holders) \ {r}
      BY <2>3, <2>4 DEF Permits!In, Holders
    <3>2. /\ IsFiniteSet(Permits!In(Holders)) /\ IsFiniteSet(Permits!In(Holders) \ {r})
          /\ Cardinality(Permits!In(Holders)) \in Nat
      BY InFinite, FS_RemoveElement
    <3>3. Cardinality(Permits!In(Holders) \ {r}) = Cardinality(Permits!In(Holders)) - 1
      BY <3>1, <3>2, FS_RemoveElement
    <3>4. Cardinality((Permits!In(Holders) \ {r}) \union {h}) =
            Cardinality(Permits!In(Holders) \ {r}) + 1
      BY <3>1, <3>2, FS_AddElement
    <3> QED
      BY <3>1, <3>2, <3>3, <3>4
  <2>6. Permits!In(Places)' = Permits!In(Places)
    BY <2>3, <2>4 DEF Permits!In, Places
  <2>7. waiters' \in Seq(Reservations)
    BY <1>0, <1>2, <2>1
  <2>8. ParkedWait'
    <3>1. Len(waiters') = Len(waiters) - 1 /\ \A i \in 1..Len(waiters') : waiters'[i] = waiters[i + 1]
      BY <1>0, <1>2, <2>1
    <3>2. \A i \in 1..Len(waiters') : i + 1 \in 1..Len(waiters) /\ i + 1 # 1
      BY <2>2, <3>1
    <3>3. \A i \in 1..Len(waiters') : /\ waiters'[i] \in Reservations /\ waiters'[i] # h
                                      /\ pc[waiters'[i]] = "waiting"
      BY <1>0, <2>0, <2>2, <3>1, <3>2 DEF ParkedWait
    <3>4. \A i \in 1..Len(waiters') : pc'[waiters'[i]] = "waiting"
      BY <2>4, <3>3
    <3>5. \A i, j \in 1..Len(waiters') : waiters'[i] = waiters'[j] => i = j
      <4> TAKE i, j \in 1..Len(waiters')
      <4> HAVE waiters'[i] = waiters'[j]
      <4>1. i + 1 = j + 1
        BY <2>0, <3>1, <3>2 DEF ParkedWait
      <4> QED
        BY <4>1
    <3> QED
      BY <3>4, <3>5 DEF ParkedWait
  <2> QED
    BY <1>0, <1>2, <2>1, <2>4, <2>5, <2>6, <2>7, <2>8, PermitsFacts, PermitsInvAfter
<1> QED
  BY <1>1, <1>2

\* An unused reservation gives back its permit or its place.
LEMMA DropReservationStep ==
  ASSUME PermitsInv, NEW r \in Reservations, Permits!DropReservation(r) PROVE PermitsInv'
<1>1. CASE pc[r] = "held" /\ Permits!Release(r, "idle") /\ queued' = queued
  BY <1>1, ReleaseStep
<1>2. CASE /\ pc[r] = "slot" /\ queued' = queued - 1 /\ pc' = [pc EXCEPT ![r] = "idle"]
           /\ UNCHANGED <<avail, waiters>>
  <2>0. /\ avail \in Nat /\ queued \in Nat /\ queued <= MaxQueued /\ MaxQueued \in Nat
        /\ waiters # <<>> => avail = 0
    BY PermitsFacts, PermitSettings
  <2>1. Permit("slot") = 0 /\ Permit("idle") = 0 /\ Place("slot") = 1 /\ Place("idle") = 0
    BY DEF Permit, Place, Holders, Places
  <2>2. "idle" \in Permits!States
    BY DEF Permits!States
  <2>3. avail' = avail + Permit(pc[r]) - Permit("idle") /\ avail' >= 0
    BY <1>2, <2>0, <2>1
  <2>4. queued' = queued + Place("idle") - Place(pc[r]) /\ queued' <= MaxQueued
    BY <1>2, <2>0, <2>1
  <2>5. waiters # <<>> => avail' = 0
    BY <1>2, <2>0
  <2> QED
    BY <1>2, <2>2, <2>3, <2>4, <2>5, OneMoves
<1> QED
  BY <1>1, <1>2 DEF Permits!DropReservation

\* The pool is full and nobody has reserved.
LEMMA PermitsInitial == Permits!Init => PermitsInv
<1> SUFFICES ASSUME Permits!Init PROVE PermitsInv
  OBVIOUS
<1>1. Permits!TypeOK /\ ParkedWait /\ Permits!NoIdlePermit
  BY PermitSettings DEF Permits!Init, Permits!TypeOK, Permits!States, ParkedWait, Permits!NoIdlePermit
<1>2. Permits!In(Holders) = {} /\ Permits!In(Places) = {}
  BY DEF Permits!Init, Permits!In, Holders, Places
<1>3. Cardinality({}) = 0
  BY FS_EmptySet
<1> QED
  BY <1>1, <1>2, <1>3, PermitSettings, PermitsInvMeans DEF Permits!Init

\* Admission control (dispatcher/permits.rs), for every concurrency, bound on the
\* queue and number of reservations: permits are neither lost nor minted, the queued
\* counter is exact, so fetch_sub never wraps, and no permit idles while a task waits.
THEOREM AdmissionExact ==
  Spec => [](focus = "permits" =>
               /\ Permits!TypeOK /\ Permits!PermitsConserved
               /\ Permits!QueuedCounterExact /\ Permits!NoIdlePermit)
<1>1. Init => (focus = "permits" => PermitsInv)
  BY PermitsInitial DEF Init
<1>2. ASSUME focus = "permits" => PermitsInv, [Next]_vars PROVE (focus = "permits" => PermitsInv)'
  <2>1. CASE UNCHANGED vars
    <3>1. UNCHANGED <<focus, pc, avail, waiters, queued>>
      BY <2>1 DEF vars, serviceVars, permitsVars
    <3> QED
      BY <1>2, <3>1 DEF PermitsInv, Permits!TypeOK, ParkedWait, Permits!PermitsConserved,
         Permits!QueuedCounterExact, Permits!NoIdlePermit, Permits!In
  <2>2. CASE focus = "permits" /\ Permits!Next
    <3>1. PICK r \in Reservations :
            \/ Permits!TryAcquire(r) \/ Permits!ReserveQueuedSlot(r) \/ Permits!Spawn(r)
            \/ Permits!AcquireOwned(r) \/ Permits!LeaveQueue(r) \/ Permits!Finish(r)
            \/ Permits!DropReservation(r)
      BY <2>2 DEF Permits!Next
    <3>2. CASE Permits!Finish(r)
      BY <1>2, <2>2, <3>2, ReleaseStep DEF Permits!Finish
    <3> QED
      BY <1>2, <2>2, <3>1, <3>2, PermitsMoveStep, AcquireOwnedStep, DropReservationStep
  <2>3. CASE focus # "permits" /\ focus' = focus
    BY <2>3
  <2> QED
    BY <1>2, <2>1, <2>2, <2>3 DEF Next
<1>3. PermitsInv => /\ Permits!TypeOK /\ Permits!PermitsConserved
                    /\ Permits!QueuedCounterExact /\ Permits!NoIdlePermit
  BY DEF PermitsInv
<1> QED
  BY <1>1, <1>2, <1>3, PTL DEF Spec

-----------------------------------------------------------------------------
(* Code runs.                                                                *)

\* A task works on an attempt that has been made, and a run in the queue has none.
AttemptsMade ==
  \A t \in Tasks : ~Run!Free(t) => task[t].epoch <= run.epoch /\ run.status # "Queued"

\* What a task of the current attempt has got is stored.
GotStored ==
  \A t \in Tasks : ~Run!Free(t) /\ task[t].epoch = run.epoch =>
    \A c \in task[t].got : <<run.epoch, c>> \in results

RunInv ==
  /\ Run!TypeOK /\ AttemptsMade /\ GotStored
  /\ Run!JudgedIsComplete /\ Run!OneTaskPerAttempt

\* Queued, and no task.
LEMMA RunInitial == Run!Init => RunInv
  BY EpochBound
     DEF Run!Init, RunInv, Run!TypeOK, AttemptsMade, GotStored, Run!JudgedIsComplete,
         Run!OneTaskPerAttempt, Run!Free, Run!Idle, Run!Statuses, Run!Pcs, Run!None

\* A step that starts no task and stays on the attempt: it moves at most one task,
\* whose results are stored, and decides the run only once they all are.
LEMMA SameAttempt ==
  ASSUME RunInv, run' \in [status : Run!Statuses, epoch : 0..MaxEpoch,
                           owner : Servers \union {Run!None, Run!Orphaned},
                           lease : {"fresh", "stale", Run!None}, retry : Nat],
         run'.epoch = run.epoch, run'.status = "Queued" => run.status = "Queued",
         results' \subseteq (0..MaxEpoch) \X Cases, results \subseteq results',
         task' \in [Tasks -> [pc : Run!Pcs, server : Servers \union {Run!None},
                              epoch : 0..MaxEpoch, got : SUBSET Cases]],
         up' \subseteq Servers,
         \A t \in Tasks : task'[t].pc # "idle" =>
           /\ task[t].pc # "idle" /\ task'[t].epoch = task[t].epoch
           /\ task[t].epoch = run.epoch =>
                \A c \in task'[t].got \ task[t].got : <<run.epoch, c>> \in results',
         run'.status = "Judged" =>
           run.status = "Judged" \/ \A c \in Cases : <<run.epoch, c>> \in results'
  PROVE  RunInv'
<1>1. Run!TypeOK'
  BY DEF Run!TypeOK
<1>2. AttemptsMade'
  BY DEF RunInv, AttemptsMade, Run!Free
<1>3. GotStored'
  BY DEF RunInv, GotStored, Run!Free
<1>4. Run!JudgedIsComplete'
  BY DEF RunInv, Run!JudgedIsComplete
<1>5. Run!OneTaskPerAttempt'
  BY DEF RunInv, Run!OneTaskPerAttempt, Run!Free
<1> QED
  BY <1>1, <1>2, <1>3, <1>4, <1>5 DEF RunInv

\* A step that starts a task for an attempt that no other task is on.
LEMMA NewAttempt ==
  ASSUME RunInv, NEW t \in Tasks, NEW s \in Servers,
         task' = [task EXCEPT ![t] = [pc |-> "call", server |-> s, epoch |-> run'.epoch, got |-> {}]],
         run' \in [status : Run!Statuses, epoch : 0..MaxEpoch,
                   owner : Servers \union {Run!None, Run!Orphaned},
                   lease : {"fresh", "stale", Run!None}, retry : Nat],
         run'.status = "Pending", run'.epoch >= run.epoch,
         run'.epoch = run.epoch => \A u \in Tasks : task[u].pc = "idle",
         results' \subseteq (0..MaxEpoch) \X Cases, up' \subseteq Servers
  PROVE  RunInv'
<1>0. /\ task'[t] = [pc |-> "call", server |-> s, epoch |-> run'.epoch, got |-> {}]
      /\ \A u \in Tasks \ {t} : task'[u] = task[u]
  BY DEF RunInv, Run!TypeOK
<1>1. Run!TypeOK'
  <2>1. [pc |-> "call", server |-> s, epoch |-> run'.epoch, got |-> {}]
          \in [pc : Run!Pcs, server : Servers \union {Run!None}, epoch : 0..MaxEpoch, got : SUBSET Cases]
    BY DEF Run!Pcs
  <2> QED
    BY <2>1 DEF RunInv, Run!TypeOK
<1>2. \A u \in Tasks \ {t} : task[u].pc # "idle" => task[u].epoch <= run.epoch /\ task[u].epoch # run'.epoch
  <2> SUFFICES ASSUME NEW u \in Tasks \ {t}, task[u].pc # "idle"
               PROVE  task[u].epoch <= run.epoch /\ task[u].epoch # run'.epoch
    OBVIOUS
  <2>1. task[u].epoch <= run.epoch
    BY DEF RunInv, AttemptsMade, Run!Free
  <2>2. run'.epoch # run.epoch
    OBVIOUS
  <2>3. task[u].epoch \in Nat /\ run.epoch \in Nat /\ run'.epoch \in Nat
    BY EpochBound DEF RunInv, Run!TypeOK
  <2> QED
    BY <2>1, <2>2, <2>3
<1>3. AttemptsMade'
  <2>1. run.epoch \in Nat /\ run'.epoch \in Nat /\ \A u \in Tasks : task[u].epoch \in Nat
    BY EpochBound DEF RunInv, Run!TypeOK
  <2>2. \A u \in Tasks : task'[u].pc # "idle" => task'[u].epoch <= run'.epoch
    BY <1>0, <1>2, <2>1
  <2> QED
    BY <2>2 DEF AttemptsMade, Run!Free
<1>4. GotStored'
  BY <1>0, <1>2 DEF GotStored, Run!Free
<1>5. Run!JudgedIsComplete'
  BY DEF Run!JudgedIsComplete
<1>6. Run!OneTaskPerAttempt'
  BY <1>0, <1>2 DEF RunInv, Run!OneTaskPerAttempt, Run!Free
<1> QED
  BY <1>1, <1>3, <1>4, <1>5, <1>6 DEF RunInv

\* Claim, steal and retry start a task for an attempt of its own.
LEMMA RunStartStep ==
  ASSUME RunInv, NEW s \in Servers, NEW t \in Tasks,
         Run!Claim(s, t) \/ Run!Steal(s, t) \/ Run!RecoverStuck(s, t)
  PROVE  RunInv'
<1> DEFINE Row == [status : Run!Statuses, epoch : 0..MaxEpoch,
                   owner : Servers \union {Run!None, Run!Orphaned},
                   lease : {"fresh", "stale", Run!None}, retry : Nat]
<1>0. /\ run \in Row /\ results \subseteq (0..MaxEpoch) \X Cases /\ up \subseteq Servers
  BY DEF RunInv, Run!TypeOK
<1>a. run.epoch \in Nat /\ run.retry + 1 \in Nat /\ "Pending" \in Run!Statuses
  <2>1. run.epoch \in 0..MaxEpoch /\ run.retry \in Nat
    BY <1>0
  <2>2. "Pending" \in Run!Statuses
    BY DEF Run!Statuses
  <2> QED
    BY <2>1, <2>2, EpochBound
<1>1. ASSUME NEW e \in Nat, Run!Spawn(t, s, e)
      PROVE  task' = [task EXCEPT ![t] = [pc |-> "call", server |-> s, epoch |-> e, got |-> {}]]
  BY <1>1 DEF Run!Spawn
<1>2. CASE Run!Claim(s, t)
  <2>1. /\ run' = [run EXCEPT !.status = "Pending", !.owner = s, !.lease = "fresh", !.retry = run.retry + 1]
        /\ Run!Spawn(t, s, run.epoch) /\ results' = results /\ up' = up /\ run.status = "Queued"
    BY <1>2 DEF Run!Claim
  <2>2. run' \in Row /\ run'.status = "Pending" /\ run'.epoch = run.epoch
    BY <1>0, <1>a, <2>1
  <2>3. \A u \in Tasks : task[u].pc = "idle"
    BY <2>1 DEF RunInv, AttemptsMade, Run!Free
  <2>4. task' = [task EXCEPT ![t] = [pc |-> "call", server |-> s, epoch |-> run'.epoch, got |-> {}]]
    BY <1>a, <1>1, <2>1, <2>2
  <2>5. run'.epoch >= run.epoch
    BY <1>a, <2>2
  <2> QED
    BY <1>0, <2>1, <2>2, <2>3, <2>4, <2>5, NewAttempt
<1>3. ASSUME run' = Run!Redispatched(s, run.epoch + 1), Run!Spawn(t, s, run.epoch + 1),
             run.epoch < MaxEpoch, results' \subseteq (0..MaxEpoch) \X Cases, up' = up
      PROVE  RunInv'
  <2>1. run' = [run EXCEPT !.status = "Pending", !.epoch = run.epoch + 1, !.owner = s,
                           !.lease = "fresh", !.retry = run.retry + 1]
    BY <1>3 DEF Run!Redispatched
  <2>2. run.epoch + 1 \in 0..MaxEpoch
    BY <1>a, <1>3, EpochBound
  <2>3. run' \in Row /\ run'.status = "Pending" /\ run'.epoch = run.epoch + 1
    BY <1>0, <1>a, <2>1, <2>2
  <2>4. task' = [task EXCEPT ![t] = [pc |-> "call", server |-> s, epoch |-> run'.epoch, got |-> {}]]
    BY <1>a, <1>1, <1>3, <2>3
  <2>5. run'.epoch >= run.epoch /\ run'.epoch # run.epoch
    BY <1>a, <2>3
  <2> QED
    BY <1>0, <1>3, <2>3, <2>4, <2>5, NewAttempt
<1>4. CASE Run!Steal(s, t)
  BY <1>0, <1>3, <1>4 DEF Run!Steal
<1>5. CASE Run!RecoverStuck(s, t)
  BY <1>0, <1>3, <1>5 DEF Run!RecoverStuck
<1> QED
  BY <1>2, <1>4, <1>5

\* The other steps of the fibers, of a crash and a restart.
LEMMA RunFiberStep ==
  ASSUME RunInv, NEW s,
         \/ /\ s \in Servers
            /\ \/ Run!Exhaust(s) \/ Run!TerminateStuck(s) \/ Run!RefreshLease(s)
               \/ Run!Crash(s) \/ Run!Restart(s)
         \/ Run!ExpireLease
  PROVE  RunInv'
<1> DEFINE Row == [status : Run!Statuses, epoch : 0..MaxEpoch,
                   owner : Servers \union {Run!None, Run!Orphaned},
                   lease : {"fresh", "stale", Run!None}, retry : Nat]
           TaskRec == [pc : Run!Pcs, server : Servers \union {Run!None},
                       epoch : 0..MaxEpoch, got : SUBSET Cases]
<1>0. /\ run \in Row /\ task \in [Tasks -> TaskRec]
      /\ results \subseteq (0..MaxEpoch) \X Cases /\ up \subseteq Servers
  BY DEF RunInv, Run!TypeOK
<1>1. results' = results /\ up' \subseteq Servers
  BY <1>0 DEF Run!Exhaust, Run!TerminateStuck, Run!RefreshLease, Run!Crash, Run!Restart, Run!ExpireLease
<1>2. /\ task' \in [Tasks -> TaskRec]
      /\ \A t \in Tasks : task'[t].pc # "idle" => task'[t] = task[t]
  <2>1. CASE task' = task
    BY <1>0, <2>1
  <2>2. CASE Run!Crash(s)
    <3>1. task' = [t \in Tasks |-> IF task[t].server = s THEN Run!Idle ELSE task[t]]
      BY <2>2 DEF Run!Crash
    <3>2. Run!Idle \in TaskRec /\ Run!Idle.pc = "idle"
      BY EpochBound DEF Run!Idle, Run!Pcs
    <3> QED
      BY <1>0, <3>1, <3>2
  <2> QED
    BY <2>1, <2>2 DEF Run!Exhaust, Run!TerminateStuck, Run!RefreshLease, Run!Restart, Run!ExpireLease
<1>3. /\ run' \in Row /\ run'.epoch = run.epoch
      /\ run'.status = run.status \/ run'.status = "SystemError"
  <2>1. CASE run' = run
    BY <1>0, <2>1
  <2>2. CASE Run!Exhaust(s)
    <3>1. run.retry \in Nat /\ "SystemError" \in Run!Statuses
      BY <1>0 DEF Run!Statuses
    <3>2. run' = [run EXCEPT !.status = "SystemError", !.retry = run.retry + 1] /\ run.retry + 1 \in Nat
      BY <2>2, <3>1 DEF Run!Exhaust
    <3> QED
      BY <1>0, <3>1, <3>2
  <2>3. CASE Run!TerminateStuck(s)
    BY <1>0, <2>3 DEF Run!TerminateStuck, Run!Statuses
  <2>4. CASE Run!RefreshLease(s)
    BY <1>0, <2>4 DEF Run!RefreshLease
  <2>5. CASE Run!ExpireLease
    BY <1>0, <2>5 DEF Run!ExpireLease
  <2>6. CASE run' = [run EXCEPT !.owner = Run!Orphaned, !.lease = Run!None]
    BY <1>0, <2>6
  <2> QED
    BY <2>1, <2>2, <2>3, <2>4, <2>5, <2>6 DEF Run!Crash, Run!Restart
<1>4. /\ run'.status = "Queued" => run.status = "Queued"
      /\ run'.status = "Judged" => run.status = "Judged"
  BY <1>3
<1> QED
  BY <1>0, <1>1, <1>2, <1>3, <1>4, SameAttempt

\* The steps of a task.
LEMMA RunTaskStep ==
  ASSUME RunInv, NEW t \in Tasks, Run!TaskStep(t)
  PROVE  RunInv'
<1> DEFINE Row == [status : Run!Statuses, epoch : 0..MaxEpoch,
                   owner : Servers \union {Run!None, Run!Orphaned},
                   lease : {"fresh", "stale", Run!None}, retry : Nat]
           TaskRec == [pc : Run!Pcs, server : Servers \union {Run!None},
                       epoch : 0..MaxEpoch, got : SUBSET Cases]
<1>0. /\ run \in Row /\ task \in [Tasks -> TaskRec]
      /\ results \subseteq (0..MaxEpoch) \X Cases /\ up \subseteq Servers
  BY DEF RunInv, Run!TypeOK
\* A task that goes on without a new result, or ends; the row may be closed, or
\* shown as running.
<1>1. ASSUME NEW at \in Run!Pcs, Run!Goto(t, at) \/ Run!End(t), task[t].pc # "idle",
             results' = results, up' = up,
             NEW st \in {"Running", "SystemError", "Judged"},
             run' = run \/ (Run!Open(t) /\ run' = [run EXCEPT !.status = st]),
             st = "Judged" => task[t].got = Cases
      PROVE  RunInv'
  <2>1. /\ task' \in [Tasks -> TaskRec]
        /\ \A u \in Tasks : task'[u].pc # "idle" =>
             task[u].pc # "idle" /\ task'[u].epoch = task[u].epoch /\ task'[u].got = task[u].got
    <3>1. CASE Run!Goto(t, at)
      BY <1>0, <1>1, <3>1 DEF Run!Goto
    <3>2. CASE Run!End(t)
      <4>1. Run!Idle \in TaskRec /\ Run!Idle.pc = "idle"
        BY EpochBound DEF Run!Idle, Run!Pcs
      <4> QED
        BY <1>0, <3>2, <4>1 DEF Run!End
    <3> QED
      BY <1>1, <3>1, <3>2
  <2>2. /\ run' \in Row /\ run'.epoch = run.epoch
        /\ run'.status = run.status \/ run'.status = st
    BY <1>0, <1>1 DEF Run!Statuses
  <2>3. run'.status = "Judged" =>
          run.status = "Judged" \/ \A c \in Cases : <<run.epoch, c>> \in results'
    <3>1. CASE st = "Judged" /\ Run!Open(t)
      BY <1>1, <3>1 DEF RunInv, GotStored, Run!Free, Run!Open
    <3>2. CASE ~(st = "Judged" /\ Run!Open(t))
      BY <1>1, <2>2, <3>2
    <3> QED
      BY <3>1, <3>2
  <2>4. run'.status = "Queued" => run.status = "Queued"
    BY <1>1, <2>2
  <2> QED
    BY <1>0, <1>1, <2>1, <2>2, <2>3, <2>4, SameAttempt
\* A task that stores a result of its attempt.
<1>2. ASSUME NEW c \in Cases, NEW at \in Run!Pcs, task[t].pc # "idle",
             task' = [task EXCEPT ![t].got = @ \union {c}, ![t].pc = at],
             results' = Run!Inserted(t, c), run' = run, up' = up
      PROVE  RunInv'
  <2>2. /\ task' \in [Tasks -> TaskRec]
        /\ task'[t].epoch = task[t].epoch /\ task'[t].got = task[t].got \union {c}
        /\ \A u \in Tasks \ {t} : task'[u] = task[u]
    BY <1>0, <1>2, ZenonT(60)
  <2>3. task[t].epoch \in 0..MaxEpoch
    BY <1>0
  <2>4. /\ results \subseteq results' /\ results' \subseteq (0..MaxEpoch) \X Cases
        /\ run.epoch = task[t].epoch => <<run.epoch, c>> \in results'
    BY <1>0, <1>2, <2>3 DEF Run!Inserted
  <2> QED
    BY <1>0, <1>2, <2>2, <2>4, SameAttempt
<1>3. {"eval", "fill", "mark"} \subseteq Run!Pcs
  BY DEF Run!Pcs
<1>4. CASE Run!StartBatch(t)
  BY <1>1, <1>3, <1>4 DEF Run!StartBatch
<1>5. CASE Run!Timeout(t)
  BY <1>1, <1>3, <1>5 DEF Run!Timeout
<1>6. CASE Run!Finalize(t)
  BY <1>1, <1>3, <1>6 DEF Run!Finalize
<1>7. CASE Run!FailDispatch(t)
  BY <1>1, <1>3, <1>7 DEF Run!FailDispatch
<1>8. CASE Run!MarkSystemError(t)
  BY <1>1, <1>3, <1>8 DEF Run!MarkSystemError
<1>9. CASE Run!Wedge(t)
  BY <1>1, <1>3, <1>9 DEF Run!Wedge, Run!Free
<1>10. ASSUME NEW c \in Cases, Run!CaseResult(t, c) PROVE RunInv'
  BY <1>2, <1>3, <1>10 DEF Run!CaseResult
<1>11. ASSUME NEW c \in Cases, Run!Fill(t, c) PROVE RunInv'
  <2>1. task' = [task EXCEPT ![t].got = @ \union {c}, ![t].pc = "fill"]
    BY <1>0, <1>11 DEF Run!Fill
  <2> QED
    BY <1>2, <1>3, <1>11, <2>1 DEF Run!Fill
<1> QED
  BY <1>4, <1>5, <1>6, <1>7, <1>8, <1>9, <1>10, <1>11 DEF Run!TaskStep, Run!Plugin

\* No step takes a terminal status back or moves the epoch of a run that ended.
LEMMA OutcomeKeptStep ==
  ASSUME Run!TypeOK, Run!Next
  PROVE  Run!OutcomeKept
<1> SUFFICES ASSUME run.status \in Run!Terminal
             PROVE  run'.status = run.status /\ run'.epoch = run.epoch
  BY DEF Run!OutcomeKept
<1>0. run.status # "Queued" /\ run.status \notin Run!Leased
  BY DEF Run!Terminal, Run!Leased
<1>1. ASSUME NEW t \in Tasks, Run!TaskStep(t) PROVE run' = run
  <2>1. ~Run!Open(t)
    BY DEF Run!Open
  <2> QED
    BY <1>1, <2>1 DEF Run!TaskStep, Run!Plugin, Run!StartBatch, Run!Timeout, Run!Finalize,
         Run!CaseResult, Run!Fill, Run!FailDispatch, Run!MarkSystemError, Run!Wedge
<1>2. ASSUME NEW s \in Servers, Run!FiberStep(s) PROVE run' = run
  BY <1>0, <1>2 DEF Run!FiberStep, Run!Claim, Run!Steal, Run!RecoverStuck, Run!Exhaust,
       Run!TerminateStuck, Run!RefreshLease, Run!Crash, Run!Restart, Run!Stuck
<1>3. ~Run!ExpireLease
  BY <1>0 DEF Run!ExpireLease
<1> QED
  BY <1>1, <1>2, <1>3 DEF Run!Next

\* Code runs (the lease protocol and the plugin's SQL on code_run), for any number
\* of servers, tasks, cases and retries: a run that shows a verdict has a result
\* for each case, two tasks never work on one attempt, and an outcome stands.
THEOREM CodeRunsSound ==
  Spec => /\ [](focus = "run" => Run!TypeOK /\ Run!JudgedIsComplete /\ Run!OneTaskPerAttempt)
          /\ [][focus = "run" => Run!OutcomeKept]_vars
<1>1. Init => (focus = "run" => RunInv)
  BY RunInitial DEF Init
<1>2. ASSUME focus = "run" => RunInv, [Next]_vars PROVE (focus = "run" => RunInv)'
  <2>1. CASE UNCHANGED vars
    <3>1. UNCHANGED <<focus, run, results, task, up>>
      BY <2>1 DEF vars, serviceVars, runVars
    <3> QED
      BY <1>2, <3>1 DEF RunInv, Run!TypeOK, AttemptsMade, GotStored, Run!JudgedIsComplete,
         Run!OneTaskPerAttempt, Run!Free
  <2>2. CASE focus = "run" /\ Run!Next
    <3>1. CASE \E t \in Tasks : Run!TaskStep(t)
      BY <1>2, <2>2, <3>1, RunTaskStep
    <3>2. CASE \E s \in Servers : Run!FiberStep(s)
      BY <1>2, <2>2, <3>2, RunStartStep, RunFiberStep DEF Run!FiberStep
    <3>3. CASE Run!ExpireLease
      BY <1>2, <2>2, <3>3, RunFiberStep
    <3> QED
      BY <2>2, <3>1, <3>2, <3>3 DEF Run!Next
  <2>3. CASE focus # "run" /\ focus' = focus
    BY <2>3
  <2> QED
    BY <1>2, <2>1, <2>2, <2>3 DEF Next
<1>3. ASSUME focus = "run" => RunInv, [Next]_vars PROVE [focus = "run" => Run!OutcomeKept]_vars
  <2>1. CASE focus = "run" /\ Run!Next
    BY <1>3, <2>1, OutcomeKeptStep DEF RunInv
  <2> QED
    BY <1>3, <2>1 DEF Next
<1>4. RunInv => Run!TypeOK /\ Run!JudgedIsComplete /\ Run!OneTaskPerAttempt
  BY DEF RunInv
<1> QED
  BY <1>1, <1>2, <1>3, <1>4, PTL DEF Spec

=============================================================================
