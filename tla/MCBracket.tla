----------------------------- MODULE MCBracket -----------------------------
(* Instances of BracketMatch for TLC: a behaviour starts with one of the      *)
(* bounds below, so that many submissions, overlapping requests, overlapping  *)
(* runs and failures are each met without all of them at once.                *)
EXTENDS BracketMatch

Bounds(nAsks, nFaults, nStaff, nDrivers, nRequests, extraTime) ==
  [asks |-> nAsks, faults |-> nFaults, staff |-> nStaff, drivers |-> nDrivers,
   requests |-> nRequests, extra |-> extraTime]

MCScenarios ==
  {Bounds(3, 0, 0, 1, 1, 0), Bounds(2, 0, 0, 1, 2, 0), Bounds(1, 0, 0, 2, 1, 0),
   Bounds(1, 1, 1, 1, 1, 0), Bounds(0, 1, 2, 2, 1, 0), Bounds(2, 0, 0, 1, 1, 1)}

MCOneFailure == {Bounds(1, 1, 0, 1, 1, 0)}
=============================================================================
