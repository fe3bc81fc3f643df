------------------------------ MODULE PrintQueue ------------------------------
(***************************************************************************)
(* The print queue (plugins/print): jobs of contestants in a table, staff   *)
(* who approve, cancel, pin and reprint them, and stations                  *)
(* (print/client/src/run.rs) that poll, claim a job, print it and report.   *)
(* A station is a process of its own that talks to the server over HTTP; a  *)
(* call or its answer may be lost, and a station may stop anywhere. No      *)
(* claim ever expires.                                                      *)
(*                                                                          *)
(* A station has one printer. Rooms and contest-scoped tokens, which only   *)
(* filter what a station sees, are left out, as is the heartbeat, which     *)
(* only feeds the list shown to staff.                                      *)
(***************************************************************************)
EXTENDS Naturals, Sequences, FiniteSets

CONSTANTS
  NJobs,       \* jobs, numbered as they are created
  Stations,
  Elsewhere,   \* a printer no station has
  FetchLimit,  \* the jobs a station asks for at a time: (printers * 3).max(4)
  Quotas       \* a behaviour has one: the jobs that are submitted, how many operations
               \* of staff, lost calls and stops of a station it sees, and the stations
               \* that run

Jobs == 1..NJobs

Anywhere == "anywhere"

VARIABLES
  quota,     \* the bounds of this behaviour
  job,       \* print_job: status, target_printer, created_at (one for all the jobs
             \* of a statement: the number of jobs before them)
  station,   \* a station: where it is, the jobs of its last fetch, the job in hand
  created,   \* jobs created so far
  requests,  \* per job: how often it was put in the queue and not withdrawn from it
  sheets,    \* per job: how often it came out of a printer
  last,      \* per job: how the last attempt to print it ended
  taken,     \* jobs that staff took back or cancelled while a station had them
  events    \* operations of staff, lost calls and stops so far

printVars == <<quota, job, station, created, requests, sheets, last, taken, events>>

Resting == [pc |-> "rest"]

InFlight == {"claimed", "printing"}

Statuses == {"none", "pending_approval", "pending", "done", "failed", "canceled"} \union InFlight

TypeOK ==
  /\ quota \in Quotas
  /\ job \in [Jobs -> [status : Statuses, target : Stations \union {Anywhere, Elsewhere},
                       at : 0..NJobs]]
  /\ \A s \in Stations : station[s].pc \in {"rest", "claim", "start", "print", "report"}
  /\ created \in 0..NJobs /\ taken \subseteq Jobs
  /\ events \in 0..quota.events

Init ==
  /\ quota \in Quotas
  /\ job = [j \in Jobs |-> [status |-> "none", target |-> Anywhere, at |-> 0]]
  /\ station = [s \in Stations |-> Resting]
  /\ created = 0
  /\ requests = [j \in Jobs |-> 0] /\ sheets = [j \in Jobs |-> 0]
  /\ last = [j \in Jobs |-> "none"]
  /\ taken = {} /\ events = 0

SetJob(j, st) == job' = [job EXCEPT ![j].status = st]

Queued(j) == requests' = [requests EXCEPT ![j] = @ + 1]

\* A job a station has in hand is moved under it.
TakenBack(j) == taken' = IF job[j].status \in InFlight THEN taken \union {j} ELSE taken

-----------------------------------------------------------------------------
\* handle_print_submission and handle_print_arbitrary: the files of a request are
\* stored by one statement, with or without need for approval.
Submit ==
  \E n \in 1..(quota.jobs - created), approval \in BOOLEAN :
    LET new == (created + 1)..(created + n)
    IN /\ created' = created + n
       /\ job' = [j \in Jobs |-> IF j \in new
                    THEN [job[j] EXCEPT !.status = IF approval THEN "pending_approval" ELSE "pending",
                                        !.at = created]
                    ELSE job[j]]
       /\ requests' = [j \in Jobs |-> requests[j] + (IF j \in new /\ ~approval THEN 1 ELSE 0)]
       /\ UNCHANGED <<quota, station, sheets, last, taken, events>>

Event == events < quota.events /\ events' = events + 1

\* handle_admin_approve
Approve(j) ==
  /\ Event /\ job[j].status = "pending_approval"
  /\ SetJob(j, "pending") /\ Queued(j)
  /\ UNCHANGED <<quota, station, created, sheets, last, taken>>

\* handle_admin_cancel: anything that has not printed.
Cancel(j) ==
  /\ Event /\ job[j].status \notin {"none", "done"}
  /\ SetJob(j, "canceled") /\ TakenBack(j)
  /\ requests' = [requests EXCEPT ![j] = IF job[j].status = "pending" THEN @ - 1 ELSE @]
  /\ UNCHANGED <<quota, station, created, sheets, last>>

\* Back to the queue from any status: handle_admin_pin with a printer or none,
\* handle_admin_reprint with the one it had.
Requeue(j, target) ==
  /\ Event /\ job[j].status # "none"
  /\ job' = [job EXCEPT ![j].status = "pending", ![j].target = target]
  /\ TakenBack(j)
  /\ IF job[j].status = "pending" THEN UNCHANGED requests ELSE Queued(j)
  /\ UNCHANGED <<quota, station, created, sheets, last>>

Pin(j) == \E target \in Stations \union {Anywhere, Elsewhere} : Requeue(j, target)

Reprint(j) == Requeue(j, job[j].target)

-----------------------------------------------------------------------------
(* A station. *)

Pending == {j \in Jobs : job[j].status = "pending"}

\* Mutant: one job fewer than the station asked for.
OldestButOne(S) ==
  /\ Cardinality(S) = IF Cardinality(Pending) < FetchLimit THEN Cardinality(Pending) ELSE FetchLimit - 1
  /\ \A j \in S, i \in Pending \ S : job[j].at <= job[i].at

\* list_station_jobs: the oldest, whatever printer they are meant for. Jobs of one
\* statement are as old as each other, and SQL takes them in any order.
Oldest(S) ==
  /\ Cardinality(S) = IF Cardinality(Pending) < FetchLimit THEN Cardinality(Pending) ELSE FetchLimit
  /\ \A j \in S, i \in Pending \ S : job[j].at <= job[i].at

\* fetch_jobs: a snapshot with the targets of the moment.
Fetch(s) ==
  /\ s \in quota.stations /\ station[s].pc = "rest" /\ Pending # {}
  /\ \E S \in SUBSET Pending :
       /\ Oldest(S)
       /\ station' = [station EXCEPT ![s] =
            [pc |-> "claim", seen |-> [j \in S |-> job[j].target]]]
  /\ UNCHANGED <<quota, job, created, requests, sheets, last, taken, events>>

\* printer_matches, on the snapshot.
Matches(s, j) == station[s].seen[j] \in {s, Anywhere}

\* Mutant: the loop over the jobs ends at one for another printer.
CandidatesInFront(s) ==
  {j \in DOMAIN station[s].seen : \A i \in DOMAIN station[s].seen : job[i].at <= job[j].at => Matches(s, i)}

\* What the station still tries to claim.
Candidates(s) == {j \in DOMAIN station[s].seen : Matches(s, j)}

\* In the order of the fetch: the oldest next, equals in any order.
NextUp(s, j) == j \in Candidates(s) /\ \A i \in Candidates(s) : job[j].at <= job[i].at

Without(s, j) == [i \in DOMAIN station[s].seen \ {j} |-> station[s].seen[i]]

\* Mutant: a job that another station has is claimed as well.
ClaimableInFlight(j) == job[j].status \in {"pending"} \union InFlight

Claimable(j) == job[j].status = "pending"

\* claim_job: the server's answer arrives. Won: the job is printed. Taken: the
\* next one.
Claim(s) ==
  /\ station[s].pc = "claim"
  /\ \E j \in Jobs :
       /\ NextUp(s, j)
       /\ IF Claimable(j)
          THEN SetJob(j, "claimed") /\ station' = [station EXCEPT ![s] = [pc |-> "start", job |-> j]]
          ELSE UNCHANGED job /\ station' = [station EXCEPT ![s].seen = Without(s, j)]
  /\ UNCHANGED <<quota, created, requests, sheets, last, taken, events>>

\* The claim is sent and the answer lost, or it never arrives: the station goes on
\* to the next job. A job claimed for nobody stays claimed until staff act.
ClaimLost(s) ==
  /\ station[s].pc = "claim" /\ Event
  /\ \E j \in Jobs :
       /\ NextUp(s, j)
       /\ UNCHANGED job \/ (Claimable(j) /\ SetJob(j, "claimed"))
       /\ station' = [station EXCEPT ![s].seen = Without(s, j)]
  /\ UNCHANGED <<quota, created, requests, sheets, last, taken>>

\* Nothing left to claim: the station sleeps until the next tick.
Rest(s) ==
  /\ station[s].pc = "claim" /\ Candidates(s) = {}
  /\ station' = [station EXCEPT ![s] = Resting]
  /\ UNCHANGED <<quota, job, created, requests, sheets, last, taken, events>>

\* set_status: a job in flight, whoever has it. A report whose call is lost, or
\* that finds the job elsewhere, changes nothing, and the station does not care.
Report(j, st) ==
  \/ /\ IF job[j].status \in InFlight THEN SetJob(j, st) ELSE UNCHANGED job
     /\ UNCHANGED events
  \/ Event /\ UNCHANGED job

\* process_job: "printing" is reported ...
StartPrinting(s) ==
  /\ station[s].pc = "start"
  /\ Report(station[s].job, "printing")
  /\ station' = [station EXCEPT ![s].pc = "print"]
  /\ UNCHANGED <<quota, created, requests, sheets, last, taken>>

\* ... the job is printed, or fails to render, to fit, to be written or to print ...
PrintJob(s) ==
  /\ station[s].pc = "print"
  /\ LET j == station[s].job
     IN \E ok \in BOOLEAN :
          /\ sheets' = [sheets EXCEPT ![j] = IF ok THEN @ + 1 ELSE @]
          /\ last' = [last EXCEPT ![j] = IF ok THEN "done" ELSE "failed"]
          /\ station' = [station EXCEPT ![s] = [pc |-> "report", job |-> j,
                                                outcome |-> IF ok THEN "done" ELSE "failed"]]
  /\ UNCHANGED <<quota, job, created, requests, taken, events>>

\* ... and the outcome is reported, once.
ReportOutcome(s) ==
  /\ station[s].pc = "report"
  /\ Report(station[s].job, station[s].outcome)
  /\ station' = [station EXCEPT ![s] = Resting]
  /\ UNCHANGED <<quota, created, requests, sheets, last, taken>>

\* A station stops anywhere and is started again.
Stop(s) ==
  /\ station[s] # Resting /\ Event
  /\ station' = [station EXCEPT ![s] = Resting]
  /\ UNCHANGED <<quota, job, created, requests, sheets, last, taken>>

StationStep(s) ==
  Fetch(s) \/ Claim(s) \/ Rest(s) \/ StartPrinting(s) \/ PrintJob(s) \/ ReportOutcome(s)

Next ==
  \/ Submit
  \/ \E j \in Jobs : Approve(j) \/ Cancel(j) \/ Pin(j) \/ Reprint(j)
  \/ \E s \in Stations : StationStep(s) \/ ClaimLost(s) \/ Stop(s)

\* Stations keep polling and their printers end; staff and contestants may stop.
Fairness == \A s \in Stations : WF_printVars(StationStep(s))

Spec == Init /\ [][Next]_printVars /\ Fairness

-----------------------------------------------------------------------------
\* Paper is only used for what was asked for: a job comes out no more often than it
\* was put in the queue, whichever stations race for it, stop or report late, and
\* one that was cancelled there, or never approved, does not come out for it.
PrintsAsked == \A j \in Jobs : sheets[j] <= requests[j]

\* A job that staff never moved under a station tells the truth: it is done if it
\* came out, and failed if the last attempt did.
StatusTrue ==
  \A j \in Jobs \ taken : job[j].status \in {"done", "failed"} => job[j].status = last[j]

\* For a printer of no station that runs.
Stray(j) == job[j].target \notin quota.stations \union {Anywhere}

Stranded == {j \in Pending : Stray(j)}

\* A pending job for a printer that is served leaves the queue, as long as fewer
\* jobs for printers nobody serves are in it than a station fetches.
JobServed ==
  \A j \in Jobs :
    (job[j].status = "pending") ~>
      (job[j].status # "pending" \/ Stray(j) \/ Cardinality(Stranded) >= FetchLimit)
=============================================================================
