------------------------------- MODULE Outbox -------------------------------
(***************************************************************************)
(* The life of outbox rows between the transaction that inserts them and   *)
(* the queue worker that handles them, as the dispatchers and processors   *)
(* of orders, bidding and search share it: a dispatcher polls the table    *)
(* and adds a BullMQ job per row, a worker claims the row and reports how  *)
(* handling it went.  What handling means is left to the modules that      *)
(* instantiate or extend this one.                                         *)
(*                                                                         *)
(* Time is not modelled: a lease that has run out, a retry delay that is   *)
(* over and a one second poll are steps that may happen at any time.       *)
(***************************************************************************)
EXTENDS Integers

CONSTANTS
    Events,         \* outbox rows
    Workers,        \* queue workers
    MaxAttempts,    \* a row is not dispatched after this many claims (5)
    JobAttempts,    \* BullMQ tries a job this many times (5)
    MarksFailed,    \* rows whose processor writes FAILED: orders and search, not auctions
    FailedStay,     \* whether a job that has failed for good keeps its id: in the search
                    \* queue, not in those of orders and auctions (removeOnFail)
    MaxFailures,    \* bound: errors, crashes and stalls in a behaviour
    Nothing         \* no row

ASSUME BoundsAssumption ==
    /\ MaxAttempts \in Nat \ {0} /\ JobAttempts \in Nat \ {0}
    /\ MarksFailed \subseteq Events /\ MaxFailures \in Nat
    /\ FailedStay \in BOOLEAN
ASSUME NothingAssumption ==
    Nothing \notin Events /\ Workers \cap {"absent", "waiting", "failed"} = {}

VARIABLES
    row,        \* status and attempts of each OutboxEvent row
    job,        \* the BullMQ job of each row: who has it, and attemptsMade
    running,    \* the row each worker is handling, and the attemptsMade it saw
    failures

outbox == <<row, job, running, failures>>

RowStatus == {"ABSENT", "PENDING", "PROCESSING", "PROCESSED", "FAILED"}

OutboxTypeOK ==
    /\ row \in [Events -> [status : RowStatus, attempts : Nat]]
    /\ job \in [Events -> [at : {"absent", "waiting", "failed"} \cup Workers, tries : Nat]]
    /\ running \in [Workers -> [event : Events \cup {Nothing}, tries : Nat]]
    /\ failures \in Nat

NoRow == [status |-> "ABSENT", attempts |-> 0]
NoJob == [at |-> "absent", tries |-> 0]
GivenUp == IF FailedStay THEN [at |-> "failed", tries |-> 0] ELSE NoJob
AtRest == [event |-> Nothing, tries |-> 0]

Handled(w) == running[w].event

OutboxInit ==
    /\ row = [e \in Events |-> NoRow]
    /\ job = [e \in Events |-> NoJob]
    /\ running = [w \in Workers |-> AtRest]
    /\ failures = 0

Inserted(e) == [row EXCEPT ![e].status = "PENDING"]

\* Insert, in the same commit as the change it reports.
Insert(e) ==
    /\ row[e].status = "ABSENT"
    /\ row' = Inserted(e)
    /\ UNCHANGED <<job, running, failures>>

-----------------------------------------------------------------------------
(* The dispatcher *)

\* Mutant: leases are not taken back.
NeverExpired(e) == FALSE

\* The lease of a claimed row may run out, whether its worker is alive or not.
LeaseExpired(e) == row[e].status = "PROCESSING" /\ row[e].attempts < MaxAttempts

Redeliver(e) ==
    /\ LeaseExpired(e)
    /\ row' = [row EXCEPT ![e].status = "PENDING"]
    /\ UNCHANGED <<job, running, failures>>

\* A job id that the queue already has is not added again.
Enqueue(e) ==
    /\ row[e].status = "PENDING" /\ row[e].attempts < MaxAttempts
    /\ job[e].at = "absent"
    /\ job' = [job EXCEPT ![e] = [at |-> "waiting", tries |-> 0]]
    /\ UNCHANGED <<row, running, failures>>

-----------------------------------------------------------------------------
(* A worker *)

\* The claim of a row.
Claimable(e) == row[e].status = "PENDING"

Take(w, e) ==
    /\ Handled(w) = Nothing
    /\ job[e].at = "waiting"
    /\ Claimable(e)
    /\ row' = [row EXCEPT ![e] = [status |-> "PROCESSING", attempts |-> @.attempts + 1]]
    /\ running' = [running EXCEPT ![w] = [event |-> e, tries |-> job[e].tries]]
    /\ job' = [job EXCEPT ![e].at = w]
    /\ UNCHANGED failures

\* A job whose row cannot be claimed completes at once, and so does BullMQ's retry
\* of a failed one if the row is not due again yet.
Skip(w, e) ==
    /\ Handled(w) = Nothing
    /\ job[e].at = "waiting"
    /\ ~Claimable(e) \/ job[e].tries > 0
    /\ job' = [job EXCEPT ![e] = NoJob]
    /\ UNCHANGED <<row, running, failures>>

\* The worker finishes with its row; the job leaves the queue, or goes back to
\* it, if the worker still owns it.
Leave(w, status, after) ==
    LET e == Handled(w)
    IN  /\ e # Nothing
        /\ row' = [row EXCEPT ![e].status = status]
        /\ job' = IF job[e].at = w THEN [job EXCEPT ![e] = after] ELSE job
        /\ running' = [running EXCEPT ![w] = AtRest]

Succeed(w) == Leave(w, "PROCESSED", NoJob) /\ UNCHANGED failures

\* A schedule that is not due yet is put back without an error.
Postpone(w) == Leave(w, "PENDING", NoJob) /\ UNCHANGED failures

\* The catch block, then BullMQ's own retry of the job.
Fail(w) ==
    LET made == running[w].tries + 1
    IN  Leave(w, IF Handled(w) \in MarksFailed /\ made >= JobAttempts THEN "FAILED" ELSE "PENDING",
              IF made < JobAttempts THEN [at |-> "waiting", tries |-> made] ELSE GivenUp)

-----------------------------------------------------------------------------
(* Failures *)

CountFailure == failures < MaxFailures /\ failures' = failures + 1

Error(w) == Fail(w) /\ CountFailure

\* The process dies: the row keeps its lease, and BullMQ finds the job stalled
\* and hands it out again, or gives it up.
Crash(w) ==
    LET e == Handled(w)
    IN  /\ e # Nothing
        /\ CountFailure
        /\ running' = [running EXCEPT ![w] = AtRest]
        /\ \/ job[e].at = w /\ job' = [job EXCEPT ![e].at = "waiting"]
           \/ job[e].at = w /\ job' = [job EXCEPT ![e] = GivenUp]
           \/ job[e].at # w /\ UNCHANGED job
        /\ UNCHANGED row

\* The worker is so slow that BullMQ takes its job away, but it goes on.
Stall(w) ==
    LET e == Handled(w)
    IN  /\ e # Nothing
        /\ job[e].at = w
        /\ CountFailure
        /\ job' = [job EXCEPT ![e].at = "waiting"]
        /\ UNCHANGED <<row, running>>
=============================================================================
