---------------------------- MODULE AuctionJobs ----------------------------
(***************************************************************************)
(* The auction lot of Auctions together with its three schedule rows in    *)
(* the outbox (auction.schedule-start, -end and -checkout-expiry) and the  *)
(* queue workers of bidding.processor.ts that run startAuction, endAuction *)
(* and expireWinnerCheckout when they are due (runClaimedSchedule).        *)
(***************************************************************************)
EXTENDS Auctions

CONSTANTS
    Workers,        \* the handlers that are queue workers
    ClientOps,      \* bound: the operations clients call
    MaxAttempts, JobAttempts, MaxFailures

ASSUME WorkersAssumption ==
    Workers \subseteq Procs /\ ClientOps \cap {"start", "expire"} = {}

VARIABLES
    row, job, running, failures,    \* of Outbox
    outcome                         \* how the service call of a worker went

\* A schedule row is named after the operation its job runs.
Schedules == {"start", "end", "expire"}

O == INSTANCE Outbox WITH Events <- Schedules, MarksFailed <- {}, FailedStay <- FALSE,
                        Nothing <- None

jobs == <<row, job, running, failures, outcome>>
jobVars == <<vars, jobs>>

JobsTypeOK ==
    /\ O!OutboxTypeOK
    /\ outcome \in [Workers -> {"rest", "call", "wait", "done", "retry", "error"}]

JobsInit ==
    /\ Init
    /\ O!OutboxInit
    /\ outcome = [w \in Workers |-> "rest"]

\* availableAt of the rows before their first claim.
Due(j) ==
    CASE j = "start" -> StartsAt =< now
      [] j = "end" -> EndsAt =< now
      [] j = "expire" -> auction.expiresAt =< now

ListedNow == auction.status = "NONE" /\ auction'.status = "DRAFT"
SoldNow == "ended" \notin events /\ "ended" \in events' /\ auction'.winner # None
RowsFor(S, status) == [j \in Schedules |-> IF j \in S THEN [row[j] EXCEPT !.status = status] ELSE row[j]]

\* Mutants: one of the inserts is missing.
NoStartRow ==
    RowsFor((IF ListedNow THEN {"end"} ELSE {}) \cup (IF SoldNow THEN {"expire"} ELSE {}), "PENDING")
NoEndRow ==
    RowsFor((IF ListedNow THEN {"start"} ELSE {}) \cup (IF SoldNow THEN {"expire"} ELSE {}), "PENDING")
NoExpiryRow == RowsFor(IF ListedNow THEN {"start", "end"} ELSE {}, "PENDING")

\* Rows are inserted by the transactions that create and that end the auction.
WithSchedules ==
    RowsFor((IF ListedNow THEN {"start", "end"} ELSE {})
                \cup (IF SoldNow THEN {"expire"} ELSE {}), "PENDING")

-----------------------------------------------------------------------------
(* Clients, and what they share with the workers *)

ClientRequests == {r \in Requests : r.op \in ClientOps}

Client ==
    /\ \/ \E p \in Procs \ Workers : (\E r \in ClientRequests : Start(p, r)) \/ Step(p)
       \/ Submit
       \/ Reject
       \/ Restore
       \/ Tick
    /\ row' = WithSchedules
    /\ UNCHANGED <<job, running, failures, outcome>>

Dispatch(j) ==
    /\ O!Redeliver(j) \/ (Due(j) /\ O!Enqueue(j))
    /\ UNCHANGED <<vars, outcome>>

-----------------------------------------------------------------------------
(* A worker runs a schedule *)

Outcome(w, o) == outcome' = [outcome EXCEPT ![w] = o]

TakeSchedule(w, j) ==
    /\ \/ O!Take(w, j) /\ Outcome(w, "call")
       \/ O!Skip(w, j) /\ UNCHANGED outcome
    /\ UNCHANGED vars

\* shouldRetry, of an auction that the service returned as it found it.
ShouldRetry(j) ==
    CASE j = "start" -> auction.status = "DRAFT"
      [] j = "end" -> auction.status = "ACTIVE"
      [] j = "expire" -> /\ auction.status = "SOLD"
                         /\ auction.order = None
                         /\ now < auction.expiresAt

\* The early returns of startAuction, endAuction and expireWinnerCheckout.
NothingToDo(j) ==
    CASE j = "start" -> auction.status # "DRAFT" \/ now < StartsAt
      [] j = "end" -> auction.status # "ACTIVE" \/ now < EndsAt
      [] j = "expire" -> \/ auction.status # "SOLD"
                         \/ auction.expiresAt = 0
                         \/ now < auction.expiresAt

Call(w) ==
    /\ outcome[w] = "call" /\ pc[w] = "idle"
    /\ \/ /\ NothingToDo(O!Handled(w))
          /\ Outcome(w, IF ShouldRetry(O!Handled(w)) THEN "retry" ELSE "done")
          /\ UNCHANGED vars
       \/ /\ Start(w, [op |-> O!Handled(w)])
          /\ Outcome(w, "wait")
    /\ UNCHANGED <<row, job, running, failures>>

\* The last step of the service call: startAuction gives back a DRAFT auction
\* when the product is not approved, the insert of an event that exists throws.
CallEnds(w) ==
    CASE pc[w] = "startProduct" -> "retry"
      [] pc[w] = "startCommit" /\ "started" \in events -> "error"
      [] pc[w] = "endCommit" /\ "ended" \in events -> "error"
      [] pc[w] = "expireCommit" /\ "checkoutExpired" \in events -> "error"
      [] OTHER -> "done"

CallStep(w) ==
    \/ StartProduct(w)
    \/ StartClaim(w)
    \/ StartCommit(w)
    \/ EndClaim(w)
    \/ EndCommit(w)
    \/ ExpireClaim(w)
    \/ ExpireCommit(w)

Continue(w) ==
    /\ outcome[w] = "wait"
    /\ CallStep(w)
    /\ Outcome(w, IF pc'[w] = "idle" THEN CallEnds(w) ELSE "wait")
    /\ row' = WithSchedules
    /\ UNCHANGED <<job, running, failures>>

\* The row is updated after the call, by a statement of its own.
Report(w) ==
    /\ \/ outcome[w] = "done" /\ O!Succeed(w)
       \/ outcome[w] = "retry" /\ O!Postpone(w)
       \/ outcome[w] = "error" /\ O!Fail(w) /\ UNCHANGED failures
    /\ Outcome(w, "rest")
    /\ UNCHANGED vars

\* The service call throws, or the process dies, wherever it is.
CallFails(w) ==
    /\ outcome[w] \in {"call", "wait"}
    /\ O!CountFailure
    /\ IF pc[w] = "idle" THEN UNCHANGED vars ELSE Rollback(w)
    /\ Outcome(w, "error")
    /\ UNCHANGED <<row, job, running>>

WorkerDies(w) ==
    /\ outcome[w] # "rest"
    /\ O!Crash(w)
    /\ IF pc[w] = "idle" THEN UNCHANGED vars ELSE Rollback(w)
    /\ Outcome(w, "rest")

Work(w) ==
    \/ \E j \in Schedules : TakeSchedule(w, j)
    \/ Call(w)
    \/ Report(w)

JobsNext ==
    \/ Client
    \/ \E j \in Schedules : Dispatch(j)
    \/ \E w \in Workers : Work(w) \/ Continue(w) \/ CallFails(w) \/ WorkerDies(w)

JobsSpec == JobsInit /\ [][JobsNext]_jobVars

\* Time passes, the dispatcher polls, workers work; PostgreSQL queues those who
\* wait for a row lock, so a worker's call is not overtaken for ever; a client's
\* transaction ends, if only by its timeout.
JobsFairness ==
    /\ WF_jobVars(Tick /\ UNCHANGED jobs)
    /\ \A j \in Schedules : WF_jobVars(Dispatch(j))
    /\ \A w \in Workers : WF_jobVars(Work(w)) /\ SF_jobVars(Continue(w))
    /\ \A p \in Procs \ Workers :
          WF_jobVars(Step(p) /\ row' = WithSchedules /\ UNCHANGED <<job, running, failures, outcome>>)

FairJobsSpec == JobsSpec /\ JobsFairness

-----------------------------------------------------------------------------
(* Properties *)

\* An auction that is running before its deadline is over some time after it,
\* even if a worker crashes or the call fails (fewer times than a row has claims).
RunningAuctionEnds ==
    (auction.status = "ACTIVE" /\ now < EndsAt) ~> auction.status # "ACTIVE"

\* A winner who does not check out loses the lot, unless the clock of the model
\* stops before the window closes.
UnclaimedLotIsReleased ==
    (auction.status = "SOLD" /\ auction.expiresAt =< MaxTime)
        ~> (auction.order # None \/ auction.status # "SOLD")

\* An auction whose product is on sale before its start is opened.
ApprovedAuctionStarts ==
    (auction.status = "DRAFT" /\ product.status = "ACTIVE" /\ now < StartsAt)
        ~> (auction.status # "DRAFT" \/ product.status # "ACTIVE")
=============================================================================
