--------------------------- MODULE RealtimeProofs ---------------------------
(* Theorems about Realtime, for every number of events, users, workers,    *)
(* requests, prices and failures.                                          *)
EXTENDS Realtime, SequenceTheorems, TLAPS

-----------------------------------------------------------------------------
(* The invariant, one part per group of variables *)

Messages == {Notice(e) : e \in Events} \cup {Bid(p) : p \in 1..MaxPrice}

SocketInv == SocketsTypeOK /\ inbox \in Seq(Messages)

JobStates == [at : {"absent", "waiting", "failed"} \cup Workers, tries : 0..JobAttempts]
Receipts == [exists : BOOLEAN, leased : BOOLEAN, done : BOOLEAN]
WorkerStates ==
    [event : Events \cup {Nothing}, todo : SUBSET Users, tries : 0..JobAttempts,
     at : {"rest", "look", "upsert", "lease", "row", "push", "complete"}]

QueueTypes ==
    /\ committed \subseteq Events /\ spent \subseteq committed
    /\ job \in [Events -> JobStates]
    /\ receipt \in [Events -> Receipts]
    /\ worker \in [Workers -> WorkerStates]
    /\ notes \subseteq Users \X Events
    /\ failures \in 0..MaxFailures

\* A job that can still be tried, and a worker, have a try left.
TriesInv ==
    /\ \A e \in Events : job[e].at # "failed" => job[e].tries < JobAttempts
    /\ \A w \in Workers : worker[w].tries < JobAttempts

\* In the loop of an event, who is not to be notified any more has the row, and so has
\* the user who is about to be told.
LoopOf(r, rows) ==
    /\ r.at # "rest" => r.event \in Events
    /\ r.at \in {"row", "push", "complete"} =>
          \A u \in Targets[r.event] : u \in r.todo \/ <<u, r.event>> \in rows
    /\ r.at \in {"row", "push"} => r.todo # {}
    /\ r.at = "push" => <<OneOf(r.todo), r.event>> \in rows
    /\ r.at = "complete" => r.todo = {}

LoopInv == \A w \in Workers : LoopOf(worker[w], notes)

QueueInv == QueueTypes /\ TriesInv /\ LoopInv /\ CompletedMeansDelivered

BellInv ==
    /\ items \in [Events -> Nat]
    /\ list \in [Lists -> [at : {"idle", "asked", "read"}, rows : SUBSET Events]]
    /\ ShownOnce

\* Every price on the page is real, but for that of a bid under way.
PriceInv ==
    /\ LiveAuctionTypeOK
    /\ price \in prices
    /\ \A l \in Loads : load[l].at = "read" => load[l].price \in prices
    /\ shown \in prices \cup {0} \/ (bid.at # "idle" /\ shown = bid.amount)
    /\ bid.at # "idle" => bid.previous \in prices \cup {0}
    /\ bid.at = "accepted" => bid.amount \in prices

RInv == SocketInv /\ QueueInv /\ BellInv /\ PriceInv

-----------------------------------------------------------------------------
(* The socket *)

\* A step that leaves the socket alone.
LEMMA SocketKeep == ASSUME SocketInv, UNCHANGED sockets PROVE SocketInv'
BY DEF SocketInv, SocketsTypeOK, sockets

\* The socket connects, joins and leaves rooms.
LEMMA SocketStep ==
    ASSUME SocketInv, Connected \/ Join \/ Disconnect \/ AskForRoom \/ Subscribe
    PROVE  SocketInv'
<1> USE SocketsAssumption DEF SocketInv, SocketsTypeOK, subscribing
<1>1. CASE Connected
  BY <1>1 DEF Connected
<1>2. CASE Join
  BY <1>2 DEF Join
<1>3. CASE Disconnect
  <2>1. inbox' \in Seq(Messages) /\ Len(inbox') =< MaxInbox
    <3>1. <<>> \in Seq(Messages) /\ Len(<<>>) = 0
      OBVIOUS
    <3>2. inbox' = <<>>
      BY <1>3 DEF Disconnect
    <3>3. QED  BY <3>1, <3>2
  <2>2. /\ conn' \in {"down", "open", "joined"} /\ connections' \in 0..MaxConnections
        /\ auctionRoom' \in BOOLEAN /\ resubscribes' \in BOOLEAN
        /\ subscription' \in {"none", "sent", "answered"}
    BY <1>3 DEF Disconnect
  <2>3. QED  BY <2>1, <2>2
<1>4. CASE AskForRoom
  BY <1>4 DEF AskForRoom
<1>5. CASE Subscribe
  <2>1. MayJoin \in BOOLEAN
    BY DEF MayJoin
  <2>2. QED  BY <1>5, <2>1 DEF Subscribe
<1>6. QED  BY <1>1, <1>2, <1>3, <1>4, <1>5

\* A message is pushed to the socket, or lost.
LEMMA PushStep ==
    ASSUME SocketInv, NEW m \in Messages, NEW b, Push(m, b),
           UNCHANGED <<conn, connections, subscribing, seen>>
    PROVE  SocketInv'
<1>1. inbox' \in Seq(Messages) /\ Len(inbox') =< MaxInbox
  <2>1. CASE b
    <3>1. Len(inbox) < MaxInbox /\ inbox' = Append(inbox, m)
      BY <2>1 DEF Push
    <3>2. inbox \in Seq(Messages) /\ Len(inbox) \in Nat
      BY DEF SocketInv
    <3>3. inbox' \in Seq(Messages) /\ Len(inbox') = Len(inbox) + 1
      BY <3>1, <3>2
    <3>4. QED  BY <3>1, <3>2, <3>3, SocketsAssumption
  <2>2. CASE ~b
    BY <2>2 DEF Push, SocketInv, SocketsTypeOK
  <2>3. QED  BY <2>1, <2>2
<1>2. QED  BY <1>1 DEF SocketInv, SocketsTypeOK, subscribing

\* The oldest message is received.
LEMMA ReceiveStep ==
    ASSUME SocketInv, Receive, UNCHANGED <<conn, connections, subscribing>>
    PROVE  SocketInv' /\ Received \in Messages
<1>1. inbox # <<>> /\ inbox' = Tail(inbox) /\ inbox \in Seq(Messages)
  BY DEF Receive, SocketInv
<1>2. inbox' \in Seq(Messages) /\ Len(inbox') = Len(inbox) - 1 /\ Head(inbox) \in Messages
  BY <1>1, HeadTailProperties
<1>3. Len(inbox) \in Nat /\ Len(inbox) =< MaxInbox
  BY <1>1 DEF SocketInv, SocketsTypeOK
<1>4. Len(inbox') =< MaxInbox
  BY <1>2, <1>3, SocketsAssumption
<1>5. QED  BY <1>2, <1>4 DEF SocketInv, SocketsTypeOK, subscribing, Received

-----------------------------------------------------------------------------
(* The queue *)

\* A worker changes its state; what it did to the receipt of its event keeps promises.
LEMMA QueueKeep ==
    ASSUME QueueInv, UNCHANGED <<queue, failures>>
    PROVE  QueueInv'
BY DEF QueueInv, QueueTypes, TriesInv, LoopInv, LoopOf, CompletedMeansDelivered, queue

\* A worker and a job at rest.
LEMMA RestState ==
    /\ AtRest \in WorkerStates /\ AtRest.tries < JobAttempts /\ LoopOf(AtRest, notes)
    /\ NoJob \in JobStates /\ NoJob.tries < JobAttempts
BY NotificationsAssumption DEF AtRest, NoJob, WorkerStates, JobStates, LoopOf

\* A worker goes on with its event, or takes one; rows are only added.
LEMMA WorkerStep ==
    ASSUME QueueInv, NEW w \in Workers, NEW r \in WorkerStates, r.tries < JobAttempts,
           worker' = [worker EXCEPT ![w] = r],
           notes \subseteq notes', LoopOf(r, notes')
    PROVE  /\ worker' \in [Workers -> WorkerStates]
           /\ \A v \in Workers : worker'[v].tries < JobAttempts
           /\ LoopInv'
<1>1. worker' \in [Workers -> WorkerStates] /\ \A v \in Workers : worker'[v] = IF v = w THEN r ELSE worker[v]
  BY DEF QueueInv, QueueTypes
<1>2. \A v \in Workers : worker'[v].tries < JobAttempts
  BY <1>1 DEF QueueInv, TriesInv
<1>3. ASSUME NEW v \in Workers PROVE LoopOf(worker'[v], notes')
  <2>1. CASE v = w
    BY <1>1, <2>1 DEF LoopOf
  <2>2. CASE v # w
    <3>1. LoopOf(worker[v], notes) /\ worker'[v] = worker[v]
      BY <1>1, <2>2 DEF QueueInv, LoopInv
    <3>2. QED  BY <3>1 DEF LoopOf
  <2>3. QED  BY <2>1, <2>2
<1>4. QED  BY <1>1, <1>2, <1>3 DEF LoopInv

\* A job gets a state in which it can be tried, or has failed for good.
LEMMA JobStep ==
    ASSUME QueueInv, NEW e \in Events, NEW j \in JobStates,
           j.at # "failed" => j.tries < JobAttempts,
           job' = [job EXCEPT ![e] = j] \/ job' = job
    PROVE  /\ job' \in [Events -> JobStates]
           /\ \A f \in Events : job'[f].at # "failed" => job'[f].tries < JobAttempts
BY DEF QueueInv, QueueTypes, TriesInv

\* A job goes to another place; its tries stay under the limit.
LEMMA JobMoves ==
    ASSUME QueueInv, NEW e \in Events, job[e].at # "failed",
           NEW at \in {"absent", "waiting", "failed"} \cup Workers,
           job' = [job EXCEPT ![e].at = at]
    PROVE  /\ job' \in [Events -> JobStates]
           /\ \A f \in Events : job'[f].at # "failed" => job'[f].tries < JobAttempts
<1>1. /\ job[e] \in JobStates
      /\ job' = [job EXCEPT ![e] = [job[e] EXCEPT !.at = at]]
  BY DEF QueueInv, QueueTypes
<1>2. LET j == [job[e] EXCEPT !.at = at] IN j \in JobStates /\ j.tries < JobAttempts
  BY <1>1 DEF JobStates, QueueInv, TriesInv
<1>3. QED  BY <1>1, <1>2, JobStep

\* A worker leaves its job.
LEMMA LeaveStep ==
    ASSUME QueueInv, NEW w \in Workers, worker[w].at # "rest",
           NEW j \in JobStates, j.at # "failed" => j.tries < JobAttempts,
           Leave(w, j)
    PROVE  /\ job' \in [Events -> JobStates]
           /\ \A f \in Events : job'[f].at # "failed" => job'[f].tries < JobAttempts
           /\ worker' = [worker EXCEPT ![w] = AtRest]
<1>1. Handled(w) \in Events
  BY DEF QueueInv, LoopInv, LoopOf, Handled
<1>2. QED  BY <1>1, JobStep DEF Leave

\* The lease of a receipt is taken or given back.
LEMMA ReceiptStep ==
    ASSUME QueueInv, NEW e \in Events, NEW b \in BOOLEAN,
           \/ receipt' = [receipt EXCEPT ![e].leased = b]
           \/ receipt' = [receipt EXCEPT ![e].exists = b]
           \/ receipt' = receipt,
           notes \subseteq notes'
    PROVE  receipt' \in [Events -> Receipts] /\ CompletedMeansDelivered'
<1>0. receipt[e] \in Receipts
  BY DEF QueueInv, QueueTypes
<1>1. LET r == [receipt[e] EXCEPT !.leased = b] IN r \in Receipts /\ r.done = receipt[e].done
  BY <1>0 DEF Receipts
<1>2. LET r == [receipt[e] EXCEPT !.exists = b] IN r \in Receipts /\ r.done = receipt[e].done
  BY <1>0 DEF Receipts
<1>3. PICK r \in Receipts : r.done = receipt[e].done /\ receipt' = [receipt EXCEPT ![e] = r]
  <2>1. CASE receipt' = [receipt EXCEPT ![e].leased = b]
    BY <1>1, <2>1
  <2>2. CASE receipt' = [receipt EXCEPT ![e].exists = b]
    BY <1>2, <2>2
  <2>3. CASE receipt' = receipt
    BY <1>0, <2>3 DEF QueueInv, QueueTypes
  <2>4. QED  BY <2>1, <2>2, <2>3
<1>4. receipt' \in [Events -> Receipts] /\ \A f \in Events : receipt'[f].done = receipt[f].done
  BY <1>3 DEF QueueInv, QueueTypes
<1>5. QED  BY <1>4 DEF QueueInv, CompletedMeansDelivered


\* Rows, and the dispatcher.
LEMMA DispatchStep ==
    ASSUME QueueInv, NEW e \in Events, Publish(e) \/ Exhaust(e) \/ Dispatch(e) \/ Expire(e)
    PROVE  QueueInv'
<1>1. CASE Publish(e)
  BY <1>1 DEF Publish, QueueInv, QueueTypes, TriesInv, LoopInv, LoopOf, CompletedMeansDelivered
<1>2. CASE Exhaust(e)
  <2>1. failures' \in 0..MaxFailures
    BY <1>2, NotificationsAssumption DEF Exhaust, CountFailure, QueueInv, QueueTypes
  <2>2. QED
    BY <1>2, <2>1
       DEF Exhaust, QueueInv, QueueTypes, TriesInv, LoopInv, LoopOf, CompletedMeansDelivered
<1>3. CASE Dispatch(e)
  <2>1. job[e].at = "absent" /\ job' = [job EXCEPT ![e].at = "waiting"]
        /\ UNCHANGED <<committed, spent, receipt, worker, notes, failures>>
    BY <1>3 DEF Dispatch
  <2>2. /\ job' \in [Events -> JobStates]
        /\ \A f \in Events : job'[f].at # "failed" => job'[f].tries < JobAttempts
    BY <2>1, JobMoves
  <2>3. QED  BY <2>1, <2>2 DEF QueueInv, QueueTypes, TriesInv, LoopInv, LoopOf, CompletedMeansDelivered
<1>4. CASE Expire(e)
  <2>1. receipt' = [receipt EXCEPT ![e].leased = FALSE]
        /\ UNCHANGED <<committed, spent, job, worker, notes, failures>>
    BY <1>4 DEF Expire
  <2>2. receipt' \in [Events -> Receipts] /\ CompletedMeansDelivered'
    BY <2>1, ReceiptStep
  <2>3. QED  BY <2>1, <2>2 DEF QueueInv, QueueTypes, TriesInv, LoopInv, LoopOf
<1>5. QED  BY <1>1, <1>2, <1>3, <1>4

\* What QueueInv says, put together from its parts.
LEMMA Assemble ==
    ASSUME QueueInv,
           UNCHANGED <<committed, spent>>,
           job' \in [Events -> JobStates],
           \A f \in Events : job'[f].at # "failed" => job'[f].tries < JobAttempts,
           worker' \in [Workers -> WorkerStates],
           \A v \in Workers : worker'[v].tries < JobAttempts,
           LoopInv',
           receipt' \in [Events -> Receipts],
           CompletedMeansDelivered',
           notes' \subseteq Users \X Events,
           failures' \in 0..MaxFailures
    PROVE  QueueInv'
BY DEF QueueInv, QueueTypes, TriesInv

\* A worker takes a job.
LEMMA TakeStep ==
    ASSUME QueueInv, NEW w \in Workers, NEW e \in Events, Take(w, e)
    PROVE  QueueInv'
<1> DEFINE r == [AtRest EXCEPT !.event = e, !.at = "look", !.tries = job[e].tries]
<1>1. /\ job[e].at = "waiting" /\ job' = [job EXCEPT ![e].at = w]
      /\ worker' = [worker EXCEPT ![w] = r]
      /\ UNCHANGED <<committed, spent, receipt, notes, failures>>
  BY DEF Take
<1>2. job[e] \in JobStates /\ job[e].tries < JobAttempts
  BY <1>1 DEF QueueInv, QueueTypes, TriesInv
<1>3. AtRest \in WorkerStates /\ job[e].tries \in 0..JobAttempts
  BY <1>2, RestState DEF JobStates
<1>4. r \in WorkerStates /\ r.tries < JobAttempts /\ r.at = "look" /\ r.event = e
  BY <1>2, <1>3 DEF WorkerStates
<1> HIDE DEF r
<1>5. LoopOf(r, notes')
  BY <1>4 DEF LoopOf
<1>6. /\ worker' \in [Workers -> WorkerStates]
      /\ \A v \in Workers : worker'[v].tries < JobAttempts
      /\ LoopInv'
  BY <1>1, <1>4, <1>5, WorkerStep
<1>7. /\ job' \in [Events -> JobStates]
      /\ \A f \in Events : job'[f].at # "failed" => job'[f].tries < JobAttempts
  BY <1>1, JobMoves
<1>8. CompletedMeansDelivered'
  BY <1>1 DEF QueueInv, CompletedMeansDelivered
<1>9. QED  BY <1>1, <1>6, <1>7, <1>8, Assemble DEF QueueInv, QueueTypes

\* A worker goes to another step of the same event without touching its users.
LEMMA GotoStep ==
    ASSUME QueueInv, NEW w \in Workers, worker[w].at # "rest",
           NEW what \in {"upsert", "lease"}, Goto(w, what), notes' = notes
    PROVE  /\ worker' \in [Workers -> WorkerStates]
           /\ \A v \in Workers : worker'[v].tries < JobAttempts
           /\ LoopInv'
<1> DEFINE r == [worker[w] EXCEPT !.at = what]
<1>1. worker[w] \in WorkerStates /\ worker[w].tries < JobAttempts /\ LoopOf(worker[w], notes)
  BY DEF QueueInv, QueueTypes, TriesInv, LoopInv
<1>2. r \in WorkerStates /\ r.at = what /\ r.event = worker[w].event /\ r.tries = worker[w].tries
  BY <1>1 DEF WorkerStates
<1>3. worker' = [worker EXCEPT ![w] = r]
  BY DEF Goto
<1>4. r.event \in Events
  BY <1>1, <1>2 DEF LoopOf
<1> HIDE DEF r
<1>5. LoopOf(r, notes')
  BY <1>2, <1>4 DEF LoopOf
<1>6. QED  BY <1>1, <1>2, <1>3, <1>5, WorkerStep

\* A worker that leaves its event.
LEMMA RestStep ==
    ASSUME QueueInv, NEW w \in Workers, worker' = [worker EXCEPT ![w] = AtRest], notes' = notes
    PROVE  /\ worker' \in [Workers -> WorkerStates]
           /\ \A v \in Workers : worker'[v].tries < JobAttempts
           /\ LoopInv'
<1>1. LoopOf(AtRest, notes')
  BY DEF LoopOf, AtRest
<1>2. QED  BY <1>1, RestState, WorkerStep

\* Before the loop: the receipt is looked at, inserted, and its lease asked for.
LEMMA ClaimStep ==
    ASSUME QueueInv, NEW w \in Workers, Look(w) \/ Upsert(w)
    PROVE  QueueInv'
<1>1. /\ worker[w].at \in {"look", "upsert"} /\ UNCHANGED <<committed, spent, notes, failures>>
      /\ \/ Leave(w, NoJob)
         \/ \E what \in {"upsert", "lease"} : Goto(w, what) /\ UNCHANGED job
      /\ \/ receipt' = [receipt EXCEPT ![Handled(w)].exists = TRUE]
         \/ receipt' = receipt
  BY DEF Look, Upsert, Doing
<1>2. Handled(w) \in Events
  BY <1>1 DEF QueueInv, LoopInv, LoopOf, Handled
<1>3. receipt' \in [Events -> Receipts] /\ CompletedMeansDelivered'
  BY <1>1, <1>2, ReceiptStep
<1>4. CASE Leave(w, NoJob)
  <2>1. /\ job' \in [Events -> JobStates]
        /\ \A f \in Events : job'[f].at # "failed" => job'[f].tries < JobAttempts
        /\ worker' = [worker EXCEPT ![w] = AtRest]
    BY <1>1, <1>4, RestState, LeaveStep
  <2>2. /\ worker' \in [Workers -> WorkerStates]
        /\ \A v \in Workers : worker'[v].tries < JobAttempts
        /\ LoopInv'
    BY <1>1, <2>1, RestStep
  <2>3. QED  BY <1>1, <1>3, <2>1, <2>2, Assemble DEF QueueInv, QueueTypes
<1>5. CASE \E what \in {"upsert", "lease"} : Goto(w, what) /\ UNCHANGED job
  <2>1. /\ worker' \in [Workers -> WorkerStates]
        /\ \A v \in Workers : worker'[v].tries < JobAttempts
        /\ LoopInv'
    BY <1>1, <1>5, GotoStep
  <2>2. QED  BY <1>1, <1>3, <1>5, <2>1, Assemble DEF QueueInv, QueueTypes, TriesInv
<1>6. QED  BY <1>1, <1>4, <1>5

\* A worker leases the receipt of its event.
LEMMA LeaseStep ==
    ASSUME QueueInv, NEW w \in Workers, Lease(w)
    PROVE  QueueInv'
<1> DEFINE e == Handled(w)
<1>1. worker[w].at = "lease" /\ UNCHANGED <<committed, spent, notes, failures>>
  BY DEF Lease, Doing
<1>2. e \in Events
  BY <1>1 DEF QueueInv, LoopInv, LoopOf, Handled
<1>3. CASE Leave(w, NoJob) /\ UNCHANGED receipt
  <2>1. /\ job' \in [Events -> JobStates]
        /\ \A f \in Events : job'[f].at # "failed" => job'[f].tries < JobAttempts
        /\ worker' = [worker EXCEPT ![w] = AtRest]
    BY <1>1, <1>3, RestState, LeaveStep
  <2>2. /\ worker' \in [Workers -> WorkerStates]
        /\ \A v \in Workers : worker'[v].tries < JobAttempts
        /\ LoopInv'
    BY <1>1, <2>1, RestStep
  <2>3. receipt' \in [Events -> Receipts] /\ CompletedMeansDelivered'
    BY <1>1, <1>2, <1>3, ReceiptStep
  <2>4. QED  BY <1>1, <2>1, <2>2, <2>3, Assemble DEF QueueInv, QueueTypes
<1>4. CASE ~(receipt[e].done \/ receipt[e].leased)
  <2> DEFINE at == IF Targets[e] = {} THEN "complete" ELSE "row"
             r == [worker[w] EXCEPT !.at = at, !.todo = Targets[e]]
  <2>1. /\ receipt' = [receipt EXCEPT ![e].leased = TRUE]
        /\ worker' = [worker EXCEPT ![w] = r]
        /\ UNCHANGED job
    BY <1>4 DEF Lease
  <2>2. worker[w] \in WorkerStates /\ worker[w].tries < JobAttempts
    BY DEF QueueInv, QueueTypes, TriesInv
  <2>3. Targets[e] \subseteq Users
    BY <1>2, NotificationsAssumption
  <2>4. /\ r \in WorkerStates /\ r.at = at /\ r.todo = Targets[e]
        /\ r.event = e /\ r.tries = worker[w].tries
    BY <2>2, <2>3 DEF WorkerStates, Handled
  <2> HIDE DEF r
  <2>5. LoopOf(r, notes')
    BY <1>2, <2>4 DEF LoopOf
  <2>6. /\ worker' \in [Workers -> WorkerStates]
        /\ \A v \in Workers : worker'[v].tries < JobAttempts
        /\ LoopInv'
    BY <1>1, <2>1, <2>2, <2>4, <2>5, WorkerStep
  <2>7. receipt' \in [Events -> Receipts] /\ CompletedMeansDelivered'
    BY <1>1, <1>2, <2>1, ReceiptStep
  <2>8. QED  BY <1>1, <2>1, <2>6, <2>7, Assemble DEF QueueInv, QueueTypes, TriesInv
<1>5. QED  BY <1>3, <1>4 DEF Lease

\* The loop over the users of an event.
LEMMA LoopStep ==
    ASSUME QueueInv, NEW w \in Workers, InsertRow(w) \/ PushNotice(w)
    PROVE  QueueInv'
<1> DEFINE e == Handled(w)  u == NextUser(w)
<1>1. worker[w].at \in {"row", "push"} /\ UNCHANGED <<committed, spent, job, receipt, failures>>
  BY DEF InsertRow, PushNotice, Doing
<1>2. /\ worker[w] \in WorkerStates /\ worker[w].tries < JobAttempts /\ LoopOf(worker[w], notes)
      /\ e \in Events /\ worker[w].todo # {} /\ worker[w].todo \subseteq Users
      /\ \A v \in Targets[e] : v \in worker[w].todo \/ <<v, e>> \in notes
  BY <1>1 DEF QueueInv, QueueTypes, TriesInv, LoopInv, LoopOf, Handled, WorkerStates
<1>3. u \in worker[w].todo
  BY <1>2 DEF NextUser, OneOf
<1>4. CASE InsertRow(w)
  <2> DEFINE r == [worker[w] EXCEPT !.at = "push"]
  <2>1. notes' = notes \cup {<<u, e>>} /\ worker' = [worker EXCEPT ![w] = r]
    BY <1>4 DEF InsertRow, Goto
  <2>2. /\ r \in WorkerStates /\ r.at = "push" /\ r.event = e
        /\ r.todo = worker[w].todo /\ r.tries = worker[w].tries
    BY <1>2 DEF WorkerStates, Handled
  <2> HIDE DEF r
  <2>3. LoopOf(r, notes')
    <3>1. <<OneOf(r.todo), r.event>> \in notes'
      BY <2>1, <2>2 DEF NextUser
    <3>2. \A v \in Targets[r.event] : v \in r.todo \/ <<v, r.event>> \in notes'
      BY <1>2, <2>1, <2>2
    <3>3. QED  BY <1>2, <2>2, <3>1, <3>2 DEF LoopOf, OneOf
  <2>4. notes' \subseteq Users \X Events /\ notes \subseteq notes'
    BY <1>2, <1>3, <2>1 DEF QueueInv, QueueTypes
  <2>5. /\ worker' \in [Workers -> WorkerStates]
        /\ \A v \in Workers : worker'[v].tries < JobAttempts
        /\ LoopInv'
    BY <1>2, <2>1, <2>2, <2>3, <2>4, WorkerStep
  <2>6. CompletedMeansDelivered'
    BY <1>1, <2>4 DEF QueueInv, CompletedMeansDelivered
  <2>7. QED  BY <1>1, <2>4, <2>5, <2>6, Assemble DEF QueueInv, QueueTypes, TriesInv
<1>5. CASE PushNotice(w)
  <2> DEFINE at == IF Remaining(w) = {} THEN "complete" ELSE "row"
             r == [worker[w] EXCEPT !.todo = Remaining(w), !.at = at]
  <2>1. /\ worker[w].at = "push" /\ notes' = notes /\ worker' = [worker EXCEPT ![w] = r]
        /\ Remaining(w) = worker[w].todo \ {u}
    BY <1>5 DEF PushNotice, Doing, Remaining
  <2>2. <<u, e>> \in notes
    BY <1>2, <2>1 DEF LoopOf, NextUser, Handled
  <2>3. /\ r \in WorkerStates /\ r.at = at /\ r.event = e
        /\ r.todo = Remaining(w) /\ r.tries = worker[w].tries
    BY <1>2, <2>1 DEF WorkerStates, Handled
  <2> HIDE DEF r
  <2>4. LoopOf(r, notes')
    <3>1. \A v \in Targets[r.event] : v \in r.todo \/ <<v, r.event>> \in notes'
      BY <1>2, <2>1, <2>2, <2>3
    <3>2. QED  BY <1>2, <2>3, <3>1 DEF LoopOf
  <2>5. /\ worker' \in [Workers -> WorkerStates]
        /\ \A v \in Workers : worker'[v].tries < JobAttempts
        /\ LoopInv'
    BY <1>2, <2>1, <2>3, <2>4, WorkerStep
  <2>6. CompletedMeansDelivered'
    BY <1>1, <2>1 DEF QueueInv, CompletedMeansDelivered
  <2>7. QED  BY <1>1, <2>1, <2>5, <2>6, Assemble DEF QueueInv, QueueTypes, TriesInv
<1>6. QED  BY <1>4, <1>5

\* The receipt is completed and the job leaves the queue.
LEMMA CompleteStep ==
    ASSUME QueueInv, NEW w \in Workers, Complete(w)
    PROVE  QueueInv'
<1> DEFINE e == Handled(w)
           d == [exists |-> TRUE, leased |-> FALSE, done |-> TRUE]
<1>1. /\ worker[w].at = "complete" /\ receipt' = [receipt EXCEPT ![e] = d]
      /\ Leave(w, NoJob) /\ UNCHANGED <<committed, spent, notes, failures>>
  BY DEF Complete, Doing
<1>2. e \in Events /\ \A u \in Targets[e] : <<u, e>> \in notes
  BY <1>1 DEF QueueInv, LoopInv, LoopOf, Handled
<1>3. d \in Receipts
  BY DEF Receipts
<1> HIDE DEF d
<1>4. receipt' \in [Events -> Receipts] /\ \A f \in Events : f # e => receipt'[f] = receipt[f]
  BY <1>1, <1>2, <1>3 DEF QueueInv, QueueTypes
<1>5. CompletedMeansDelivered'
  BY <1>1, <1>2, <1>4 DEF QueueInv, CompletedMeansDelivered
<1>6. /\ job' \in [Events -> JobStates]
      /\ \A f \in Events : job'[f].at # "failed" => job'[f].tries < JobAttempts
      /\ worker' = [worker EXCEPT ![w] = AtRest]
  BY <1>1, RestState, LeaveStep
<1>7. /\ worker' \in [Workers -> WorkerStates]
      /\ \A v \in Workers : worker'[v].tries < JobAttempts
      /\ LoopInv'
  BY <1>1, <1>6, RestStep
<1>8. QED  BY <1>1, <1>4, <1>5, <1>6, <1>7, Assemble DEF QueueInv, QueueTypes

\* Errors, crashes and stalled jobs.
LEMMA TroubleStep ==
    ASSUME QueueInv, NEW w \in Workers, Error(w) \/ Crash(w) \/ Stall(w)
    PROVE  QueueInv'
<1>1. /\ worker[w].at # "rest" /\ UNCHANGED <<committed, spent, notes>>
      /\ failures' \in 0..MaxFailures
  BY NotificationsAssumption DEF Error, Crash, Stall, Doing, CountFailure, QueueInv, QueueTypes
<1>2. Handled(w) \in Events
  BY <1>1 DEF QueueInv, LoopInv, LoopOf, Handled
<1>3. CASE Error(w)
  <2> DEFINE made == worker[w].tries + 1
             j == IF made < JobAttempts THEN [at |-> "waiting", tries |-> made]
                  ELSE [at |-> "failed", tries |-> made]
  <2>1. made \in 0..JobAttempts
    <3>1. worker[w] \in WorkerStates /\ worker[w].tries < JobAttempts
      BY DEF QueueInv, QueueTypes, TriesInv
    <3>2. QED  BY <3>1, NotificationsAssumption DEF WorkerStates
  <2>2. j \in JobStates /\ (j.at # "failed" => j.tries < JobAttempts)
    BY <2>1 DEF JobStates
  <2>3. Leave(w, j)
    BY <1>3 DEF Error, Retry
  <2> HIDE DEF j
  <2>4. /\ job' \in [Events -> JobStates]
        /\ \A f \in Events : job'[f].at # "failed" => job'[f].tries < JobAttempts
        /\ worker' = [worker EXCEPT ![w] = AtRest]
    BY <1>1, <2>2, <2>3, LeaveStep
  <2>5. /\ worker' \in [Workers -> WorkerStates]
        /\ \A v \in Workers : worker'[v].tries < JobAttempts
        /\ LoopInv'
    BY <1>1, <2>4, RestStep
  <2>6. \/ receipt' = [receipt EXCEPT ![Handled(w)].leased = FALSE]
        \/ receipt' = receipt
    BY <1>3 DEF Error
  <2>7. receipt' \in [Events -> Receipts] /\ CompletedMeansDelivered'
    BY <1>1, <1>2, <2>6, ReceiptStep
  <2>8. QED  BY <1>1, <2>4, <2>5, <2>7, Assemble DEF QueueInv, QueueTypes
<1>4. CASE Crash(w) \/ Stall(w)
  <2>1. /\ receipt' = receipt
        /\ worker' = worker \/ worker' = [worker EXCEPT ![w] = AtRest]
        /\ \/ job' = job
           \/ /\ job[Handled(w)].at = w
              /\ \E next \in {"waiting", "failed"} : job' = [job EXCEPT ![Handled(w)].at = next]
    BY <1>4 DEF Crash, Stall
  <2>2. w # "failed"
    BY NotificationsAssumption
  <2>3. /\ job' \in [Events -> JobStates]
        /\ \A f \in Events : job'[f].at # "failed" => job'[f].tries < JobAttempts
    <3>1. CASE job' = job
      BY <3>1 DEF QueueInv, QueueTypes, TriesInv
    <3>2. CASE /\ job[Handled(w)].at = w
               /\ \E next \in {"waiting", "failed"} : job' = [job EXCEPT ![Handled(w)].at = next]
      BY <1>2, <2>2, <3>2, JobMoves
    <3>3. QED  BY <2>1, <3>1, <3>2
  <2>4. /\ worker' \in [Workers -> WorkerStates]
        /\ \A v \in Workers : worker'[v].tries < JobAttempts
        /\ LoopInv'
    <3>1. CASE worker' = worker
      BY <1>1, <3>1 DEF QueueInv, QueueTypes, TriesInv, LoopInv, LoopOf
    <3>2. CASE worker' = [worker EXCEPT ![w] = AtRest]
      BY <1>1, <3>2, RestStep
    <3>3. QED  BY <2>1, <3>1, <3>2
  <2>5. CompletedMeansDelivered'
    BY <1>1, <2>1 DEF QueueInv, CompletedMeansDelivered
  <2>6. QED  BY <1>1, <2>1, <2>3, <2>4, <2>5, Assemble DEF QueueInv, QueueTypes
<1>5. QED  BY <1>3, <1>4

\* Every step of the notification queue preserves its invariant.
LEMMA QueueStep == ASSUME QueueInv, QueueSteps PROVE QueueInv'
BY DispatchStep, TakeStep, ClaimStep, LeaseStep, LoopStep, CompleteStep, TroubleStep
   DEF QueueSteps, Work

-----------------------------------------------------------------------------
(* The bell *)

\* A step that leaves the bell alone.
LEMMA BellKeep == ASSUME BellInv, UNCHANGED bell PROVE BellInv'
BY DEF BellInv, ShownOnce, bell

ListStates == [at : {"idle", "asked", "read"}, rows : SUBSET Events]

\* A list that moves on.
LEMMA ListStep ==
    ASSUME BellInv, NEW l \in Lists, NEW r \in ListStates, list' = [list EXCEPT ![l] = r],
           items' \in [Events -> Nat], ShownOnce'
    PROVE  BellInv'
BY DEF BellInv, ListStates

\* A list is asked for.
LEMMA AskStep ==
    ASSUME BellInv, NEW l \in Lists, Asked(l), items' = items
    PROVE  BellInv'
<1>1. list[l] \in ListStates /\ list' = [list EXCEPT ![l] = [list[l] EXCEPT !.at = "asked"]]
  BY DEF Asked, BellInv, ListStates
<1>2. [list[l] EXCEPT !.at = "asked"] \in ListStates
  BY <1>1 DEF ListStates
<1>3. QED  BY <1>1, <1>2, ListStep DEF BellInv, ShownOnce

\* Every step of the bell preserves its invariant.
LEMMA BellStep == ASSUME BellInv, BellSteps PROVE BellInv'
<1>0. Unasked \in ListStates
  BY DEF Unasked, ListStates
<1>1. ASSUME NEW l \in Lists, ReadList(l) PROVE BellInv'
  <2> DEFINE r == [at |-> "read", rows |-> {e \in Events : <<Me, e>> \in notes}]
  <2>1. r \in ListStates /\ list' = [list EXCEPT ![l] = r] /\ items' = items
    BY <1>1 DEF ReadList, ListStates
  <2> HIDE DEF r
  <2>2. QED  BY <2>1, ListStep DEF BellInv, ShownOnce
<1>2. ASSUME NEW l \in Lists, ShowList(l) PROVE BellInv'
  <2>1. list' = [list EXCEPT ![l] = Unasked] /\ items' \in [Events -> 0..1]
    BY <1>2 DEF ShowList
  <2>2. items' \in [Events -> Nat] /\ ShownOnce'
    BY <2>1 DEF ShownOnce
  <2>3. QED  BY <1>0, <2>1, <2>2, ListStep
<1>3. ASSUME NEW l \in Lists, LoseList(l) PROVE BellInv'
  <2>1. list' = [list EXCEPT ![l] = Unasked] /\ items' \in [Events -> 0..1]
    BY <1>3 DEF LoseList
  <2>2. items' \in [Events -> Nat] /\ ShownOnce'
    BY <2>1 DEF ShownOnce
  <2>3. QED  BY <1>0, <2>1, <2>2, ListStep
<1>4. CASE AskList
  <2>1. items' = items
    BY <1>4 DEF AskList
  <2>2. CASE Lists = {}
    <3>1. list' \in [Lists -> ListStates]
      BY <1>4, <2>2 DEF AskList, Asked, BellInv
    <3>2. QED  BY <2>1, <3>1 DEF BellInv, ShownOnce, ListStates
  <2>3. CASE Lists # {}
    <3>1. OneOf(Lists) \in Lists
      BY <2>3 DEF OneOf
    <3>2. QED  BY <1>4, <2>1, <3>1, AskStep DEF AskList
  <2>4. QED  BY <2>2, <2>3
<1>5. CASE ShowNotice
  <2> DEFINE e == Received.of
  <2>1. list' = list /\ (items' = items \/ (~Listed(e) /\ items' = [items EXCEPT ![e] = @ + 1]))
    BY <1>5 DEF ShowNotice
  <2>2. CASE items' = items
    BY <2>1, <2>2, BellKeep DEF bell
  <2>3. CASE ~Listed(e) /\ items' = [items EXCEPT ![e] = @ + 1]
    <3>1. CASE e \notin Events
      <4>1. items' = items
        BY <2>3, <3>1 DEF BellInv
      <4>2. QED  BY <2>1, <4>1, BellKeep DEF bell
    <3>2. CASE e \in Events
      <4>1. items[e] = 0
        BY <2>3, <3>2 DEF Listed, BellInv
      <4>2. items' = [items EXCEPT ![e] = 1]
        BY <2>3, <4>1
      <4>3. items' \in [Events -> Nat] /\ \A f \in Events : items'[f] =< 1
        BY <3>2, <4>2 DEF BellInv, ShownOnce
      <4>4. QED  BY <2>1, <4>3 DEF BellInv, ShownOnce
    <3>3. QED  BY <3>1, <3>2
  <2>4. QED  BY <2>1, <2>2, <2>3
<1>6. QED  BY <1>1, <1>2, <1>3, <1>4, <1>5 DEF BellSteps

-----------------------------------------------------------------------------
(* The auction on the page *)

\* A step that leaves the auction page alone.
LEMMA PriceKeep == ASSUME PriceInv, UNCHANGED auction PROVE PriceInv'
BY DEF PriceInv, LiveAuctionTypeOK, auction

LoadStates == [at : {"idle", "asked", "read"}, price : 0..MaxPrice]

\* One request of the page changes its state.
LEMMA LoadStep ==
    ASSUME PriceInv, NEW l \in Loads, NEW r \in LoadStates,
           r.at = "read" => r.price \in prices,
           load' = [load EXCEPT ![l] = r], prices' = prices
    PROVE  /\ load' \in [Loads -> LoadStates]
           /\ \A k \in Loads : load'[k].at = "read" => load'[k].price \in prices'
BY DEF PriceInv, LiveAuctionTypeOK, LoadStates

\* The page asks for the auction again.
LEMMA ReloadStep ==
    ASSUME PriceInv, NEW l \in Loads, Reload(l), prices' = prices
    PROVE  /\ load' \in [Loads -> LoadStates] /\ loading' \in BOOLEAN
           /\ \A k \in Loads : load'[k].at = "read" => load'[k].price \in prices'
<1>1. load[l] \in LoadStates /\ load' = [load EXCEPT ![l] = [load[l] EXCEPT !.at = "asked"]]
  BY DEF Reload, PriceInv, LiveAuctionTypeOK, LoadStates
<1>2. LET r == [load[l] EXCEPT !.at = "asked"] IN r \in LoadStates /\ r.at = "asked"
  BY <1>1 DEF LoadStates
<1>3. QED  BY <1>1, <1>2, LoadStep DEF Reload

\* A bid raises the price, of which the old ones are kept.
LEMMA RaisedStep ==
    ASSUME PriceInv, NEW amount \in 1..MaxPrice, Raised(amount), load' = load
    PROVE  /\ price' \in prices' /\ prices' \subseteq 1..MaxPrice /\ price' \in 1..MaxPrice
           /\ prices \subseteq prices' /\ amount \in prices'
           /\ \A k \in Loads : load'[k].at = "read" => load'[k].price \in prices'
BY DEF Raised, PriceInv, LiveAuctionTypeOK

\* Every step of the auction page preserves its invariant.
LEMMA PriceStep == ASSUME PriceInv, AuctionSteps PROVE PriceInv'
<1> USE LiveAuctionAssumption
<1>0. NoLoad \in LoadStates /\ NoLoad.at = "idle"
  BY DEF NoLoad, LoadStates
<1>1. ASSUME NEW l \in Loads, ReadAuction(l) PROVE PriceInv'
  <2> DEFINE r == [at |-> "read", price |-> price]
  <2>1. r \in LoadStates /\ r.price \in prices
    BY DEF LoadStates, PriceInv, LiveAuctionTypeOK
  <2>2. load' = [load EXCEPT ![l] = r] /\ UNCHANGED <<price, prices, shown, loading, bid, bids, lost>>
    BY <1>1 DEF ReadAuction
  <2> HIDE DEF r
  <2>3. /\ load' \in [Loads -> LoadStates]
        /\ \A k \in Loads : load'[k].at = "read" => load'[k].price \in prices'
    BY <2>1, <2>2, LoadStep
  <2>4. QED  BY <2>2, <2>3 DEF PriceInv, LiveAuctionTypeOK, LoadStates
<1>2. ASSUME NEW l \in Loads, ShowAuction(l) PROVE PriceInv'
  <2>1. /\ load[l].at = "read" /\ load' = [load EXCEPT ![l] = NoLoad]
        /\ shown' = load[l].price /\ loading' = FALSE /\ UNCHANGED <<price, prices, bid, bids, lost>>
    BY <1>2 DEF ShowAuction
  <2>2. /\ load' \in [Loads -> LoadStates]
        /\ \A k \in Loads : load'[k].at = "read" => load'[k].price \in prices'
    BY <1>0, <2>1, LoadStep
  <2>3. shown' \in prices /\ shown' \in 0..MaxPrice
    BY <2>1 DEF PriceInv, LiveAuctionTypeOK
  <2>4. QED  BY <2>1, <2>2, <2>3 DEF PriceInv, LiveAuctionTypeOK, LoadStates
<1>3. ASSUME NEW l \in Loads, LoseAuction(l) PROVE PriceInv'
  <2>1. /\ load' = [load EXCEPT ![l] = NoLoad] /\ loading' = FALSE /\ lost' \in 0..MaxLost
        /\ UNCHANGED <<price, prices, shown, bid, bids>>
    BY <1>3 DEF LoseAuction, Lost, PriceInv, LiveAuctionTypeOK
  <2>2. /\ load' \in [Loads -> LoadStates]
        /\ \A k \in Loads : load'[k].at = "read" => load'[k].price \in prices'
    BY <1>0, <2>1, LoadStep
  <2>3. QED  BY <2>1, <2>2 DEF PriceInv, LiveAuctionTypeOK, LoadStates
<1>4. ASSUME NEW amount \in 1..MaxPrice, Outbid(amount) PROVE PriceInv'
  <2>1. Raised(amount) /\ UNCHANGED <<shown, loading, load, bid, bids, lost>>
    BY <1>4 DEF Outbid
  <2>2. QED  BY <2>1, RaisedStep DEF PriceInv, LiveAuctionTypeOK
<1>5. ASSUME NEW amount \in 1..MaxPrice, EmitBid(amount) PROVE PriceInv'
  BY <1>5 DEF EmitBid, auction, PriceInv, LiveAuctionTypeOK
<1>6. ASSUME NEW amount \in 1..MaxPrice, PlaceBid(amount) PROVE PriceInv'
  <2>1. /\ bid.at = "idle" /\ bids < MaxBids /\ bids' = bids + 1 /\ shown' = amount
        /\ bid' = [at |-> "posted", amount |-> amount, previous |-> shown]
        /\ UNCHANGED <<price, prices, loading, load, lost>>
    BY <1>6 DEF PlaceBid
  <2>2. QED  BY <2>1 DEF PriceInv, LiveAuctionTypeOK
<1>7. CASE Accept
  <2>1. /\ bid.at = "posted" /\ bid.amount > price /\ Raised(bid.amount)
        /\ bid' = [bid EXCEPT !.at = "accepted"] /\ UNCHANGED <<shown, loading, load, bids, lost>>
    BY <1>7 DEF Accept
  <2>2. bid.amount \in 1..MaxPrice
    BY <2>1 DEF PriceInv, LiveAuctionTypeOK
  <2>3. QED  BY <2>1, <2>2, RaisedStep DEF PriceInv, LiveAuctionTypeOK
<1>8. CASE Refuse
  BY <1>8 DEF Refuse, PriceInv, LiveAuctionTypeOK
<1>9. CASE LoseBid
  BY <1>9 DEF LoseBid, Lost, PriceInv, LiveAuctionTypeOK
<1>10. CASE FinishBid
  <2>1. /\ bid.at \in {"accepted", "refused"} /\ bid' = NoBid
        /\ shown' = IF bid.at = "refused" THEN RolledBack ELSE shown
        /\ IdleLoads # {} /\ Reload(OneOf(IdleLoads)) /\ UNCHANGED <<price, prices, bids, lost>>
    BY <1>10 DEF FinishBid
  <2>2. OneOf(IdleLoads) \in Loads
    BY <2>1 DEF OneOf, IdleLoads
  <2>3. /\ load' \in [Loads -> LoadStates] /\ loading' \in BOOLEAN
        /\ \A k \in Loads : load'[k].at = "read" => load'[k].price \in prices'
    BY <2>1, <2>2, ReloadStep
  <2>4. shown' \in prices \cup {0}
    BY <2>1 DEF RolledBack, PriceInv
  <2>5. QED  BY <2>1, <2>3, <2>4 DEF PriceInv, LiveAuctionTypeOK, LoadStates, NoBid
<1>11. QED  BY <1>1, <1>2, <1>3, <1>4, <1>5, <1>6, <1>7, <1>8, <1>9, <1>10 DEF AuctionSteps

-----------------------------------------------------------------------------
(* The page *)

\* A connection: the handlers are attached and the lists are read again.
LEMMA ConnectStep == ASSUME RInv, Connect PROVE RInv'
<1>1. /\ Connected /\ IdleLists # {} /\ Asked(OneOf(IdleLists)) /\ IdleLoads # {}
      /\ Reload(OneOf(IdleLoads)) /\ UNCHANGED <<queue, items, failures>>
      /\ UNCHANGED <<price, prices, shown, bid, bids, lost>>
  BY DEF Connect
<1>2. SocketInv'
  BY <1>1, SocketStep DEF RInv
<1>3. QueueInv'
  BY <1>1, QueueKeep DEF RInv
<1>4. OneOf(IdleLists) \in Lists /\ OneOf(IdleLoads) \in Loads
  BY <1>1 DEF OneOf, IdleLists, IdleLoads
<1>5. BellInv'
  BY <1>1, <1>4, AskStep DEF RInv
<1>6. PriceInv'
  <2>1. /\ load' \in [Loads -> LoadStates] /\ loading' \in BOOLEAN
        /\ \A k \in Loads : load'[k].at = "read" => load'[k].price \in prices'
    BY <1>1, <1>4, ReloadStep DEF RInv
  <2>2. QED  BY <1>1, <2>1 DEF RInv, PriceInv, LiveAuctionTypeOK, LoadStates
<1>7. QED  BY <1>2, <1>3, <1>5, <1>6 DEF RInv

\* What the queue and the bell do to the socket, and to each other.
LEMMA NotificationsStep == ASSUME RInv, QueueSteps \/ BellSteps PROVE SocketInv' /\ QueueInv' /\ BellInv'
<1>1. CASE QueueSteps
  <2>1. QueueInv' 
    BY <1>1, QueueStep DEF RInv
  <2>2. UNCHANGED bell
    BY <1>1
       DEF QueueSteps, Work, Publish, Exhaust, Dispatch, Expire, Take, Look, Upsert, Lease,
                InsertRow, PushNotice, Complete, Error, Crash, Stall
  <2>3. SocketInv'
    <3>1. CASE UNCHANGED sockets
      BY <3>1, SocketKeep DEF RInv
    <3>2. ASSUME NEW w \in Workers, PushNotice(w) PROVE SocketInv'
      <4>1. worker[w].at = "push" /\ Push(Notice(Handled(w)), NextUser(w) = Me /\ conn = "joined")
            /\ UNCHANGED <<conn, connections, subscribing, seen>>
        BY <3>2 DEF PushNotice, Doing
      <4>2. Notice(Handled(w)) \in Messages
        BY <4>1 DEF RInv, QueueInv, LoopInv, LoopOf, Handled, Messages
      <4>3. QED  BY <4>1, <4>2, PushStep DEF RInv
    <3>3. (\E w \in Workers : PushNotice(w)) \/ UNCHANGED sockets
      BY <1>1
         DEF QueueSteps, Work, Publish, Exhaust, Dispatch, Expire, Take, Look, Upsert,
             Lease,
                  InsertRow, Complete, Error, Crash, Stall
    <3>4. QED  BY <3>1, <3>2, <3>3
  <2>4. QED  BY <2>1, <2>2, <2>3, BellKeep DEF RInv
<1>2. CASE BellSteps
  <2>1. BellInv'
    BY <1>2, BellStep DEF RInv
  <2>2. UNCHANGED queue /\ failures' \in 0..MaxFailures
    BY <1>2, NotificationsAssumption
       DEF BellSteps, ReadList, ShowList, LoseList, AskList, ShowNotice, CountFailure, RInv,
           QueueInv, QueueTypes
  <2>3. QueueInv'
    BY <2>2
       DEF RInv, QueueInv, QueueTypes, TriesInv, LoopInv, LoopOf, CompletedMeansDelivered,
           queue
  <2>4. SocketInv'
    <3>1. CASE UNCHANGED sockets
      BY <3>1, SocketKeep DEF RInv
    <3>2. CASE ShowNotice
      BY <3>2, ReceiveStep DEF ShowNotice, RInv
    <3>3. QED  BY <1>2, <3>1, <3>2 DEF BellSteps, ReadList, ShowList, LoseList, AskList
  <2>5. QED  BY <2>1, <2>3, <2>4
<1>3. QED  BY <1>1, <1>2

\* The auction's steps keep the socket's invariant.
LEMMA AuctionSocket == ASSUME RInv, AuctionSteps PROVE SocketInv'
<1>1. CASE UNCHANGED sockets
  BY <1>1, SocketKeep DEF RInv
<1>2. ASSUME NEW amount \in 1..MaxPrice, EmitBid(amount) PROVE SocketInv'
  <2>1. Bid(amount) \in Messages
    BY DEF Messages
  <2>2. QED  BY <1>2, <2>1, PushStep DEF EmitBid, subscribing, RInv
<1>3. (\E amount \in 1..MaxPrice : EmitBid(amount)) \/ UNCHANGED sockets
  BY DEF AuctionSteps, ReadAuction, ShowAuction, LoseAuction, Outbid, PlaceBid, Accept,
         Raised, Refuse, LoseBid, FinishBid
<1>4. QED  BY <1>1, <1>2, <1>3

\* A client that is not connected.
LEMMA InitInv == Init => RInv
<1> SUFFICES ASSUME Init PROVE RInv
  OBVIOUS
<1> USE SocketsAssumption, NotificationsAssumption, LiveAuctionAssumption DEF Init
<1>1. SocketInv
  <2>1. <<>> \in Seq(Messages) /\ Len(<<>>) = 0
    OBVIOUS
  <2>2. inbox \in Seq(Messages) /\ Len(inbox) =< MaxInbox
    BY <2>1 DEF SocketsInit
  <2>3. auctionRoom \in BOOLEAN /\ resubscribes \in BOOLEAN
    BY DEF SocketsInit
  <2>4. conn \in {"down", "open", "joined"} /\ subscription \in {"none", "sent", "answered"}
    BY DEF SocketsInit
  <2>5. connections \in 0..MaxConnections
    BY DEF SocketsInit
  <2>6. QED  BY <2>2, <2>3, <2>4, <2>5 DEF SocketInv, SocketsTypeOK
<1>2. QueueInv
  <2>1. worker = [w \in Workers |-> AtRest] /\ job = [e \in Events |-> NoJob]
    BY DEF NotificationsInit
  <2>2. worker \in [Workers -> WorkerStates] /\ job \in [Events -> JobStates]
        /\ LoopInv /\ TriesInv
    BY <2>1 DEF AtRest, NoJob, WorkerStates, JobStates, LoopInv, LoopOf, TriesInv
  <2>3. NoReceipt \in Receipts /\ ~NoReceipt.done
    BY DEF NoReceipt, Receipts
  <2>4. receipt \in [Events -> Receipts] /\ CompletedMeansDelivered
    BY <2>3 DEF NotificationsInit, CompletedMeansDelivered
  <2>5. QED  BY <2>2, <2>4 DEF NotificationsInit, QueueInv, QueueTypes
<1>3. BellInv
  BY DEF NotificationsInit, BellInv, ShownOnce, Unasked
<1>4. PriceInv
  <2>1. load \in [Loads -> LoadStates] /\ \A l \in Loads : load[l].at # "read"
    BY DEF LiveAuctionInit, NoLoad, LoadStates
  <2>2. NoBid.at = "idle" /\ NoBid \in [at : {"idle", "posted", "accepted", "refused"},
                                        amount : 0..MaxPrice, previous : 0..MaxPrice]
    BY DEF NoBid
  <2>3. QED  BY <2>1, <2>2 DEF LiveAuctionInit, PriceInv, LiveAuctionTypeOK, LoadStates
<1>5. QED  BY <1>1, <1>2, <1>3, <1>4 DEF RInv

\* Every step preserves the invariant.
LEMMA NextInv == RInv /\ [Next]_vars => RInv'
<1> SUFFICES ASSUME RInv, [Next]_vars PROVE RInv'
  OBVIOUS
<1>1. CASE UNCHANGED vars
  <2>1. UNCHANGED sockets /\ UNCHANGED <<queue, failures>> /\ UNCHANGED bell /\ UNCHANGED auction
    BY <1>1 DEF vars, notifications
  <2>2. QED  BY <2>1, SocketKeep, QueueKeep, BellKeep, PriceKeep DEF RInv
<1>2. CASE SocketSteps
  <2>1. CASE Connect
    BY <2>1, ConnectStep
  <2>2. CASE (Join \/ Disconnect \/ AskForRoom \/ Subscribe) /\ UNCHANGED <<notifications, auction>>
    <3>1. UNCHANGED <<queue, failures>> /\ UNCHANGED bell /\ UNCHANGED auction
      BY <2>2 DEF notifications
    <3>2. QED  BY <2>2, <3>1, SocketStep, QueueKeep, BellKeep, PriceKeep DEF RInv
  <2>3. QED  BY <1>2, <2>1, <2>2 DEF SocketSteps
<1>3. CASE (QueueSteps \/ BellSteps) /\ UNCHANGED auction
  BY <1>3, NotificationsStep, PriceKeep DEF RInv
<1>4. CASE AuctionSteps /\ UNCHANGED notifications
  <2>1. UNCHANGED <<queue, failures>> /\ UNCHANGED bell
    BY <1>4 DEF notifications
  <2>2. QED  BY <1>4, <2>1, AuctionSocket, PriceStep, QueueKeep, BellKeep DEF RInv
<1>5. QED  BY <1>1, <1>2, <1>3, <1>4 DEF Next

-----------------------------------------------------------------------------
(* Theorems *)

\* Every behaviour keeps the invariant.
THEOREM Invariant == Spec => []RInv
BY InitInv, NextInv, PTL DEF Spec

\* Types, and: a completed receipt means that every user of the event has the row,
\* whatever workers that crash, stall and overrun their lease do (notifications.processor.ts).
THEOREM ReceiptsArePromises == Spec => []IInv
<1>1. RInv => IInv
  BY DEF RInv, SocketInv, QueueInv, QueueTypes, JobStates, Receipts, WorkerStates, BellInv,
         PriceInv, IInv, TypeOK, NotificationsTypeOK
<1>2. QED  BY <1>1, Invariant, PTL

\* The bell never shows an event twice (NotificationBell.tsx, realtimeStore.ts).
THEOREM BellShowsOnce == Spec => []ShownOnce
<1>1. RInv => ShownOnce
  BY DEF RInv, BellInv
<1>2. QED  BY <1>1, Invariant, PTL

\* An answered bid leaves a price on the page that the auction has had (AuctionPage.tsx).
THEOREM PageShowsRealPrices == Spec => []ShownPriceWasReal
<1>1. RInv => ShownPriceWasReal
  BY DEF RInv, PriceInv, ShownPriceWasReal
<1>2. QED  BY <1>1, Invariant, PTL

=============================================================================
