--------------------------- MODULE Notifications ---------------------------
(***************************************************************************)
(* In-app notifications: every outbox event is dispatched to a queue of    *)
(* its own (notifications.dispatcher.ts), a worker takes the lease of the  *)
(* event's receipt, inserts a row per user it concerns, pushes it and      *)
(* completes the receipt (notifications.processor.ts); the bell of a page  *)
(* merges the lists it asks for with what is pushed (NotificationBell.tsx).*)
(***************************************************************************)
EXTENDS Sockets, FiniteSets

CONSTANTS
    Events,         \* outbox rows, numbered by createdAt
    Window,         \* the dispatcher takes this many rows at a time (50)
    Users, Me,      \* users, and the one whose page this is
    Targets,        \* the users an event concerns
    Workers,        \* queue workers
    JobAttempts,    \* BullMQ tries a job this many times (5)
    MaxFailures,    \* bound: errors, crashes and stalls in a behaviour
    Lists,          \* requests of the bell
    Nothing         \* no event

ASSUME NotificationsAssumption ==
    /\ Events \subseteq Nat /\ Window \in Nat \ {0}
    /\ Targets \in [Events -> SUBSET Users] /\ Me \in Users
    /\ JobAttempts \in Nat \ {0} /\ MaxFailures \in Nat
    /\ Nothing \notin Events /\ Workers \cap {"absent", "waiting", "failed"} = {}

VARIABLES
    committed,  \* events with a row
    spent,      \* rows whose own consumer has used up their attempts
    job,        \* who has the notification job of an event, and attemptsMade
    receipt,    \* EventConsumerReceipt of the consumer "notifications"
    worker,     \* what each worker is doing
    notes,      \* Notification rows
    items,      \* how many items of an event the bell shows
    list,       \* the bell's requests
    failures

queue == <<committed, spent, job, receipt, worker, notes>>
bell == <<items, list>>
notifications == <<queue, bell, failures>>

NoReceipt == [exists |-> FALSE, leased |-> FALSE, done |-> FALSE]
NoJob == [at |-> "absent", tries |-> 0]
AtRest == [event |-> Nothing, at |-> "rest", todo |-> {}, tries |-> 0]
Unasked == [at |-> "idle", rows |-> {}]

NotificationsTypeOK ==
    /\ committed \subseteq Events /\ spent \subseteq committed
    /\ job \in [Events -> [at : {"absent", "waiting", "failed"} \cup Workers, tries : 0..JobAttempts]]
    /\ receipt \in [Events -> [exists : BOOLEAN, leased : BOOLEAN, done : BOOLEAN]]
    /\ worker \in [Workers -> [event : Events \cup {Nothing}, todo : SUBSET Users, tries : 0..JobAttempts,
                               at : {"rest", "look", "upsert", "lease", "row", "push", "complete"}]]
    /\ notes \subseteq Users \X Events
    /\ items \in [Events -> Nat]
    /\ list \in [Lists -> [at : {"idle", "asked", "read"}, rows : SUBSET Events]]
    /\ failures \in 0..MaxFailures

NotificationsInit ==
    /\ committed = {} /\ spent = {}
    /\ job = [e \in Events |-> NoJob]
    /\ receipt = [e \in Events |-> NoReceipt]
    /\ worker = [w \in Workers |-> AtRest]
    /\ notes = {}
    /\ items = [e \in Events |-> 0]
    /\ list = [l \in Lists |-> Unasked]
    /\ failures = 0

CountFailure == failures < MaxFailures /\ failures' = failures + 1

-----------------------------------------------------------------------------
(* Rows and the dispatcher *)

Publish(e) ==
    /\ e \notin committed
    /\ committed' = committed \cup {e}
    /\ UNCHANGED <<sockets, spent, job, receipt, worker, notes, bell, failures>>

\* Its own processor has claimed the row five times: this dispatcher sees it no more.
Exhaust(e) ==
    /\ e \in committed \ spent /\ CountFailure
    /\ spent' = spent \cup {e}
    /\ UNCHANGED <<sockets, committed, job, receipt, worker, notes, bell>>

\* What the dispatcher's query matches: also rows whose job has failed for good, which
\* it cannot add again.
Matching == {e \in committed \ spent : ~receipt[e].done}
Older(e) == {f \in Matching : f < e}

\* The oldest rows of those get a job, unless they have one.
Dispatch(e) ==
    /\ e \in Matching /\ Cardinality(Older(e)) < Window
    /\ job[e].at = "absent"
    /\ job' = [job EXCEPT ![e].at = "waiting"]
    /\ UNCHANGED <<sockets, committed, spent, receipt, worker, notes, bell, failures>>

-----------------------------------------------------------------------------
(* A worker *)

Handled(w) == worker[w].event
Doing(w, what) == worker[w].at = what
Goto(w, what) == worker' = [worker EXCEPT ![w].at = what]

\* The job ends, if the worker still owns it; a failed one stays under its id.
Leave(w, after) ==
    /\ worker' = [worker EXCEPT ![w] = AtRest]
    /\ job' = IF job[Handled(w)].at = w THEN [job EXCEPT ![Handled(w)] = after] ELSE job

Take(w, e) ==
    /\ Doing(w, "rest") /\ job[e].at = "waiting"
    /\ job' = [job EXCEPT ![e].at = w]
    /\ worker' = [worker EXCEPT ![w] = [AtRest EXCEPT !.event = e, !.at = "look",
                                                      !.tries = job[e].tries]]
    /\ UNCHANGED <<sockets, committed, spent, receipt, notes, bell, failures>>

\* A completed receipt ends the job; otherwise the receipt is there after the upsert.
Look(w) ==
    /\ Doing(w, "look")
    /\ IF receipt[Handled(w)].done THEN Leave(w, NoJob) ELSE Goto(w, "upsert") /\ UNCHANGED job
    /\ UNCHANGED <<sockets, committed, spent, receipt, notes, bell, failures>>

Upsert(w) ==
    /\ Doing(w, "upsert")
    /\ receipt' = [receipt EXCEPT ![Handled(w)].exists = TRUE]
    /\ IF receipt[Handled(w)].done THEN Leave(w, NoJob) ELSE Goto(w, "lease") /\ UNCHANGED job
    /\ UNCHANGED <<sockets, committed, spent, notes, bell, failures>>

\* Who does not get the lease is done.
Lease(w) ==
    LET e == Handled(w) IN
    /\ Doing(w, "lease")
    /\ IF receipt[e].done \/ receipt[e].leased
       THEN Leave(w, NoJob) /\ UNCHANGED receipt
       ELSE /\ receipt' = [receipt EXCEPT ![e].leased = TRUE]
            /\ worker' = [worker EXCEPT ![w].at = IF Targets[e] = {} THEN "complete" ELSE "row",
                                        ![w].todo = Targets[e]]
            /\ UNCHANGED job
    /\ UNCHANGED <<sockets, committed, spent, notes, bell, failures>>

NextUser(w) == OneOf(worker[w].todo)

\* The row of the next user, unless it is there.
InsertRow(w) ==
    /\ Doing(w, "row")
    /\ notes' = notes \cup {<<NextUser(w), Handled(w)>>}
    /\ Goto(w, "push")
    /\ UNCHANGED <<sockets, committed, spent, job, receipt, bell, failures>>

\* Mutant: the loop ends after its first user.
FirstOnly(w) == {}

Remaining(w) == worker[w].todo \ {NextUser(w)}

\* notifyUser
PushNotice(w) ==
    /\ Doing(w, "push")
    /\ Push(Notice(Handled(w)), NextUser(w) = Me /\ conn = "joined")
    /\ worker' = [worker EXCEPT ![w].todo = Remaining(w),
                                ![w].at = IF Remaining(w) = {} THEN "complete" ELSE "row"]
    /\ UNCHANGED <<conn, connections, subscribing, seen>>
    /\ UNCHANGED <<committed, spent, job, receipt, notes, bell, failures>>

Complete(w) ==
    /\ Doing(w, "complete")
    /\ receipt' = [receipt EXCEPT ![Handled(w)] = [exists |-> TRUE, leased |-> FALSE, done |-> TRUE]]
    /\ Leave(w, NoJob)
    /\ UNCHANGED <<sockets, committed, spent, notes, bell, failures>>

-----------------------------------------------------------------------------
(* Trouble *)

Retry(w) ==
    LET made == worker[w].tries + 1 IN
    Leave(w, IF made < JobAttempts THEN [at |-> "waiting", tries |-> made]
             ELSE [at |-> "failed", tries |-> made])

\* A call fails: inside the loop the lease is given back first.
Error(w) ==
    /\ ~Doing(w, "rest") /\ CountFailure
    /\ Retry(w)
    /\ receipt' = IF worker[w].at \in {"row", "push", "complete"}
                  THEN [receipt EXCEPT ![Handled(w)].leased = FALSE] ELSE receipt
    /\ UNCHANGED <<sockets, committed, spent, notes, bell>>

\* The process dies: BullMQ finds the job stalled and hands it out again, or fails it.
Crash(w) ==
    LET e == Handled(w) IN
    /\ ~Doing(w, "rest") /\ CountFailure
    /\ worker' = [worker EXCEPT ![w] = AtRest]
    /\ \/ job[e].at = w /\ \E next \in {"waiting", "failed"} : job' = [job EXCEPT ![e].at = next]
       \/ job[e].at # w /\ UNCHANGED job
    /\ UNCHANGED <<sockets, committed, spent, receipt, notes, bell>>

\* The worker is so slow that its job is handed out again.
Stall(w) ==
    /\ ~Doing(w, "rest") /\ CountFailure
    /\ job[Handled(w)].at = w
    /\ job' = [job EXCEPT ![Handled(w)].at = "waiting"]
    /\ UNCHANGED <<sockets, committed, spent, receipt, worker, notes, bell>>

\* Mutant: a lease has no end.
Forever(e) == FALSE

\* The 30 s of the lease are over, whether its holder is alive or not.
LeaseOver(e) == receipt[e].leased

Expire(e) ==
    /\ LeaseOver(e)
    /\ receipt' = [receipt EXCEPT ![e].leased = FALSE]
    /\ UNCHANGED <<sockets, committed, spent, job, worker, notes, bell, failures>>

-----------------------------------------------------------------------------
(* The bell *)

IdleLists == {l \in Lists : list[l].at = "idle"}
Asked(l) == list' = [list EXCEPT ![l].at = "asked"]

\* The first effect asks for the list, and so does every connection (Realtime).
AskList ==
    /\ connections = 0 /\ IdleLists = Lists
    /\ Asked(OneOf(Lists))
    /\ UNCHANGED <<sockets, queue, items, failures>>

ReadList(l) ==
    /\ list[l].at = "asked"
    /\ list' = [list EXCEPT ![l] = [at |-> "read", rows |-> {e \in Events : <<Me, e>> \in notes}]]
    /\ UNCHANGED <<sockets, queue, items, failures>>

\* The answer replaces the items, and a failure empties them.
ShowList(l) ==
    /\ list[l].at = "read"
    /\ list' = [list EXCEPT ![l] = Unasked]
    /\ items' = [e \in Events |-> IF e \in list[l].rows THEN 1 ELSE 0]
    /\ UNCHANGED <<sockets, queue, failures>>

LoseList(l) ==
    /\ list[l].at # "idle" /\ CountFailure
    /\ list' = [list EXCEPT ![l] = Unasked]
    /\ items' = [e \in Events |-> 0]
    /\ UNCHANGED <<sockets, queue>>

\* Mutant: a pushed item is put on top whatever the list holds.
NeverListed(e) == FALSE

Listed(e) == items[e] > 0

ShowNotice ==
    LET e == Received.of IN
    /\ Receive /\ Received.kind = "notification"
    /\ Remember(e)
    /\ items' = IF e \in seen \/ Listed(e) THEN items ELSE [items EXCEPT ![e] = @ + 1]
    /\ UNCHANGED <<conn, connections, subscribing, queue, list, failures>>

-----------------------------------------------------------------------------

Work(w) ==
    \/ \E e \in Events : Take(w, e)
    \/ Look(w) \/ Upsert(w) \/ Lease(w) \/ InsertRow(w) \/ PushNotice(w) \/ Complete(w)

QueueSteps ==
    \/ \E e \in Events : Publish(e) \/ Exhaust(e) \/ Dispatch(e) \/ Expire(e)
    \/ \E w \in Workers : Work(w) \/ Error(w) \/ Crash(w) \/ Stall(w)

BellSteps ==
    \/ \E l \in Lists : ReadList(l) \/ ShowList(l) \/ LoseList(l)
    \/ AskList \/ ShowNotice

-----------------------------------------------------------------------------
(* Properties *)

\* A completed receipt, after which nothing is delivered again, means that every user
\* concerned has the row: whatever the workers, their crashes and their leases do.
CompletedMeansDelivered ==
    \A e \in Events : receipt[e].done => \A u \in Targets[e] : <<u, e>> \in notes

\* The bell never shows two items of an event, though it may be pushed repeatedly and
\* be in a list that was read before or after the push.
ShownOnce == \A e \in Events : items[e] =< 1

\* Failed jobs of older rows fill the window, whatever is dispatched.
Blocked(e) == Cardinality({f \in Older(e) : job[f].at = "failed"}) >= Window

\* A committed event is notified of, unless its job has failed for good, its row has
\* used up the attempts of its own consumer, or failed jobs keep the dispatcher from it:
\* no crash while the lease is held, no stalled worker, no job that ends without the
\* lease, and no older row whose job has not failed leaves it behind.
EventuallyNotified ==
    \A e \in Events :
        e \in committed ~> receipt[e].done \/ job[e].at = "failed" \/ e \in spent \/ Blocked(e)
=============================================================================
