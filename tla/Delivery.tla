------------------------------ MODULE Delivery ------------------------------
(***************************************************************************)
(* Delivery of outbox events to WebSocket clients by the workers of        *)
(* orders.processor.ts (processOutboxEvent) and bidding.processor.ts       *)
(* (deliverEvent): look for a receipt, set the Redis key of the event if   *)
(* it is absent, emit when it was, insert the receipt, mark the row        *)
(* PROCESSED.  Every step is a call to another process, so a crash or an   *)
(* error may come between any two of them.                                 *)
(***************************************************************************)
EXTENDS Outbox

VARIABLES
    step,       \* what each worker does next with the row it has claimed
    first,      \* whether its SET NX set the key
    marked,     \* events whose Redis key is set (kept 30 days, longer than a retry)
    emitted,    \* how often each event was sent to the clients
    receipts    \* events with an EventConsumerReceipt row

vars == <<outbox, step, first, marked, emitted, receipts>>

TypeOK ==
    /\ OutboxTypeOK
    /\ step \in [Workers -> {"rest", "receipt", "mark", "emit", "record", "finish"}]
    /\ first \in [Workers -> BOOLEAN]
    /\ marked \in SUBSET Events
    /\ emitted \in [Events -> Nat]
    /\ receipts \in SUBSET Events

Init ==
    /\ OutboxInit
    /\ step = [w \in Workers |-> "rest"]
    /\ first = [w \in Workers |-> FALSE]
    /\ marked = {}
    /\ emitted = [e \in Events |-> 0]
    /\ receipts = {}

Goto(w, s) == step' = [step EXCEPT ![w] = s]
Rest(w) == Goto(w, "rest") /\ first' = [first EXCEPT ![w] = FALSE]

-----------------------------------------------------------------------------
\* A domain transaction commits the event; the dispatcher; a job with no claim.
Publish(e) == Insert(e) /\ UNCHANGED <<step, first, marked, emitted, receipts>>
Dispatch(e) ==
    /\ Redeliver(e) \/ Enqueue(e)
    /\ UNCHANGED <<step, first, marked, emitted, receipts>>
Drop(w, e) == Skip(w, e) /\ UNCHANGED <<step, first, marked, emitted, receipts>>

Claim(w, e) ==
    /\ Take(w, e)
    /\ Goto(w, "receipt")
    /\ UNCHANGED <<first, marked, emitted, receipts>>

FindReceipt(w) ==
    /\ step[w] = "receipt"
    /\ \/ /\ Handled(w) \in receipts
          /\ Succeed(w)
          /\ Rest(w)
       \/ /\ Handled(w) \notin receipts
          /\ Goto(w, "mark")
          /\ UNCHANGED <<outbox, first>>
    /\ UNCHANGED <<marked, emitted, receipts>>

\* Mutant: a plain SET.
AlwaysFirst(e) == TRUE

\* setIfAbsent
FirstDelivery(e) == e \notin marked

Mark(w) ==
    /\ step[w] = "mark"
    /\ first' = [first EXCEPT ![w] = FirstDelivery(Handled(w))]
    /\ marked' = marked \cup {Handled(w)}
    /\ Goto(w, "emit")
    /\ UNCHANGED <<outbox, emitted, receipts>>

Emit(w) ==
    /\ step[w] = "emit"
    /\ emitted' = IF first[w] THEN [emitted EXCEPT ![Handled(w)] = @ + 1] ELSE emitted
    /\ Goto(w, "record")
    /\ UNCHANGED <<outbox, first, marked, receipts>>

\* The receipt is unique: a second insert throws into the catch block.
Record(w) ==
    /\ step[w] = "record"
    /\ \/ /\ Handled(w) \in receipts
          /\ Fail(w)
          /\ Rest(w)
          /\ UNCHANGED <<failures, receipts>>
       \/ /\ Handled(w) \notin receipts
          /\ receipts' = receipts \cup {Handled(w)}
          /\ Goto(w, "finish")
          /\ UNCHANGED <<outbox, first>>
    /\ UNCHANGED <<marked, emitted>>

Finish(w) ==
    /\ step[w] = "finish"
    /\ Succeed(w)
    /\ Rest(w)
    /\ UNCHANGED <<marked, emitted, receipts>>

\* Any of these calls may throw, and the process may die or stall in any of them.
Trouble(w) ==
    /\ \/ Error(w) /\ Rest(w)
       \/ Crash(w) /\ Rest(w)
       \/ Stall(w) /\ UNCHANGED <<step, first>>
    /\ UNCHANGED <<marked, emitted, receipts>>

Work(w) ==
    \/ \E e \in Events : Claim(w, e) \/ Drop(w, e)
    \/ FindReceipt(w)
    \/ Mark(w)
    \/ Emit(w)
    \/ Record(w)
    \/ Finish(w)

Next ==
    \/ \E e \in Events : Publish(e) \/ Dispatch(e)
    \/ \E w \in Workers : Work(w) \/ Trouble(w)

Spec == Init /\ [][Next]_vars

\* The dispatcher polls every second and BullMQ hands waiting jobs to workers.
Fairness ==
    /\ \A e \in Events : WF_vars(Redeliver(e) /\ UNCHANGED <<step, first, marked, emitted, receipts>>)
    /\ \A e \in Events : WF_vars(Enqueue(e) /\ UNCHANGED <<step, first, marked, emitted, receipts>>)
    /\ \A w \in Workers : WF_vars(Work(w))

FairSpec == Spec /\ Fairness

-----------------------------------------------------------------------------
(* Properties *)

\* Clients never get an event twice, however often it is redelivered and even
\* when two workers handle it at once: the SET NX comes before the emit.
EmittedAtMostOnce == \A e \in Events : emitted[e] =< 1

\* A row that says PROCESSED has its receipt, so that no later delivery repeats it.
ProcessedHasReceipt == \A e \in Events : row[e].status = "PROCESSED" => e \in receipts

\* An event that is inserted is handled, given up as FAILED, or has used up its
\* claims: no crash, error or stalled worker leaves it behind before that.
EventuallySettled ==
    \A e \in Events :
        row[e].status = "PENDING" ~>
            row[e].status \in {"PROCESSED", "FAILED"} \/ row[e].attempts >= MaxAttempts

-----------------------------------------------------------------------------
(* The inductive invariant behind the safety properties *)

\* Worker w has set the key of e and is about to emit it.
AboutToEmit(w, e) == step[w] = "emit" /\ first[w] /\ Handled(w) = e

\* The key of an event is set before it is emitted, and only the worker that set
\* it emits.
MarkInv ==
    \A e \in Events :
        /\ emitted[e] # 0 => e \in marked
        /\ \A w \in Workers :
              AboutToEmit(w, e) =>
                  /\ e \in marked /\ emitted[e] = 0
                  /\ \A v \in Workers \ {w} : ~AboutToEmit(v, e)

\* A worker that has a step to make has a row, and its receipt before the last one.
HandledInv ==
    \A w \in Workers :
        /\ step[w] # "rest" => Handled(w) \in Events
        /\ step[w] = "finish" => Handled(w) \in receipts

IInv ==
    /\ TypeOK
    /\ HandledInv
    /\ MarkInv
    /\ EmittedAtMostOnce
    /\ ProcessedHasReceipt
=============================================================================
