------------------------------ MODULE Disputes ------------------------------
(***************************************************************************)
(* Disputes of delivered sub-orders (disputes.service.ts: open, resolve)   *)
(* together with the refunds of the same items a customer asks for         *)
(* (orders.service.ts: refundOrderItem) and the list an administrator      *)
(* decides from (DisputesPage.tsx).                                        *)
(*                                                                         *)
(* Every call is one READ COMMITTED transaction.  An action is one read,   *)
(* one statement that takes a lock, or the commit with the last statements *)
(* before it, whose row locks are all taken in the same order.  An INSERT  *)
(* of a refund holds FOR KEY SHARE on its sub-order (the foreign key), the *)
(* increment of refundedAmount FOR NO KEY UPDATE, refundOrderItem FOR      *)
(* UPDATE.                                                                 *)
(***************************************************************************)
EXTENDS Integers, FiniteSets, Functions

CONSTANTS
    SubOrders, Items, SubOf,    \* the items of one paid order and their sub-orders
    Quantity, Price,            \* of each item
    Disputes, Keys,             \* ids of dispute rows, Idempotency-Key headers
    Admins, Calls,              \* administrators' pages, transactions in flight
    MaxCalls,                   \* bound on the calls of a behaviour
    None

ASSUME DisputesAssumption ==
    /\ SubOf \in [Items -> SubOrders]
    /\ Quantity \in [Items -> Nat \ {0}] /\ Price \in [Items -> Nat \ {0}]
    /\ IsFiniteSet(Items) /\ \A s \in SubOrders : \E i \in Items : SubOf[i] = s
    /\ MaxCalls \in Nat
    /\ None \notin SubOrders \cup Items \cup Disputes \cup Keys
    /\ Keys \cap (Disputes \X Items) = {}

VARIABLES
    status,     \* SellerOrder.status
    dispute,    \* Dispute rows: their sub-order and status
    decisions,  \* outbox keys dispute-resolved:<id>:<status>, as <<dispute, status>>
    refunds,    \* committed Refund rows
    refunded,   \* SellerOrder.refundedAmount
    kept,       \* SellerOrder.commissionAmount + sellerEarnings
    payment,    \* Payment.status
    board,      \* disputes an administrator's page shows with buttons
    call,       \* the transactions in flight
    begun       \* calls begun so far

vars == <<status, dispute, decisions, refunds, refunded, kept, payment, board, call, begun>>
rows == <<status, dispute, decisions, refunds, refunded, kept, payment>>

Verdicts == {"RESOLVED_FOR_CUSTOMER", "RESOLVED_FOR_SELLER"}
Refundable == {"PAID", "PARTIALLY_REFUNDED"}
PaymentStatus == Refundable \cup {"REFUNDED"}

\* A Refund row names its cause by its idempotency key.
RefundRow == [key : (Disputes \X Items) \cup Keys, item : Items, quantity : Nat \ {0}]
ByDispute(r) == r.key \notin Keys

ItemsOf(s) == {i \in Items : SubOf[i] = s}
Cost == [i \in Items |-> Quantity[i] * Price[i]]
Subtotal(s) == SumFunctionOnSet(Cost, ItemsOf(s))
PaidAmount == SumFunctionOnSet(Cost, Items)

\* Sums over Refund rows.
Amount == [r \in RefundRow |-> r.quantity * Price[r.item]]
Units == [r \in RefundRow |-> r.quantity]
TotalOf(rs) == SumFunctionOnSet(Amount, rs)
UnitsOf(rs, i) == SumFunctionOnSet(Units, {r \in rs : r.item = i})
RefundedUnits(i) == UnitsOf(refunds, i)
RefundsOf(s) == {r \in refunds : SubOf[r.item] = s}

-----------------------------------------------------------------------------
(* Transactions *)

Idle == [at |-> "idle", sub |-> None, dispute |-> None, verdict |-> None,
         item |-> None, quantity |-> 0, key |-> None, todo |-> {}, drafts |-> {},
         sum |-> 0, by |-> None]

\* "close" is the commit of a decision that refunds nothing.
At == {"idle", "insert", "measure", "draft", "sum", "decide", "close",
       "lock", "check", "settle"}

CallRecord ==
    [at : At, sub : SubOrders \cup {None}, dispute : Disputes \cup {None},
     verdict : Verdicts \cup {None}, item : Items \cup {None}, quantity : Nat,
     key : Keys \cup {None}, todo : SUBSET Items, drafts : SUBSET RefundRow,
     sum : Int, by : Admins \cup {None}]

TypeOK ==
    /\ status \in [SubOrders -> {"SHIPPED", "COMPLETED"}]
    /\ dispute \in [Disputes -> [sub : SubOrders \cup {None},
                                 status : {"none", "OPEN"} \cup Verdicts]]
    /\ decisions \subseteq Disputes \X Verdicts
    /\ refunds \subseteq RefundRow
    /\ refunded \in [SubOrders -> Int] /\ kept \in [SubOrders -> Int]
    /\ payment \in PaymentStatus
    /\ board \in [Admins -> SUBSET Disputes]
    /\ call \in [Calls -> CallRecord]
    /\ begun \in 0..MaxCalls

\* A paid order whose sub-orders are shipped or delivered, nothing refunded yet.
Init ==
    /\ status \in [SubOrders -> {"SHIPPED", "COMPLETED"}]
    /\ dispute = [d \in Disputes |-> [sub |-> None, status |-> "none"]]
    /\ decisions = {} /\ refunds = {}
    /\ refunded = [s \in SubOrders |-> 0]
    /\ kept = [s \in SubOrders |-> Subtotal(s)]
    /\ payment = "PAID"
    /\ board = [a \in Admins |-> {}]
    /\ call = [c \in Calls |-> Idle]
    /\ begun = 0

Begin(c, record) ==
    /\ call[c].at = "idle" /\ begun < MaxCalls
    /\ begun' = begun + 1
    /\ call' = [call EXCEPT ![c] = record]

Continue(c, record) == call' = [call EXCEPT ![c] = record] /\ UNCHANGED begun
Return(c) == Continue(c, Idle)

\* An exception rolls the transaction back: nothing it wrote is seen.
Abort(c) == Return(c) /\ UNCHANGED <<rows, board>>

\* Lock modes a transaction holds on its sub-order, and what conflicts.
Shares(c) == call[c].drafts # {}
Paying(k) == k.at \in {"sum", "decide"}
Updates(c) == Paying(call[c])
Owning(k) == k.at \in {"check", "settle"}
Owns(c) == Owning(call[c])
Others(c) == {o \in Calls \ {c} : call[o].sub = call[c].sub}
NoOwner(c) == \A o \in Others(c) : ~Owns(o)

\* Mutant: the sum is read before the row lock is held.
NotWaiting(c) == TRUE

NoUpdater(c) == \A o \in Others(c) : ~Updates(o) /\ ~Owns(o)
NobodyElse(c) == \A o \in Others(c) : ~Shares(o) /\ ~Updates(o) /\ ~Owns(o)

-----------------------------------------------------------------------------
(* open *)

\* The list of the page, filtered by OPEN.
OpenDisputes == {d \in Disputes : dispute[d].status = "OPEN"}

Active(s) == \E d \in Disputes : dispute[d] = [sub |-> s, status |-> "OPEN"]

OpenLook(c, s) ==
    /\ status[s] = "COMPLETED"
    /\ ~Active(s)
    /\ Begin(c, [Idle EXCEPT !.at = "insert", !.sub = s])
    /\ UNCHANGED <<rows, board>>

\* The dispute, its history and its outbox row; no index forbids a second one.
OpenInsert(c, d) ==
    /\ call[c].at = "insert" /\ NoOwner(c)
    /\ dispute[d].status = "none"
    /\ dispute' = [dispute EXCEPT ![d] = [sub |-> call[c].sub, status |-> "OPEN"]]
    /\ Return(c)
    /\ UNCHANGED <<status, decisions, refunds, refunded, kept, payment, board>>

-----------------------------------------------------------------------------
(* resolve *)

\* findByIdForResolve reads the dispute, the items and the payment without a lock.
ResolveRead(c, a, d, v) ==
    /\ d \in board[a]
    /\ dispute[d].status = "OPEN"
    /\ LET paying == v = "RESOLVED_FOR_CUSTOMER" /\ status[dispute[d].sub] = "COMPLETED"
           seen == [Idle EXCEPT !.sub = dispute[d].sub, !.dispute = d, !.verdict = v,
                                !.by = a]
       IN  IF paying
           THEN /\ payment \in Refundable
                /\ Begin(c, [seen EXCEPT !.at = "measure", !.todo = ItemsOf(seen.sub)])
           ELSE Begin(c, [seen EXCEPT !.at = "close"])
    /\ UNCHANGED <<rows, board>>

\* sumProcessedRefundQuantity of the next item; one fully refunded is skipped.
Measure(c, i) ==
    /\ call[c].at = "measure" /\ i \in call[c].todo
    /\ LET left == Quantity[i] - RefundedUnits(i)
           next == [call[c] EXCEPT !.todo = @ \ {i}]
       IN  Continue(c, IF left > 0
                       THEN [next EXCEPT !.at = "draft", !.item = i, !.quantity = left]
                       ELSE next)
    /\ UNCHANGED <<rows, board>>

\* dispute-refund:<dispute>:<item>
DisputeKey(c) == <<call[c].dispute, call[c].item>>

KeyTaken(key) == \E r \in refunds : r.key = key
KeyDrafted(c, key) == \E o \in Calls \ {c} : \E r \in call[o].drafts : r.key = key

\* createRefund and its ledger entry: waits for an owner of the sub-order and for
\* another transaction that inserted the key, and fails when the key is taken.
Draft(c) ==
    /\ call[c].at = "draft" /\ NoOwner(c) /\ ~KeyDrafted(c, DisputeKey(c))
    /\ ~KeyTaken(DisputeKey(c))
    /\ LET row == [key |-> DisputeKey(c), item |-> call[c].item, quantity |-> call[c].quantity]
       IN  Continue(c, [call[c] EXCEPT !.at = "measure", !.drafts = @ \cup {row}])
    /\ UNCHANGED <<rows, board>>

Increment(c) ==
    /\ call[c].at = "measure" /\ call[c].todo = {} /\ NoUpdater(c)
    /\ Continue(c, [call[c] EXCEPT !.at = "sum"])
    /\ UNCHANGED <<rows, board>>

\* sumProcessedRefunds sees the committed rows and its own.
SumRefunds(c, next) ==
    /\ Continue(c, [call[c] EXCEPT !.at = next, !.sum = TotalOf(refunds \cup call[c].drafts)])
    /\ UNCHANGED <<rows, board>>

Sum(c) == call[c].at = "sum" /\ SumRefunds(c, "decide")

\* updatePaymentStatus
PaymentAfter(sum) == IF sum >= PaidAmount THEN "REFUNDED" ELSE "PARTIALLY_REFUNDED"

\* Mutant: the column is written from what was read of it.
OverwriteRefunded(c) == TotalOf(call[c].drafts)

\* refundedAmount: { increment }
AddToRefunded(c) == refunded[call[c].sub] + TotalOf(call[c].drafts)

\* The outbox key dispute-resolved:<id>:<status> is unique.
DecisionFree(c) == <<call[c].dispute, call[c].verdict>> \notin decisions

\* The dispute row, its history, the outbox row and the commit; then the page
\* loads the list again.
Decide(c) ==
    LET k == call[c] IN
    /\ k.at \in {"decide", "close"}
    /\ DecisionFree(c)
    /\ dispute' = [dispute EXCEPT ![k.dispute].status = k.verdict]
    /\ decisions' = decisions \cup {<<k.dispute, k.verdict>>}
    /\ refunds' = refunds \cup k.drafts
    /\ refunded' = [refunded EXCEPT ![k.sub] = AddToRefunded(c)]
    /\ payment' = IF Paying(k) THEN PaymentAfter(k.sum) ELSE payment
    /\ board' = [board EXCEPT ![k.by] = OpenDisputes']
    /\ Return(c)
    /\ UNCHANGED <<status, kept>>

-----------------------------------------------------------------------------
(* refundOrderItem *)

\* findOrderItemForRefund: the payment it will use is the one of this snapshot.
RefundRead(c, i, q, key) ==
    /\ ~KeyTaken(key)
    /\ payment \in Refundable
    /\ Begin(c, [Idle EXCEPT !.at = "lock", !.sub = SubOf[i], !.item = i,
                             !.quantity = q, !.key = key])
    /\ UNCHANGED <<rows, board>>

\* Mutant: no SELECT ... FOR UPDATE.
NoLock(c) == TRUE

\* lockSellerOrderForUpdate
RowLocked(c) == NobodyElse(c)

RefundLock(c) ==
    /\ call[c].at = "lock" /\ RowLocked(c)
    /\ Continue(c, [call[c] EXCEPT !.at = "check"])
    /\ UNCHANGED <<rows, board>>

\* sumRefundedQuantity and createRefund
RefundCheck(c) ==
    LET k == call[c] IN
    /\ k.at = "check" /\ k.drafts = {} /\ ~KeyDrafted(c, k.key)
    /\ RefundedUnits(k.item) + k.quantity =< Quantity[k.item]
    /\ ~KeyTaken(k.key)
    /\ Continue(c, [k EXCEPT !.drafts = {[key |-> k.key, item |-> k.item,
                                          quantity |-> k.quantity]}])
    /\ UNCHANGED <<rows, board>>

RefundSum(c) == call[c].at = "check" /\ call[c].drafts # {} /\ SumRefunds(c, "settle")

\* updateSellerOrderRefunds, the payment, the ledger and the commit.
RefundSettle(c) ==
    LET k == call[c] IN
    /\ k.at = "settle"
    /\ refunds' = refunds \cup k.drafts
    /\ refunded' = [refunded EXCEPT ![k.sub] = AddToRefunded(c)]
    /\ kept' = [kept EXCEPT ![k.sub] = @ - TotalOf(k.drafts)]
    /\ payment' = PaymentAfter(k.sum)
    /\ Return(c)
    /\ UNCHANGED <<status, dispute, decisions, board>>

-----------------------------------------------------------------------------
(* The rest *)

\* updateSellerOrderStatus, by the seller.
Complete(s) ==
    /\ status[s] = "SHIPPED"
    /\ status' = [status EXCEPT ![s] = "COMPLETED"]
    /\ UNCHANGED <<dispute, decisions, refunds, refunded, kept, payment, board, call, begun>>

\* The page is opened; a failed resolve leaves it as it was.
Load(a) ==
    /\ board' = [board EXCEPT ![a] = OpenDisputes]
    /\ UNCHANGED <<rows, call, begun>>

\* A rejected check, a lost connection or a dead server rolls a call back.
Fail(c) == call[c].at # "idle" /\ Abort(c)

Refund(c) ==
    \/ \E i \in Items, key \in Keys : \E q \in 1..Quantity[i] : RefundRead(c, i, q, key)
    \/ RefundLock(c) \/ RefundCheck(c) \/ RefundSum(c) \/ RefundSettle(c)

Resolve(c) ==
    \/ \E a \in Admins, d \in Disputes, v \in Verdicts : ResolveRead(c, a, d, v)
    \/ \E i \in Items : Measure(c, i)
    \/ Draft(c) \/ Increment(c) \/ Sum(c) \/ Decide(c)

Open(c) == (\E s \in SubOrders : OpenLook(c, s)) \/ (\E d \in Disputes : OpenInsert(c, d))

Next ==
    \/ \E c \in Calls : Open(c) \/ Resolve(c) \/ Refund(c) \/ Fail(c)
    \/ \E s \in SubOrders : Complete(s)
    \/ \E a \in Admins : Load(a)

Spec == Init /\ [][Next]_vars

-----------------------------------------------------------------------------
(* Properties *)

\* The columns of a sub-order agree with its Refund rows whatever overlaps: what
\* was refunded is the sum of the rows, and what platform and seller keep is the
\* rest of the subtotal, except that a refund decided in a dispute
\* (disputes.service.ts:195-198) is taken from neither of them.
ColumnsFollowRefunds ==
    \A s \in SubOrders :
        /\ refunded[s] = TotalOf(RefundsOf(s))
        /\ kept[s] = Subtotal(s) - TotalOf({r \in RefundsOf(s) : ~ByDispute(r)})

\* Disputes that were decided for the customer of an item's sub-order.
DecidedFor(i) ==
    {d \in Disputes : dispute[d].sub = SubOf[i] /\ <<d, "RESOLVED_FOR_CUSTOMER">> \in decisions}

\* Units of an item repaid beyond what was bought are owed to disputes alone: the
\* customer's own requests, serialized by the row lock, never exceed the line, and
\* each decision for the customer adds at most the line once, from however many
\* stale lists and at however many times it is taken.
OverRefundBounded ==
    \A i \in Items : RefundedUnits(i) =< Quantity[i] * (1 + Cardinality(DecidedFor(i)))

\* A payment is called REFUNDED only when all of it was repaid, and as long as one
\* sub-order is refunded it is called so as soon as all of it was.
PaymentFollowsRefunds ==
    /\ payment = "REFUNDED" => TotalOf(refunds) >= PaidAmount
    /\ payment = "PAID" <=> refunds = {}
    /\ Cardinality({SubOf[r.item] : r \in refunds}) = 1 /\ TotalOf(refunds) >= PaidAmount
            => payment = "REFUNDED"

-----------------------------------------------------------------------------
(* The inductive invariant behind the properties *)

Resolving == {"measure", "draft", "sum", "decide", "close"}
Refunding == {"lock", "check", "settle"}

\* What a resolve has read and drafted: for each item it is done with one row at
\* most, under the key of its dispute.
ResolveInv(k) ==
    k.at \in Resolving =>
        /\ k.dispute \in Disputes /\ k.verdict \in Verdicts
        /\ dispute[k.dispute].sub = k.sub /\ dispute[k.dispute].status # "none"
        /\ k.at # "close" => k.verdict = "RESOLVED_FOR_CUSTOMER"
        /\ k.at = "close" => k.drafts = {}
        /\ k.todo \subseteq ItemsOf(k.sub)
        /\ \A r \in k.drafts : r.key = <<k.dispute, r.item>> /\ r.item \notin k.todo
        /\ \A r, q \in k.drafts : r.item = q.item => r = q
        /\ k.at = "sum" => k.todo = {}
        /\ k.at = "draft" => /\ k.item \in ItemsOf(k.sub) \ k.todo
                             /\ \A r \in k.drafts : r.item # k.item

\* What a refund request has checked still holds when it commits.
RefundInv(k) ==
    k.at \in Refunding =>
        /\ k.item \in ItemsOf(k.sub) /\ k.key \in Keys
        /\ k.drafts \subseteq {[key |-> k.key, item |-> k.item, quantity |-> k.quantity]}
        /\ k.at = "lock" => k.drafts = {}
        /\ k.drafts # {} => RefundedUnits(k.item) + k.quantity =< Quantity[k.item]
        /\ k.at = "settle" => k.drafts # {}

Touching(k) == Paying(k) \/ (k.at = "measure" /\ k.todo # ItemsOf(k.sub))
Summed(k) == k.at \in {"decide", "settle"}

\* The rows of a transaction are of its sub-order and within the line; once it has
\* measured an item, or has the sub-order's row, something of it is refunded.
RowsInv(k) ==
    /\ k.at \notin Resolving \cup Refunding => k.drafts = {}
    /\ k.at # "idle" => k.sub \in SubOrders
    /\ IsFiniteSet(k.drafts)
    /\ \A r \in k.drafts : SubOf[r.item] = k.sub /\ r.quantity =< Quantity[r.item]
    /\ k.at \in {"draft", "lock", "check", "settle"} => k.quantity \in 1..Quantity[k.item]
    /\ Touching(k) => \E r \in refunds \cup k.drafts : SubOf[r.item] = k.sub

\* The sum a transaction goes by is not too much, and exact when the order has
\* refunds of its sub-order alone.
SumInv(k) ==
    Summed(k) =>
        /\ k.sum =< TotalOf(refunds \cup k.drafts)
        /\ (\A r \in refunds : SubOf[r.item] = k.sub) => k.sum = TotalOf(refunds \cup k.drafts)

CallInv(c) ==
    ResolveInv(call[c]) /\ RefundInv(call[c]) /\ RowsInv(call[c]) /\ SumInv(call[c])

\* A row lock excludes what it conflicts with.
Compatible(k, l) ==
    k.sub = l.sub =>
        /\ Paying(k) => ~Paying(l) /\ ~Owning(l)
        /\ Owning(k) => l.drafts = {} /\ ~Paying(l) /\ ~Owning(l)

\* No two transactions, and no committed row, have the same key.
Apart(k, l) == \A r \in k.drafts, q \in l.drafts : r.key # q.key
Fresh(k) == \A r \in k.drafts : ~KeyTaken(r.key)

\* What is said of the rows.
RowsAgree ==
    /\ \A d \in Disputes : dispute[d].status # "none" => dispute[d].sub \in SubOrders
    /\ \A d \in Disputes, v \in Verdicts : <<d, v>> \in decisions => dispute[d].status # "none"
    /\ IsFiniteSet(refunds) /\ IsFiniteSet(decisions)
    /\ ColumnsFollowRefunds /\ OverRefundBounded /\ PaymentFollowsRefunds

IInv ==
    /\ TypeOK
    /\ RowsAgree
    /\ \A c \in Calls : CallInv(c) /\ Fresh(call[c])
    /\ \A c \in Calls : \A o \in Calls \ {c} :
          Compatible(call[c], call[o]) /\ Apart(call[c], call[o])
=============================================================================
