------------------------------- MODULE Orders -------------------------------
(***************************************************************************)
(* One order of the marketplace after checkout, and the requests that act  *)
(* on it: payOrder, cancelPayment, cancelOrder, cancelSellerOrder (called  *)
(* by the seller or, as cancelCustomerSuborder, by the customer),          *)
(* refundOrderItem and updateSellerOrderStatus of orders.service.ts.       *)
(*                                                                         *)
(* Every handler runs one PostgreSQL transaction at READ COMMITTED: what   *)
(* it reads is what had committed when the statement ran, what it writes   *)
(* is visible to others only after its commit, and a row it has written    *)
(* (or selected FOR UPDATE) cannot be written by another transaction until *)
(* then.  A handler is therefore several steps: a transaction takes row    *)
(* locks and reads once per step, keeps what it read and what it is going  *)
(* to write in its own variables, and changes the database in its commit   *)
(* step.  A step that needs a row another transaction holds is disabled.   *)
(*                                                                         *)
(* Each seller order holds one line, of Qty[s] units at Price[s].          *)
(***************************************************************************)
EXTENDS Integers, FiniteSets, Functions

CONSTANTS
    SellerOrders,   \* the sub-orders of the order, one per seller
    Procs,          \* request handlers that run concurrently
    Keys,           \* Idempotency-Key header values
    Qty,            \* units bought, per sub-order
    Price,          \* unit price, per sub-order
    Requests        \* the requests clients may send, any number of times

SellerOrderStatus ==
    {"NEW", "PAYMENT_PENDING", "PROCESSING", "SHIPPED", "COMPLETED", "CANCELLED"}

\* The PARTIALLY_ members of the OrderStatus enum are never written by the code.
OrderStatus == SellerOrderStatus

PaymentStatus ==
    {"PENDING", "PAID", "PARTIALLY_REFUNDED", "REFUNDED", "CANCELLED"}

Paid == {"PAID", "PARTIALLY_REFUNDED"}
BeforePayment == {"NEW", "PAYMENT_PENDING"}

AllRequests ==
    [op : {"pay", "cancelPayment"}, key : Keys]
        \cup [op : {"cancelOrder"}]
        \cup [op : {"cancelSellerOrder", "cancelCustomerSuborder"},
              so : SellerOrders, key : Keys]
        \cup [op : {"refund"}, so : SellerOrders, qty : Nat \ {0}, key : Keys]
        \cup [op : {"updateStatus"}, so : SellerOrders, to : SellerOrderStatus]

ASSUME SellerOrdersAssumption == SellerOrders # {} /\ IsFiniteSet(SellerOrders)
ASSUME LinesAssumption == /\ Qty \in [SellerOrders -> Nat \ {0}]
                          /\ Price \in [SellerOrders -> Nat \ {0}]
ASSUME RequestsAssumption == Requests \subseteq AllRequests

VARIABLES
    orderStatus,    \* Order.status
    soStatus,       \* SellerOrder.status
    payStatus,      \* Payment.status of the order's only payment
    payFor,         \* Payment.amount: the sub-orders whose subtotals it adds up
    refunded,       \* units of the line in Refund rows
    restocked,      \* units of the line added back to Product.stock
    charged,        \* CUSTOMER_CHARGE ledger entries, by the key of the payOrder call
    usedKeys,       \* idempotency keys of the outbox, refund and ledger rows
    pc,             \* the step each handler takes next
    call,           \* the request it serves
    seen,           \* what the transaction's first read returned
    claimed,        \* sub-order rows the transaction has locked
    refunding,      \* Refund rows it has inserted, in units
    restocking,     \* stock it has put back
    derived,        \* the Order.status it is going to write
    payNext         \* the Payment.status it is going to write

db == <<orderStatus, soStatus, payStatus, payFor, refunded, restocked, charged, usedKeys>>
tx == <<pc, call, seen, claimed, refunding, restocking, derived, payNext>>
vars == <<db, tx>>

-----------------------------------------------------------------------------
(* Helpers of the handlers *)

\* statusPriority of deriveOrderStatus.
Priority ==
    [NEW |-> 1, PAYMENT_PENDING |-> 2, PROCESSING |-> 3,
     SHIPPED |-> 4, COMPLETED |-> 5, CANCELLED |-> 0]

\* The parent status: CANCELLED when every sub-order is, otherwise that of the
\* furthest sub-order that is not cancelled.
DeriveOrderStatus(st) ==
    LET active == {st[s] : s \in SellerOrders} \ {"CANCELLED"}
    IN  IF active = {} THEN "CANCELLED"
        ELSE CHOOSE v \in active : \A w \in active : Priority[w] =< Priority[v]

LegalTransition(current, next) ==
    <<current, next>> \in {<<"NEW", "PROCESSING">>, <<"PROCESSING", "SHIPPED">>,
                           <<"SHIPPED", "COMPLETED">>}

\* What the seller and the customer may cancel.
Cancellable(op) ==
    BeforePayment \cup {"PROCESSING"}
        \cup (IF op = "cancelCustomerSuborder" THEN {} ELSE {"SHIPPED"})

\* The sum of units[s] * Price[s]; the subtotals of a set of sub-orders.
Amount(units) == SumFunctionOnSet([s \in SellerOrders |-> units[s] * Price[s]], SellerOrders)
Subtotals(S) == Amount([s \in SellerOrders |-> IF s \in S THEN Qty[s] ELSE 0])

\* Mutant: only the subtotals of sub-orders with refunds are compared.
RefundedTouched(units, amountFor) ==
    IF Amount(units) >= Subtotals({s \in amountFor : units[s] > 0})
    THEN "REFUNDED" ELSE "PARTIALLY_REFUNDED"

\* The payment's status after the refunds in `units`.
RefundedStatus(units, amountFor) ==
    IF Amount(units) >= Subtotals(amountFor) THEN "REFUNDED" ELSE "PARTIALLY_REFUNDED"

NoUnits == [s \in SellerOrders |-> 0]

\* Mutant: one unit per line.
OneUnitOf(S, units) == [s \in SellerOrders |-> IF s \in S THEN 1 ELSE 0]

\* `units` of the sub-orders in S.
UnitsOf(S, units) == [s \in SellerOrders |-> IF s \in S THEN units[s] ELSE 0]
Plus(f, g) == [s \in SellerOrders |-> f[s] + g[s]]

\* Mutant: refunds made before are forgotten.
WholeLine == [s \in SellerOrders |-> Qty[s]]

\* Units a cancellation returns: max(quantity - already refunded, 0).
Refundable == [s \in SellerOrders |-> IF Qty[s] > refunded[s] THEN Qty[s] - refunded[s] ELSE 0]

\* Sub-order statuses as a transaction that has set those in S to v reads them.
View(S, v) == [s \in SellerOrders |-> IF s \in S THEN v ELSE soStatus[s]]

\* Row locks.
\* Mutant: no row lock on the sub-orders.
SellerOrdersUnlocked(p, S) == TRUE
SellerOrdersFree(p, S) == \A q \in Procs \ {p} : claimed[q] \cap S = {}
OrderFree(p) == \A q \in Procs \ {p} : pc[q] \notin {"coPayment", "coCommit", "csCommit"}
LocksPayment(q) ==
    \/ pc[q] \in {"payCommit", "cpCommit"}
    \/ pc[q] = "coCommit" /\ seen[q].pay \in Paid \cup {"PENDING"}
PaymentFree(p) == \A q \in Procs \ {p} : ~LocksPayment(q)

\* What the updates of payOrder find: the NEW sub-orders, the unpaid ones, and the
\* status of the parent when it is marked as waiting for its payment.
NewSellerOrders == {s \in SellerOrders : soStatus[s] = "NEW"}
UnpaidSellerOrders == {s \in SellerOrders : soStatus[s] \in BeforePayment}
PaymentPending == IF orderStatus = "NEW" THEN "PAYMENT_PENDING" ELSE orderStatus
AwaitsPayment == orderStatus \in BeforePayment /\ payStatus = "PENDING"

\* claimOrderCancellation finds the order.
OrderOpen == orderStatus \notin {"COMPLETED", "CANCELLED"}

\* The unique keys of outbox events and of Refund rows.
EventExists(kind, key) == <<kind, key>> \in usedKeys
RefundExists(key) == <<"refund", key>> \in usedKeys

\* More units than the refunds of the line have left of it.
Overdraws(s, n) == refunded[s] + n > Qty[s]

Steps ==
    {"idle", "payPending", "payRead", "payOrders", "payWrite", "payCommit",
     "payReconcile", "payReconcileCommit", "cpWrite", "cpCommit",
     "coClaim", "coPayment", "coCommit", "csClaim", "csOrder", "csCommit",
     "rfLock", "rfCommit", "usWrite", "usCommit"}

NoCall == [op |-> "none"]
Snapshot == [order |-> orderStatus, pay |-> payStatus, amountFor |-> payFor, so |-> soStatus]
NoSnapshot == [order |-> "NEW", pay |-> "PENDING", amountFor |-> {},
               so |-> [s \in SellerOrders |-> "NEW"]]

\* Handler p starts serving r, with what its first read returns.
Begin(p, r, next, read) ==
    /\ pc[p] = "idle"
    /\ pc' = [pc EXCEPT ![p] = next]
    /\ call' = [call EXCEPT ![p] = r]
    /\ seen' = [seen EXCEPT ![p] = read]
    /\ UNCHANGED <<db, claimed, refunding, restocking, derived, payNext>>

Goto(p, next) == pc' = [pc EXCEPT ![p] = next]

\* The end of a transaction and of the request: locks and local values go away.
Finish(p) ==
    /\ pc' = [pc EXCEPT ![p] = "idle"]
    /\ call' = [call EXCEPT ![p] = NoCall]
    /\ seen' = [seen EXCEPT ![p] = NoSnapshot]
    /\ claimed' = [claimed EXCEPT ![p] = {}]
    /\ refunding' = [refunding EXCEPT ![p] = NoUnits]
    /\ restocking' = [restocking EXCEPT ![p] = NoUnits]
    /\ derived' = [derived EXCEPT ![p] = "NEW"]
    /\ payNext' = [payNext EXCEPT ![p] = "PENDING"]

Rollback(p) == Finish(p) /\ UNCHANGED db

SnapshotType ==
    [order : OrderStatus, pay : PaymentStatus, amountFor : SUBSET SellerOrders,
     so : [SellerOrders -> SellerOrderStatus]]

DbTypeOK ==
    /\ orderStatus \in OrderStatus
    /\ soStatus \in [SellerOrders -> SellerOrderStatus]
    /\ payStatus \in PaymentStatus
    /\ payFor \in SUBSET SellerOrders
    /\ refunded \in [SellerOrders -> Nat]
    /\ restocked \in [SellerOrders -> Nat]
    /\ charged \in [Keys -> SUBSET SellerOrders]

TxTypeOK ==
    /\ pc \in [Procs -> Steps]
    /\ call \in [Procs -> Requests \cup {NoCall}]
    /\ seen \in [Procs -> SnapshotType]
    /\ claimed \in [Procs -> SUBSET SellerOrders]
    /\ refunding \in [Procs -> [SellerOrders -> Nat]]
    /\ restocking \in [Procs -> [SellerOrders -> Nat]]
    /\ derived \in [Procs -> OrderStatus]
    /\ payNext \in [Procs -> PaymentStatus]

TypeOK == DbTypeOK /\ TxTypeOK

-----------------------------------------------------------------------------
(* The state that checkout leaves: everything NEW, one PENDING payment. *)
Init ==
    /\ orderStatus = "NEW"
    /\ soStatus = [s \in SellerOrders |-> "NEW"]
    /\ payStatus = "PENDING"
    /\ payFor = SellerOrders
    /\ refunded = NoUnits
    /\ restocked = NoUnits
    /\ charged = [k \in Keys |-> {}]
    /\ usedKeys = {}
    /\ pc = [p \in Procs |-> "idle"]
    /\ call = [p \in Procs |-> NoCall]
    /\ seen = [p \in Procs |-> NoSnapshot]
    /\ claimed = [p \in Procs |-> {}]
    /\ refunding = [p \in Procs |-> NoUnits]
    /\ restocking = [p \in Procs |-> NoUnits]
    /\ derived = [p \in Procs |-> "NEW"]
    /\ payNext = [p \in Procs |-> "PENDING"]

-----------------------------------------------------------------------------
(* payOrder *)

\* A key that has paid before returns its order; a payable order is first moved
\* to PAYMENT_PENDING, any other request goes straight to the payment transaction.
PayStart(p, r) ==
    /\ r.op = "pay"
    /\ ~EventExists("paid", r.key)
    /\ Begin(p, r, IF AwaitsPayment THEN "payPending" ELSE "payRead", NoSnapshot)

\* The transaction that marks the order and its NEW sub-orders; then the five
\* second wait, during which anything may happen.
PayPending(p) ==
    /\ pc[p] = "payPending"
    /\ orderStatus = "NEW" => OrderFree(p)
    /\ SellerOrdersFree(p, NewSellerOrders)
    /\ orderStatus' = PaymentPending
    /\ soStatus' = View(NewSellerOrders, "PAYMENT_PENDING")
    /\ Goto(p, "payRead")
    /\ UNCHANGED <<payStatus, payFor, refunded, restocked, charged, usedKeys, call,
                   seen, claimed, refunding, restocking, derived, payNext>>

\* The payment transaction reads the order and its payment.
PayRead(p) ==
    /\ pc[p] = "payRead"
    /\ \/ /\ AwaitsPayment
          /\ Goto(p, "payOrders")
          /\ UNCHANGED <<db, call, seen, claimed, refunding, restocking, derived, payNext>>
       \/ /\ orderStatus \in BeforePayment /\ payStatus \in Paid
          /\ Goto(p, "payReconcile")
          /\ UNCHANGED <<db, call, seen, claimed, refunding, restocking, derived, payNext>>
       \/ /\ orderStatus \notin BeforePayment \/ payStatus \notin Paid \cup {"PENDING"}
          /\ Rollback(p)

\* findSellerOrdersForPayment
ReadSellerOrders(p) == seen' = [seen EXCEPT ![p].so = soStatus]

\* It reads the sub-orders: those not cancelled are what the customer pays for.
PayOrders(p) ==
    /\ pc[p] = "payOrders"
    /\ \/ /\ \E s \in SellerOrders : soStatus[s] # "CANCELLED"
          /\ ReadSellerOrders(p)
          /\ Goto(p, "payWrite")
          /\ UNCHANGED <<db, call, claimed, refunding, restocking, derived, payNext>>
       \/ /\ \A s \in SellerOrders : soStatus[s] = "CANCELLED"
          /\ Rollback(p)

Payable(p) == {s \in SellerOrders : seen[p].so[s] # "CANCELLED"}

\* Mutants: no second look at the sub-orders; no key on the ledger entry.
ChargeNotRechecked(p, statuses) == charged[call[p].key] # {}
ChargeKeyIgnored(p, statuses) == \A s \in SellerOrders : statuses[s] = "CANCELLED"

\* The ledger entry of the charge has the call's key; the second look at the
\* sub-orders must find one that is not cancelled.
ChargeRejected(p, statuses) ==
    \/ charged[call[p].key] # {}
    \/ \A s \in SellerOrders : statuses[s] = "CANCELLED"

\* It updates the payment whatever its status is by now, inserts the charge,
\* moves the unpaid sub-orders to PROCESSING and reads all statuses again: if
\* every sub-order was cancelled in the meantime nothing is charged.
PayWrite(p) ==
    LET statuses == View(UnpaidSellerOrders, "PROCESSING")
    IN  /\ pc[p] = "payWrite"
        /\ PaymentFree(p)
        /\ SellerOrdersFree(p, UnpaidSellerOrders)
        /\ \/ /\ ChargeRejected(p, statuses)
              /\ Rollback(p)
           \/ /\ ~ChargeRejected(p, statuses)
              /\ claimed' = [claimed EXCEPT ![p] = UnpaidSellerOrders]
              /\ derived' = [derived EXCEPT ![p] = DeriveOrderStatus(statuses)]
              /\ Goto(p, "payCommit")
              /\ UNCHANGED <<db, call, seen, refunding, restocking, payNext>>

\* The CUSTOMER_CHARGE entry of the ledger.
Charge(p) == charged' = [charged EXCEPT ![call[p].key] = Payable(p)]

\* updateOrderStatusWithDetails
WriteOrderStatus(p) == OrderFree(p) /\ orderStatus' = derived[p]

PayCommit(p) ==
    /\ pc[p] = "payCommit"
    /\ WriteOrderStatus(p)
    /\ soStatus' = View(claimed[p], "PROCESSING")
    /\ payStatus' = "PAID"
    /\ payFor' = Payable(p)
    /\ Charge(p)
    /\ usedKeys' = usedKeys \cup {<<"paid", call[p].key>>}
    /\ Finish(p)
    /\ UNCHANGED <<refunded, restocked>>

\* An order that is already paid only has its status derived again.
PayReconcile(p) ==
    LET d == DeriveOrderStatus(soStatus)
    IN  /\ pc[p] = "payReconcile"
        /\ derived' = [derived EXCEPT ![p] = IF d \in BeforePayment THEN "PROCESSING" ELSE d]
        /\ Goto(p, "payReconcileCommit")
        /\ UNCHANGED <<db, call, seen, claimed, refunding, restocking, payNext>>

PayReconcileCommit(p) ==
    /\ pc[p] = "payReconcileCommit"
    /\ WriteOrderStatus(p)
    /\ Finish(p)
    /\ UNCHANGED <<soStatus, payStatus, payFor, refunded, restocked, charged, usedKeys>>

-----------------------------------------------------------------------------
(* cancelPayment *)

CancelPaymentStart(p, r) ==
    /\ r.op = "cancelPayment"
    /\ ~EventExists("paymentCancelled", r.key)
    /\ orderStatus # "CANCELLED"
    /\ payStatus = "PENDING"
    /\ \A s \in SellerOrders : soStatus[s] \in BeforePayment \cup {"CANCELLED"}
    /\ Begin(p, r, "cpWrite", Snapshot)

\* The payment row is written unconditionally; the sub-orders that are still
\* unpaid are claimed, their whole quantity goes back to stock.
CancelPaymentWrite(p) ==
    LET unpaid == {s \in SellerOrders : /\ seen[p].so[s] # "CANCELLED"
                                        /\ soStatus[s] \in BeforePayment}
    IN  /\ pc[p] = "cpWrite"
        /\ PaymentFree(p)
        /\ SellerOrdersFree(p, unpaid)
        /\ claimed' = [claimed EXCEPT ![p] = unpaid]
        /\ restocking' = [restocking EXCEPT ![p] = UnitsOf(unpaid, Qty)]
        /\ derived' = [derived EXCEPT ![p] = DeriveOrderStatus(View(unpaid, "CANCELLED"))]
        /\ Goto(p, "cpCommit")
        /\ UNCHANGED <<db, call, seen, refunding, payNext>>

CancelPaymentCommit(p) ==
    /\ pc[p] = "cpCommit"
    /\ OrderFree(p)
    /\ \/ /\ EventExists("paymentCancelled", call[p].key)
          /\ Rollback(p)
       \/ /\ ~EventExists("paymentCancelled", call[p].key)
          /\ orderStatus' = derived[p]
          /\ soStatus' = View(claimed[p], "CANCELLED")
          /\ payStatus' = "CANCELLED"
          /\ restocked' = Plus(restocked, restocking[p])
          /\ usedKeys' = usedKeys \cup {<<"paymentCancelled", call[p].key>>}
          /\ Finish(p)
          /\ UNCHANGED <<payFor, refunded, charged>>

-----------------------------------------------------------------------------
(* cancelOrder *)

CancelOrderStart(p, r) ==
    /\ r.op = "cancelOrder"
    /\ OrderOpen
    /\ Begin(p, r, "coClaim", Snapshot)

\* claimOrderCancellation, then claimSellerOrderCancellation and the refunds of
\* every sub-order; whether there is a payment to refund was read before.
CancelOrderClaim(p) ==
    LET live == {s \in SellerOrders : soStatus[s] \in Cancellable("cancelOrder")}
        back == UnitsOf(live, Refundable)
        refunds == IF seen[p].pay \in Paid THEN back ELSE NoUnits
    IN  /\ pc[p] = "coClaim"
        /\ OrderFree(p)
        /\ \/ ~OrderOpen /\ Rollback(p)
           \/ /\ OrderOpen
              /\ SellerOrdersFree(p, live)
              /\ claimed' = [claimed EXCEPT ![p] = live]
              /\ restocking' = [restocking EXCEPT ![p] = back]
              /\ refunding' = [refunding EXCEPT ![p] = refunds]
              /\ payNext' = [payNext EXCEPT ![p] =
                                IF seen[p].pay \in Paid
                                THEN RefundedStatus(Plus(refunded, refunds), seen[p].amountFor)
                                ELSE "CANCELLED"]
              /\ Goto(p, "coPayment")
              /\ UNCHANGED <<db, call, seen, derived>>

\* The payment is locked (if there is one to refund or to cancel) and the
\* sub-order statuses are read again.
CancelOrderPayment(p) ==
    /\ pc[p] = "coPayment"
    /\ seen[p].pay \in Paid \cup {"PENDING"} => PaymentFree(p)
    /\ derived' = [derived EXCEPT ![p] = DeriveOrderStatus(View(claimed[p], "CANCELLED"))]
    /\ Goto(p, "coCommit")
    /\ UNCHANGED <<db, call, seen, claimed, refunding, restocking, payNext>>

\* createRefund, once for each line.
CreateRefunds(p) == refunded' = Plus(refunded, refunding[p])

\* The keys of cancelOrder are built from the order's id: it succeeds only once.
CancelOrderCommit(p) ==
    /\ pc[p] = "coCommit"
    /\ \/ /\ <<"customerCancel">> \in usedKeys
          /\ Rollback(p)
       \/ /\ <<"customerCancel">> \notin usedKeys
          /\ orderStatus' = derived[p]
          /\ soStatus' = View(claimed[p], "CANCELLED")
          /\ payStatus' = IF LocksPayment(p) THEN payNext[p] ELSE payStatus
          /\ CreateRefunds(p)
          /\ restocked' = Plus(restocked, restocking[p])
          /\ usedKeys' = usedKeys \cup {<<"customerCancel">>}
          /\ Finish(p)
          /\ UNCHANGED <<payFor, charged>>

-----------------------------------------------------------------------------
(* cancelSellerOrder, and cancelCustomerSuborder which calls it *)

CancelSellerOrderStart(p, r) ==
    /\ r.op \in {"cancelSellerOrder", "cancelCustomerSuborder"}
    /\ ~EventExists("sellerCancel", r.key)
    /\ soStatus[r.so] \in Cancellable(r.op)
    /\ Begin(p, r, "csClaim", Snapshot)

\* The claim, the refund rows and the restock, then the siblings' statuses.
CancelSellerOrderClaim(p) ==
    LET s == call[p].so
        back == UnitsOf({s}, Refundable)
    IN  /\ pc[p] = "csClaim"
        /\ SellerOrdersFree(p, {s})
        /\ \/ /\ soStatus[s] \notin Cancellable(call[p].op)
              /\ Rollback(p)
           \/ /\ soStatus[s] \in Cancellable(call[p].op)
              /\ claimed' = [claimed EXCEPT ![p] = {s}]
              /\ restocking' = [restocking EXCEPT ![p] = back]
              /\ refunding' = [refunding EXCEPT ![p] =
                                  IF seen[p].pay \in Paid THEN back ELSE NoUnits]
              /\ derived' = [derived EXCEPT ![p] = DeriveOrderStatus(View({s}, "CANCELLED"))]
              /\ Goto(p, "csOrder")
              /\ UNCHANGED <<db, call, seen, payNext>>

\* The parent's status is written, then the payment's refunds are added up.
CancelSellerOrderOrder(p) ==
    /\ pc[p] = "csOrder"
    /\ OrderFree(p)
    /\ payNext' = [payNext EXCEPT ![p] =
                      IF seen[p].pay \in Paid
                      THEN RefundedStatus(Plus(refunded, refunding[p]), seen[p].amountFor)
                      ELSE @]
    /\ Goto(p, "csCommit")
    /\ UNCHANGED <<db, call, seen, claimed, refunding, restocking, derived>>

CancelSellerOrderCommit(p) ==
    LET events == {<<"sellerCancel", call[p].key>>, <<"adjustment", call[p].key>>}
    IN  /\ pc[p] = "csCommit"
        /\ seen[p].pay \in Paid => PaymentFree(p)
        /\ \/ /\ events \cap usedKeys # {}
              /\ Rollback(p)
           \/ /\ events \cap usedKeys = {}
              /\ orderStatus' = derived[p]
              /\ soStatus' = View(claimed[p], "CANCELLED")
              /\ payStatus' = IF seen[p].pay \in Paid THEN payNext[p] ELSE payStatus
              /\ CreateRefunds(p)
              /\ restocked' = Plus(restocked, restocking[p])
              /\ usedKeys' = usedKeys \cup events
              /\ Finish(p)
              /\ UNCHANGED <<payFor, charged>>

-----------------------------------------------------------------------------
(* refundOrderItem *)

RefundStart(p, r) ==
    /\ r.op = "refund"
    /\ ~RefundExists(r.key)
    /\ soStatus[r.so] \notin {"NEW", "CANCELLED"}
    /\ Begin(p, r, "rfLock", Snapshot)

\* Mutants: the refunds of the line, or the payment, are not checked.
RefundSumIgnored(p) ==
    \/ seen[p].pay \notin Paid
    \/ RefundExists(call[p].key)
RefundPaymentIgnored(p) ==
    \/ Overdraws(call[p].so, call[p].qty)
    \/ RefundExists(call[p].key)

\* What refundOrderItem checks under the lock.
RefundRejected(p) ==
    \/ Overdraws(call[p].so, call[p].qty)
    \/ seen[p].pay \notin Paid
    \/ RefundExists(call[p].key)

\* The sub-order row is locked and the refunds of the line are added up under
\* the lock; the sub-order's and the payment's status are those read before it.
RefundLock(p) ==
    LET s == call[p].so
        units == [t \in SellerOrders |-> IF t = s THEN call[p].qty ELSE 0]
    IN  /\ pc[p] = "rfLock"
        /\ SellerOrdersFree(p, {s})
        /\ \/ /\ RefundRejected(p)
              /\ Rollback(p)
           \/ /\ ~RefundRejected(p)
              /\ claimed' = [claimed EXCEPT ![p] = {s}]
              /\ refunding' = [refunding EXCEPT ![p] = units]
              /\ restocking' = [restocking EXCEPT ![p] =
                                   IF seen[p].so[s] = "PROCESSING" THEN units ELSE NoUnits]
              /\ payNext' = [payNext EXCEPT ![p] =
                                RefundedStatus(Plus(refunded, units), seen[p].amountFor)]
              /\ Goto(p, "rfCommit")
              /\ UNCHANGED <<db, call, seen, derived>>

RefundCommit(p) ==
    LET rows == {<<"refund", call[p].key>>, <<"adjustment", call[p].key>>}
    IN  /\ pc[p] = "rfCommit"
        /\ PaymentFree(p)
        /\ \/ /\ rows \cap usedKeys # {}
              /\ Rollback(p)
           \/ /\ rows \cap usedKeys = {}
              /\ payStatus' = payNext[p]
              /\ CreateRefunds(p)
              /\ restocked' = Plus(restocked, restocking[p])
              /\ usedKeys' = usedKeys \cup rows
              /\ Finish(p)
              /\ UNCHANGED <<orderStatus, soStatus, payFor, charged>>

-----------------------------------------------------------------------------
(* updateSellerOrderStatus *)

UpdateStatusStart(p, r) ==
    /\ r.op = "updateStatus"
    /\ LegalTransition(soStatus[r.so], r.to)
    /\ Begin(p, r, "usWrite", Snapshot)

\* The sub-order is written by id, whatever its status is by now.
UpdateStatusWrite(p) ==
    LET s == call[p].so
    IN  /\ pc[p] = "usWrite"
        /\ SellerOrdersFree(p, {s})
        /\ claimed' = [claimed EXCEPT ![p] = {s}]
        /\ derived' = [derived EXCEPT ![p] = DeriveOrderStatus(View({s}, call[p].to))]
        /\ Goto(p, "usCommit")
        /\ UNCHANGED <<db, call, seen, refunding, restocking, payNext>>

\* Mutant: events without unique keys.
NoStatusEvents(s, from, to, orderFrom, orderTo) == {}

\* The outbox keys of a status update name the old and the new status, of the
\* sub-order and, when it changes, of the parent.
StatusEvents(s, from, to, orderFrom, orderTo) ==
    {<<"soStatus", s, from, to>>}
        \cup (IF orderFrom = orderTo THEN {} ELSE {<<"orderStatus", orderFrom, orderTo>>})

\* updateSellerOrderWithDetails
WriteStatus(p) == soStatus' = View(claimed[p], call[p].to)

UpdateStatusCommit(p) ==
    LET s == call[p].so
        parentChanged == seen[p].order # derived[p]
        events == StatusEvents(s, seen[p].so[s], call[p].to, seen[p].order, derived[p])
    IN  /\ pc[p] = "usCommit"
        /\ parentChanged => OrderFree(p)
        /\ \/ /\ events \cap usedKeys # {}
              /\ Rollback(p)
           \/ /\ events \cap usedKeys = {}
              /\ WriteStatus(p)
              /\ orderStatus' = IF parentChanged THEN derived[p] ELSE orderStatus
              /\ usedKeys' = usedKeys \cup events
              /\ Finish(p)
              /\ UNCHANGED <<payStatus, payFor, refunded, restocked, charged>>

-----------------------------------------------------------------------------
\* A request in flight may fail at any point: the process or its connection
\* dies, the transaction times out, or PostgreSQL picks it as a deadlock victim.
Abort(p) == pc[p] # "idle" /\ Rollback(p)

Start(p, r) ==
    \/ PayStart(p, r)
    \/ CancelPaymentStart(p, r)
    \/ CancelOrderStart(p, r)
    \/ CancelSellerOrderStart(p, r)
    \/ RefundStart(p, r)
    \/ UpdateStatusStart(p, r)

Step(p) ==
    \/ PayPending(p)
    \/ PayRead(p)
    \/ PayOrders(p)
    \/ PayWrite(p)
    \/ PayCommit(p)
    \/ PayReconcile(p)
    \/ PayReconcileCommit(p)
    \/ CancelPaymentWrite(p)
    \/ CancelPaymentCommit(p)
    \/ CancelOrderClaim(p)
    \/ CancelOrderPayment(p)
    \/ CancelOrderCommit(p)
    \/ CancelSellerOrderClaim(p)
    \/ CancelSellerOrderOrder(p)
    \/ CancelSellerOrderCommit(p)
    \/ RefundLock(p)
    \/ RefundCommit(p)
    \/ UpdateStatusWrite(p)
    \/ UpdateStatusCommit(p)
    \/ Abort(p)

Next == \E p \in Procs : (\E r \in Requests : Start(p, r)) \/ Step(p)

Spec == Init /\ [][Next]_vars

-----------------------------------------------------------------------------
(* Properties *)

Charged == \E k \in Keys : charged[k] # {}

\* However refunds and cancellations interleave, no more units of a line are
\* refunded than were bought (the refunded sum is read under the sub-order's lock).
RefundNeverExceedsQuantity == \A s \in SellerOrders : refunded[s] =< Qty[s]

\* Refund rows exist only on an order whose payment was charged.
RefundsWereCharged ==
    (\E s \in SellerOrders : refunded[s] > 0) => Charged

\* Every unit of a cancelled sub-order is back in stock or was refunded: a
\* cancellation never loses units, whatever was refunded before or meanwhile.
CancelledUnitsAccounted ==
    \A s \in SellerOrders :
        soStatus[s] = "CANCELLED" => restocked[s] + refunded[s] >= Qty[s]

\* The first charge of an order leaves something to deliver: payOrder reads the
\* sub-orders again before it commits and gives up when all of them were
\* cancelled during its wait.  (With customers' requests only: a seller's status
\* update in flight revives what was cancelled.)
FirstChargeLeavesLiveOrder ==
    [][(\A k \in Keys : charged[k] = {}) /\ charged' # charged
           => \E s \in SellerOrders : soStatus'[s] # "CANCELLED"]_vars

\* An Idempotency-Key never charges twice: the charge of a key is never replaced.
ChargedOncePerKey ==
    [][\A k \in Keys : charged[k] # {} => charged'[k] = charged[k]]_vars

\* A payment that was made once says REFUNDED only when all it was charged for
\* went back.
RefundedMeansRepaid == payStatus = "REFUNDED" => Amount(refunded) >= Subtotals(payFor)

\* No more units of a paid order come back to stock than left it.  (Of an unpaid
\* one more can: a status update in flight revives a sub-order that cancelPayment
\* has restocked, and it is cancelled again.)
NeverOverRestocked == \A s \in SellerOrders : restocked[s] =< Qty[s]

\* In an order that is paid, a completed sub-order stays completed: cancellations
\* exclude it, and a late status update fails on its outbox key.  (A seller's NEW to
\* PROCESSING that is older than the payment has a key that is still free.)
CompletedIsFinal ==
    [][\A s \in SellerOrders : soStatus[s] = "COMPLETED" => soStatus'[s] = "COMPLETED"]_vars

\* Customers are refunded only for sub-orders they were charged for.  (With
\* customers' requests only: a sub-order that was cancelled, and so not charged, is
\* refunded when a seller's status update in flight has revived it.)
RefundsMatchCharges ==
    \A s \in SellerOrders : refunded[s] > 0 => \E k \in Keys : s \in charged[k]

-----------------------------------------------------------------------------
(* The inductive invariant behind the safety properties *)

\* The steps of a handler are those of the request it serves.
CallInv ==
    \A p \in Procs :
        /\ pc[p] # "idle" => call[p] \in Requests
        /\ pc[p] \in {"payPending", "payRead", "payOrders", "payWrite", "payCommit",
                     "payReconcile", "payReconcileCommit"} => call[p].op = "pay"
        /\ pc[p] \in {"cpWrite", "cpCommit"} => call[p].op = "cancelPayment"
        /\ pc[p] \in {"coClaim", "coPayment", "coCommit"} => call[p].op = "cancelOrder"
        /\ pc[p] \in {"csClaim", "csOrder", "csCommit"} =>
               call[p].op \in {"cancelSellerOrder", "cancelCustomerSuborder"}
        /\ pc[p] \in {"rfLock", "rfCommit"} => call[p].op = "refund"
        /\ pc[p] \in {"usWrite", "usCommit"} =>
               call[p].op = "updateStatus" /\ call[p].to # "CANCELLED"

\* A sub-order row is locked by one transaction, only its holder inserts refunds
\* for it, and those and the committed ones fit in the quantity.
LockInv ==
    /\ \A p, q \in Procs : p # q => claimed[p] \cap claimed[q] = {}
    /\ \A p \in Procs :
          /\ pc[p] \notin {"coPayment", "coCommit", "csOrder", "csCommit", "rfCommit"} =>
                refunding[p] = NoUnits
          /\ \A s \in SellerOrders : s \notin claimed[p] => refunding[p][s] = 0
          /\ \A s \in claimed[p] : refunded[s] + refunding[p][s] =< Qty[s]

\* A transaction that is cancelling sub-orders puts back what is not refunded.
RestockInv ==
    \A p \in Procs :
        pc[p] \in {"cpCommit", "coPayment", "coCommit", "csOrder", "csCommit"} =>
            \A s \in claimed[p] : restocking[p][s] + refunded[s] >= Qty[s]

\* A paid payment, a snapshot of one and a refund on its way mean a charge.
ChargeInv ==
    /\ payStatus \in Paid \cup {"REFUNDED"} => Charged
    /\ \A p \in Procs :
          /\ seen[p].pay \in Paid => Charged
          /\ pc[p] \in {"payWrite", "payCommit"} => Payable(p) # {}
          /\ \A s \in SellerOrders : refunding[p][s] > 0 => Charged
          /\ pc[p] \in {"coPayment", "coCommit"} /\ seen[p].pay \notin Paid =>
                payNext[p] = "CANCELLED"
          /\ pc[p] = "rfCommit" => seen[p].pay \in Paid

IInv ==
    /\ TypeOK
    /\ CallInv
    /\ LockInv
    /\ RestockInv
    /\ ChargeInv
    /\ RefundNeverExceedsQuantity
    /\ CancelledUnitsAccounted
    /\ RefundsWereCharged
=============================================================================
