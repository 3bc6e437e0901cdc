---------------------------- MODULE OrdersProofs ----------------------------
(* Theorems about Orders and OrderPhases, for every set of sub-orders,     *)
(* handlers and keys.                                                      *)
EXTENDS OrderPhases, SumTheorems

\* The names Orders gives to the repository's single queries are always expanded.
USE DEF NewSellerOrders, UnpaidSellerOrders, PaymentPending, AwaitsPayment, OrderOpen,
        EventExists, RefundExists, Overdraws, ReadSellerOrders, Charge,
        WriteOrderStatus, CreateRefunds, WriteStatus

-----------------------------------------------------------------------------
(* The helpers of the handlers *)

\* The derived parent status is a status.
LEMMA DeriveType ==
    ASSUME NEW st \in [SellerOrders -> SellerOrderStatus]
    PROVE  DeriveOrderStatus(st) \in OrderStatus
<1> DEFINE active == {st[s] : s \in SellerOrders} \ {"CANCELLED"}
<1>1. CASE active = {}
  BY <1>1 DEF DeriveOrderStatus, OrderStatus, SellerOrderStatus
<1>2. CASE active # {}
  <2>1. active \subseteq {"NEW", "PAYMENT_PENDING", "PROCESSING", "SHIPPED", "COMPLETED"}
    BY DEF SellerOrderStatus
  <2>2. \E v \in active : \A w \in active : Priority[w] =< Priority[v]
    <3>1. CASE "COMPLETED" \in active
      BY <2>1, <3>1 DEF Priority
    <3>2. CASE "COMPLETED" \notin active /\ "SHIPPED" \in active
      BY <2>1, <3>2 DEF Priority
    <3>3. CASE /\ active \cap {"COMPLETED", "SHIPPED"} = {}
               /\ "PROCESSING" \in active
      BY <2>1, <3>3 DEF Priority
    <3>4. CASE /\ active \cap {"COMPLETED", "SHIPPED", "PROCESSING"} = {}
               /\ "PAYMENT_PENDING" \in active
      BY <2>1, <3>4 DEF Priority
    <3>5. CASE active \cap {"COMPLETED", "SHIPPED", "PROCESSING", "PAYMENT_PENDING"} = {}
      BY <1>2, <2>1, <3>5 DEF Priority
    <3>6. QED  BY <3>1, <3>2, <3>3, <3>4, <3>5
  <2>3. DeriveOrderStatus(st) \in active
    BY <1>2, <2>2 DEF DeriveOrderStatus
  <2>4. QED  BY <2>1, <2>3 DEF OrderStatus, SellerOrderStatus
<1>3. QED  BY <1>1, <1>2

\* Statuses as a transaction sees them, sums of units and returnable units.
LEMMA HelperTypes ==
    ASSUME DbTypeOK
    PROVE  /\ \A S \in SUBSET SellerOrders, v \in SellerOrderStatus :
                  View(S, v) \in [SellerOrders -> SellerOrderStatus]
           /\ \A S \in SUBSET SellerOrders, v \in SellerOrderStatus :
                  DeriveOrderStatus(View(S, v)) \in OrderStatus
           /\ DeriveOrderStatus(soStatus) \in OrderStatus
           /\ \A f, g \in [SellerOrders -> Nat] : Plus(f, g) \in [SellerOrders -> Nat]
           /\ \A S, f : f \in [SellerOrders -> Nat] => UnitsOf(S, f) \in [SellerOrders -> Nat]
           /\ Refundable \in [SellerOrders -> Nat]
           /\ NoUnits \in [SellerOrders -> Nat]
           /\ \A u, a : RefundedStatus(u, a) \in PaymentStatus
           /\ Snapshot \in SnapshotType
           /\ NoSnapshot \in SnapshotType
<1> USE DEF DbTypeOK
<1>1. \A S \in SUBSET SellerOrders, v \in SellerOrderStatus :
         View(S, v) \in [SellerOrders -> SellerOrderStatus]
  BY DEF View
<1>2. \A f, g \in [SellerOrders -> Nat] : Plus(f, g) \in [SellerOrders -> Nat]
  BY DEF Plus
<1>3. \A S, f : f \in [SellerOrders -> Nat] => UnitsOf(S, f) \in [SellerOrders -> Nat]
  BY DEF UnitsOf
<1>4. Refundable \in [SellerOrders -> Nat]
  BY LinesAssumption DEF Refundable
<1>5. NoUnits \in [SellerOrders -> Nat]
  BY DEF NoUnits
<1>6. \A u, a : RefundedStatus(u, a) \in PaymentStatus
  BY DEF RefundedStatus, PaymentStatus
<1>7. Snapshot \in SnapshotType
  BY DEF Snapshot, SnapshotType
<1>8. NoSnapshot \in SnapshotType
  BY DEF NoSnapshot, SnapshotType, OrderStatus, PaymentStatus, SellerOrderStatus
<1>9. /\ \A S \in SUBSET SellerOrders, v \in SellerOrderStatus :
            DeriveOrderStatus(View(S, v)) \in OrderStatus
      /\ DeriveOrderStatus(soStatus) \in OrderStatus
  BY <1>1, DeriveType
<1>10. QED  BY <1>1, <1>2, <1>3, <1>4, <1>5, <1>6, <1>7, <1>8, <1>9

\* What a request of each kind carries.
LEMMA RequestFields ==
    ASSUME NEW r \in Requests
    PROVE  /\ r.op \in {"pay", "cancelPayment"} => r.key \in Keys
           /\ r.op \in {"cancelSellerOrder", "cancelCustomerSuborder"} =>
                 r.so \in SellerOrders /\ r.key \in Keys
           /\ r.op = "refund" => r.so \in SellerOrders /\ r.qty \in Nat \ {0} /\ r.key \in Keys
           /\ r.op = "updateStatus" => r.so \in SellerOrders /\ r.to \in SellerOrderStatus
BY RequestsAssumption DEF AllRequests

-----------------------------------------------------------------------------
(* The steps shared by the handlers *)

\* A step that leaves the database alone keeps what is said of the database.
LEMMA DbUnchanged ==
    ASSUME IInv, UNCHANGED db
    PROVE  /\ DbTypeOK' /\ RefundNeverExceedsQuantity'
           /\ CancelledUnitsAccounted' /\ RefundsWereCharged'
           /\ Charged' = Charged
BY DEF IInv, TypeOK, db, DbTypeOK, RefundNeverExceedsQuantity, CancelledUnitsAccounted,
       RefundsWereCharged, Charged

\* The end of a request resets its handler.
LEMMA FinishType ==
    ASSUME TxTypeOK, CallInv, NEW p \in Procs, Finish(p)
    PROVE  TxTypeOK' /\ CallInv'
BY DEF TxTypeOK, CallInv, Finish, Steps, NoCall, NoSnapshot, NoUnits, SnapshotType,
   OrderStatus, PaymentStatus, SellerOrderStatus

\* A commit: the refunds become visible and the locks go.  It keeps the invariant
\* when it removes no stock and no charge, leaves a payment paid only if charged,
\* and accounts for the units of what it cancels.
LEMMA CommitStep ==
    ASSUME IInv, NEW p \in Procs, Finish(p), DbTypeOK',
           \A s \in SellerOrders : refunded'[s] = refunded[s] + refunding[p][s],
           \A s \in SellerOrders : restocked'[s] >= restocked[s],
           \A s \in SellerOrders :
               soStatus'[s] = "CANCELLED" =>
                   \/ soStatus[s] = "CANCELLED"
                   \/ restocked'[s] + refunded'[s] >= Qty[s],
           Charged => Charged',
           payStatus' \in Paid \cup {"REFUNDED"} => Charged'
    PROVE  IInv'
<1> USE DEF IInv, TypeOK
<1>1. TxTypeOK' /\ CallInv'
  BY FinishType
<1>2. /\ claimed' = [claimed EXCEPT ![p] = {}]
      /\ refunding' = [refunding EXCEPT ![p] = NoUnits]
      /\ pc' = [pc EXCEPT ![p] = "idle"]
      /\ seen' = [seen EXCEPT ![p] = NoSnapshot]
      /\ restocking' = [restocking EXCEPT ![p] = NoUnits]
      /\ payNext' = [payNext EXCEPT ![p] = "PENDING"]
  BY DEF Finish
<1>3. \A q \in Procs \ {p} : \A s \in claimed[q] :
         s \in SellerOrders /\ refunding[p][s] = 0 /\ refunded'[s] = refunded[s]
  BY DEF LockInv, TxTypeOK, DbTypeOK
<1>4. LockInv'
  <2>1. \A q, r \in Procs : q # r => claimed'[q] \cap claimed'[r] = {}
    BY <1>2 DEF LockInv, TxTypeOK
  <2>2. \A q \in Procs :
           /\ pc'[q] \notin {"coPayment", "coCommit", "csOrder", "csCommit", "rfCommit"} =>
                 refunding'[q] = NoUnits
           /\ \A s \in SellerOrders : s \notin claimed'[q] => refunding'[q][s] = 0
    BY <1>2 DEF LockInv, TxTypeOK, NoUnits
  <2>3. \A q \in Procs : \A s \in claimed'[q] : refunded'[s] + refunding'[q][s] =< Qty[s]
    BY <1>2, <1>3 DEF LockInv, TxTypeOK
  <2>4. QED  BY <2>1, <2>2, <2>3 DEF LockInv, NoUnits
<1>5. RestockInv'
  BY <1>2, <1>3 DEF RestockInv, TxTypeOK
<1>6. ChargeInv'
  <2>1. \A q \in Procs : \/ q = p /\ seen'[q] = NoSnapshot /\ refunding'[q] = NoUnits
                                  /\ pc'[q] = "idle" /\ payNext'[q] = "PENDING"
                         \/ q # p /\ seen'[q] = seen[q] /\ refunding'[q] = refunding[q]
                                  /\ pc'[q] = pc[q] /\ payNext'[q] = payNext[q]
    BY <1>2 DEF TxTypeOK
  <2>2. \A q \in Procs : seen'[q] = seen[q] => Payable(q)' = Payable(q)
    BY DEF Payable
  <2>3. QED  BY <2>1, <2>2 DEF ChargeInv, NoSnapshot, NoUnits, Paid
<1>7. RefundNeverExceedsQuantity'
  <2>1. \A s \in SellerOrders : refunded[s] + refunding[p][s] =< Qty[s]
    <3> SUFFICES ASSUME NEW s \in SellerOrders
                 PROVE  refunded[s] + refunding[p][s] =< Qty[s]
      OBVIOUS
    <3>1. CASE s \in claimed[p]
      BY <3>1 DEF LockInv
    <3>2. CASE s \notin claimed[p]
      BY <3>2 DEF LockInv, RefundNeverExceedsQuantity, DbTypeOK
    <3>3. QED  BY <3>1, <3>2
  <2>2. QED  BY <2>1 DEF RefundNeverExceedsQuantity
<1>8. CancelledUnitsAccounted'
  BY LinesAssumption DEF CancelledUnitsAccounted, DbTypeOK, TxTypeOK
<1>9. RefundsWereCharged'
  <2> SUFFICES ASSUME NEW s \in SellerOrders, refunded'[s] > 0
               PROVE  Charged'
    BY DEF RefundsWereCharged
  <2>1. refunded[s] > 0 \/ refunding[p][s] > 0
    BY DEF DbTypeOK, TxTypeOK
  <2>2. QED  BY <2>1 DEF RefundsWereCharged, ChargeInv
<1>10. QED  BY <1>1, <1>4, <1>5, <1>6, <1>7, <1>8, <1>9

\* A request that fails changes nothing.
LEMMA RollbackStep ==
    ASSUME IInv, NEW p \in Procs, Rollback(p)
    PROVE  IInv'
<1> USE DEF IInv, TypeOK
<1>1. Finish(p) /\ UNCHANGED db
  BY DEF Rollback
<1>2. TxTypeOK' /\ CallInv'
  BY <1>1, FinishType
<1>3. /\ claimed' = [claimed EXCEPT ![p] = {}]
      /\ refunding' = [refunding EXCEPT ![p] = NoUnits]
      /\ pc' = [pc EXCEPT ![p] = "idle"]
      /\ seen' = [seen EXCEPT ![p] = NoSnapshot]
      /\ restocking' = [restocking EXCEPT ![p] = NoUnits]
      /\ payNext' = [payNext EXCEPT ![p] = "PENDING"]
      /\ UNCHANGED <<refunded, payStatus>>
  BY <1>1 DEF Finish, db
<1>4. LockInv'
  BY <1>3, LinesAssumption DEF LockInv, TxTypeOK, NoUnits
<1>5. RestockInv'
  BY <1>3 DEF RestockInv, TxTypeOK
<1>6. ChargeInv'
  <2>1. \A q \in Procs : \/ q = p /\ seen'[q] = NoSnapshot /\ refunding'[q] = NoUnits
                                  /\ pc'[q] = "idle" /\ payNext'[q] = "PENDING"
                         \/ q # p /\ seen'[q] = seen[q] /\ refunding'[q] = refunding[q]
                                  /\ pc'[q] = pc[q] /\ payNext'[q] = payNext[q]
    BY <1>3 DEF TxTypeOK
  <2>2. \A q \in Procs : seen'[q] = seen[q] => Payable(q)' = Payable(q)
    BY DEF Payable
  <2>3. Charged' = Charged
    BY <1>1, DbUnchanged
  <2>4. QED  BY <1>3, <2>1, <2>2, <2>3 DEF ChargeInv, NoSnapshot, NoUnits, Paid
<1>7. QED  BY <1>1, <1>2, <1>4, <1>5, <1>6, DbUnchanged

\* The first step of a request records the request and what was read.
LEMMA StartStep ==
    ASSUME IInv, NEW p \in Procs, NEW r \in Requests, Start(p, r)
    PROVE  IInv'
<1> USE DEF IInv, TypeOK
<1>1. Snapshot \in SnapshotType /\ NoSnapshot \in SnapshotType
  BY HelperTypes
<1>2. PICK nx \in Steps, rd \in {Snapshot, NoSnapshot} :
         /\ Begin(p, r, nx, rd)
         /\ nx \in {"payPending", "payRead", "cpWrite", "coClaim", "csClaim", "rfLock",
                    "usWrite"}
         /\ nx \in {"payPending", "payRead"} => r.op = "pay"
         /\ nx = "cpWrite" => r.op = "cancelPayment"
         /\ nx = "coClaim" => r.op = "cancelOrder"
         /\ nx = "csClaim" => r.op \in {"cancelSellerOrder", "cancelCustomerSuborder"}
         /\ nx = "rfLock" => r.op = "refund"
         /\ nx = "usWrite" => r.op = "updateStatus" /\ r.to # "CANCELLED"
  <2>1. CASE PayStart(p, r)
    BY <2>1 DEF PayStart, Steps
  <2>2. CASE CancelPaymentStart(p, r)
    BY <2>2 DEF CancelPaymentStart, Steps
  <2>3. CASE CancelOrderStart(p, r)
    BY <2>3 DEF CancelOrderStart, Steps
  <2>4. CASE CancelSellerOrderStart(p, r)
    BY <2>4 DEF CancelSellerOrderStart, Steps
  <2>5. CASE RefundStart(p, r)
    BY <2>5 DEF RefundStart, Steps
  <2>6. CASE UpdateStatusStart(p, r)
    BY <2>6 DEF UpdateStatusStart, LegalTransition, Steps
  <2>7. QED  BY <2>1, <2>2, <2>3, <2>4, <2>5, <2>6 DEF Start
<1>3. /\ pc[p] = "idle"
      /\ pc' = [pc EXCEPT ![p] = nx]
      /\ call' = [call EXCEPT ![p] = r]
      /\ seen' = [seen EXCEPT ![p] = rd]
      /\ UNCHANGED <<db, claimed, refunding, restocking, derived, payNext>>
  BY <1>2 DEF Begin
<1>4. TxTypeOK'
  BY <1>1, <1>3 DEF TxTypeOK
<1>5. CallInv'
  BY <1>2, <1>3 DEF CallInv, TxTypeOK
<1>6. LockInv'
  BY <1>3 DEF LockInv, TxTypeOK, db, NoUnits
<1>7. RestockInv'
  BY <1>2, <1>3 DEF RestockInv, TxTypeOK, db
<1>8. ChargeInv'
  <2>1. Charged' = Charged /\ payStatus' = payStatus
    BY <1>3, DbUnchanged DEF db
  <2>2. rd.pay \in Paid => Charged
    BY DEF Snapshot, NoSnapshot, Paid, ChargeInv
  <2>3. \A q \in Procs : q # p => Payable(q)' = Payable(q)
    BY <1>3 DEF Payable, TxTypeOK
  <2>4. QED  BY <1>2, <1>3, <2>1, <2>2, <2>3 DEF ChargeInv, TxTypeOK
<1>9. QED  BY <1>3, <1>4, <1>5, <1>6, <1>7, <1>8, DbUnchanged
\* The payment transaction goes on, gives up, or has only a status to derive.
LEMMA PayReadStep ==
    ASSUME IInv, NEW p \in Procs, PayRead(p)
    PROVE  IInv'
<1> USE DEF IInv, TypeOK
<1> SUFFICES ASSUME ~Rollback(p)
             PROVE  IInv'
  BY RollbackStep
<1>1. PICK next \in {"payOrders", "payReconcile"} :
         /\ pc[p] = "payRead"
         /\ pc' = [pc EXCEPT ![p] = next]
         /\ UNCHANGED <<db, call, seen, claimed, refunding, restocking, derived, payNext>>
  BY DEF PayRead, Goto
<1>2. TxTypeOK'
  BY <1>1 DEF TxTypeOK, Steps
<1>3. CallInv'
  BY <1>1 DEF CallInv, TxTypeOK
<1>4. LockInv'
  BY <1>1 DEF LockInv, TxTypeOK, db
<1>5. RestockInv'
  BY <1>1 DEF RestockInv, TxTypeOK, db
<1>6. ChargeInv'
  BY <1>1, DbUnchanged DEF ChargeInv, TxTypeOK, Payable, db
<1>7. QED  BY <1>1, <1>2, <1>3, <1>4, <1>5, <1>6, DbUnchanged

\* payOrder reads the sub-orders.
LEMMA PayOrdersStep ==
    ASSUME IInv, NEW p \in Procs, PayOrders(p)
    PROVE  IInv'
<1> USE DEF IInv, TypeOK
<1> SUFFICES ASSUME ~Rollback(p)
             PROVE  IInv'
  BY RollbackStep
<1>1. seen[p] \in SnapshotType /\ soStatus \in [SellerOrders -> SellerOrderStatus]
  BY DEF DbTypeOK, TxTypeOK
<1>2. [seen[p] EXCEPT !.so = soStatus] \in SnapshotType
  BY <1>1 DEF SnapshotType
<1>3. /\ pc[p] = "payOrders"
      /\ pc' = [pc EXCEPT ![p] = "payWrite"]
      /\ seen' = [seen EXCEPT ![p] = [seen[p] EXCEPT !.so = soStatus]]
      /\ \E s \in SellerOrders : soStatus[s] # "CANCELLED"
      /\ UNCHANGED <<db, call, claimed, refunding, restocking, derived, payNext>>
  BY DEF PayOrders, Goto
<1>4. TxTypeOK'
  BY <1>1, <1>2, <1>3 DEF TxTypeOK, Steps
<1>5. CallInv'
  BY <1>3 DEF CallInv, TxTypeOK
<1>6. LockInv'
  BY <1>1, <1>2, <1>3 DEF LockInv, TxTypeOK, db
<1>7. RestockInv'
  BY <1>1, <1>2, <1>3 DEF RestockInv, TxTypeOK, db
<1>8. ChargeInv'
  BY <1>1, <1>2, <1>3, DbUnchanged DEF ChargeInv, TxTypeOK, SnapshotType, Payable, db
<1>9. QED  BY <1>3, <1>4, <1>5, <1>6, <1>7, <1>8, DbUnchanged

\* payOrder locks the unpaid sub-orders.
LEMMA PayWriteStep ==
    ASSUME IInv, NEW p \in Procs, PayWrite(p)
    PROVE  IInv'
<1> USE DEF IInv, TypeOK
<1> SUFFICES ASSUME ~Rollback(p)
             PROVE  IInv'
  BY RollbackStep
<1> DEFINE unpaid == {s \in SellerOrders : soStatus[s] \in BeforePayment}
<1>1. unpaid \in SUBSET SellerOrders
  OBVIOUS
<1>2. DeriveOrderStatus(View(unpaid, "PROCESSING")) \in OrderStatus
  BY HelperTypes DEF SellerOrderStatus
<1>3. /\ pc[p] = "payWrite"
      /\ pc' = [pc EXCEPT ![p] = "payCommit"]
      /\ SellerOrdersFree(p, unpaid)
      /\ claimed' = [claimed EXCEPT ![p] = unpaid]
      /\ derived' = [derived EXCEPT ![p] = DeriveOrderStatus(View(unpaid, "PROCESSING"))]
      /\ UNCHANGED <<db, call, seen, refunding, restocking, payNext>>
  BY DEF PayWrite, Goto
<1> HIDE DEF unpaid
<1>4. TxTypeOK'
  BY <1>1, <1>2, <1>3 DEF TxTypeOK, Steps
<1>5. CallInv'
  BY <1>3 DEF CallInv, TxTypeOK
<1>6. LockInv'
  BY <1>1, <1>2, <1>3
     DEF LockInv, TxTypeOK, db, SellerOrdersFree, RefundNeverExceedsQuantity, DbTypeOK,
         NoUnits
<1>7. RestockInv'
  BY <1>1, <1>2, <1>3 DEF RestockInv, TxTypeOK, db
<1>8. ChargeInv'
  BY <1>1, <1>2, <1>3, DbUnchanged DEF ChargeInv, TxTypeOK, Payable, db
<1>9. QED  BY <1>3, <1>4, <1>5, <1>6, <1>7, <1>8, DbUnchanged

\* payOrder derives the status of an order that is paid.
LEMMA PayReconcileStep ==
    ASSUME IInv, NEW p \in Procs, PayReconcile(p)
    PROVE  IInv'
<1> USE DEF IInv, TypeOK
<1> DEFINE d == DeriveOrderStatus(soStatus)
           next == IF d \in BeforePayment THEN "PROCESSING" ELSE d
<1>1. next \in OrderStatus
  BY HelperTypes DEF OrderStatus, SellerOrderStatus
<1>2. /\ pc[p] = "payReconcile"
      /\ pc' = [pc EXCEPT ![p] = "payReconcileCommit"]
      /\ derived' = [derived EXCEPT ![p] = next]
      /\ UNCHANGED <<db, call, seen, claimed, refunding, restocking, payNext>>
  BY DEF PayReconcile, Goto
<1> HIDE DEF d, next
<1>3. TxTypeOK'
  BY <1>1, <1>2 DEF TxTypeOK, Steps
<1>4. CallInv'
  BY <1>2 DEF CallInv, TxTypeOK
<1>5. LockInv'
  BY <1>1, <1>2 DEF LockInv, TxTypeOK, db
<1>6. RestockInv'
  BY <1>1, <1>2 DEF RestockInv, TxTypeOK, db
<1>7. ChargeInv'
  BY <1>1, <1>2, DbUnchanged DEF ChargeInv, TxTypeOK, Payable, db
<1>8. QED  BY <1>2, <1>3, <1>4, <1>5, <1>6, <1>7, DbUnchanged

\* cancelPayment locks the unpaid sub-orders, to put all of their units back.
LEMMA CancelPaymentWriteStep ==
    ASSUME IInv, NEW p \in Procs, CancelPaymentWrite(p)
    PROVE  IInv'
<1> USE DEF IInv, TypeOK
<1> DEFINE unpaid == {s \in SellerOrders : /\ seen[p].so[s] # "CANCELLED"
                                             /\ soStatus[s] \in BeforePayment}
<1>1. unpaid \in SUBSET SellerOrders
  OBVIOUS
<1>2. DeriveOrderStatus(View(unpaid, "CANCELLED")) \in OrderStatus
  BY HelperTypes DEF SellerOrderStatus
<1>3. /\ UnitsOf(unpaid, Qty) \in [SellerOrders -> Nat]
      /\ \A s \in unpaid : UnitsOf(unpaid, Qty)[s] + refunded[s] >= Qty[s]
  BY LinesAssumption DEF UnitsOf, DbTypeOK
<1>4. /\ pc[p] = "cpWrite"
      /\ pc' = [pc EXCEPT ![p] = "cpCommit"]
      /\ SellerOrdersFree(p, unpaid)
      /\ claimed' = [claimed EXCEPT ![p] = unpaid]
      /\ restocking' = [restocking EXCEPT ![p] = UnitsOf(unpaid, Qty)]
      /\ derived' = [derived EXCEPT ![p] = DeriveOrderStatus(View(unpaid, "CANCELLED"))]
      /\ UNCHANGED <<db, call, seen, refunding, payNext>>
  BY DEF CancelPaymentWrite, Goto
<1> HIDE DEF unpaid
<1>5. TxTypeOK'
  BY <1>1, <1>2, <1>3, <1>4 DEF TxTypeOK, Steps
<1>6. CallInv'
  BY <1>4 DEF CallInv, TxTypeOK
<1>7. LockInv'
  BY <1>1, <1>2, <1>3, <1>4
     DEF LockInv, TxTypeOK, db, SellerOrdersFree, RefundNeverExceedsQuantity, DbTypeOK,
         NoUnits
<1>8. RestockInv'
  BY <1>1, <1>2, <1>3, <1>4 DEF RestockInv, TxTypeOK, db
<1>9. ChargeInv'
  BY <1>1, <1>2, <1>3, <1>4, DbUnchanged DEF ChargeInv, TxTypeOK, Payable, db
<1>10. QED  BY <1>4, <1>5, <1>6, <1>7, <1>8, <1>9, DbUnchanged

\* cancelOrder locks what it cancels, to put back and refund what is left of it.
LEMMA CancelOrderClaimStep ==
    ASSUME IInv, NEW p \in Procs, CancelOrderClaim(p)
    PROVE  IInv'
<1> USE DEF IInv, TypeOK
<1> SUFFICES ASSUME ~Rollback(p)
             PROVE  IInv'
  BY RollbackStep
<1> DEFINE live == {s \in SellerOrders : soStatus[s] \in Cancellable("cancelOrder")}
           back == UnitsOf(live, Refundable)
           refunds == IF seen[p].pay \in Paid THEN back ELSE NoUnits
           pay == IF seen[p].pay \in Paid
                  THEN RefundedStatus(Plus(refunded, refunds), seen[p].amountFor)
                  ELSE "CANCELLED"
<1>1. live \in SUBSET SellerOrders /\ back \in [SellerOrders -> Nat]
      /\ refunds \in [SellerOrders -> Nat]
  BY HelperTypes
<1>2. pay \in PaymentStatus /\ (seen[p].pay \notin Paid => pay = "CANCELLED")
  BY HelperTypes DEF PaymentStatus
<1>3. \A s \in live : back[s] + refunded[s] >= Qty[s]
  BY LinesAssumption DEF UnitsOf, Refundable, DbTypeOK
<1>4. \A s \in SellerOrders : /\ s \notin live => refunds[s] = 0
                              /\ refunded[s] + refunds[s] =< Qty[s]
  BY LinesAssumption DEF UnitsOf, Refundable, NoUnits, DbTypeOK, RefundNeverExceedsQuantity
<1>5. \A s \in SellerOrders : refunds[s] > 0 => Charged
  BY DEF NoUnits, ChargeInv
<1>6. /\ pc[p] = "coClaim"
      /\ pc' = [pc EXCEPT ![p] = "coPayment"]
      /\ SellerOrdersFree(p, live)
      /\ claimed' = [claimed EXCEPT ![p] = live]
      /\ restocking' = [restocking EXCEPT ![p] = back]
      /\ refunding' = [refunding EXCEPT ![p] = refunds]
      /\ payNext' = [payNext EXCEPT ![p] = pay]
      /\ UNCHANGED <<db, call, seen, derived>>
  BY DEF CancelOrderClaim, Goto
<1> HIDE DEF live, back, refunds, pay
<1>7. TxTypeOK'
  BY <1>1, <1>2, <1>3, <1>4, <1>5, <1>6 DEF TxTypeOK, Steps
<1>8. CallInv'
  BY <1>6 DEF CallInv, TxTypeOK
<1>9. LockInv'
  BY <1>1, <1>2, <1>3, <1>4, <1>5, <1>6
     DEF LockInv, TxTypeOK, db, SellerOrdersFree, RefundNeverExceedsQuantity, DbTypeOK,
         NoUnits
<1>10. RestockInv'
  BY <1>1, <1>2, <1>3, <1>4, <1>5, <1>6 DEF RestockInv, TxTypeOK, db
<1>11. ChargeInv'
  BY <1>1, <1>2, <1>3, <1>4, <1>5, <1>6, DbUnchanged DEF ChargeInv, TxTypeOK, Payable, db
<1>12. QED  BY <1>6, <1>7, <1>8, <1>9, <1>10, <1>11, DbUnchanged

\* cancelOrder locks the payment and derives the order's status.
LEMMA CancelOrderPaymentStep ==
    ASSUME IInv, NEW p \in Procs, CancelOrderPayment(p)
    PROVE  IInv'
<1> USE DEF IInv, TypeOK
<1>1. DeriveOrderStatus(View(claimed[p], "CANCELLED")) \in OrderStatus
  BY HelperTypes DEF SellerOrderStatus, TxTypeOK
<1>2. /\ pc[p] = "coPayment"
      /\ pc' = [pc EXCEPT ![p] = "coCommit"]
      /\ derived' = [derived EXCEPT ![p] = DeriveOrderStatus(View(claimed[p], "CANCELLED"))]
      /\ UNCHANGED <<db, call, seen, claimed, refunding, restocking, payNext>>
  BY DEF CancelOrderPayment, Goto
<1>3. TxTypeOK'
  BY <1>1, <1>2 DEF TxTypeOK, Steps
<1>4. CallInv'
  BY <1>2 DEF CallInv, TxTypeOK
<1>5. LockInv'
  BY <1>1, <1>2 DEF LockInv, TxTypeOK, db
<1>6. RestockInv'
  BY <1>1, <1>2 DEF RestockInv, TxTypeOK, db
<1>7. ChargeInv'
  BY <1>1, <1>2, DbUnchanged DEF ChargeInv, TxTypeOK, Payable, db
<1>8. QED  BY <1>2, <1>3, <1>4, <1>5, <1>6, <1>7, DbUnchanged

\* A cancellation locks its sub-order, to put back and refund what is left of it.
LEMMA CancelSellerOrderClaimStep ==
    ASSUME IInv, NEW p \in Procs, CancelSellerOrderClaim(p)
    PROVE  IInv'
<1> USE DEF IInv, TypeOK
<1> SUFFICES ASSUME ~Rollback(p)
             PROVE  IInv'
  BY RollbackStep
<1> DEFINE s == call[p].so
           back == UnitsOf({s}, Refundable)
           refunds == IF seen[p].pay \in Paid THEN back ELSE NoUnits
<1>1. s \in SellerOrders
  BY RequestFields DEF CancelSellerOrderClaim, CallInv
<1>2. back \in [SellerOrders -> Nat] /\ refunds \in [SellerOrders -> Nat]
  BY HelperTypes
<1>3. DeriveOrderStatus(View({s}, "CANCELLED")) \in OrderStatus
  BY <1>1, HelperTypes DEF SellerOrderStatus
<1>4. back[s] + refunded[s] >= Qty[s]
  BY <1>1, LinesAssumption DEF UnitsOf, Refundable, DbTypeOK
<1>5. \A t \in SellerOrders : /\ t # s => refunds[t] = 0
                              /\ refunded[t] + refunds[t] =< Qty[t]
  BY LinesAssumption DEF UnitsOf, Refundable, NoUnits, DbTypeOK, RefundNeverExceedsQuantity
<1>6. \A t \in SellerOrders : refunds[t] > 0 => Charged
  BY DEF NoUnits, ChargeInv
<1>7. /\ pc[p] = "csClaim"
      /\ pc' = [pc EXCEPT ![p] = "csOrder"]
      /\ SellerOrdersFree(p, {s})
      /\ claimed' = [claimed EXCEPT ![p] = {s}]
      /\ restocking' = [restocking EXCEPT ![p] = back]
      /\ refunding' = [refunding EXCEPT ![p] = refunds]
      /\ derived' = [derived EXCEPT ![p] = DeriveOrderStatus(View({s}, "CANCELLED"))]
      /\ UNCHANGED <<db, call, seen, payNext>>
  BY DEF CancelSellerOrderClaim, Goto
<1> HIDE DEF s, back, refunds
<1>8. TxTypeOK'
  BY <1>1, <1>2, <1>3, <1>4, <1>5, <1>6, <1>7 DEF TxTypeOK, Steps
<1>9. CallInv'
  BY <1>7 DEF CallInv, TxTypeOK
<1>10. LockInv'
  BY <1>1, <1>2, <1>3, <1>4, <1>5, <1>6, <1>7
     DEF LockInv, TxTypeOK, db, SellerOrdersFree, RefundNeverExceedsQuantity, DbTypeOK,
         NoUnits
<1>11. RestockInv'
  BY <1>1, <1>2, <1>3, <1>4, <1>5, <1>6, <1>7 DEF RestockInv, TxTypeOK, db
<1>12. ChargeInv'
  BY <1>1, <1>2, <1>3, <1>4, <1>5, <1>6, <1>7, DbUnchanged DEF ChargeInv, TxTypeOK, Payable, db
<1>13. QED  BY <1>7, <1>8, <1>9, <1>10, <1>11, <1>12, DbUnchanged

\* A cancellation adds up the refunds of the order.
LEMMA CancelSellerOrderOrderStep ==
    ASSUME IInv, NEW p \in Procs, CancelSellerOrderOrder(p)
    PROVE  IInv'
<1> USE DEF IInv, TypeOK
<1> DEFINE pay == IF seen[p].pay \in Paid
                  THEN RefundedStatus(Plus(refunded, refunding[p]), seen[p].amountFor)
                  ELSE payNext[p]
<1>1. pay \in PaymentStatus
  BY HelperTypes DEF TxTypeOK
<1>2. /\ pc[p] = "csOrder"
      /\ pc' = [pc EXCEPT ![p] = "csCommit"]
      /\ payNext' = [payNext EXCEPT ![p] = pay]
      /\ UNCHANGED <<db, call, seen, claimed, refunding, restocking, derived>>
  BY DEF CancelSellerOrderOrder, Goto, TxTypeOK
<1> HIDE DEF pay
<1>3. TxTypeOK'
  BY <1>1, <1>2 DEF TxTypeOK, Steps
<1>4. CallInv'
  BY <1>2 DEF CallInv, TxTypeOK
<1>5. LockInv'
  BY <1>1, <1>2 DEF LockInv, TxTypeOK, db
<1>6. RestockInv'
  BY <1>1, <1>2 DEF RestockInv, TxTypeOK, db
<1>7. ChargeInv'
  BY <1>1, <1>2, DbUnchanged DEF ChargeInv, TxTypeOK, Payable, db
<1>8. QED  BY <1>2, <1>3, <1>4, <1>5, <1>6, <1>7, DbUnchanged

\* A refund locks its sub-order and checks what is left to refund.
LEMMA RefundLockStep ==
    ASSUME IInv, NEW p \in Procs, RefundLock(p)
    PROVE  IInv'
<1> USE DEF IInv, TypeOK
<1> SUFFICES ASSUME ~Rollback(p)
             PROVE  IInv'
  BY RollbackStep
<1> DEFINE s == call[p].so
           units == [t \in SellerOrders |-> IF t = s THEN call[p].qty ELSE 0]
           back == IF seen[p].so[s] = "PROCESSING" THEN units ELSE NoUnits
           pay == RefundedStatus(Plus(refunded, units), seen[p].amountFor)
<1>1. s \in SellerOrders /\ call[p].qty \in Nat
  BY RequestFields DEF RefundLock, CallInv
<1>2. units \in [SellerOrders -> Nat] /\ back \in [SellerOrders -> Nat]
  BY <1>1, HelperTypes
<1>3. pay \in PaymentStatus
  BY HelperTypes
<1>4. \A t \in SellerOrders : units[t] = IF t = s THEN call[p].qty ELSE 0
  OBVIOUS
<1>5. /\ pc[p] = "rfLock"
      /\ pc' = [pc EXCEPT ![p] = "rfCommit"]
      /\ SellerOrdersFree(p, {s})
      /\ refunded[s] + call[p].qty =< Qty[s]
      /\ seen[p].pay \in Paid
      /\ claimed' = [claimed EXCEPT ![p] = {s}]
      /\ refunding' = [refunding EXCEPT ![p] = units]
      /\ restocking' = [restocking EXCEPT ![p] = back]
      /\ payNext' = [payNext EXCEPT ![p] = pay]
      /\ UNCHANGED <<db, call, seen, derived>>
  BY LinesAssumption, <1>1 DEF RefundLock, RefundRejected, Goto, DbTypeOK
<1> HIDE DEF s, units, back, pay
<1>6. TxTypeOK'
  BY <1>1, <1>2, <1>3, <1>4, <1>5 DEF TxTypeOK, Steps
<1>7. CallInv'
  BY <1>5 DEF CallInv, TxTypeOK
<1>8. LockInv'
  BY <1>1, <1>2, <1>3, <1>4, <1>5
     DEF LockInv, TxTypeOK, db, SellerOrdersFree, RefundNeverExceedsQuantity, DbTypeOK,
         NoUnits
<1>9. RestockInv'
  BY <1>1, <1>2, <1>3, <1>4, <1>5 DEF RestockInv, TxTypeOK, db
<1>10. ChargeInv'
  BY <1>1, <1>2, <1>3, <1>4, <1>5, DbUnchanged DEF ChargeInv, TxTypeOK, Payable, db
<1>11. QED  BY <1>5, <1>6, <1>7, <1>8, <1>9, <1>10, DbUnchanged

\* A status update locks its sub-order.
LEMMA UpdateStatusWriteStep ==
    ASSUME IInv, NEW p \in Procs, UpdateStatusWrite(p)
    PROVE  IInv'
<1> USE DEF IInv, TypeOK
<1> DEFINE s == call[p].so
<1>1. s \in SellerOrders /\ call[p].to \in SellerOrderStatus
  BY RequestFields DEF UpdateStatusWrite, CallInv
<1>2. DeriveOrderStatus(View({s}, call[p].to)) \in OrderStatus
  BY <1>1, HelperTypes
<1>3. /\ pc[p] = "usWrite"
      /\ pc' = [pc EXCEPT ![p] = "usCommit"]
      /\ SellerOrdersFree(p, {s})
      /\ claimed' = [claimed EXCEPT ![p] = {s}]
      /\ derived' = [derived EXCEPT ![p] = DeriveOrderStatus(View({s}, call[p].to))]
      /\ UNCHANGED <<db, call, seen, refunding, restocking, payNext>>
  BY DEF UpdateStatusWrite, Goto
<1> HIDE DEF s
<1>4. TxTypeOK'
  BY <1>1, <1>2, <1>3 DEF TxTypeOK, Steps
<1>5. CallInv'
  BY <1>3 DEF CallInv, TxTypeOK
<1>6. LockInv'
  BY <1>1, <1>2, <1>3
     DEF LockInv, TxTypeOK, db, SellerOrdersFree, RefundNeverExceedsQuantity, DbTypeOK,
         NoUnits
<1>7. RestockInv'
  BY <1>1, <1>2, <1>3 DEF RestockInv, TxTypeOK, db
<1>8. ChargeInv'
  BY <1>1, <1>2, <1>3, DbUnchanged DEF ChargeInv, TxTypeOK, Payable, db
<1>9. QED  BY <1>3, <1>4, <1>5, <1>6, <1>7, <1>8, DbUnchanged

\* payOrder marks the order and its new sub-orders.
LEMMA PayPendingStep ==
    ASSUME IInv, NEW p \in Procs, PayPending(p)
    PROVE  IInv'
<1> USE DEF IInv, TypeOK
<1> DEFINE fresh == {s \in SellerOrders : soStatus[s] = "NEW"}
<1>1. View(fresh, "PAYMENT_PENDING") \in [SellerOrders -> SellerOrderStatus]
  BY HelperTypes DEF SellerOrderStatus
<1>2. /\ pc[p] = "payPending"
      /\ pc' = [pc EXCEPT ![p] = "payRead"]
      /\ orderStatus' \in {"PAYMENT_PENDING", orderStatus}
      /\ soStatus' = View(fresh, "PAYMENT_PENDING")
      /\ UNCHANGED <<payStatus, payFor, refunded, restocked, charged, call, seen,
                     claimed, refunding, restocking, derived, payNext>>
  BY DEF PayPending, Goto
<1>3. DbTypeOK'
  BY <1>1, <1>2 DEF DbTypeOK, OrderStatus, SellerOrderStatus
<1>4. TxTypeOK'
  BY <1>2 DEF TxTypeOK, Steps
<1>5. CallInv'
  BY <1>2 DEF CallInv, TxTypeOK
<1>6. LockInv'
  BY <1>2 DEF LockInv, TxTypeOK
<1>7. RestockInv'
  BY <1>2 DEF RestockInv, TxTypeOK
<1>8. ChargeInv'
  BY <1>2 DEF ChargeInv, TxTypeOK, Payable, Charged
<1>9. RefundNeverExceedsQuantity' /\ RefundsWereCharged'
  BY <1>2 DEF RefundNeverExceedsQuantity, RefundsWereCharged, Charged
<1>10. CancelledUnitsAccounted'
  BY <1>2 DEF CancelledUnitsAccounted, View
<1>11. QED  BY <1>3, <1>4, <1>5, <1>6, <1>7, <1>8, <1>9, <1>10

\* A transaction that inserts no refund has none to make visible.
LEMMA NoRefunding ==
    ASSUME IInv, NEW p \in Procs,
           pc[p] \notin {"coPayment", "coCommit", "csOrder", "csCommit", "rfCommit"}
    PROVE  \A s \in SellerOrders : refunded[s] = refunded[s] + refunding[p][s]
BY DEF IInv, TypeOK, DbTypeOK, LockInv, NoUnits

\* payOrder commits the charge.
LEMMA PayCommitStep ==
    ASSUME IInv, NEW p \in Procs, PayCommit(p)
    PROVE  IInv'
<1> USE DEF IInv, TypeOK
<1>1. call[p].key \in Keys /\ Payable(p) # {} /\ Payable(p) \subseteq SellerOrders
  BY RequestFields DEF PayCommit, CallInv, ChargeInv, Payable
<1>2. View(claimed[p], "PROCESSING") \in [SellerOrders -> SellerOrderStatus]
  BY HelperTypes DEF SellerOrderStatus, TxTypeOK
<1>3. /\ pc[p] = "payCommit" /\ Finish(p)
      /\ orderStatus' = derived[p]
      /\ soStatus' = View(claimed[p], "PROCESSING")
      /\ payStatus' = "PAID"
      /\ payFor' = Payable(p)
      /\ charged' = [charged EXCEPT ![call[p].key] = Payable(p)]
      /\ UNCHANGED <<refunded, restocked>>
  BY DEF PayCommit
<1>4. DbTypeOK'
  BY <1>1, <1>2, <1>3 DEF DbTypeOK, TxTypeOK, PaymentStatus
<1>5. Charged'
  BY <1>1, <1>3 DEF Charged, DbTypeOK
<1>6. \A s \in SellerOrders : refunded'[s] = refunded[s] + refunding[p][s]
  BY <1>3, NoRefunding
<1>7. \A s \in SellerOrders :
         /\ restocked'[s] >= restocked[s]
         /\ soStatus'[s] = "CANCELLED" => soStatus[s] = "CANCELLED"
  BY <1>3 DEF View, DbTypeOK
<1>8. QED  BY <1>3, <1>4, <1>5, <1>6, <1>7, CommitStep

\* payOrder writes the derived status of a paid order.
LEMMA PayReconcileCommitStep ==
    ASSUME IInv, NEW p \in Procs, PayReconcileCommit(p)
    PROVE  IInv'
<1> USE DEF IInv, TypeOK
<1>1. /\ pc[p] = "payReconcileCommit" /\ Finish(p)
      /\ orderStatus' = derived[p]
      /\ UNCHANGED <<soStatus, payStatus, payFor, refunded, restocked, charged>>
  BY DEF PayReconcileCommit
<1>2. DbTypeOK'
  BY <1>1 DEF DbTypeOK, TxTypeOK
<1>3. Charged' = Charged
  BY <1>1 DEF Charged
<1>4. \A s \in SellerOrders : /\ refunded'[s] = refunded[s] + refunding[p][s]
                              /\ restocked'[s] >= restocked[s]
  BY <1>1, NoRefunding DEF DbTypeOK
<1>5. payStatus' \in Paid \cup {"REFUNDED"} => Charged'
  BY <1>1, <1>3 DEF ChargeInv
<1>6. QED  BY <1>1, <1>2, <1>3, <1>4, <1>5, CommitStep

\* What a cancelling transaction commits accounts for every unit it cancels.
LEMMA CancelCommitStep ==
    ASSUME IInv, NEW p \in Procs, Finish(p),
           pc[p] \in {"cpCommit", "coCommit", "csCommit"},
           orderStatus' = derived[p],
           soStatus' = View(claimed[p], "CANCELLED"),
           payStatus' \in PaymentStatus,
           payStatus' \in Paid \cup {"REFUNDED"} => Charged,
           refunded' = Plus(refunded, refunding[p]),
           restocked' = Plus(restocked, restocking[p]),
           UNCHANGED <<payFor, charged>>
    PROVE  IInv'
<1> USE DEF IInv, TypeOK
<1>1. View(claimed[p], "CANCELLED") \in [SellerOrders -> SellerOrderStatus]
  BY HelperTypes DEF SellerOrderStatus, TxTypeOK
<1>2. refunded' \in [SellerOrders -> Nat] /\ restocked' \in [SellerOrders -> Nat]
  BY HelperTypes DEF DbTypeOK, TxTypeOK
<1>3. DbTypeOK'
  BY <1>1, <1>2 DEF DbTypeOK, TxTypeOK
<1>4. Charged' = Charged
  BY DEF Charged
<1>5. \A s \in SellerOrders : /\ refunded'[s] = refunded[s] + refunding[p][s]
                              /\ restocked'[s] = restocked[s] + restocking[p][s]
                              /\ refunding[p][s] \in Nat /\ restocking[p][s] \in Nat
                              /\ refunded[s] \in Nat /\ restocked[s] \in Nat
  BY DEF Plus, DbTypeOK, TxTypeOK
<1>6. \A s \in SellerOrders : restocked'[s] >= restocked[s]
  BY <1>5
<1>7. \A s \in SellerOrders :
         soStatus'[s] = "CANCELLED" =>
             soStatus[s] = "CANCELLED" \/ restocked'[s] + refunded'[s] >= Qty[s]
  BY <1>5, LinesAssumption DEF View, RestockInv
<1>8. QED  BY <1>3, <1>4, <1>5, <1>6, <1>7, CommitStep

\* The cancellation of the payment commits.
LEMMA CancelPaymentCommitStep ==
    ASSUME IInv, NEW p \in Procs, CancelPaymentCommit(p)
    PROVE  IInv'
<1> SUFFICES ASSUME ~Rollback(p)
             PROVE  IInv'
  BY RollbackStep
<1>1. /\ pc[p] = "cpCommit" /\ Finish(p)
      /\ orderStatus' = derived[p]
      /\ soStatus' = View(claimed[p], "CANCELLED")
      /\ payStatus' = "CANCELLED"
      /\ restocked' = Plus(restocked, restocking[p])
      /\ UNCHANGED <<payFor, refunded, charged>>
  BY DEF CancelPaymentCommit
<1>2. refunded' = Plus(refunded, refunding[p])
  BY <1>1, NoRefunding DEF Plus, IInv, TypeOK, DbTypeOK
<1>3. payStatus' \in PaymentStatus /\ payStatus' \notin Paid \cup {"REFUNDED"}
  BY <1>1 DEF PaymentStatus, Paid
<1>4. QED  BY <1>1, <1>2, <1>3, CancelCommitStep

\* The cancellation of the order commits.
LEMMA CancelOrderCommitStep ==
    ASSUME IInv, NEW p \in Procs, CancelOrderCommit(p)
    PROVE  IInv'
<1> SUFFICES ASSUME ~Rollback(p)
             PROVE  IInv'
  BY RollbackStep
<1>1. /\ pc[p] = "coCommit" /\ Finish(p)
      /\ orderStatus' = derived[p]
      /\ soStatus' = View(claimed[p], "CANCELLED")
      /\ payStatus' = IF LocksPayment(p) THEN payNext[p] ELSE payStatus
      /\ refunded' = Plus(refunded, refunding[p])
      /\ restocked' = Plus(restocked, restocking[p])
      /\ UNCHANGED <<payFor, charged>>
  BY DEF CancelOrderCommit
<1>2. payStatus' \in PaymentStatus
  BY <1>1 DEF IInv, TypeOK, DbTypeOK, TxTypeOK
<1>3. payStatus' \in Paid \cup {"REFUNDED"} => Charged
  BY <1>1 DEF IInv, ChargeInv, Paid
<1>4. QED  BY <1>1, <1>2, <1>3, CancelCommitStep

\* The cancellation of a sub-order commits.
LEMMA CancelSellerOrderCommitStep ==
    ASSUME IInv, NEW p \in Procs, CancelSellerOrderCommit(p)
    PROVE  IInv'
<1> SUFFICES ASSUME ~Rollback(p)
             PROVE  IInv'
  BY RollbackStep
<1>1. /\ pc[p] = "csCommit" /\ Finish(p)
      /\ orderStatus' = derived[p]
      /\ soStatus' = View(claimed[p], "CANCELLED")
      /\ payStatus' = IF seen[p].pay \in Paid THEN payNext[p] ELSE payStatus
      /\ refunded' = Plus(refunded, refunding[p])
      /\ restocked' = Plus(restocked, restocking[p])
      /\ UNCHANGED <<payFor, charged>>
  BY DEF CancelSellerOrderCommit
<1>2. payStatus' \in PaymentStatus
  BY <1>1 DEF IInv, TypeOK, DbTypeOK, TxTypeOK
<1>3. payStatus' \in Paid \cup {"REFUNDED"} => Charged
  BY <1>1 DEF IInv, ChargeInv
<1>4. QED  BY <1>1, <1>2, <1>3, CancelCommitStep

\* A refund commits.
LEMMA RefundCommitStep ==
    ASSUME IInv, NEW p \in Procs, RefundCommit(p)
    PROVE  IInv'
<1> USE DEF IInv, TypeOK
<1> SUFFICES ASSUME ~Rollback(p)
             PROVE  IInv'
  BY RollbackStep
<1>1. /\ pc[p] = "rfCommit" /\ Finish(p)
      /\ payStatus' = payNext[p]
      /\ refunded' = Plus(refunded, refunding[p])
      /\ restocked' = Plus(restocked, restocking[p])
      /\ UNCHANGED <<orderStatus, soStatus, payFor, charged>>
  BY DEF RefundCommit
<1>2. DbTypeOK'
  BY <1>1, HelperTypes DEF DbTypeOK, TxTypeOK
<1>3. Charged /\ Charged' = Charged
  BY <1>1 DEF Charged, ChargeInv
<1>4. \A s \in SellerOrders : /\ refunded'[s] = refunded[s] + refunding[p][s]
                              /\ restocked'[s] >= restocked[s]
  BY <1>1 DEF Plus, DbTypeOK, TxTypeOK
<1>5. QED  BY <1>1, <1>2, <1>3, <1>4, CommitStep

\* A status update commits; it never cancels.
LEMMA UpdateStatusCommitStep ==
    ASSUME IInv, NEW p \in Procs, UpdateStatusCommit(p)
    PROVE  IInv'
<1> USE DEF IInv, TypeOK
<1> SUFFICES ASSUME ~Rollback(p)
             PROVE  IInv'
  BY RollbackStep
<1>1. /\ pc[p] = "usCommit" /\ Finish(p)
      /\ orderStatus' \in {orderStatus, derived[p]}
      /\ soStatus' = View(claimed[p], call[p].to)
      /\ UNCHANGED <<payStatus, payFor, refunded, restocked, charged>>
  BY DEF UpdateStatusCommit
<1>2. call[p].to \in SellerOrderStatus /\ call[p].to # "CANCELLED"
  BY <1>1, RequestFields DEF CallInv
<1>3. View(claimed[p], call[p].to) \in [SellerOrders -> SellerOrderStatus]
  BY <1>2, HelperTypes DEF TxTypeOK
<1>4. DbTypeOK'
  BY <1>1, <1>3 DEF DbTypeOK, TxTypeOK
<1>5. Charged' = Charged
  BY <1>1 DEF Charged
<1>6. \A s \in SellerOrders : /\ refunded'[s] = refunded[s] + refunding[p][s]
                              /\ restocked'[s] >= restocked[s]
  BY <1>1, NoRefunding DEF DbTypeOK
<1>7. \A s \in SellerOrders : soStatus'[s] = "CANCELLED" => soStatus[s] = "CANCELLED"
  BY <1>1, <1>2 DEF View
<1>8. payStatus' \in Paid \cup {"REFUNDED"} => Charged'
  BY <1>1, <1>5 DEF ChargeInv
<1>9. QED  BY <1>1, <1>4, <1>5, <1>6, <1>7, <1>8, CommitStep

-----------------------------------------------------------------------------
(* The invariant, and the properties it implies *)

\* The state checkout leaves satisfies the invariant.
LEMMA InitInvariant == Init => IInv
<1> SUFFICES ASSUME Init
             PROVE  IInv
  OBVIOUS
<1> USE LinesAssumption DEF Init, NoUnits
<1>1. TypeOK
  BY DEF TypeOK, DbTypeOK, TxTypeOK, OrderStatus, SellerOrderStatus, PaymentStatus, Steps,
         SnapshotType, NoSnapshot
<1>2. CallInv
  BY DEF CallInv
<1>3. LockInv
  BY DEF LockInv
<1>4. RestockInv
  BY DEF RestockInv
<1>5. ChargeInv
  BY DEF ChargeInv, Paid, NoSnapshot
<1>6. RefundNeverExceedsQuantity /\ CancelledUnitsAccounted /\ RefundsWereCharged
  BY DEF RefundNeverExceedsQuantity, CancelledUnitsAccounted, RefundsWereCharged
<1>7. QED  BY <1>1, <1>2, <1>3, <1>4, <1>5, <1>6 DEF IInv

\* Every step preserves it.
LEMMA NextInvariant == IInv /\ [Next]_vars => IInv'
<1> SUFFICES ASSUME IInv, [Next]_vars
             PROVE  IInv'
  OBVIOUS
<1>1. CASE UNCHANGED vars
  BY <1>1 DEF vars, db, tx, IInv, TypeOK, DbTypeOK, TxTypeOK, CallInv, LockInv, RestockInv,
              ChargeInv, Charged, Payable, RefundNeverExceedsQuantity,
              CancelledUnitsAccounted, RefundsWereCharged
<1>2. ASSUME NEW p \in Procs, NEW r \in Requests, Start(p, r)
      PROVE  IInv'
  BY <1>2, StartStep
<1>3. ASSUME NEW p \in Procs, Step(p)
      PROVE  IInv'
  BY <1>3, RollbackStep, PayPendingStep, PayReadStep, PayOrdersStep, PayWriteStep,
     PayCommitStep, PayReconcileStep, PayReconcileCommitStep, CancelPaymentWriteStep,
     CancelPaymentCommitStep, CancelOrderClaimStep, CancelOrderPaymentStep,
     CancelOrderCommitStep, CancelSellerOrderClaimStep, CancelSellerOrderOrderStep,
     CancelSellerOrderCommitStep, RefundLockStep, RefundCommitStep, UpdateStatusWriteStep,
     UpdateStatusCommitStep
     DEF Step, Abort
<1>4. QED  BY <1>1, <1>2, <1>3 DEF Next

\* Every step of a handler of the order keeps the invariant.
THEOREM Invariant == Spec => []IInv
BY InitInvariant, NextInvariant, PTL DEF Spec

\* Every reachable state is well typed.
THEOREM TypeCorrect == Spec => []TypeOK
BY Invariant, PTL DEF IInv

\* However requests interleave, abort and repeat, refunds never exceed what was bought.
THEOREM RefundsBounded == Spec => []RefundNeverExceedsQuantity
BY Invariant, PTL DEF IInv

\* Refunds only follow a charge.
THEOREM RefundsFollowCharge == Spec => []RefundsWereCharged
BY Invariant, PTL DEF IInv

\* The units of a cancelled sub-order are back in stock or refunded.
THEOREM CancelledAccounted == Spec => []CancelledUnitsAccounted
BY Invariant, PTL DEF IInv

-----------------------------------------------------------------------------
(* A key charges at most once: the payment row is locked by one transaction *)
(* at a time, and the charge is looked up after taking that lock.            *)

\* What a step of p does to the payment lock, to p's call and to the charges.
PaymentLockEffect(p) ==
    /\ \A q \in Procs \ {p} : pc'[q] = pc[q] /\ seen'[q] = seen[q] /\ call'[q] = call[q]
    /\ LocksPayment(p)' => LocksPayment(p) \/ PaymentFree(p)
    /\ pc'[p] = "payCommit" => pc[p] = "payWrite" /\ call' = call /\ charged[call[p].key] = {}
    /\ \/ charged' = charged
       \/ /\ pc[p] = "payCommit" /\ pc'[p] = "idle"
          /\ \A k \in Keys : charged'[k] # charged[k] => k = call[p].key

\* The first step of a request locks nothing.
LEMMA StartLockEffect ==
    ASSUME TypeOK, NEW p \in Procs, NEW r \in Requests, Start(p, r)
    PROVE  PaymentLockEffect(p)
<1>1. PICK next \in {"payPending", "payRead", "cpWrite", "coClaim", "csClaim", "rfLock",
                     "usWrite"}, read \in {Snapshot, NoSnapshot} : Begin(p, r, next, read)
  BY DEF Start, PayStart, CancelPaymentStart, CancelOrderStart, CancelSellerOrderStart,
         RefundStart, UpdateStatusStart
<1>2. QED
  BY <1>1 DEF PaymentLockEffect, Begin, TypeOK, TxTypeOK, LocksPayment, db

\* The payment is locked by a write that waits for it to be free.
LEMMA StepLockEffect ==
    ASSUME TypeOK, NEW p \in Procs, Step(p)
    PROVE  PaymentLockEffect(p)
<1> USE DEF TypeOK, TxTypeOK
<1>1. CASE Finish(p) /\ charged' = charged
  BY <1>1 DEF PaymentLockEffect, Finish, LocksPayment
<1>2. CASE Rollback(p)
  BY <1>1, <1>2 DEF Rollback, db
<1>3. CASE PayPending(p)
  BY <1>2, <1>3 DEF PayPending, Goto, PaymentLockEffect, LocksPayment, db
<1>4. CASE PayRead(p)
  BY <1>2, <1>4 DEF PayRead, Goto, PaymentLockEffect, LocksPayment, db
<1>5. CASE PayOrders(p)
  BY <1>2, <1>5 DEF PayOrders, Goto, PaymentLockEffect, LocksPayment, db
<1>6. CASE PayWrite(p)
  BY <1>2, <1>6 DEF PayWrite, ChargeRejected, Goto, PaymentLockEffect, LocksPayment, db
<1>7. CASE PayCommit(p)
  BY <1>7 DEF PayCommit, Finish, PaymentLockEffect, LocksPayment, DbTypeOK
<1>8. CASE PayReconcile(p)
  BY <1>2, <1>8 DEF PayReconcile, Goto, PaymentLockEffect, LocksPayment, db
<1>9. CASE PayReconcileCommit(p)
  BY <1>1, <1>2, <1>9 DEF PayReconcileCommit
<1>10. CASE CancelPaymentWrite(p)
  BY <1>2, <1>10 DEF CancelPaymentWrite, Goto, PaymentLockEffect, LocksPayment, db
<1>11. CASE CancelPaymentCommit(p)
  BY <1>1, <1>2, <1>11 DEF CancelPaymentCommit
<1>12. CASE CancelOrderClaim(p)
  BY <1>2, <1>12 DEF CancelOrderClaim, Goto, PaymentLockEffect, LocksPayment, db
<1>13. CASE CancelOrderPayment(p)
  BY <1>2, <1>13 DEF CancelOrderPayment, Goto, PaymentLockEffect, LocksPayment, db
<1>14. CASE CancelOrderCommit(p)
  BY <1>1, <1>2, <1>14 DEF CancelOrderCommit
<1>15. CASE CancelSellerOrderClaim(p)
  BY <1>2, <1>15 DEF CancelSellerOrderClaim, Goto, PaymentLockEffect, LocksPayment, db
<1>16. CASE CancelSellerOrderOrder(p)
  BY <1>2, <1>16 DEF CancelSellerOrderOrder, Goto, PaymentLockEffect, LocksPayment, db
<1>17. CASE CancelSellerOrderCommit(p)
  BY <1>1, <1>2, <1>17 DEF CancelSellerOrderCommit
<1>18. CASE RefundLock(p)
  BY <1>2, <1>18 DEF RefundLock, Goto, PaymentLockEffect, LocksPayment, db
<1>19. CASE RefundCommit(p)
  BY <1>1, <1>2, <1>19 DEF RefundCommit
<1>20. CASE UpdateStatusWrite(p)
  BY <1>2, <1>20 DEF UpdateStatusWrite, Goto, PaymentLockEffect, LocksPayment, db
<1>21. CASE UpdateStatusCommit(p)
  BY <1>1, <1>2, <1>21 DEF UpdateStatusCommit
<1>22. QED
  BY <1>1, <1>2, <1>3, <1>4, <1>5, <1>6, <1>7, <1>8, <1>9, <1>10, <1>11, <1>12, <1>13,
      <1>14, <1>15, <1>16, <1>17, <1>18, <1>19, <1>20, <1>21
     DEF Step, Abort

\* A step of a handler keeps the payment row's one holder and the keys' one charge.
LEMMA PaymentLockStep ==
    ASSUME PaymentLockInv, NEW p \in Procs, PaymentLockEffect(p)
    PROVE  PaymentLockInv'
<1>1. \A q \in Procs \ {p} : LocksPayment(q)' = LocksPayment(q)
  BY DEF PaymentLockEffect, LocksPayment
<1>2. \A q, r \in Procs : q # r => ~(LocksPayment(q)' /\ LocksPayment(r)')
  BY <1>1 DEF PaymentLockInv, PaymentLockEffect, PaymentFree
<1>3. ASSUME NEW q \in Procs, pc'[q] = "payCommit"
      PROVE  charged'[call'[q].key] = {}
  <2>1. CASE q = p
    BY <1>3, <2>1 DEF PaymentLockEffect
  <2>2. CASE q # p
    <3>1. LocksPayment(q) /\ charged[call[q].key] = {} /\ call'[q] = call[q]
      BY <1>3, <2>2 DEF PaymentLockInv, PaymentLockEffect, LocksPayment
    <3>2. ~LocksPayment(p)
      BY <2>2, <3>1 DEF PaymentLockInv
    <3>3. charged' = charged
      BY <3>2 DEF PaymentLockEffect, LocksPayment
    <3>4. QED  BY <3>1, <3>3
  <2>3. QED  BY <2>1, <2>2
<1>4. QED  BY <1>2, <1>3 DEF PaymentLockInv

\* An Idempotency-Key never charges twice.
THEOREM OneChargePerKey == Spec => ChargedOncePerKey
<1>1. Init => PaymentLockInv
  BY DEF Init, PaymentLockInv, LocksPayment
<1>2. ASSUME TypeOK, [Next]_vars
      PROVE  UNCHANGED vars \/ \E p \in Procs : PaymentLockEffect(p)
  BY <1>2, StartLockEffect, StepLockEffect DEF Next
<1>3. TypeOK /\ PaymentLockInv /\ [Next]_vars => PaymentLockInv'
  BY <1>2, PaymentLockStep DEF vars, db, tx, PaymentLockInv, LocksPayment
<1>4. ASSUME TypeOK, PaymentLockInv, [Next]_vars
      PROVE  [\A k \in Keys : charged[k] # {} => charged'[k] = charged[k]]_vars
  BY <1>2, <1>4 DEF PaymentLockEffect, PaymentLockInv
<1>5. QED
  BY <1>1, <1>3, <1>4, TypeCorrect, PTL DEF Spec, ChargedOncePerKey

-----------------------------------------------------------------------------
(* The helpers of the proofs about whole behaviours *)

\* The refunds of a whole order add up to its subtotals only when every unit was refunded.
LEMMA AllUnitsRefunded ==
    ASSUME NEW f \in [SellerOrders -> Nat], \A s \in SellerOrders : f[s] =< Qty[s],
           RefundedStatus(f, SellerOrders) = "REFUNDED", NEW s \in SellerOrders
    PROVE  f[s] = Qty[s]
<1> DEFINE whole == [t \in SellerOrders |-> IF t \in SellerOrders THEN Qty[t] ELSE 0]
           a == [t \in SellerOrders |-> f[t] * Price[t]]
           b == [t \in SellerOrders |-> whole[t] * Price[t]]
<1> USE SellerOrdersAssumption, LinesAssumption
<1>1. SumFunctionOnSet(a, SellerOrders) >= SumFunctionOnSet(b, SellerOrders)
  BY DEF RefundedStatus, Subtotals, Amount
<1>2. \A t \in SellerOrders : /\ a[t] = f[t] * Price[t] /\ b[t] = Qty[t] * Price[t]
                              /\ a[t] \in Int /\ b[t] \in Int /\ a[t] =< b[t]
  <2> SUFFICES ASSUME NEW t \in SellerOrders
               PROVE  /\ a[t] = f[t] * Price[t] /\ b[t] = Qty[t] * Price[t]
                      /\ a[t] \in Int /\ b[t] \in Int /\ a[t] =< b[t]
    OBVIOUS
  <2>1. a[t] = f[t] * Price[t] /\ b[t] = Qty[t] * Price[t]
    OBVIOUS
  <2>2. \A x, y, z \in Nat : x =< y => x * z \in Int /\ y * z \in Int /\ x * z =< y * z
    OBVIOUS
  <2>3. QED  BY <2>1, <2>2
<1> HIDE DEF a, b
<1>3. a[s] = b[s]
  BY <1>1, <1>2, SumTight
<1>4. f[s] * Price[s] = Qty[s] * Price[s]
  BY <1>2, <1>3
<1>5. \A x, y \in Nat, z \in Nat \ {0} : x * z = y * z => x = y
  OBVIOUS
<1>6. QED  BY <1>4, <1>5

\* A step of a handler leaves the others' variables alone.
OnlyOf(p) ==
    \A q \in Procs \ {p} :
        /\ pc'[q] = pc[q] /\ call'[q] = call[q] /\ seen'[q] = seen[q]
        /\ claimed'[q] = claimed[q] /\ refunding'[q] = refunding[q]
        /\ restocking'[q] = restocking[q] /\ payNext'[q] = payNext[q]

\* Whatever the step, it changes only its handler's variables.
LEMMA StepOnlyOf ==
    ASSUME TxTypeOK, NEW p \in Procs, Step(p) \/ \E r \in Requests : Start(p, r)
    PROVE  OnlyOf(p)
<1> USE DEF TxTypeOK, OnlyOf
<1>1. CASE Finish(p)
  BY <1>1 DEF Finish
<1>2. CASE Rollback(p)
  BY <1>1, <1>2 DEF Rollback
<1>3. CASE \E r \in Requests : Start(p, r)
  BY <1>3 DEF Start, PayStart, CancelPaymentStart, CancelOrderStart, CancelSellerOrderStart,
     RefundStart, UpdateStatusStart, Begin
<1>4. CASE PayPending(p)
  BY <1>4 DEF PayPending, Goto
<1>5. CASE PayRead(p)
  BY <1>2, <1>5 DEF PayRead, Goto
<1>6. CASE PayOrders(p)
  BY <1>2, <1>6 DEF PayOrders, Goto
<1>7. CASE PayWrite(p)
  BY <1>2, <1>7 DEF PayWrite, Goto
<1>8. CASE PayReconcile(p)
  BY <1>8 DEF PayReconcile, Goto
<1>9. CASE CancelPaymentWrite(p)
  BY <1>9 DEF CancelPaymentWrite, Goto
<1>10. CASE CancelOrderClaim(p)
  BY <1>2, <1>10 DEF CancelOrderClaim, Goto
<1>11. CASE CancelOrderPayment(p)
  BY <1>11 DEF CancelOrderPayment, Goto
<1>12. CASE CancelSellerOrderClaim(p)
  BY <1>2, <1>12 DEF CancelSellerOrderClaim, Goto
<1>13. CASE CancelSellerOrderOrder(p)
  BY <1>13 DEF CancelSellerOrderOrder, Goto
<1>14. CASE RefundLock(p)
  BY <1>2, <1>14 DEF RefundLock, Goto
<1>15. CASE UpdateStatusWrite(p)
  BY <1>15 DEF UpdateStatusWrite, Goto
<1>16. CASE PayCommit(p) \/ PayReconcileCommit(p) \/ CancelPaymentCommit(p)
  BY <1>1, <1>2, <1>16 DEF PayCommit, PayReconcileCommit, CancelPaymentCommit
<1>17. CASE CancelOrderCommit(p) \/ CancelSellerOrderCommit(p)
  BY <1>1, <1>2, <1>17 DEF CancelOrderCommit, CancelSellerOrderCommit
<1>18. CASE RefundCommit(p) \/ UpdateStatusCommit(p)
  BY <1>1, <1>2, <1>18 DEF RefundCommit, UpdateStatusCommit
<1>19. QED
  BY <1>2, <1>3, <1>4, <1>5, <1>6, <1>7, <1>8, <1>9, <1>10, <1>11, <1>12, <1>13, <1>14,
     <1>15, <1>16, <1>17, <1>18 DEF Step, Abort

\* The request that begins to be served is recorded with what was read.
LEMMA StartEffect ==
    ASSUME TxTypeOK, NEW p \in Procs, NEW r \in Requests, NEW next, NEW read,
           Begin(p, r, next, read)
    PROVE  /\ UNCHANGED db
           /\ pc[p] = "idle" /\ pc'[p] = next /\ call'[p] = r /\ seen'[p] = read
           /\ claimed'[p] = claimed[p] /\ refunding'[p] = refunding[p]
           /\ restocking'[p] = restocking[p] /\ payNext'[p] = payNext[p]
BY DEF TxTypeOK, Begin

\* A request that ends leaves nothing behind.
LEMMA FinishEffect ==
    ASSUME TxTypeOK, NEW p \in Procs, Finish(p)
    PROVE  /\ pc'[p] = "idle" /\ seen'[p] = NoSnapshot /\ claimed'[p] = {}
           /\ refunding'[p] = NoUnits /\ restocking'[p] = NoUnits
BY DEF TxTypeOK, Finish

-----------------------------------------------------------------------------
(* Before the payment *)

\* What a step of p may do to an order whose sub-orders are not yet handled.
UnpaidEffect(p) ==
    /\ \A s \in SellerOrders : soStatus[s] = "CANCELLED" => soStatus'[s] = "CANCELLED"
    /\ \A q \in Procs \ {p} : \A s \in claimed[q] : soStatus'[s] = soStatus[s]
    /\ \A s \in SellerOrders : ChargedFor(s) => ChargedFor(s)'
    /\ Charged => Charged'

\* Such a step keeps what is said of the other handlers.
LEMMA UnpaidOthers ==
    ASSUME TypeOK, NEW p \in Procs, OnlyOf(p), UnpaidEffect(p),
           NEW q \in Procs \ {p}, UnpaidCall(q)
    PROVE  UnpaidCall(q)'
<1>1. Payable(q)' = Payable(q)
  BY DEF OnlyOf, Payable
<1>2. /\ pc'[q] = pc[q] /\ call'[q] = call[q] /\ seen'[q] = seen[q]
      /\ claimed'[q] = claimed[q] /\ refunding'[q] = refunding[q]
  BY DEF OnlyOf
<1>3. claimed[q] \subseteq SellerOrders /\ refunding[q] \in [SellerOrders -> Nat]
  BY DEF TypeOK, TxTypeOK
<1>4. pc[q] = "rfLock" /\ seen[q].pay \in Paid /\ ChargedFor(call[q].so) => ChargedFor(call[q].so)'
  <2>1. \A s : ChargedFor(s) => s \in SellerOrders
    BY DEF TypeOK, DbTypeOK, ChargedFor
  <2>2. (\E s \in SellerOrders : s = call[q].so /\ ChargedFor(s)) => ChargedFor(call[q].so)'
    BY <1>2 DEF UnpaidEffect, ChargedFor
  <2>3. QED  BY <2>1, <2>2
<1>5. QED
  BY <1>1, <1>2, <1>3, <1>4 DEF UnpaidCall, UnpaidEffect, TypeOK, DbTypeOK

\* A step inside a transaction.
LEMMA UnpaidLocal ==
    ASSUME TypeOK, UnpaidInv, NEW p \in Procs, OnlyOf(p), UNCHANGED db, UnpaidCall(p)'
    PROVE  UnpaidInv'
<1>1. \A s : ChargedFor(s)' <=> ChargedFor(s)
  BY DEF ChargedFor, db
<1>2. Charged' = Charged
  BY DEF Charged, db
<1>3. UnpaidEffect(p)
  BY <1>1, <1>2 DEF UnpaidEffect, db
<1>4. \A q \in Procs \ {p} : UnpaidCall(q)'
  BY <1>3, UnpaidOthers DEF UnpaidInv
<1>5. UnpaidOrder'
  BY <1>1, <1>2 DEF UnpaidInv, UnpaidOrder, db
<1>6. QED  BY <1>4, <1>5 DEF UnpaidInv

\* The end of a request.
LEMMA UnpaidFinish ==
    ASSUME TypeOK, UnpaidInv, NEW p \in Procs, OnlyOf(p), Finish(p), UnpaidEffect(p),
           UnpaidOrder'
    PROVE  UnpaidInv'
<1>1. UnpaidCall(p)'
  BY FinishEffect DEF TypeOK, UnpaidCall, NoUnits
<1>2. \A q \in Procs \ {p} : UnpaidCall(q)'
  BY UnpaidOthers DEF UnpaidInv
<1>3. QED  BY <1>1, <1>2 DEF UnpaidInv

\* A request that fails.
LEMMA UnpaidRollback ==
    ASSUME TypeOK, UnpaidInv, NEW p \in Procs, OnlyOf(p), Rollback(p)
    PROVE  UnpaidInv'
<1>1. UnpaidCall(p)'
  BY FinishEffect DEF TypeOK, UnpaidCall, NoUnits, Rollback
<1>2. QED  BY <1>1, UnpaidLocal DEF Rollback

\* A commit that charges nothing and only cancels rows it has locked.
LEMMA UnpaidCancel ==
    ASSUME TypeOK, LockInv, UnpaidInv, NEW p \in Procs, OnlyOf(p), Finish(p),
           UNCHANGED charged,
           soStatus' \in {soStatus, View(claimed[p], "CANCELLED")},
           refunded' \in {refunded, Plus(refunded, refunding[p])}
    PROVE  UnpaidInv'
<1>1. \A s : ChargedFor(s)' <=> ChargedFor(s)
  BY DEF ChargedFor
<1>2. Charged' = Charged
  BY DEF Charged
<1>3. \A s \in SellerOrders : soStatus'[s] \in {soStatus[s], "CANCELLED"}
  BY DEF View
<1>4. \A s \in SellerOrders \ claimed[p] : soStatus'[s] = soStatus[s]
  BY DEF View
<1>5. UnpaidEffect(p)
  BY <1>1, <1>2, <1>3, <1>4 DEF UnpaidEffect, LockInv, TypeOK, TxTypeOK
<1>6. \A s \in SellerOrders : refunded'[s] > 0 => refunded[s] > 0 \/ refunding[p][s] > 0
  BY DEF Plus, TypeOK, DbTypeOK, TxTypeOK
<1>7. UnpaidOrder'
  BY <1>1, <1>2, <1>3, <1>6 DEF UnpaidInv, UnpaidOrder, UnpaidCall
<1>8. QED  BY <1>5, <1>7, UnpaidFinish

\* A customer's request begins.
LEMMA UnpaidStart ==
    ASSUME IInv, UnpaidInv, NEW p \in Procs, NEW r \in Requests, r.op # "updateStatus",
           Start(p, r)
    PROVE  UnpaidInv'
<1> USE DEF IInv, TypeOK
<1>1. OnlyOf(p)
  BY StepOnlyOf
<1>2. \A s \in SellerOrders : refunding[p][s] > 0 => ChargedFor(s)
  BY DEF UnpaidInv, UnpaidCall
<1>3. ASSUME UNCHANGED db, refunding'[p] = refunding[p],
             pc'[p] \in {"payPending", "payRead", "cpWrite", "coClaim", "csClaim", "rfLock"},
             pc'[p] = "rfLock" => r.op = "refund" /\ soStatus[r.so] # "CANCELLED"
                                  /\ call'[p] = r /\ seen'[p].pay = payStatus
      PROVE  UnpaidInv'
  <2>1. \A s : ChargedFor(s)' <=> ChargedFor(s)
    BY <1>3 DEF ChargedFor, db
  <2>2. pc'[p] = "rfLock" /\ payStatus \in Paid => ChargedFor(r.so)
    BY <1>3, RequestFields DEF ChargeInv, UnpaidInv, UnpaidOrder
  <2>3. pc'[p] = "rfLock" /\ seen'[p].pay \in Paid => ChargedFor(call[p].so)'
    BY <1>3, <2>2 DEF ChargedFor, db
  <2>4. UnpaidCall(p)'
    BY <1>2, <1>3, <2>1, <2>3 DEF UnpaidCall
  <2>5. QED  BY <1>1, <1>3, <2>4, UnpaidLocal
<1>4. CASE PayStart(p, r)
  BY <1>3, <1>4, StartEffect DEF PayStart
<1>5. CASE CancelPaymentStart(p, r)
  BY <1>3, <1>5, StartEffect DEF CancelPaymentStart
<1>6. CASE CancelOrderStart(p, r)
  BY <1>3, <1>6, StartEffect DEF CancelOrderStart
<1>7. CASE CancelSellerOrderStart(p, r)
  BY <1>3, <1>7, StartEffect DEF CancelSellerOrderStart
<1>8. CASE RefundStart(p, r)
  BY <1>3, <1>8, StartEffect DEF RefundStart, Snapshot
<1>9. CASE UpdateStatusStart(p, r)
  BY <1>9 DEF UpdateStatusStart
<1>10. QED  BY <1>4, <1>5, <1>6, <1>7, <1>8, <1>9 DEF Start

\* payOrder marks the order and its new sub-orders.
LEMMA UnpaidPayPending ==
    ASSUME IInv, UnpaidInv, NEW p \in Procs, PayPending(p)
    PROVE  UnpaidInv'
<1> USE DEF IInv, TypeOK
<1> DEFINE fresh == {s \in SellerOrders : soStatus[s] = "NEW"}
<1>1. /\ pc[p] = "payPending" /\ SellerOrdersFree(p, fresh)
      /\ soStatus' = View(fresh, "PAYMENT_PENDING")
      /\ pc'[p] = "payRead" /\ refunding'[p] = refunding[p]
      /\ UNCHANGED <<charged, refunded>>
  BY DEF PayPending, Goto, TxTypeOK
<1>2. OnlyOf(p)
  BY StepOnlyOf DEF Step
<1>3. /\ \A s : ChargedFor(s)' <=> ChargedFor(s)
      /\ Charged' = Charged
  BY <1>1 DEF ChargedFor, Charged
<1>4. \A s \in SellerOrders : \/ soStatus'[s] = soStatus[s]
                              \/ soStatus[s] = "NEW" /\ soStatus'[s] = "PAYMENT_PENDING"
  BY <1>1 DEF View
<1>5. \A q \in Procs \ {p} : \A s \in claimed[q] : soStatus'[s] = soStatus[s]
  BY <1>1 DEF View, SellerOrdersFree, TxTypeOK
<1>6. UnpaidEffect(p)
  BY <1>3, <1>4, <1>5 DEF UnpaidEffect
<1>7. UnpaidCall(p)'
  BY <1>1, <1>3 DEF UnpaidInv, UnpaidCall
<1>8. \A q \in Procs \ {p} : UnpaidCall(q)'
  BY <1>2, <1>6, UnpaidOthers DEF UnpaidInv
<1>9. UnpaidOrder'
  BY <1>1, <1>3, <1>4 DEF UnpaidInv, UnpaidOrder, BeforePayment
<1>10. QED  BY <1>7, <1>8, <1>9 DEF UnpaidInv

\* payOrder reads the sub-orders, then locks the unpaid ones and looks at all again.
LEMMA UnpaidPay ==
    ASSUME IInv, UnpaidInv, NEW p \in Procs, PayRead(p) \/ PayOrders(p) \/ PayWrite(p)
    PROVE  UnpaidInv'
<1> USE DEF IInv, TypeOK
<1>1. OnlyOf(p)
  BY StepOnlyOf DEF Step
<1> SUFFICES ASSUME ~Rollback(p)
             PROVE  UnpaidInv'
  BY <1>1, UnpaidRollback
<1>2. UNCHANGED db /\ refunding'[p] = refunding[p]
  BY DEF PayRead, PayOrders, PayWrite
<1>3. /\ \A s : ChargedFor(s)' <=> ChargedFor(s)
      /\ Charged' = Charged
      /\ soStatus' = soStatus
  BY <1>2 DEF ChargedFor, Charged, db
<1>4. \A s \in SellerOrders : refunding'[p][s] > 0 => ChargedFor(s)'
  BY <1>2, <1>3 DEF UnpaidInv, UnpaidCall
<1>5. CASE PayRead(p)
  <2>1. pc'[p] \in {"payOrders", "payReconcile"}
    BY <1>5 DEF PayRead, Goto, TxTypeOK
  <2>2. UnpaidCall(p)'
    BY <1>4, <2>1 DEF UnpaidCall
  <2>3. QED  BY <1>1, <1>2, <2>2, UnpaidLocal
<1>6. CASE PayOrders(p)
  <2>1. pc'[p] = "payWrite" /\ seen' = [seen EXCEPT ![p].so = soStatus]
    BY <1>6 DEF PayOrders, Goto, TxTypeOK
  <2>2. seen[p] \in SnapshotType
    BY DEF TxTypeOK
  <2>3. seen'[p].so = soStatus
    BY <2>1, <2>2 DEF TxTypeOK, SnapshotType
  <2>4. \A s \in SellerOrders : soStatus'[s] # "CANCELLED" => s \in Payable(p)'
    BY <1>3, <2>3 DEF Payable
  <2>5. UnpaidCall(p)'
    BY <1>4, <2>1, <2>4 DEF UnpaidCall
  <2>6. QED  BY <1>1, <1>2, <2>5, UnpaidLocal
<1>7. CASE PayWrite(p)
  <2> DEFINE unpaid == {s \in SellerOrders : soStatus[s] \in BeforePayment}
  <2>1. /\ pc[p] = "payWrite" /\ pc'[p] = "payCommit" /\ claimed'[p] = unpaid
        /\ seen' = seen /\ ~ChargeRejected(p, View(unpaid, "PROCESSING"))
    BY <1>7 DEF PayWrite, Goto, TxTypeOK
  <2>2. \A s \in SellerOrders : soStatus'[s] # "CANCELLED" => s \in Payable(p)'
    BY <1>3, <2>1 DEF UnpaidInv, UnpaidCall, Payable
  <2>3. unpaid # {} \/ Charged
    <3>1. PICK s \in SellerOrders : View(unpaid, "PROCESSING")[s] # "CANCELLED"
      BY <2>1 DEF ChargeRejected
    <3>2. s \in unpaid \/ soStatus[s] \notin BeforePayment \cup {"CANCELLED"}
      BY <3>1 DEF View
    <3>3. QED  BY <3>2 DEF UnpaidInv, UnpaidOrder
  <2>4. \A s \in unpaid : soStatus'[s] # "CANCELLED"
    BY <1>3 DEF BeforePayment
  <2>5. UnpaidCall(p)'
    BY <1>3, <1>4, <2>1, <2>2, <2>3, <2>4 DEF UnpaidCall
  <2>6. QED  BY <1>1, <1>2, <2>5, UnpaidLocal
<1>8. QED  BY <1>5, <1>6, <1>7

\* The charge is for all that is not cancelled.
LEMMA UnpaidPayCommit ==
    ASSUME IInv, PaymentLockInv, UnpaidInv, NEW p \in Procs, PayCommit(p)
    PROVE  UnpaidInv'
<1> USE DEF IInv, TypeOK
<1> DEFINE key == call[p].key
<1>1. /\ pc[p] = "payCommit" /\ Finish(p) /\ key \in Keys
      /\ soStatus' = View(claimed[p], "PROCESSING")
      /\ charged' = [charged EXCEPT ![key] = Payable(p)]
      /\ UNCHANGED refunded
  BY RequestFields DEF PayCommit, CallInv
<1>2. OnlyOf(p)
  BY StepOnlyOf DEF Step
<1>3. charged[key] = {} /\ Payable(p) # {}
  BY <1>1 DEF PaymentLockInv, ChargeInv
<1>4. /\ \A s : ChargedFor(s) => ChargedFor(s)'
      /\ \A s \in Payable(p) : ChargedFor(s)'
      /\ Charged'
  BY <1>1, <1>3 DEF ChargedFor, Charged, DbTypeOK
<1>5. \A s \in claimed[p] : soStatus[s] # "CANCELLED"
  BY <1>1 DEF UnpaidInv, UnpaidCall
<1>6. \A s \in SellerOrders : soStatus'[s] = "CANCELLED" <=> soStatus[s] = "CANCELLED"
  BY <1>1, <1>5 DEF View
<1>7. \A s \in SellerOrders : s \notin claimed[p] => soStatus'[s] = soStatus[s]
  BY <1>1 DEF View
<1>8. UnpaidEffect(p)
  BY <1>4, <1>6, <1>7 DEF UnpaidEffect, LockInv, TxTypeOK
<1>9. \A s \in SellerOrders : soStatus'[s] # "CANCELLED" => ChargedFor(s)'
  BY <1>1, <1>4, <1>6 DEF UnpaidInv, UnpaidCall
<1>10. \A s \in SellerOrders : soStatus'[s] # "COMPLETED"
  BY <1>1 DEF View, UnpaidInv, UnpaidOrder
<1>11. UnpaidOrder'
  BY <1>1, <1>4, <1>9, <1>10 DEF UnpaidInv, UnpaidOrder
<1>12. QED  BY <1>1, <1>2, <1>8, <1>11, UnpaidFinish

\* A cancellation or a refund collects what it will write.
LEMMA UnpaidCollect ==
    ASSUME IInv, UnpaidInv, NEW p \in Procs,
           \/ CancelPaymentWrite(p) \/ CancelOrderClaim(p) \/ CancelOrderPayment(p)
           \/ CancelSellerOrderClaim(p) \/ CancelSellerOrderOrder(p)
           \/ RefundLock(p) \/ PayReconcile(p)
    PROVE  UnpaidInv'
<1> USE DEF IInv, TypeOK
<1>1. OnlyOf(p)
  BY StepOnlyOf DEF Step
<1> SUFFICES ASSUME ~Rollback(p)
             PROVE  UnpaidInv'
  BY <1>1, UnpaidRollback
<1>2. ASSUME UNCHANGED db,
             pc'[p] \in {"cpCommit", "coPayment", "coCommit", "csOrder", "csCommit", "rfCommit",
                         "payReconcileCommit"},
             \A s \in SellerOrders : refunding'[p][s] > 0 => ChargedFor(s)
      PROVE  UnpaidInv'
  <2>1. \A s : ChargedFor(s)' <=> ChargedFor(s)
    BY <1>2 DEF ChargedFor, db
  <2>2. UnpaidCall(p)'
    BY <1>2, <2>1 DEF UnpaidCall
  <2>3. QED  BY <1>1, <1>2, <2>2, UnpaidLocal
<1>3. \A s \in SellerOrders : refunding[p][s] > 0 => ChargedFor(s)
  BY DEF UnpaidInv, UnpaidCall
<1>4. CASE CancelPaymentWrite(p) \/ CancelOrderPayment(p) \/ CancelSellerOrderOrder(p) \/ PayReconcile(p)
  BY <1>2, <1>3, <1>4 DEF CancelPaymentWrite, CancelOrderPayment, CancelSellerOrderOrder,
     PayReconcile, Goto, TxTypeOK
<1>5. ASSUME NEW S \in SUBSET SellerOrders, seen[p].pay \in Paid,
             \A s \in S : soStatus[s] # "CANCELLED"
      PROVE  \A s \in SellerOrders : UnitsOf(S, Refundable)[s] > 0 => ChargedFor(s)
  BY <1>5 DEF UnpaidInv, UnpaidOrder, ChargeInv, UnitsOf
<1>6. CASE CancelOrderClaim(p)
  <2> DEFINE live == {s \in SellerOrders : soStatus[s] \in Cancellable("cancelOrder")}
  <2>1. /\ UNCHANGED db /\ pc'[p] = "coPayment"
        /\ refunding'[p] = IF seen[p].pay \in Paid THEN UnitsOf(live, Refundable) ELSE NoUnits
    BY <1>6 DEF CancelOrderClaim, Goto, TxTypeOK
  <2>2. \A s \in live : soStatus[s] # "CANCELLED"
    BY DEF Cancellable, BeforePayment
  <2> HIDE DEF live
  <2>3. live \in SUBSET SellerOrders
    BY DEF live
  <2>4. \A s \in SellerOrders : refunding'[p][s] > 0 => ChargedFor(s)
    BY <1>5, <2>1, <2>2, <2>3 DEF NoUnits
  <2>5. QED  BY <1>2, <2>1, <2>4
<1>7. CASE CancelSellerOrderClaim(p)
  <2> DEFINE so == call[p].so
  <2>1. /\ UNCHANGED db /\ pc'[p] = "csOrder" /\ soStatus[so] \in Cancellable(call[p].op)
        /\ refunding'[p] = IF seen[p].pay \in Paid THEN UnitsOf({so}, Refundable) ELSE NoUnits
        /\ so \in SellerOrders
    BY <1>7, RequestFields DEF CancelSellerOrderClaim, Goto, TxTypeOK, CallInv
  <2>2. soStatus[so] # "CANCELLED"
    BY <2>1 DEF Cancellable, BeforePayment
  <2> HIDE DEF so
  <2>3. \A s \in SellerOrders : refunding'[p][s] > 0 => ChargedFor(s)
    BY <1>5, <2>1, <2>2 DEF NoUnits
  <2>4. QED  BY <1>2, <2>1, <2>3
<1>8. CASE RefundLock(p)
  <2> DEFINE units == [t \in SellerOrders |-> IF t = call[p].so THEN call[p].qty ELSE 0]
  <2>1. /\ UNCHANGED db /\ pc[p] = "rfLock" /\ pc'[p] = "rfCommit" /\ seen[p].pay \in Paid
        /\ refunding'[p] = units
    BY <1>8 DEF RefundLock, RefundRejected, Goto, TxTypeOK
  <2>2. ChargedFor(call[p].so)
    BY <2>1 DEF UnpaidInv, UnpaidCall
  <2>3. \A s \in SellerOrders : refunding'[p][s] > 0 => ChargedFor(s)
    BY <2>1, <2>2
  <2>4. QED  BY <1>2, <2>1, <2>3
<1>9. QED  BY <1>4, <1>6, <1>7, <1>8

\* Whatever step is taken before the payment, the invariant holds after it.
LEMMA UnpaidStep ==
    ASSUME IInv, PaymentLockInv, UnpaidInv, NEW p \in Procs, Step(p)
    PROVE  UnpaidInv'
<1> USE DEF IInv, TypeOK
<1>1. OnlyOf(p)
  BY StepOnlyOf
<1>2. CASE Rollback(p)
  BY <1>1, <1>2, UnpaidRollback
<1>3. ASSUME Finish(p), UNCHANGED charged,
             soStatus' \in {soStatus, View(claimed[p], "CANCELLED")},
             refunded' \in {refunded, Plus(refunded, refunding[p])}
      PROVE  UnpaidInv'
  BY <1>1, <1>3, UnpaidCancel
<1>4. CASE PayReconcileCommit(p)
  BY <1>3, <1>4 DEF PayReconcileCommit
<1>5. CASE CancelPaymentCommit(p)
  BY <1>2, <1>3, <1>5 DEF CancelPaymentCommit
<1>6. CASE CancelOrderCommit(p)
  BY <1>2, <1>3, <1>6 DEF CancelOrderCommit
<1>7. CASE CancelSellerOrderCommit(p)
  BY <1>2, <1>3, <1>7 DEF CancelSellerOrderCommit
<1>8. CASE RefundCommit(p)
  BY <1>2, <1>3, <1>8 DEF RefundCommit
<1>9. CASE UpdateStatusWrite(p) \/ UpdateStatusCommit(p)
  BY <1>9 DEF UpdateStatusWrite, UpdateStatusCommit, UnpaidInv, UnpaidCall
<1>10. QED
  BY <1>2, <1>4, <1>5, <1>6, <1>7, <1>8, <1>9, UnpaidPayPending, UnpaidPay, UnpaidPayCommit,
     UnpaidCollect DEF Step, Abort

-----------------------------------------------------------------------------
(* After the payment *)

\* What a step of p may do to an order that is paid.
PaidEffect(p) ==
    /\ \A q \in Procs \ {p} : \A s \in claimed[q] : soStatus'[s] = soStatus[s]
    /\ refunded' \in {refunded, Plus(refunded, refunding[p])}
    /\ usedKeys \subseteq usedKeys'

\* Such a step keeps what is said of the other handlers.
LEMMA PaidOthers ==
    ASSUME TypeOK, LockInv, RefundNeverExceedsQuantity, RefundNeverExceedsQuantity',
           NEW p \in Procs, OnlyOf(p), PaidEffect(p), NEW q \in Procs \ {p}, PaidCall(q)
    PROVE  PaidCall(q)'
<1> USE LinesAssumption DEF TypeOK, DbTypeOK, TxTypeOK
<1>1. /\ pc'[q] = pc[q] /\ call'[q] = call[q] /\ seen'[q] = seen[q]
      /\ claimed'[q] = claimed[q] /\ refunding'[q] = refunding[q]
      /\ restocking'[q] = restocking[q] /\ payNext'[q] = payNext[q]
  BY DEF OnlyOf
<1>2. \A s \in SellerOrders : refunded[s] =< refunded'[s] /\ refunded'[s] =< Qty[s]
                              /\ refunded'[s] \in Nat
  BY DEF PaidEffect, Plus, RefundNeverExceedsQuantity
<1>3. AllRefunded => AllRefunded'
  <2> SUFFICES ASSUME \A s \in SellerOrders : refunded[s] = Qty[s], NEW s \in SellerOrders
               PROVE  refunded'[s] = Qty[s]
    BY DEF AllRefunded
  <2>1. refunded[s] =< refunded'[s] /\ refunded'[s] =< Qty[s] /\ refunded[s] = Qty[s]
    BY <1>2
  <2>2. Qty[s] \in Nat /\ refunded'[s] \in Nat
    BY <1>2
  <2>3. \A x, y \in Nat : x =< y /\ y =< x => x = y
    OBVIOUS
  <2>4. Qty[s] =< refunded'[s] /\ refunded'[s] =< Qty[s]
    BY <2>1
  <2>5. QED  BY <2>2, <2>3, <2>4, Zenon
<1>4. ASSUME \A s \in SellerOrders : refunded[s] + refunding[q][s] = Qty[s]
      PROVE  \A s \in SellerOrders : refunded'[s] + refunding'[q][s] = Qty[s]
  <2> SUFFICES ASSUME NEW s \in SellerOrders
               PROVE  refunded'[s] + refunding[q][s] = Qty[s]
    BY <1>1
  <2>1. CASE s \in claimed[q]
    <3>1. refunding[p][s] = 0
      BY <2>1 DEF LockInv
    <3>2. refunded'[s] = refunded[s]
      BY <3>1 DEF PaidEffect, Plus
    <3>3. QED  BY <1>4, <3>2
  <2>2. CASE s \notin claimed[q]
    BY <1>2, <1>4, <2>2 DEF LockInv
  <2>3. QED  BY <2>1, <2>2
<1>5. \A s : Shipped(s) => Shipped(s)'
  BY DEF PaidEffect, Shipped
<1>6. Shipped(call[q].so) => Shipped(call[q].so)'
  BY <1>1 DEF PaidEffect, Shipped
<1>7. \A s \in claimed[q] : soStatus'[s] = soStatus[s]
  BY DEF PaidEffect
<1>8. QED
  BY <1>1, <1>3, <1>4, <1>6, <1>7 DEF PaidCall

\* A step inside a transaction.
LEMMA PaidLocal ==
    ASSUME TypeOK, LockInv, RefundNeverExceedsQuantity, PaidInv, NEW p \in Procs, OnlyOf(p),
           UNCHANGED db, PaidCall(p)'
    PROVE  PaidInv'
<1>1. RefundNeverExceedsQuantity' /\ PaidEffect(p)
  BY DEF RefundNeverExceedsQuantity, PaidEffect, db
<1>2. \A q \in Procs \ {p} : PaidCall(q)'
  BY <1>1, PaidOthers DEF PaidInv
<1>3. PaidOrder'
  BY DEF PaidInv, PaidOrder, ChargedFor, Shipped, AllRefunded, db
<1>4. QED  BY <1>2, <1>3 DEF PaidInv

\* The end of a request.
LEMMA PaidFinish ==
    ASSUME TypeOK, LockInv, RefundNeverExceedsQuantity, RefundNeverExceedsQuantity', PaidInv,
           NEW p \in Procs, OnlyOf(p), Finish(p), PaidEffect(p), PaidOrder'
    PROVE  PaidInv'
<1>1. PaidCall(p)'
  BY FinishEffect DEF TypeOK, PaidCall, NoUnits, Cancelling
<1>2. \A q \in Procs \ {p} : PaidCall(q)'
  BY PaidOthers DEF PaidInv
<1>3. QED  BY <1>1, <1>2 DEF PaidInv

\* A request that fails.
LEMMA PaidRollback ==
    ASSUME TypeOK, LockInv, RefundNeverExceedsQuantity, PaidInv, NEW p \in Procs, OnlyOf(p),
           Rollback(p)
    PROVE  PaidInv'
<1>1. PaidCall(p)'
  BY FinishEffect DEF TypeOK, PaidCall, NoUnits, Cancelling, Rollback
<1>2. QED  BY <1>1, PaidLocal DEF Rollback

\* The commit of a cancellation or of a refund: the units and the payment's status
\* change together.
LEMMA PaidCommit ==
    ASSUME IInv, IInv', PaidInv, NEW p \in Procs, OnlyOf(p), Finish(p),
           UNCHANGED <<payFor, charged>>,
           soStatus' \in {soStatus, View(claimed[p], "CANCELLED")},
           refunded' = Plus(refunded, refunding[p]),
           restocked' = Plus(restocked, restocking[p]),
           usedKeys \subseteq usedKeys',
           \/ payStatus' = payStatus
           \/ /\ pc[p] \in {"coPayment", "coCommit", "csCommit", "rfCommit"}
              /\ seen[p].pay \in Paid /\ payStatus' = payNext[p]
    PROVE  PaidInv'
<1> USE LinesAssumption DEF IInv, TypeOK, DbTypeOK, TxTypeOK
<1>1. PaidCall(p) /\ PaidOrder
  BY DEF PaidInv
<1>2. \A s \in SellerOrders : soStatus'[s] \in {soStatus[s], "CANCELLED"}
  BY DEF View
<1>3. \A s \in SellerOrders \ claimed[p] : soStatus'[s] = soStatus[s]
  BY DEF View
<1>4. PaidEffect(p)
  BY <1>3 DEF PaidEffect, LockInv
<1>5. \A s \in SellerOrders : /\ refunded'[s] = refunded[s] + refunding[p][s]
                              /\ restocked'[s] = restocked[s] + restocking[p][s]
                              /\ restocking[p][s] =< refunding[p][s]
  BY <1>1 DEF Plus, PaidCall
<1>6. AllRefunded => AllRefunded'
  BY <1>5 DEF AllRefunded, RefundNeverExceedsQuantity
<1>7. payStatus' \in Paid \cup {"REFUNDED"} /\ (payStatus' = "REFUNDED" => AllRefunded')
  <2>1. CASE payStatus' = payStatus
    BY <1>1, <1>6, <2>1 DEF PaidOrder
  <2>2. CASE /\ pc[p] \in {"coPayment", "coCommit", "csCommit", "rfCommit"}
             /\ seen[p].pay \in Paid /\ payStatus' = payNext[p]
    <3>1. /\ payNext[p] \in {"PARTIALLY_REFUNDED", "REFUNDED"}
          /\ payNext[p] = "REFUNDED" =>
                \A s \in SellerOrders : refunded[s] + refunding[p][s] = Qty[s]
      BY <1>1, <2>2 DEF PaidCall
    <3>2. QED  BY <1>5, <2>2, <3>1 DEF AllRefunded, Paid
  <2>3. QED  BY <2>1, <2>2
<1>8. \A s \in SellerOrders :
         /\ ChargedFor(s)' /\ restocked'[s] =< refunded'[s]
         /\ soStatus'[s] \in {"PROCESSING", "SHIPPED", "COMPLETED", "CANCELLED"}
         /\ soStatus'[s] \in {"SHIPPED", "COMPLETED"} => Shipped(s)'
  <2>1. \A s \in SellerOrders : restocked[s] =< refunded[s]
    BY <1>1 DEF PaidOrder
  <2>2. \A s \in SellerOrders : /\ restocked[s] \in Nat /\ refunded[s] \in Nat
                                /\ restocking[p][s] \in Nat /\ refunding[p][s] \in Nat
    OBVIOUS
  <2>3. \A s \in SellerOrders : restocked'[s] =< refunded'[s]
    BY <1>5, <2>1, <2>2
  <2>4. \A s \in SellerOrders : ChargedFor(s)' /\ (Shipped(s) => Shipped(s)')
    BY <1>1 DEF PaidOrder, ChargedFor, Shipped
  <2>5. QED  BY <1>1, <1>2, <2>3, <2>4 DEF PaidOrder
<1>9. PaidOrder'
  BY <1>1, <1>7, <1>8 DEF PaidOrder
<1>10. QED  BY <1>4, <1>9, PaidFinish

\* A request begins.
LEMMA PaidStart ==
    ASSUME IInv, PaidInv, NEW p \in Procs, NEW r \in Requests, Start(p, r)
    PROVE  PaidInv'
<1> USE DEF IInv, TypeOK
<1>1. OnlyOf(p)
  BY StepOnlyOf
<1>2. /\ PaidOrder
      /\ \A s \in SellerOrders : restocking[p][s] =< refunding[p][s]
  BY DEF PaidInv, PaidCall
<1>3. ASSUME UNCHANGED db, refunding'[p] = refunding[p], restocking'[p] = restocking[p],
             \/ pc'[p] \in {"payRead"}
             \/ pc'[p] \in {"coClaim", "csClaim", "rfLock"} /\ seen'[p] = Snapshot
             \/ /\ pc'[p] = "usWrite" /\ seen'[p] = Snapshot /\ call'[p] = r
                /\ r.so \in SellerOrders /\ LegalTransition(soStatus[r.so], r.to)
      PROVE  PaidInv'
  <2>1. \A s : Shipped(s)' = Shipped(s)
    BY <1>3 DEF Shipped, db
  <2>2. AllRefunded' = AllRefunded
    BY <1>3 DEF AllRefunded, db
  <2>3. seen'[p] = Snapshot =>
           /\ seen'[p].pay \in Paid \cup {"REFUNDED"} /\ seen'[p].amountFor = SellerOrders
           /\ seen'[p].pay = "REFUNDED" => AllRefunded
           /\ seen'[p].so = soStatus
    BY <1>2 DEF PaidOrder, Snapshot
  <2>4. pc'[p] = "usWrite" =>
           \/ soStatus[r.so] = "PROCESSING" /\ r.to = "SHIPPED"
           \/ soStatus[r.so] = "SHIPPED" /\ r.to = "COMPLETED" /\ Shipped(r.so)
    BY <1>2, <1>3 DEF PaidOrder, LegalTransition
  <2>5. pc'[p] = "usWrite" =>
           LET from == seen'[p].so[call'[p].so]
           IN  \/ from = "PROCESSING" /\ call'[p].to = "SHIPPED"
               \/ from = "SHIPPED" /\ call'[p].to = "COMPLETED" /\ Shipped(r.so)'
    BY <1>3, <2>1, <2>3, <2>4
  <2>6. pc'[p] = "usWrite" => call'[p] = r /\ (Shipped(call[p].so)' <=> Shipped(r.so)')
    BY <1>3 DEF Shipped
  <2>7. PaidCall(p)'
    BY <1>2, <1>3, <2>2, <2>3, <2>5, <2>6 DEF PaidCall, Cancelling
  <2>8. QED  BY <1>1, <1>3, <2>7, PaidLocal
<1>4. CASE PayStart(p, r)
  BY <1>2, <1>3, <1>4, StartEffect DEF PayStart, PaidOrder, Paid
<1>5. CASE CancelPaymentStart(p, r)
  BY <1>2, <1>5 DEF CancelPaymentStart, PaidOrder, Paid
<1>6. CASE CancelOrderStart(p, r)
  BY <1>3, <1>6, StartEffect DEF CancelOrderStart
<1>7. CASE CancelSellerOrderStart(p, r)
  BY <1>3, <1>7, StartEffect DEF CancelSellerOrderStart
<1>8. CASE RefundStart(p, r)
  BY <1>3, <1>8, StartEffect DEF RefundStart
<1>9. CASE UpdateStatusStart(p, r)
  BY <1>3, <1>9, StartEffect, RequestFields DEF UpdateStatusStart
<1>10. QED  BY <1>4, <1>5, <1>6, <1>7, <1>8, <1>9 DEF Start

\* A refund is written REFUNDED only with the last unit.
LEMMA RefundedWithLast ==
    ASSUME TypeOK, NEW units \in [SellerOrders -> Nat],
           \A s \in SellerOrders : refunded[s] + units[s] =< Qty[s],
           RefundedStatus(Plus(refunded, units), SellerOrders) = "REFUNDED"
    PROVE  \A s \in SellerOrders : refunded[s] + units[s] = Qty[s]
<1> DEFINE sum == Plus(refunded, units)
<1>1. /\ sum \in [SellerOrders -> Nat]
      /\ \A s \in SellerOrders : sum[s] = refunded[s] + units[s]
  BY DEF Plus, TypeOK, DbTypeOK
<1>2. \A s \in SellerOrders : sum[s] =< Qty[s]
  BY <1>1
<1> HIDE DEF sum
<1>3. RefundedStatus(sum, SellerOrders) = "REFUNDED"
  BY DEF sum
<1>4. QED  BY <1>1, <1>2, <1>3, AllUnitsRefunded

\* payOrder finds the order paid.
LEMMA PaidPay ==
    ASSUME IInv, PaidInv, NEW p \in Procs,
           \/ PayPending(p) \/ PayRead(p) \/ PayOrders(p) \/ PayWrite(p) \/ PayCommit(p)
           \/ PayReconcile(p) \/ CancelPaymentWrite(p) \/ CancelPaymentCommit(p)
    PROVE  PaidInv'
<1> USE DEF IInv, TypeOK
<1>1. OnlyOf(p)
  BY StepOnlyOf DEF Step
<1>2. PaidCall(p) /\ PaidOrder
  BY DEF PaidInv
<1> SUFFICES ASSUME ~Rollback(p)
             PROVE  PaidInv'
  BY <1>1, PaidRollback
<1>3. PayRead(p) \/ PayReconcile(p)
  BY <1>2 DEF PaidCall, PayPending, PayOrders, PayWrite, PayCommit, CancelPaymentWrite,
              CancelPaymentCommit
<1>4. /\ UNCHANGED db /\ pc'[p] \in {"payReconcile", "payReconcileCommit"}
      /\ refunding'[p] = refunding[p] /\ restocking'[p] = restocking[p]
  BY <1>2, <1>3 DEF PayRead, PayReconcile, Goto, TxTypeOK, PaidOrder, Paid
<1>5. PaidCall(p)'
  BY <1>2, <1>4 DEF PaidCall, Cancelling
<1>6. QED  BY <1>1, <1>4, <1>5, PaidLocal

\* A cancellation or a refund collects the units it gives back.
LEMMA PaidCollect ==
    ASSUME IInv, IInv', PaidInv, NEW p \in Procs,
           \/ CancelOrderClaim(p) \/ CancelOrderPayment(p) \/ CancelSellerOrderClaim(p)
           \/ CancelSellerOrderOrder(p) \/ RefundLock(p)
    PROVE  PaidInv'
<1> USE LinesAssumption DEF IInv, TypeOK
<1>1. OnlyOf(p)
  BY StepOnlyOf DEF Step
<1>2. PaidCall(p) /\ PaidOrder
  BY DEF PaidInv
<1> SUFFICES ASSUME ~Rollback(p)
             PROVE  PaidInv'
  BY <1>1, PaidRollback
<1>3. /\ UNCHANGED <<db, seen, call>>
      /\ pc[p] \in {"coClaim", "coPayment", "csClaim", "csOrder", "rfLock"}
  BY DEF CancelOrderClaim, CancelOrderPayment, CancelSellerOrderClaim, CancelSellerOrderOrder,
         RefundLock
<1>4. /\ seen'[p].pay \in Paid \cup {"REFUNDED"} /\ seen'[p].amountFor = SellerOrders
      /\ seen'[p].pay = "REFUNDED" => AllRefunded'
      /\ seen[p].pay \in Paid \cup {"REFUNDED"} /\ seen[p].amountFor = SellerOrders
      /\ seen[p].pay = "REFUNDED" => AllRefunded
  BY <1>2, <1>3 DEF PaidCall, Cancelling, AllRefunded, db
<1>5. \A s \in SellerOrders : refunded[s] + refunding'[p][s] =< Qty[s]
  <2> SUFFICES ASSUME NEW s \in SellerOrders
               PROVE  refunded[s] + refunding'[p][s] =< Qty[s]
    OBVIOUS
  <2>1. refunded'[s] = refunded[s] /\ refunded[s] \in Nat /\ refunded[s] =< Qty[s]
    BY <1>3 DEF db, RefundNeverExceedsQuantity, DbTypeOK
  <2>2. CASE s \in claimed'[p]
    BY <2>1, <2>2 DEF LockInv
  <2>3. CASE s \notin claimed'[p]
    BY <2>1, <2>3 DEF LockInv
  <2>4. QED  BY <2>2, <2>3
<1>6. ASSUME seen[p].pay \in Paid, NEW units \in [SellerOrders -> Nat], units = refunding'[p],
             payNext'[p] = RefundedStatus(Plus(refunded, units), seen[p].amountFor)
      PROVE  /\ payNext'[p] \in {"PARTIALLY_REFUNDED", "REFUNDED"}
             /\ payNext'[p] = "REFUNDED" =>
                   \A s \in SellerOrders : refunded'[s] + refunding'[p][s] = Qty[s]
  <2>1. payNext'[p] \in {"PARTIALLY_REFUNDED", "REFUNDED"}
    BY <1>6 DEF RefundedStatus
  <2>2. ASSUME payNext'[p] = "REFUNDED"
        PROVE  \A s \in SellerOrders : refunded[s] + units[s] = Qty[s]
    BY <1>4, <1>5, <1>6, <2>2, RefundedWithLast
  <2>3. QED  BY <1>3, <1>6, <2>1, <2>2 DEF db
<1>7. ASSUME pc'[p] \in {"coPayment", "coCommit", "csOrder", "csCommit", "rfCommit"},
             pc'[p] \in {"coPayment", "coCommit", "csCommit", "rfCommit"} /\ seen[p].pay \in Paid =>
                /\ payNext'[p] \in {"PARTIALLY_REFUNDED", "REFUNDED"}
                /\ payNext'[p] = "REFUNDED" =>
                      \A s \in SellerOrders : refunded'[s] + refunding'[p][s] = Qty[s],
             \A s \in SellerOrders : restocking'[p][s] =< refunding'[p][s],
             pc'[p] \in Cancelling => \A s \in claimed'[p] : soStatus[s] # "COMPLETED"
      PROVE  PaidInv'
  <2>1. soStatus' = soStatus /\ seen' = seen
    BY <1>3 DEF db
  <2>2. PaidCall(p)'
    BY <1>4, <1>7, <2>1 DEF PaidCall
  <2>3. QED  BY <1>1, <1>3, <2>2, PaidLocal
\* What goes back to stock with a cancellation is refunded with it.
<1>8. ASSUME NEW S \in SUBSET SellerOrders
      PROVE  LET back == UnitsOf(S, Refundable)
             IN  /\ back \in [SellerOrders -> Nat]
                 /\ seen[p].pay \notin Paid => \A s \in SellerOrders : back[s] =< NoUnits[s]
  <2>1. Refundable \in [SellerOrders -> Nat]
    BY HelperTypes
  <2>2. AllRefunded => \A s \in SellerOrders : Refundable[s] = 0
    BY DEF AllRefunded, Refundable, DbTypeOK
  <2>3. seen[p].pay \notin Paid => AllRefunded
    BY <1>4
  <2>4. QED  BY <2>1, <2>2, <2>3 DEF UnitsOf, NoUnits
<1>9. CASE CancelOrderClaim(p)
  <2> DEFINE live == {s \in SellerOrders : soStatus[s] \in Cancellable("cancelOrder")}
             back == UnitsOf(live, Refundable)
             refunds == IF seen[p].pay \in Paid THEN back ELSE NoUnits
  <2>1. /\ pc'[p] = "coPayment" /\ claimed'[p] = live /\ restocking'[p] = back
        /\ refunding'[p] = refunds
        /\ seen[p].pay \in Paid =>
              payNext'[p] = RefundedStatus(Plus(refunded, refunds), seen[p].amountFor)
    BY <1>9 DEF CancelOrderClaim, Goto, TxTypeOK
  <2>2. \A s \in live : soStatus[s] # "COMPLETED"
    BY DEF Cancellable, BeforePayment
  <2>3. live \in SUBSET SellerOrders
    OBVIOUS
  <2> HIDE DEF live
  <2>4. /\ back \in [SellerOrders -> Nat]
        /\ seen[p].pay \notin Paid => \A s \in SellerOrders : back[s] =< NoUnits[s]
    BY <1>8, <2>3
  <2> HIDE DEF back
  <2>5. \A s \in SellerOrders : restocking'[p][s] =< refunding'[p][s]
    BY <2>1, <2>4
  <2>6. seen[p].pay \in Paid => refunds \in [SellerOrders -> Nat]
    BY <2>4
  <2> HIDE DEF refunds
  <2>7. QED  BY <1>6, <1>7, <2>1, <2>2, <2>5, <2>6
<1>10. CASE CancelOrderPayment(p)
  <2>1. /\ pc[p] = "coPayment" /\ pc'[p] = "coCommit" /\ claimed'[p] = claimed[p]
        /\ restocking'[p] = restocking[p] /\ refunding'[p] = refunding[p]
        /\ payNext'[p] = payNext[p]
    BY <1>10 DEF CancelOrderPayment, Goto, TxTypeOK
  <2>2. refunded' = refunded
    BY <1>3 DEF db
  <2>3. QED  BY <1>2, <1>7, <2>1, <2>2 DEF PaidCall, Cancelling
<1>11. CASE CancelSellerOrderClaim(p)
  <2> DEFINE so == call[p].so
             back == UnitsOf({so}, Refundable)
  <2>1. /\ pc'[p] = "csOrder" /\ claimed'[p] = {so} /\ restocking'[p] = back
        /\ refunding'[p] = (IF seen[p].pay \in Paid THEN back ELSE NoUnits)
        /\ so \in SellerOrders /\ soStatus[so] \in Cancellable(call[p].op)
    BY <1>11, RequestFields DEF CancelSellerOrderClaim, Goto, TxTypeOK, CallInv
  <2>2. soStatus[so] # "COMPLETED"
    BY <2>1 DEF Cancellable, BeforePayment
  <2> HIDE DEF so
  <2>3. /\ back \in [SellerOrders -> Nat]
        /\ seen[p].pay \notin Paid => \A s \in SellerOrders : back[s] =< NoUnits[s]
    BY <1>8, <2>1
  <2> HIDE DEF back
  <2>4. \A s \in SellerOrders : restocking'[p][s] =< refunding'[p][s]
    BY <2>1, <2>3
  <2>5. QED  BY <1>7, <2>1, <2>2, <2>4
<1>12. CASE CancelSellerOrderOrder(p)
  <2>1. /\ pc[p] = "csOrder" /\ pc'[p] = "csCommit" /\ claimed'[p] = claimed[p]
        /\ restocking'[p] = restocking[p] /\ refunding'[p] = refunding[p]
        /\ seen[p].pay \in Paid =>
              payNext'[p] = RefundedStatus(Plus(refunded, refunding[p]), seen[p].amountFor)
    BY <1>12 DEF CancelSellerOrderOrder, Goto, TxTypeOK
  <2>2. refunding[p] \in [SellerOrders -> Nat]
    BY DEF TxTypeOK
  <2>3. /\ \A s \in SellerOrders : restocking[p][s] =< refunding[p][s]
        /\ \A s \in claimed[p] : soStatus[s] # "COMPLETED"
    BY <1>2, <2>1 DEF PaidCall, Cancelling
  <2>4. QED  BY <1>6, <1>7, <2>1, <2>2, <2>3
<1>13. CASE RefundLock(p)
  <2> DEFINE units == [t \in SellerOrders |-> IF t = call[p].so THEN call[p].qty ELSE 0]
  <2>1. /\ pc'[p] = "rfCommit" /\ refunding'[p] = units
        /\ restocking'[p] \in {units, NoUnits}
        /\ seen[p].pay \in Paid
        /\ payNext'[p] = RefundedStatus(Plus(refunded, units), seen[p].amountFor)
    BY <1>13 DEF RefundLock, RefundRejected, Goto, TxTypeOK
  <2>2. units \in [SellerOrders -> Nat]
    BY <1>13, RequestFields DEF RefundLock, CallInv
  <2> HIDE DEF units
  <2>3. \A s \in SellerOrders : restocking'[p][s] =< refunding'[p][s]
    BY <2>1, <2>2 DEF NoUnits
  <2>4. QED  BY <1>6, <1>7, <2>1, <2>2, <2>3 DEF Cancelling
<1>14. QED  BY <1>9, <1>10, <1>11, <1>12, <1>13

\* A seller moves a sub-order forward, once.
LEMMA PaidUpdateStatus ==
    ASSUME IInv, IInv', PaidInv, NEW p \in Procs, UpdateStatusWrite(p) \/ UpdateStatusCommit(p)
    PROVE  PaidInv'
<1> USE DEF IInv, TypeOK
<1>1. OnlyOf(p)
  BY StepOnlyOf DEF Step
<1>2. PaidCall(p) /\ PaidOrder
  BY DEF PaidInv
<1> SUFFICES ASSUME ~Rollback(p)
             PROVE  PaidInv'
  BY <1>1, PaidRollback
<1>3. CASE UpdateStatusWrite(p)
  <2>1. /\ UNCHANGED <<db, call, seen>>
        /\ pc[p] = "usWrite" /\ pc'[p] = "usCommit" /\ claimed'[p] = {call[p].so}
        /\ refunding'[p] = refunding[p] /\ restocking'[p] = restocking[p]
    BY <1>3 DEF UpdateStatusWrite, Goto, TxTypeOK
  <2>2. PaidCall(p)'
    BY <1>2, <2>1 DEF PaidCall, Cancelling, Shipped, db
  <2>3. QED  BY <1>1, <2>1, <2>2, PaidLocal
<1>4. CASE UpdateStatusCommit(p)
  <2> DEFINE so == call[p].so
             to == call[p].to
  <2>1. /\ pc[p] = "usCommit" /\ Finish(p) /\ so \in SellerOrders
        /\ soStatus' = View(claimed[p], to)
        /\ <<"soStatus", so, seen[p].so[so], to>> \in usedKeys'
        /\ usedKeys \subseteq usedKeys'
        /\ UNCHANGED <<payStatus, payFor, refunded, restocked, charged>>
    BY <1>4, RequestFields DEF UpdateStatusCommit, StatusEvents, CallInv
  <2>2. claimed[p] = {so}
    BY <1>2, <2>1 DEF PaidCall
  <2>3. \/ seen[p].so[so] = "PROCESSING" /\ to = "SHIPPED"
        \/ seen[p].so[so] = "SHIPPED" /\ to = "COMPLETED" /\ Shipped(so)
    BY <1>2, <2>1 DEF PaidCall
  <2>4. /\ <<"soStatus", so, "PROCESSING", "SHIPPED">> \in usedKeys'
        /\ to \in {"SHIPPED", "COMPLETED"}
    BY <2>1, <2>3 DEF Shipped
  <2>5. \A s \in SellerOrders : soStatus'[s] = IF s = so THEN to ELSE soStatus[s]
    BY <2>1, <2>2 DEF View
  <2>6. \A q \in Procs \ {p} : so \notin claimed[q]
    BY <2>2 DEF LockInv
  <2>7. PaidEffect(p)
    BY <2>1, <2>5, <2>6 DEF PaidEffect, TxTypeOK
  <2>8. \A s \in SellerOrders : ChargedFor(s)' /\ (Shipped(s) => Shipped(s)')
    BY <1>2, <2>1 DEF PaidOrder, ChargedFor, Shipped
  <2>9. \A s \in SellerOrders :
           /\ soStatus'[s] \in {"PROCESSING", "SHIPPED", "COMPLETED", "CANCELLED"}
           /\ soStatus'[s] \in {"SHIPPED", "COMPLETED"} => Shipped(s)'
    BY <1>2, <2>4, <2>5, <2>8 DEF PaidOrder, Shipped
  <2>10. PaidOrder'
    BY <1>2, <2>1, <2>8, <2>9 DEF PaidOrder, AllRefunded
  <2>11. QED  BY <1>1, <2>1, <2>7, <2>10, PaidFinish
<1>5. QED  BY <1>3, <1>4

\* The commit of a cancellation or of a refund, or of the derived parent status.
LEMMA PaidCommits ==
    ASSUME IInv, IInv', PaidInv, NEW p \in Procs,
           \/ PayReconcileCommit(p) \/ CancelOrderCommit(p) \/ CancelSellerOrderCommit(p)
           \/ RefundCommit(p)
    PROVE  PaidInv'
<1> USE DEF IInv, TypeOK
<1>1. OnlyOf(p)
  BY StepOnlyOf DEF Step
<1>2. PaidCall(p) /\ PaidOrder
  BY DEF PaidInv
<1> SUFFICES ASSUME ~Rollback(p)
             PROVE  PaidInv'
  BY <1>1, PaidRollback
<1>3. CASE PayReconcileCommit(p)
  <2>1. /\ Finish(p)
        /\ UNCHANGED <<soStatus, payStatus, payFor, refunded, restocked, charged, usedKeys>>
    BY <1>3 DEF PayReconcileCommit
  <2>2. PaidEffect(p)
    BY <2>1 DEF PaidEffect
  <2>3. PaidOrder'
    BY <1>2, <2>1 DEF PaidOrder, ChargedFor, Shipped, AllRefunded
  <2>4. QED  BY <1>1, <2>1, <2>2, <2>3, PaidFinish
<1>4. CASE CancelOrderCommit(p)
  <2>1. seen[p].pay \in Paid \cup {"REFUNDED"}
    BY <1>2, <1>4 DEF CancelOrderCommit, PaidCall, Cancelling
  <2>2. LocksPayment(p) <=> seen[p].pay \in Paid
    BY <1>4, <2>1 DEF CancelOrderCommit, LocksPayment, Paid
  <2>3. QED  BY <1>1, <1>4, <2>2, PaidCommit DEF CancelOrderCommit
<1>5. CASE CancelSellerOrderCommit(p)
  BY <1>1, <1>5, PaidCommit DEF CancelSellerOrderCommit
<1>6. CASE RefundCommit(p)
  BY <1>1, <1>6, PaidCommit DEF RefundCommit, ChargeInv
<1>7. QED  BY <1>3, <1>4, <1>5, <1>6

\* Whatever step is taken after the payment, the invariant holds after it.
LEMMA PaidStep ==
    ASSUME IInv, IInv', PaidInv, NEW p \in Procs, Step(p)
    PROVE  PaidInv'
<1>1. CASE Rollback(p)
  BY <1>1, StepOnlyOf, PaidRollback DEF IInv, TypeOK
<1>2. QED
  BY <1>1, PaidPay, PaidCollect, PaidUpdateStatus, PaidCommits DEF Step, Abort

-----------------------------------------------------------------------------
(* The behaviours that begin before or after the payment *)

\* The state a payment leaves satisfies the invariant of the handlers.
LEMMA PaidInvariant == PaidInit => IInv
<1> SUFFICES ASSUME PaidInit
             PROVE  IInv
  OBVIOUS
<1> USE LinesAssumption, SellerOrdersAssumption DEF PaidInit, NoUnits
<1>1. TypeOK
  BY DEF TypeOK, DbTypeOK, TxTypeOK, OrderStatus, SellerOrderStatus, PaymentStatus, Steps,
         SnapshotType, NoSnapshot
<1>2. CallInv
  BY DEF CallInv
<1>3. LockInv
  BY DEF LockInv
<1>4. RestockInv
  BY DEF RestockInv
<1>5. ChargeInv
  <2>1. Charged
    BY DEF Charged
  <2>2. QED  BY <2>1 DEF ChargeInv, Paid, NoSnapshot
<1>6. RefundNeverExceedsQuantity /\ CancelledUnitsAccounted /\ RefundsWereCharged
  BY DEF RefundNeverExceedsQuantity, CancelledUnitsAccounted, RefundsWereCharged
<1>7. QED  BY <1>1, <1>2, <1>3, <1>4, <1>5, <1>6 DEF IInv

\* Before the payment or after it, the first state satisfies the invariant.
LEMMA PhaseInitInv == PhaseInit => PhaseInv
<1> SUFFICES ASSUME PhaseInit
             PROVE  PhaseInv
  OBVIOUS
<1>1. IInv
  BY InitInvariant, PaidInvariant DEF PhaseInit
<1>2. PaymentLockInv
  BY DEF PhaseInit, Init, PaidInit, PaymentLockInv, LocksPayment
<1>3. CASE started = "unpaid" /\ Init
  <2>1. ~Charged
    BY <1>3 DEF Init, Charged
  <2>2. UnpaidInv
    BY <1>3, <2>1 DEF Init, UnpaidInv, UnpaidCall, UnpaidOrder, NoUnits, BeforePayment
  <2>3. QED  BY <1>1, <1>2, <1>3, <2>2 DEF PhaseInv
<1>4. CASE started = "paid" /\ PaidInit
  <2>1. PaidInv
    BY <1>4 DEF PaidInit, PaidInv, PaidCall, PaidOrder, NoUnits, Cancelling, Paid, ChargedFor
  <2>2. QED  BY <1>1, <1>2, <1>4, <2>1 DEF PhaseInv
<1>5. QED  BY <1>3, <1>4 DEF PhaseInit

\* Every step preserves it.
LEMMA PhaseNextInv == PhaseInv /\ [PhaseNext]_phaseVars => PhaseInv'
<1> SUFFICES ASSUME PhaseInv, [PhaseNext]_phaseVars
             PROVE  PhaseInv'
  OBVIOUS
<1>1. [Next]_vars /\ started' = started
  BY DEF PhaseNext, Next, phaseVars
<1>2. IInv /\ IInv' /\ PaymentLockInv
  BY <1>1, NextInvariant DEF PhaseInv
<1>3. PaymentLockInv'
  <2>1. CASE UNCHANGED vars
    BY <1>2, <2>1 DEF vars, db, tx, PaymentLockInv, LocksPayment
  <2>2. CASE Next
    BY <1>2, <2>2, StartLockEffect, StepLockEffect, PaymentLockStep DEF Next, IInv
  <2>3. QED  BY <1>1, <2>1, <2>2
<1>4. CASE UNCHANGED phaseVars
  <2>1. UNCHANGED <<db, tx>>
    BY <1>4 DEF phaseVars, vars
  <2>2. UnpaidInv <=> UnpaidInv'
    BY <2>1 DEF db, tx, UnpaidInv, UnpaidCall, UnpaidOrder, Charged, ChargedFor, Payable
  <2>3. PaidInv <=> PaidInv'
    BY <2>1 DEF db, tx, PaidInv, PaidCall, PaidOrder, ChargedFor, Shipped, AllRefunded
  <2>4. QED  BY <1>1, <1>2, <1>3, <2>2, <2>3 DEF PhaseInv
<1>5. ASSUME NEW p \in Procs, Step(p)
      PROVE  PhaseInv'
  BY <1>1, <1>2, <1>3, <1>5, UnpaidStep, PaidStep DEF PhaseInv
<1>6. ASSUME NEW p \in Procs, NEW r \in Requests, Received(r), Start(p, r)
      PROVE  PhaseInv'
  BY <1>1, <1>2, <1>3, <1>6, UnpaidStart, PaidStart DEF PhaseInv, Received
<1>7. QED  BY <1>4, <1>5, <1>6 DEF PhaseNext

\* The invariant of orders that begin before or after their payment.
THEOREM PhaseInvariant == PhaseSpec => []PhaseInv
BY PhaseInitInv, PhaseNextInv, PTL DEF PhaseSpec

\* However payments, refunds and cancellations interleave, a customer gets money back
\* only for sub-orders of a charge that was made.
THEOREM RefundsMatch == PhaseSpec => []RefundsMatchCharges
<1>1. PhaseInv => RefundsMatchCharges
  BY DEF PhaseInv, UnpaidInv, UnpaidOrder, PaidInv, PaidOrder, RefundsMatchCharges, ChargedFor
<1>2. QED  BY <1>1, PhaseInvariant, PTL

\* No unit of a paid order goes back on sale twice.
THEOREM StockRestoredOnce == PhaseSpec => []PaidNeverOverRestocked
<1>1. PhaseInv => PaidNeverOverRestocked
  BY LinesAssumption DEF PhaseInv, PaidInv, PaidOrder, PaidNeverOverRestocked,
     NeverOverRestocked, IInv, TypeOK, DbTypeOK, RefundNeverExceedsQuantity
<1>2. QED  BY <1>1, PhaseInvariant, PTL

\* A paid order that says REFUNDED has returned all it was charged for.
THEOREM RefundedIsRepaid == PhaseSpec => []PaidRefundedMeansRepaid
<1>1. ASSUME AllRefunded, payFor = SellerOrders
      PROVE  RefundedMeansRepaid
  <2> DEFINE whole == [t \in SellerOrders |-> IF t \in SellerOrders THEN Qty[t] ELSE 0]
             a == [t \in SellerOrders |-> refunded[t] * Price[t]]
             b == [t \in SellerOrders |-> whole[t] * Price[t]]
  <2>1. a = b
    BY <1>1 DEF AllRefunded
  <2>2. Amount(refunded) = SumFunctionOnSet(a, SellerOrders)
    BY DEF Amount
  <2>3. Subtotals(payFor) = SumFunctionOnSet(b, SellerOrders)
    BY <1>1 DEF Subtotals, Amount
  <2>4. \A s \in SellerOrders : a[s] \in Int
    <3>1. \A s \in SellerOrders : a[s] = Qty[s] * Price[s] /\ Qty[s] \in Nat /\ Price[s] \in Nat
      BY <1>1, LinesAssumption DEF AllRefunded
    <3>2. \A x, y \in Nat : x * y \in Int
      OBVIOUS
    <3>3. QED  BY <3>1, <3>2, Zenon
  <2> HIDE DEF a, b
  <2>5. SumFunctionOnSet(a, SellerOrders) \in Int
    BY <2>4, SellerOrdersAssumption, SumInt
  <2>6. QED  BY <2>1, <2>2, <2>3, <2>5 DEF RefundedMeansRepaid
<1>2. PhaseInv => PaidRefundedMeansRepaid
  BY <1>1 DEF PhaseInv, PaidInv, PaidOrder, PaidRefundedMeansRepaid, RefundedMeansRepaid
<1>3. QED  BY <1>2, PhaseInvariant, PTL

\* The first charge of an order leaves something to deliver.
THEOREM FirstChargeLive == PhaseSpec => FirstChargeLeavesLiveOrder
<1>1. ASSUME PhaseInv, [PhaseNext]_phaseVars, \A k \in Keys : charged[k] = {},
             charged' # charged
      PROVE  \E s \in SellerOrders : soStatus'[s] # "CANCELLED"
  <2>1. ~Charged
    BY <1>1 DEF Charged
  <2>2. UnpaidInv
    BY <1>1, <2>1, SellerOrdersAssumption DEF PhaseInv, IInv, ChargeInv, PaidInv, PaidOrder
  <2>3. PICK p \in Procs : pc[p] = "payCommit" /\ PayCommit(p)
    <3>1. PICK p \in Procs : (\E r \in Requests : Start(p, r)) \/ Step(p)
      BY <1>1 DEF PhaseNext, phaseVars, vars, db
    <3>2. CASE \E r \in Requests : Start(p, r)
      BY <1>1, <3>2 DEF Start, PayStart, CancelPaymentStart, CancelOrderStart,
         CancelSellerOrderStart, RefundStart, UpdateStatusStart, Begin, db
    <3>3. CASE Step(p)
      <4>1. ~Rollback(p)
        BY <1>1 DEF Rollback, db
      <4>2. PayCommit(p)
        BY <1>1, <3>3, <4>1 DEF Step, Abort, PayPending, PayRead, PayOrders, PayWrite,
           PayReconcile, PayReconcileCommit, CancelPaymentWrite, CancelPaymentCommit,
           CancelOrderClaim, CancelOrderPayment, CancelOrderCommit, CancelSellerOrderClaim,
           CancelSellerOrderOrder, CancelSellerOrderCommit, RefundLock, RefundCommit,
           UpdateStatusWrite, UpdateStatusCommit, db
      <4>3. QED  BY <4>2 DEF PayCommit
    <3>4. QED  BY <3>1, <3>2, <3>3
  <2>4. claimed[p] # {} /\ claimed[p] \subseteq SellerOrders
    BY <1>1, <2>1, <2>2, <2>3 DEF UnpaidInv, UnpaidCall, PhaseInv, IInv, TypeOK, TxTypeOK
  <2>5. QED  BY <2>3, <2>4 DEF PayCommit, View
<1>2. PhaseInv /\ [PhaseNext]_phaseVars =>
         [(\A k \in Keys : charged[k] = {}) /\ charged' # charged
             => \E s \in SellerOrders : soStatus'[s] # "CANCELLED"]_vars
  BY <1>1
<1>3. QED  BY <1>2, PhaseInvariant, PTL DEF PhaseSpec, FirstChargeLeavesLiveOrder

\* In an order that is paid, what is completed stays completed.
THEOREM CompletedStays == PhaseSpec => CompletedIsFinal
<1>1. ASSUME PhaseInv, [PhaseNext]_phaseVars, NEW s \in SellerOrders,
             soStatus[s] = "COMPLETED", soStatus'[s] # "COMPLETED"
      PROVE  FALSE
  <2>1. PaidInv /\ IInv
    BY <1>1 DEF PhaseInv, UnpaidInv, UnpaidOrder
  <2>2. PICK p \in Procs : (\E r \in Requests : Start(p, r)) \/ Step(p)
    BY <1>1 DEF PhaseNext, phaseVars, vars, db
  <2>3. PaidCall(p) /\ Shipped(s)
    BY <1>1, <2>1 DEF PaidInv, PaidOrder
  <2>4. UNCHANGED db => FALSE
    BY <1>1 DEF db
  <2>5. CASE \E r \in Requests : Start(p, r)
    BY <2>4, <2>5 DEF Start, PayStart, CancelPaymentStart, CancelOrderStart,
       CancelSellerOrderStart, RefundStart, UpdateStatusStart, Begin
  <2>6. CASE Step(p)
    <3>1. ~Rollback(p)
      BY <2>4 DEF Rollback
    <3>2. \/ CancelOrderCommit(p) \/ CancelSellerOrderCommit(p) \/ UpdateStatusCommit(p)
      BY <1>1, <2>3, <2>4, <2>6, <3>1
         DEF Step, Abort, PayPending, PayRead, PayOrders, PayWrite,
         PayCommit, PayReconcile, PayReconcileCommit, CancelPaymentWrite, CancelPaymentCommit,
         CancelOrderClaim, CancelOrderPayment, CancelSellerOrderClaim,
         CancelSellerOrderOrder, RefundLock, RefundCommit, UpdateStatusWrite, PaidCall
    <3>3. CASE CancelOrderCommit(p) \/ CancelSellerOrderCommit(p)
      BY <1>1, <2>3, <3>1, <3>3 DEF CancelOrderCommit, CancelSellerOrderCommit, View, PaidCall,
         Cancelling
    <3>4. CASE UpdateStatusCommit(p)
      <4>1. /\ pc[p] = "usCommit"
            /\ <<"soStatus", call[p].so, seen[p].so[call[p].so], call[p].to>> \notin usedKeys
            /\ soStatus' = View(claimed[p], call[p].to)
        BY <3>1, <3>4 DEF UpdateStatusCommit, StatusEvents
      <4>2. s = call[p].so /\ call[p].to # "COMPLETED"
        BY <1>1, <2>3, <4>1 DEF View, PaidCall
      <4>3. QED  BY <2>3, <4>1, <4>2 DEF PaidCall, Shipped
    <3>5. QED  BY <3>2, <3>3, <3>4
  <2>7. QED  BY <2>2, <2>5, <2>6
<1>2. PhaseInv /\ [PhaseNext]_phaseVars =>
         [\A s \in SellerOrders : soStatus[s] = "COMPLETED" => soStatus'[s] = "COMPLETED"]_vars
  BY <1>1
<1>3. QED  BY <1>2, PhaseInvariant, PTL DEF PhaseSpec, CompletedIsFinal
=============================================================================
