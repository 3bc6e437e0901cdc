----------------------------- MODULE OrderPhases -----------------------------
(* Orders whose behaviours begin before the payment, with customers' requests  *)
(* only, or after it, with every request. Sellers handle an order once it is   *)
(* paid: what the code promises of charges, of the stock and of the final      *)
(* statuses, it promises of orders that begin there.                           *)
EXTENDS Orders

VARIABLE started    \* what the order has come to when a behaviour begins

\* The order after its payment: payOrder has charged for all of it. (The winner
\* checkout of an auction creates its order PROCESSING and PAID at once.)
PaidInit ==
    /\ orderStatus = "PROCESSING"
    /\ soStatus = [s \in SellerOrders |-> "PROCESSING"]
    /\ payStatus = "PAID"
    /\ payFor = SellerOrders
    /\ refunded = NoUnits
    /\ restocked = NoUnits
    /\ \E k \in Keys : /\ charged = [j \in Keys |-> IF j = k THEN SellerOrders ELSE {}]
                       /\ usedKeys = {<<"paid", k>>}
    /\ pc = [p \in Procs |-> "idle"]
    /\ call = [p \in Procs |-> NoCall]
    /\ seen = [p \in Procs |-> NoSnapshot]
    /\ claimed = [p \in Procs |-> {}]
    /\ refunding = [p \in Procs |-> NoUnits]
    /\ restocking = [p \in Procs |-> NoUnits]
    /\ derived = [p \in Procs |-> "NEW"]
    /\ payNext = [p \in Procs |-> "PENDING"]

\* A seller has nothing to do before the payment.
Received(r) == started = "unpaid" => r.op # "updateStatus"

PhaseInit ==
    \/ started = "unpaid" /\ Init
    \/ started = "paid" /\ PaidInit

PhaseNext ==
    /\ \E p \in Procs : (\E r \in Requests : Received(r) /\ Start(p, r)) \/ Step(p)
    /\ UNCHANGED started

phaseVars == <<vars, started>>
PhaseSpec == PhaseInit /\ [][PhaseNext]_phaseVars

-----------------------------------------------------------------------------
(* Properties *)

\* No unit goes back on sale more than once, whichever of the cancellations,
\* refunds and status changes of a paid order run together (NeverOverRestocked).
PaidNeverOverRestocked == started = "paid" => NeverOverRestocked

\* A paid order that says REFUNDED has all of its units refunded
\* (RefundedMeansRepaid).
PaidRefundedMeansRepaid == started = "paid" => RefundedMeansRepaid

-----------------------------------------------------------------------------
(* The inductive invariants behind the properties, beside IInv *)

ChargedFor(s) == \E k \in Keys : s \in charged[k]

\* Before the payment: a transaction charges for all that is not cancelled.
UnpaidCall(p) ==
    /\ pc[p] \notin {"usWrite", "usCommit"}
    /\ pc[p] \in {"payWrite", "payCommit"} =>
          \A s \in SellerOrders : soStatus[s] # "CANCELLED" => s \in Payable(p)
    /\ pc[p] = "payCommit" => /\ claimed[p] # {} \/ Charged
                              /\ \A s \in claimed[p] : soStatus[s] # "CANCELLED"
    /\ pc[p] = "rfLock" /\ seen[p].pay \in Paid => ChargedFor(call[p].so)
    /\ \A s \in SellerOrders : refunding[p][s] > 0 => ChargedFor(s)

UnpaidOrder ==
    \A s \in SellerOrders : /\ soStatus[s] # "COMPLETED"
                            /\ soStatus[s] \notin BeforePayment \cup {"CANCELLED"} => Charged
                            /\ Charged /\ soStatus[s] # "CANCELLED" => ChargedFor(s)
                            /\ refunded[s] > 0 => ChargedFor(s)

UnpaidInv == (\A p \in Procs : UnpaidCall(p)) /\ UnpaidOrder

Shipped(s) == <<"soStatus", s, "PROCESSING", "SHIPPED">> \in usedKeys
AllRefunded == \A s \in SellerOrders : refunded[s] = Qty[s]
Cancelling == {"coPayment", "coCommit", "csOrder", "csCommit"}

\* After it: units go back to stock together with their refund, REFUNDED is written
\* with the last one, and a status update has a key that only a first one finds free.
PaidCall(p) ==
    /\ pc[p] \notin {"payPending", "payOrders", "payWrite", "payCommit", "cpWrite", "cpCommit"}
    /\ pc[p] \in {"coClaim", "csClaim", "rfLock", "rfCommit"} \cup Cancelling =>
          /\ seen[p].pay \in Paid \cup {"REFUNDED"} /\ seen[p].amountFor = SellerOrders
          /\ seen[p].pay = "REFUNDED" => AllRefunded
    /\ pc[p] \in {"coPayment", "coCommit", "csCommit", "rfCommit"} /\ seen[p].pay \in Paid =>
          /\ payNext[p] \in {"PARTIALLY_REFUNDED", "REFUNDED"}
          /\ payNext[p] = "REFUNDED" =>
                \A s \in SellerOrders : refunded[s] + refunding[p][s] = Qty[s]
    /\ \A s \in SellerOrders : restocking[p][s] =< refunding[p][s]
    /\ pc[p] \in Cancelling => \A s \in claimed[p] : soStatus[s] # "COMPLETED"
    /\ pc[p] \in {"usWrite", "usCommit"} =>
          LET from == seen[p].so[call[p].so]
          IN  \/ from = "PROCESSING" /\ call[p].to = "SHIPPED"
              \/ from = "SHIPPED" /\ call[p].to = "COMPLETED" /\ Shipped(call[p].so)
    /\ pc[p] = "usCommit" => claimed[p] = {call[p].so}

PaidOrder ==
    /\ payStatus \in Paid \cup {"REFUNDED"} /\ payFor = SellerOrders
    /\ payStatus = "REFUNDED" => AllRefunded
    /\ \A s \in SellerOrders :
          /\ ChargedFor(s) /\ restocked[s] =< refunded[s]
          /\ soStatus[s] \in {"PROCESSING", "SHIPPED", "COMPLETED", "CANCELLED"}
          /\ soStatus[s] \in {"SHIPPED", "COMPLETED"} => Shipped(s)

PaidInv == (\A p \in Procs : PaidCall(p)) /\ PaidOrder

\* The payment row has one holder, and a charge about to commit is a key's first.
PaymentLockInv ==
    /\ \A p, q \in Procs : p # q => ~(LocksPayment(p) /\ LocksPayment(q))
    /\ \A p \in Procs : pc[p] = "payCommit" => charged[call[p].key] = {}

PhaseInv ==
    /\ IInv /\ PaymentLockInv
    /\ started \in {"unpaid", "paid"}
    /\ started = "unpaid" => UnpaidInv
    /\ started = "paid" => PaidInv
=============================================================================
