---------------------------- MODULE OrdersClaims ----------------------------
(* What the README says of an order and the interleavings of Orders            *)
(* refute: the property of a run that ends in a counterexample.                *)
EXTENDS Orders

Idle == \A p \in Procs : pc[p] = "idle"

\* "Compensation: cancelling one SellerOrder restores that seller's stock and recalculates
\* commission" (README.md:115-117), in one transaction with "cancel / partial refund"
\* (README.md:96): a sub-order that was charged and is cancelled has all of its units
\* refunded.
CancelledIsRefunded ==
    Idle => \A s \in SellerOrders :
                soStatus[s] = "CANCELLED" /\ (\E k \in Keys : s \in charged[k])
                    => refunded[s] = Qty[s]
=============================================================================
