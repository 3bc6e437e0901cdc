------------------------------ MODULE MCOrders ------------------------------
(* Instances of Orders for TLC. *)
EXTENDS OrdersClaims, TLC

CONSTANTS
    MaxQty,     \* units of every line, and the largest refund asked for
    Ops         \* the endpoints that receive requests in this instance

MCQty == [s \in SellerOrders |-> MaxQty]
MCPrice == [s \in SellerOrders |-> 1]

MCRequests ==
    {r \in [op : {"pay", "cancelPayment"}, key : Keys] : r.op \in Ops}
        \cup {r \in [op : {"cancelOrder"}] : r.op \in Ops}
        \cup {r \in [op : {"cancelSellerOrder", "cancelCustomerSuborder"},
                     so : SellerOrders, key : Keys] : r.op \in Ops}
        \cup {r \in [op : {"refund"}, so : SellerOrders, qty : 1 .. MaxQty, key : Keys] :
                 r.op \in Ops}
        \cup {r \in [op : {"updateStatus"}, so : SellerOrders,
                     to : {"PROCESSING", "SHIPPED", "COMPLETED"}] : r.op \in Ops}

\* A mixed order, all endpoints: one sub-order is cancelled by its seller and
\* refunded unit by unit, the other is cancelled by the customer and handled by a
\* seller who may start before the payment.
MixedRequests ==
    LET a == CHOOSE s \in SellerOrders : TRUE
        b == CHOOSE s \in SellerOrders : s # a
        k == CHOOSE key \in Keys : TRUE
        l == CHOOSE key \in Keys : key # k
    IN  [op : {"pay"}, key : Keys]
            \cup {[op |-> "cancelPayment", key |-> k], [op |-> "cancelOrder"],
                  [op |-> "cancelSellerOrder", so |-> a, key |-> k],
                  [op |-> "cancelCustomerSuborder", so |-> b, key |-> l],
                  [op |-> "refund", so |-> a, qty |-> 1, key |-> l],
                  [op |-> "refund", so |-> a, qty |-> 1, key |-> k]}
            \cup [op : {"updateStatus"}, so : {b}, to : {"PROCESSING", "SHIPPED", "COMPLETED"}]

ProcSymmetry == Permutations(Procs)
Symmetry == Permutations(Procs) \cup Permutations(Keys) \cup Permutations(SellerOrders)
=============================================================================
