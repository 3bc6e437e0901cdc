---------------------------- MODULE MCOrderPhases ----------------------------
(* An instance of OrderPhases for TLC. *)
EXTENDS OrderPhases, MCOrders

\* Of paid orders, the endpoints that can still change something; the customer's
\* cancellation of a sub-order is the seller's with fewer statuses.
PaidOps == {"cancelOrder", "cancelSellerOrder", "refund", "updateStatus"}

\* The unit counts that need a line of several units are those of paid orders.
Asked(r) ==
    /\ Received(r)
    /\ started = "paid" => r.op \in PaidOps
    /\ started = "unpaid" /\ r.op = "refund" => r.qty = MaxQty

MCNext ==
    /\ \E p \in Procs : (\E r \in Requests : Asked(r) /\ Start(p, r)) \/ Step(p)
    /\ UNCHANGED started

MCSpec == PhaseInit /\ [][MCNext]_phaseVars
=============================================================================
