SPECIFICATION Spec
CONSTANTS
    SellerOrders = {s1}
    Procs = {p1, p2}
    Keys = {k1, k2}
    MaxQty = 1
    Ops = {"pay", "cancelOrder"}
    Qty <- MCQty
    Price <- MCPrice
    Requests <- MCRequests
SYMMETRY Symmetry
INVARIANTS CancelledIsRefunded
CHECK_DEADLOCK FALSE
