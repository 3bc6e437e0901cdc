SPECIFICATION Spec
CONSTANTS
    SellerOrders = {s1, s2}
    Procs = {p1, p2}
    Keys = {k1, k2}
    MaxQty = 2
    Ops = {}
    Qty <- MCQty
    Price <- MCPrice
    Requests <- MixedRequests
SYMMETRY ProcSymmetry
INVARIANTS IInv CancelledUnitsAccounted
CHECK_DEADLOCK FALSE
