SPECIFICATION MCSpec
CONSTANTS
    SellerOrders = {s1, s2}
    Procs = {p1, p2}
    Keys = {k1, k2}
    MaxQty = 2
    Ops = {"pay", "cancelPayment", "cancelOrder", "cancelSellerOrder", "cancelCustomerSuborder", "refund", "updateStatus"}
    Qty <- MCQty
    Price <- MCPrice
    Requests <- MCRequests
SYMMETRY Symmetry
INVARIANTS RefundNeverExceedsQuantity RefundsMatchCharges PaidNeverOverRestocked PaidRefundedMeansRepaid
PROPERTIES FirstChargeLeavesLiveOrder ChargedOncePerKey CompletedIsFinal
CHECK_DEADLOCK FALSE
