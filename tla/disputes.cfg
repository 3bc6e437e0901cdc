SPECIFICATION MCSpec
CONSTANTS
    s1 = s1
    s2 = s2
    i1 = i1
    i2 = i2
    SubOrders = {s1, s2}
    Items = {i1, i2}
    SubOf <- MCSubOf
    Quantity <- MCQuantity
    Price <- MCPrice
    Disputes = {d1, d2}
    Keys = {k1, k2}
    Admins = {a1}
    Calls = {c1, c2}
    MaxCalls = 5
    None = None
    Customers = {u1}
    Moderators = {m1, m2}
    Requests = {r1, r2, r3}
    Nobody = Nobody
SYMMETRY Symmetry
INVARIANTS IInv OverRefundBounded PaymentFollowsRefunds
PROPERTIES ApprovalStands
CHECK_DEADLOCK FALSE
