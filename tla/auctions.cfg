SPECIFICATION Spec
CONSTANTS
    Procs = {p1, p2}
    Users = {u1, u2}
    Keys = {k1, k2, k3}
    Amounts = {2, 3, 4}
    StartingPrice = 1
    MinBidIncrement = 1
    StartsAt = 1
    EndsAt = 2
    CheckoutWindow = 1
    MaxTime = 4
    None = None
SYMMETRY Symmetry
INVARIANTS PriceIsHighestBid OnlyHighestBidLeads WinnerBidHighest OneOrderOfTheWinner
PROPERTIES ImplementsLot CheckoutIsKept
CHECK_DEADLOCK FALSE
