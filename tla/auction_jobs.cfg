SPECIFICATION FairJobsSpec
CONSTANTS
    Procs = {p1, w1}
    Workers = {w1}
    ClientOps = {"create", "bid", "approve", "checkout"}
    Users = {u1}
    Keys = {k1}
    Amounts = {2}
    StartingPrice = 1
    MinBidIncrement = 1
    StartsAt = 1
    EndsAt = 2
    CheckoutWindow = 1
    MaxTime = 3
    MaxAttempts = 3
    JobAttempts = 2
    MaxFailures = 2
    None = None
PROPERTIES RunningAuctionEnds UnclaimedLotIsReleased ApprovedAuctionStarts
CHECK_DEADLOCK FALSE
