SPECIFICATION MCSpec
CONSTANTS
    MaxConnections = 2
    MaxInbox = 2
    Events <- MCEvents
    Window = 1
    other = other
    Me = me
    Users = {me, other}
    Targets <- MCTargets
    Workers = {w1, w2}
    JobAttempts = 2
    MaxFailures = 2
    Lists = {l1, l2}
    Nothing = Nothing
    Loads = {a1, a2, a3}
    MaxPrice = 4
    MaxBids = 2
    MaxLost = 1
INVARIANTS SubscribedHearsBids
CHECK_DEADLOCK FALSE
