SPECIFICATION FairSpec
CONSTANTS
    Events = {e1, e2}
    Workers = {w1, w2}
    MaxAttempts = 3
    JobAttempts = 2
    MarksFailed = {e1}
    FailedStay = FALSE
    MaxFailures = 3
    Nothing = Nothing
INVARIANTS EmittedAtMostOnce
PROPERTIES EventuallySettled
CHECK_DEADLOCK FALSE
