SPECIFICATION MCSpec
CONSTANTS
    Events <- MCEvents
    Workers = {w1}
    MaxAttempts = 3
    JobAttempts = 2
    MarksFailed <- MCEvents
    FailedStay = TRUE
    MaxFailures = 1
    Nothing = Nothing
    Caches = {"list", "search", "detail"}
    Readers = {r1, r2}
    CacheWrites = 2
INVARIANTS StaleOnlyByOverlap IndexFollows
PROPERTIES CachesCatchUp
CHECK_DEADLOCK FALSE
