SPECIFICATION FairSpec
CONSTANTS
    Accounts = {u1, u2}
    u1 = u1
    u2 = u2
    Old = u1
    b1 = b1
    p1 = p1
    p2 = p2
    t1 = t1
    Pages = {p1, p2}
    Browsers = {b1}
    Calls = {t1, t2, t3}
    PageOf <- MCPageOf
    BrowserOf <- MCBrowserOf
    MaxTokens = 4
    Forms <- MCForms
    MaxMoves = 2
    MaxFaults = 1
    None = None
INVARIANTS IInv RotatedOnce OneAdmin
PROPERTIES TasksEnd
CHECK_DEADLOCK FALSE
