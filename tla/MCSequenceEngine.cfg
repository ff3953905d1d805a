SPECIFICATION Spec
CONSTANTS
    N = 2
    DueAt <- RisingDueAt
    Unsendable = {1}
    Tickers = {t1, t2}
    Replies = {p1}
    Stops = {s1}
    Resumes = {u1}
    MaxFailures = 1
    MaxDeliveries = 2
    t1 = t1
    t2 = t2
    p1 = p1
    s1 = s1
    u1 = u1
SYMMETRY TickerSymmetry
CHECK_DEADLOCK FALSE
INVARIANTS
    SentOnce
    StopIsTerminal
