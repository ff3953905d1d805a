SPECIFICATION Spec
CONSTANTS
    N = 2
    DueAt <- RisingDueAt
    Unsendable = {0}
    Tickers = {t1}
    Replies = {}
    Stops = {}
    Resumes = {}
    MaxFailures = 0
    MaxDeliveries = 2
    t1 = t1
CHECK_DEADLOCK FALSE
INVARIANTS
    CompletedMeansAllSent
