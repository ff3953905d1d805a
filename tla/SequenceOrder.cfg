SPECIFICATION Spec
CONSTANTS
    N = 3
    DueAt <- ChosenDueAt
    Unsendable = {}
    Tickers = {t1}
    Replies = {}
    Stops = {}
    Resumes = {}
    MaxFailures = 1
    MaxDeliveries = 2
    t1 = t1
CHECK_DEADLOCK FALSE
PROPERTIES
    NeverLoopsBack
