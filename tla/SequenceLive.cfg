SPECIFICATION FairSpec
CONSTANTS
    N = 3
    DueAt <- ChosenDueAt
    Unsendable = {}
    Tickers = {t1}
    Replies = {}
    Stops = {}
    Resumes = {u1}
    MaxFailures = 1
    MaxDeliveries = 2
    t1 = t1
    u1 = u1
CHECK_DEADLOCK FALSE
PROPERTIES
    DeliversInOrder
    DueStepsSettle
