SPECIFICATION FairPollingSpec
CONSTANTS
    Tx = {t1}
    Worker = {w1}
    Nobody = Nobody
    Crashed = Crashed
    NoTask = NoTask
    NotListed = NotListed
    PaymentReports <- PayPearReports
    Replies = {"CREATED"}
    LockOutlivesCall = TRUE
    MaxNews = 1
    MaxCrashes = 1
    MaxFaults = 0
    MaxRetries = 0
    MaxQueue = 1
    Polls = {"paypear"}
PROPERTIES PaidIsNoticed
CHECK_DEADLOCK FALSE
