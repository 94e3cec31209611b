SPECIFICATION FairSpec
CONSTANTS
    Tx = {t1}
    Worker = {w1, w2}
    Nobody = Nobody
    Crashed = Crashed
    NoTask = NoTask
    PaymentReports <- PaidLate
    Replies = {"CREATED", "FAILED"}
    LockOutlivesCall = TRUE
    MaxNews = 3
    MaxCrashes = 0
    MaxFaults = 0
    MaxRetries = 1
PROPERTIES ProcessingEnds SendingEnds MoneyNewsIsTaken OrderedWhileSending
CHECK_DEADLOCK FALSE
