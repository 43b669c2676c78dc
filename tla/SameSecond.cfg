\* Violation: retries fall into the second of the poll that started them.
SPECIFICATION FairSpec
CONSTANTS
    Orders = {o1}
    PaymentWays = {"prepayment", "postpayment"}
    Stamped = {t1}
    MaxJobs = 3
    MaxRetry = 1
    Bursts = TRUE
    Lossy = FALSE
    Faults = {}
    MaxMishaps = 0
    o1 = o1
    o2 = o2
    t1 = t1
    t2 = t2
PROPERTY RollbackConcludes
\* A settled order needs no further step.
CHECK_DEADLOCK FALSE
