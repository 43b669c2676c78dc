\* Violation: the API dies between commit and enqueue.
SPECIFICATION FairSpec
CONSTANTS
    Orders = {o1}
    PaymentWays = {"prepayment", "postpayment"}
    Stamped = {t1}
    MaxJobs = 3
    MaxRetry = 1
    Bursts = FALSE
    Lossy = FALSE
    Faults = {"api"}
    MaxMishaps = 1
    o1 = o1
    o2 = o2
    t1 = t1
    t2 = t2
PROPERTY StuckIsResolved
\* A settled order needs no further step.
CHECK_DEADLOCK FALSE
