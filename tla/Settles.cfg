\* Healthy apart from lost requests and answers.
SPECIFICATION FairSpec
CONSTANTS
    Orders = {o1}
    PaymentWays = {"prepayment", "postpayment"}
    Stamped = {t1}
    MaxJobs = 3
    MaxRetry = 1
    Bursts = FALSE
    Lossy = TRUE
    Faults = {}
    MaxMishaps = 0
    o1 = o1
    o2 = o2
    t1 = t1
    t2 = t2
INVARIANT FinalInv
PROPERTY CompletedIsFinal
PROPERTY NoWayBack
PROPERTY EveryOrderSettles
\* A settled order needs no further step.
CHECK_DEADLOCK FALSE
