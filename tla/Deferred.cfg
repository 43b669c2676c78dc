\* Violation: nobody repeats a deferred compensation that has nothing to undo.
SPECIFICATION Spec
CONSTANTS
    Orders = {o1}
    PaymentWays = {"prepayment", "postpayment"}
    Stamped = {t1}
    MaxJobs = 3
    MaxRetry = 1
    Bursts = FALSE
    Lossy = FALSE
    Faults = {}
    MaxMishaps = 0
    o1 = o1
    o2 = o2
    t1 = t1
    t2 = t2
INVARIANT RollbackIsAttended
\* A settled order needs no further step.
CHECK_DEADLOCK FALSE
