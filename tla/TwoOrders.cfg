\* Two prepaid orders share one worker slot and one poll.
SPECIFICATION FairSpec
CONSTANTS
    Orders = {o1, o2}
    PaymentWays = {"prepayment"}
    Stamped = {t1}
    MaxJobs = 1
    MaxRetry = 1
    Bursts = FALSE
    Lossy = FALSE
    Faults = {}
    MaxMishaps = 0
    o1 = o1
    o2 = o2
    t1 = t1
    t2 = t2
INVARIANT AttendedInv
INVARIANT ManualInv
INVARIANT RollbackIsAttended
INVARIANT ManualMeansHeld
PROPERTY EveryOrderSettles
\* A settled order needs no further step.
CHECK_DEADLOCK FALSE
