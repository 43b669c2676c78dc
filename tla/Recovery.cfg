\* One fault of any counted kind, a crash of the worker included.
SPECIFICATION FairSpec
CONSTANTS
    Orders = {o1}
    PaymentWays = {"postpayment"}
    Stamped = {t1, t2}
    MaxJobs = 2
    MaxRetry = 1
    Bursts = FALSE
    Lossy = FALSE
    Faults = {"infra", "timeout", "api", "sched", "crash"}
    MaxMishaps = 1
    o1 = o1
    o2 = o2
    t1 = t1
    t2 = t2
INVARIANT TypeOK
INVARIANT SagaInv
INVARIANT HoldInv
PROPERTY RollbackConcludes
PROPERTY UndoOnlyWhatWasDone
\* A settled order needs no further step.
CHECK_DEADLOCK FALSE
