\* Up to two faults that lose no process state of the worker.
SPECIFICATION Spec
CONSTANTS
    Orders = {o1}
    PaymentWays = {"prepayment", "postpayment"}
    Stamped = {t1, t2}
    MaxJobs = 3
    MaxRetry = 1
    Bursts = TRUE
    Lossy = FALSE
    Faults = {"infra", "timeout", "api", "expiry"}
    MaxMishaps = 2
    o1 = o1
    o2 = o2
    t1 = t1
    t2 = t2
INVARIANT OnceInv
INVARIANT PaceInv
INVARIANT CancelledIsClean
INVARIANT ProcessingIsAttended
INVARIANT NoRivalRollbacks
INVARIANT CompletedIsWhole
INVARIANT CompensatedIsUndone
PROPERTY StepsMoveForward
PROPERTY ClosedStaysClosed
PROPERTY KeepsContract
\* A settled order needs no further step.
CHECK_DEADLOCK FALSE
