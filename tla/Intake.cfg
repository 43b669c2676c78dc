\* Three requests over two keys, one death of the API.
SPECIFICATION FairSpec
CONSTANTS
    Requests = {r1, r2, r3}
    Keys = {k1, k2}
    Bodies <- SmallBodies
    MaxDeaths = 1
    k1 = k1
    k2 = k2
    r1 = r1
    r2 = r2
    r3 = r3
INVARIANT TypeOK
INVARIANT RepliesAreTrue
INVARIANT WholeOrNothing
INVARIANT BilledOnce
PROPERTY KeepsIntake
PROPERTY EveryRequestAnswered
\* Answered requests need no further step.
CHECK_DEADLOCK FALSE
