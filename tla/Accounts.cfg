\* Four requests, of any kind each.
SPECIFICATION FairSpec
CONSTANTS
    Requests = {r1, r2, r3, r4}
    Conflicts <- SmallConflicts
    Admins = {r1}
    r1 = r1
    r2 = r2
    r3 = r3
    r4 = r4
INVARIANT TypeOK
INVARIANT OneAccountEach
INVARIANT RefreshTrades
INVARIANT UsedUpOnce
INVARIANT HoldersExist
PROPERTY EveryCallAnswered
\* Answered requests need no further step.
CHECK_DEADLOCK FALSE
