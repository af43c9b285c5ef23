SPECIFICATION MCSpec
CONSTANTS
    Thread = {t1, t2}
    NoThread = NoThread
    Version = {v1, v2}
    Pid = {p1, p2}
    MaxSession = 2
    MaxCalls = 2
    MaxDisturbances = 2
    MaxDisturbances2 = 2
INVARIANT ClientTypeOK
INVARIANT OneFrpc
INVARIANT Marked
INVARIANT RolledBack
CHECK_DEADLOCK FALSE
SYMMETRY Swap
