SPECIFICATION MCSpec
CONSTANTS
    Thread = {t1, t2}
    NoThread = NoThread
    Version = {1}
    Pid = {1, 2}
    MaxSession = 2
    MaxCalls = 3
    MaxDisturbances = 0
    MaxDisturbances2 = 0
CHECK_DEADLOCK FALSE
INVARIANT EndedIsStopped
