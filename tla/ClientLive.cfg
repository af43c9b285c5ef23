SPECIFICATION MCFairSpec
CONSTANTS
    Thread = {t1, t2}
    NoThread = NoThread
    Version = {1}
    Pid = {1}
    MaxSession = 2
    MaxCalls = 2
    MaxDisturbances = 2
    MaxDisturbances2 = 0
PROPERTY QueueDrains
PROPERTY EndNoticed
CHECK_DEADLOCK FALSE
