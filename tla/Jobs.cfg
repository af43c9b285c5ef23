SPECIFICATION FairJobs
CONSTANTS
    acme = acme
    user = user
    Key = {acme, user}
    StartKey = {}
    SeedKey = {acme, user}
    AcmeKey = {acme}
    WakeKey = {user}
    BlockKey = {acme}
    MaxAttempts = 2
    MaxCrash = 2
    DatabaseErrors = TRUE
    MaxBlock = 1
INVARIANTS
    JobsTypeOK
    LeaseHeld
    LockedIsRunning
    BudgetKept
PROPERTY JobsEnd
