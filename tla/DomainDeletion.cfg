SPECIFICATION MCFairSpec
CONSTANTS
    Domain = {d1}
    Https = {}
    ACMEEnabled = TRUE
    NoDomain = NoDomain
    Action = {"cancel"}
    Steps = {}
    MaxAsk = 1
    MaxRequests = 3
    MaxDisturbances = 1
    MaxEvents = 3
PROPERTY DeletionEnds
CHECK_DEADLOCK FALSE
