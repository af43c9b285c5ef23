SPECIFICATION MCSpec
CONSTANTS
    Domain = {d1}
    Https = {d1}
    ACMEEnabled = FALSE
    NoDomain = NoDomain
    Action = {}
    Steps = {}
    MaxAsk = 1
    MaxRequests = 2
    MaxDisturbances = 1
    MaxEvents = 3
INVARIANT PanelRecordManaged
CHECK_DEADLOCK FALSE
