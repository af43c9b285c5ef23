SPECIFICATION MCSpec
CONSTANTS
    Domain = {d1}
    Https = {}
    ACMEEnabled = TRUE
    NoDomain = NoDomain
    Action = {"adopt", "overwrite", "sync"}
    Steps = {"delete", "force", "revive"}
    MaxAsk = 1
    MaxRequests = 3
    MaxDisturbances = 1
    MaxEvents = 4
INVARIANT DomainsTypeOK
PROPERTY AdoptedKept
PROPERTY NoSilentResidue
CHECK_DEADLOCK FALSE
