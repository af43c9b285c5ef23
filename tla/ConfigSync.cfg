SPECIFICATION SyncSpec
CONSTANTS
    u1 = u1
    m1 = m1
    f1 = f1
    f2 = f2
    NoMapping = NoMapping
    User = {u1}
    Mapping = {m1}
    Owner <- OneMapping
    Fetcher = {f1, f2}
    Port = {1}
    PortStart = 1
    PortEnd = 1
    FRPSBindPort = 3
    MaxMappings = 2
    MaxPendingMappings = 2
    MaxPendingPortLeases = 2
    MaxRevision = 3
    MaxVersion = 3
    ReeditPendingPort = FALSE
INVARIANTS
    SyncTypeOK
    VersionBounded
PROPERTIES
    Spec
    AppliedAdvances
    ActivatedWasServed
    PurgedWasDropped
VIEW SyncView
SYMMETRY SwapFetchers
