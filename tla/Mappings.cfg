SPECIFICATION Spec
CONSTANTS
    u1 = u1
    u2 = u2
    m1 = m1
    m2 = m2
    NoMapping = NoMapping
    User = {u1, u2}
    Mapping = {m1, m2}
    Owner <- TwoOwners
    Port = {1, 2, 3}
    PortStart = 1
    PortEnd = 3
    FRPSBindPort = 3
    MaxMappings = 2
    MaxPendingMappings = 2
    MaxPendingPortLeases = 3
    MaxRevision = 3
    MaxVersion = 3
    ReeditPendingPort = FALSE
INVARIANT TypeOK
INVARIANT LeaseBacked
INVARIANT PortExclusive
INVARIANT NoLeakedLease
INVARIANT RevisionAuthority
PROPERTY RevisionHistory
VIEW LiveView
SYMMETRY SwapOwners
