SPECIFICATION Spec
CONSTANTS
    User = {u1}
    MaxSessions = 2
    Req = {r1, r2}
    NoReq = NoReq
    MaxGeneration = 4
    MaxPassword = 2
    MaxTickets = 1
INVARIANT SessionsTypeOK
INVARIANT CredentialOfSession
INVARIANT TicketOfThisPassword
PROPERTY OneSession
PROPERTY ChangedByOwner
SYMMETRY SwapRequests
