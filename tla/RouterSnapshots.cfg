SPECIFICATION RouterSpec
CONSTANTS
    h1 = h1
    router = router
    Key = {router}
    StartKey = {router}
    SeedKey = {}
    AcmeKey = {}
    WakeKey = {}
    BlockKey = {}
    DatabaseErrors = FALSE
    MaxAttempts = 2
    MaxCrash = 1
    MaxBlock = 0
    Host = {h1}
    MaxSnapshot = 4
INVARIANTS
    RouterTypeOK
    AtMostOneAhead
    ReadIsServed
