CONSTANTS
    c1 = c1
    c2 = c2
    a1 = a1
    a2 = a2
    a3 = a3
    k1 = k1
    k2 = k2
    deploy = deploy
    None = None
    Unset = Unset
    Callers <- TwoCallers
    Actions <- ThreeActions
    Registered <- TwoActions
    DiskFailures <- AllFailures
    MaxTimeouts = 1
    MaxCrashes = 1
    MaxFaults = 1
SPECIFICATION FairSpec
INVARIANT TypeOK
INVARIANT ExecutesOnce
INVARIANT LedgerChained
INVARIANT CompletedHasReceipt
PROPERTY ClaimsComplete
PROPERTY ConsumesFirst
INVARIANT GateStricterWithRisk
INVARIANT GateStaysDenied
