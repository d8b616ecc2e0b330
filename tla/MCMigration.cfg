CONSTANTS
    plain = plain
    wide = wide
    dropped = dropped
    widen = widen
    broken = broken
    f1 = f1
    f2 = f2
    c1 = c1
    c2 = c2
    p1 = p1
    p2 = p2
    n1 = n1
    n2 = n2
    None = None
    Unusable = Unusable
    InitialShape = plain
    Shapes <- MCShapes
    Callers <- TwoCallers
    PermitIds <- OnePermit
    Nonces <- OneNonce
    Instances <- TwoFiles
    Sources <- OnlyWiden
    Effect <- WidenEffect
    Trusted <- Trusting
    Busy = TRUE
    MaxEpoch = 2
    MaxExpired = 1
    MaxCrashes = 1
    MaxFailures = 1
    MaxWrites = 1
    MaxReplacements = 1
    MaxVersion = 2
SPECIFICATION Spec
INVARIANT TypeOK
INVARIANT MigratesOnce
PROPERTY ClaimsRestOnObservation
PROPERTY ConsumesFirst
INVARIANT ReconciledWasHeld
INVARIANT FailedLeavesNothing
INVARIANT ClaimsAreAttended
SYMMETRY Symmetry
