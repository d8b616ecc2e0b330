CONSTANTS
    plain = plain
    wide = wide
    dropped = dropped
    widen = widen
    broken = broken
    f1 = f1
    f2 = f2
    c1 = c1
    c2 = c2
    p1 = p1
    p2 = p2
    n1 = n1
    n2 = n2
    None = None
    Unusable = Unusable
    InitialShape = plain
    Shapes <- MCShapes
    Callers <- TwoCallers
    PermitIds <- TwoPermits
    Nonces <- TwoNonces
    Instances <- OneFile
    Sources <- OnlyWiden
    Effect <- WidenEffect
    Trusted <- Trusting
    Busy = FALSE
    MaxEpoch = 1
    MaxExpired = 0
    MaxCrashes = 0
    MaxFailures = 0
    MaxWrites = 0
    MaxReplacements = 0
    MaxVersion = 2
SPECIFICATION Spec
INVARIANT OneClaimPerReplayState
