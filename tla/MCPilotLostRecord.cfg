CONSTANTS
    verifier = verifier
    executor = executor
    reconciler = reconciler
    governor = governor
    t1 = t1
    t2 = t2
    server1 = server1
    server2 = server2
    p1 = p1
    p2 = p2
    n1 = n1
    n2 = n2
    h1 = h1
    h2 = h2
    d1 = d1
    d2 = d2
    g1 = g1
    None = None
    Foreign = Foreign
    NoMerge = NoMerge
    InitialHead = h1
    Governors <- OneGovernor
    Threshold = 1
    Principals <- Reconcilers
    InitialRoles <- ReconcilerRoles
    InitialPolicies <- OnePolicy
    Grantable <- NoGrants
    Signable <- NothingSigned
    Documents <- OneDocument
    MaxPending = 0
    Heads <- OneHead
    PermitIds <- OnePermit
    MaxPushes = 0
    Faults <- AllFaults
    Threads <- OneThread
    Processes <- OneServer
    Host <- SingleHost
    Nonces <- OneNonce
    QuorumAdapter = TRUE
    RequireQuorum = TRUE
    StoresRaise = FALSE
    Audited <- NothingAudited
    Followed = {}
    MaxEvaluations = 1
    MaxExpired = 0
    MaxEpoch = 0
    MaxCrashes = 0
SPECIFICATION Spec
INVARIANT ConsumedCanBeReconciled
