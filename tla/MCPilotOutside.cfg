CONSTANTS
    verifier = verifier
    executor = executor
    reconciler = reconciler
    governor = governor
    t1 = t1
    t2 = t2
    server1 = server1
    server2 = server2
    p1 = p1
    p2 = p2
    n1 = n1
    n2 = n2
    h1 = h1
    h2 = h2
    d1 = d1
    d2 = d2
    g1 = g1
    None = None
    Foreign = Foreign
    NoMerge = NoMerge
    InitialHead = h1
    Governors <- OneGovernor
    Threshold = 1
    Principals <- MCPrincipals
    InitialRoles <- MCInitialRoles
    InitialPolicies <- TwoPolicies
    Grantable <- ExecutorGrants
    Signable <- RollbackOnly
    Documents <- TwoDocuments
    MaxPending = 1
    Heads <- TwoHeads
    PermitIds <- OnePermit
    MaxPushes = 1
    Faults <- LostAnswers
    Threads <- OneThread
    Processes <- OneServer
    Host <- SingleHost
    Nonces <- OneNonce
    QuorumAdapter = FALSE
    RequireQuorum = FALSE
    StoresRaise = TRUE
    Audited <- NothingAudited
    Followed = {}
    MaxEvaluations = 1
    MaxExpired = 1
    MaxEpoch = 0
    MaxCrashes = 0
SPECIFICATION Spec
INVARIANT FreshAuthority
INVARIANT ReconciledIsTrue
