CONSTANTS
    t1 = t1
    t2 = t2
    server = server
    o1 = o1
    o2 = o2
    o3 = o3
    p1 = p1
    h1 = h1
    h2 = h2
    x = x
    y = y
    None = None
    Absent = Absent
    Genesis = Genesis
    Torn = Torn
    NoMerge = NoMerge
    Foreign = Foreign
    InitialHead = h1
    Heads <- TwoHeads
    PermitIds <- OnePermit
    MaxPushes = 1
    Signers <- ThreeSigners
    Statements <- Stateable
    Threshold = 2
    Threads <- TwoThreads
    Processes <- OneServer
    Host <- SameHost
    DiskFailures <- AllFailures
    DatabaseFails = TRUE
    MaxClock = 2
    SecondTicks = 2
    Expected <- Approved
    Sources <- InOrder
    Faulty <- OneFaulty
    Lies <- ClaimedOrDenied
    SourcesRaise = TRUE
    MaxRequests = 3
    MaxFaults = 1
SPECIFICATION Spec
CHECK_DEADLOCK FALSE
INVARIANT TypeOK
INVARIANT LedgerVerifies
INVARIANT StoresAgree
INVARIANT AcknowledgedIsAudited
INVARIANT ReportedReconciledIsTrue
INVARIANT ReportFollowsAnswers
INVARIANT QuorumsAreWitnessed
INVARIANT CommitmentsPinLedgers
INVARIANT ExportsVerify
INVARIANT AnchorsPinOneReading
INVARIANT NobodyWaitsForNobody
SYMMETRY Symmetry
