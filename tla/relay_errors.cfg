CONSTANTS
    m1 = m1
    s1 = s1
    A = A
    B = B
    u = u
    Pairs <- OnePair
    Accounts = {A}
    User = u
    PeerSets <- AllPeers
    Budget <- ErrorBudget
    MaxRetries = 3
SPECIFICATION FairSpec
INVARIANTS TypeOK RelayedAtMostOnce
PROPERTIES UpdatesHandled EventuallyInSync DisabledPairsWindDown ImplementsMirroring
CHECK_DEADLOCK FALSE
