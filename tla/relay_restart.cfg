CONSTANTS
    m1 = m1
    s1 = s1
    A = A
    B = B
    u = u
    Pairs <- OnePair
    Accounts = {A}
    User = u
    PeerSets <- SomePeers
    Budget <- RestartBudget
    MaxRetries = 3
SPECIFICATION Spec
INVARIANTS NoEcho ExtraCopiesAreRepeats CopiesInOrder RowsLinkMirrors RepliesCorrespond
PROPERTIES CopiesMoveForward ImplementsMirroring
CONSTRAINT FewActs
CHECK_DEADLOCK FALSE
