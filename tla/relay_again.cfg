CONSTANTS
    m1 = m1
    s1 = s1
    A = A
    B = B
    u = u
    Pairs <- OnePair
    Accounts = {A, B}
    User = u
    PeerSets <- AllPeers
    Budget <- ShiftBudget
    MaxRetries = 3
SPECIFICATION Spec
INVARIANTS RelayedAtMostOnce
CHECK_DEADLOCK FALSE
