CONSTANTS
    m1 = m1
    s1 = s1
    like = like
    fire = fire
    cry = cry
    star = star
    A = A
    B = B
    Rows <- OneRow
    Accounts = {A}
    Standard = {like, fire, cry}
    Custom = {star}
    Allowed <- NotTheSame
    PeerSets <- AllPeers
    MaxReacts = 3
    MaxEvents = 2
    MaxRetries = 1
SPECIFICATION FairSpec
INVARIANTS TypeOK OneSnapshot MirrorsMoveForward CacheIsRight
PROPERTIES FollowsSource MembersAreSeen
CHECK_DEADLOCK FALSE
