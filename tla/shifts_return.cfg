CONSTANTS
    A = A
    B = B
    Setups <- OnlyTwo
    Day = 4
    Start = 1
    Lengths <- UsualDays
    JumpAt = 1
    MaxTicks = 4
    MaxPosts = 0
    MaxFailures = 0
SPECIFICATION FairSpec
PROPERTIES CatchesUp
CHECK_DEADLOCK FALSE
