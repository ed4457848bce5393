CONSTANTS
    A = A
    B = B
    Setups <- OnlyAlone
    Day = 4
    Start = 1
    Lengths <- UsualDays
    JumpAt = 1
    MaxTicks = 0
    MaxPosts = 1
    MaxFailures = 0
SPECIFICATION Spec
INVARIANTS HandledMeansGiven
CHECK_DEADLOCK FALSE
