CONSTANTS
    A = A
    B = B
    Setups <- EverySetup
    Day = 4
    Start = 3
    Lengths <- AnyDays
    JumpAt = 1
    MaxTicks = 6
    MaxPosts = 1
    MaxFailures = 2
SPECIFICATION FairSpec
INVARIANTS TypeOK OthersToldToEnd OneManagerRuns DutyByTheClock
PROPERTIES ShutdownCompletes 
CHECK_DEADLOCK FALSE
