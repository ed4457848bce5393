CONSTANTS
    MaxRetries = 3
SPECIFICATION FairSpec
INVARIANTS TypeOK CallsBounded OnlyRepeatable ForbiddenReported
PROPERTIES Returns
CHECK_DEADLOCK FALSE
