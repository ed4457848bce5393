CONSTANTS
    Pairs <- OnePair
    Groups <- ThreeGroups
    Offset = 100
SPECIFICATION Spec
INVARIANTS MembersAreHeard
CHECK_DEADLOCK FALSE
