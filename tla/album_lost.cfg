CONSTANTS
    i1 = i1
    i2 = i2
    i3 = i3
    i4 = i4
    Items <- FourItems
    Limit = 5
SPECIFICATION FairSpec
PROPERTIES AllDelivered
CHECK_DEADLOCK FALSE
