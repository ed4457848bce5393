CONSTANTS
    Items <- ThreeItems
    Limit = 3
    Attempts = 2
    MaxRetries = 1
    MaxFaults = 1
    MaxRemovals = 1
SPECIFICATION AlbumSpec
INVARIANTS TypeOK RelayedOnce RelayTypeOK ItemsMapped CopiedOnce
PROPERTIES WholeUnlessSlow AlbumMirrored FullAlbumsFollowDeletions
CHECK_DEADLOCK FALSE
