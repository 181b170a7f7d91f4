SPECIFICATION Spec
CONSTANTS
    Factor = 2
    ByteBits = 2
    MaxSync = 0
    ShortErrno <- BothErrnos
    MaxClusters = 6
    MaxDamage = 2
INVARIANT EveryClusterIsRight
CHECK_DEADLOCK FALSE
