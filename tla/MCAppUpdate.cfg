SPECIFICATION FairSpec
CONSTANTS
    N = 3
    MaxRelease = 3
    MaxMishaps = 2
CHECK_DEADLOCK FALSE
INVARIANT OnlyVerified
INVARIANT AllOrNothing
INVARIANT OneReleaseLeft
INVARIANT NoAssetLost
INVARIANT TruthTold
PROPERTY NothingUnsaid
PROPERTY NobodyWaits
