CONSTANTS
    Readers = {r1, r2}
    NoReader = NoReader
    HashedKeys = {0, 1, 2, 3}
    ObjectSizes = {0, 1}
    CacheSizes = {3}
    Sent <- MCSent
    Base = 2
    KeyWidth = 2
    SizeWidth = 1
    CacheWidth = 2
    Capacity = 4
    MaxAge = 1
    RefreshAge = 0
    Polling = 2
    MaxEvents = 2
    Horizon = 2
SPECIFICATION FairSpec
INVARIANTS NothingOverwritten ReadsWithoutGap AtTheEnd FragmentsBounded
PROPERTIES EventuallyInAFile
