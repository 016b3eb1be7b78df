CONSTANTS
    HashedKeys = {h1}
    Sampled = {h1}
    Expiring = {h1}
    Configured = {"fifo", "lfu"}
    Overhead <- MCOverhead
    CacheSizes = {1, 2}
    CallKinds = {"Get", "Set", "Del", "Policy", "Resize"}
    MaxCalls = 3
    MaxSwitches = 2
    MayFail = TRUE
    NoKey = NoKey  NoEvent = NoEvent  NoPolicy = NoPolicy
    Scale = 4
    KIn = 2
    Ratio = 1
SPECIFICATION FairSpec
PROPERTIES EventuallyInstalled EventuallyFits
