CONSTANTS
    HashedKeys = {h1, h2}
    Sampled = {h1}
    Expiring = {}
    Configured = {"fifo", "lfu"}
    Overhead <- MCOverhead
    CacheSizes = {2}
    CallKinds = {"Policy"}
    MaxCalls = 2
    MaxSwitches = 2
    MayFail = FALSE
    NoKey = NoKey  NoEvent = NoEvent  NoPolicy = NoPolicy
    Scale = 4
    KIn = 2
    Ratio = 1
SPECIFICATION Spec
INVARIANTS StackOfCurrentPolicy
