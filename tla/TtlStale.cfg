CONSTANTS
    k1 = k1  k2 = k2  k3 = k3  h1 = h1  h2 = h2
    Keys = {k1}
    HashedKeys = {h1}
    HashOf <- MCHashOf
    Clients = {c1}
    Wipers = {}
    TtlWorkers = {w}
    PolicyWorkers = {}
    ObjectSizes = {1}
    Ttls = {0, 1}
    TtlOverhead = 1
    PolicyOverhead = 1
    MaxBaseSize = 3
    CacheSizes = {4}
    Modulus = 64
    Horizon = 3
    QueueBound = 2
    DistinctInstants = TRUE
    NoObject = NoObject  NoEvent = NoEvent  NoKey = NoKey
SPECIFICATION TtlSpec
PROPERTIES NoPrematurePop
