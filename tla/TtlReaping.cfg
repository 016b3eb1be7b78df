CONSTANTS
    k1 = k1  k2 = k2  k3 = k3  h1 = h1  h2 = h2
    Keys = {k1}
    HashedKeys = {h1}
    HashOf <- MCHashOf
    Clients = {c1, c2}
    Wipers = {}
    TtlWorkers = {w}
    PolicyWorkers = {p}
    ObjectSizes = {1}
    Ttls = {0, 1}
    TtlOverhead = 1
    PolicyOverhead = 1
    MaxBaseSize = 2
    CacheSizes = {2}
    Modulus = 40
    Horizon = 2
    QueueBound = 2
    DistinctInstants = TRUE
    NoObject = NoObject  NoEvent = NoEvent  NoKey = NoKey
SPECIFICATION TtlSpec
SYMMETRY ClientSymmetry
INVARIANTS NoLostExpiry
PROPERTIES Spec
