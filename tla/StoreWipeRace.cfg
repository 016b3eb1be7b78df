CONSTANTS
    k1 = k1  k2 = k2  k3 = k3  h1 = h1  h2 = h2
    Keys = {k1}
    HashedKeys = {h1}
    HashOf <- MCHashOf
    Clients = {c1, c2}
    Wipers = {c1}
    TtlWorkers = {}
    PolicyWorkers = {}
    ObjectSizes = {1}
    Ttls = {0}
    TtlOverhead = 1
    PolicyOverhead = 1
    MaxBaseSize = 3
    CacheSizes = {2}
    Modulus = 64
    Horizon = 1
    NoObject = NoObject  NoEvent = NoEvent  NoKey = NoKey
SPECIFICATION Spec
INVARIANTS EmptyMeansZero
