CONSTANTS
    k1 = k1  k2 = k2  k3 = k3  h1 = h1  h2 = h2
    Keys = {k1, k2, k3}
    HashedKeys = {h1, h2}
    HashOf <- MCHashOf
    Clients = {c1, c2}
    Wipers = {c1, c2}
    TtlWorkers = {w}
    PolicyWorkers = {}
    ObjectSizes = {2}
    Ttls = {0, 1}
    TtlOverhead = 1
    PolicyOverhead = 1
    MaxBaseSize = 3
    CacheSizes = {2, 4}
    Modulus = 64
    Horizon = 2
    NoObject = NoObject  NoEvent = NoEvent  NoKey = NoKey
SPECIFICATION Spec
SYMMETRY ClientSymmetry
CONSTRAINT WipesAlone
INVARIANTS TypeOK Accounting AccountsAtRest
