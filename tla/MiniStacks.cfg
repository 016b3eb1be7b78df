CONSTANTS
    HashedKeys = {h1, h2, h3}
    Sampled = {h1, h2}
    Configured <- MCConfigured
    Overhead <- MCOverhead
    ObjectSizes = {1, 3}
    CacheSizes = {4, 8}
    Threshold = 1
    SamplingModulus = 2
    Modulus = 32
    MaxGets = 3
    NoKey = NoKey
    Scale = 4
    KIn = 2
    Ratio = 1
SPECIFICATION Spec
SYMMETRY SampledSymmetry
INVARIANTS MiniSizesKept ReduceEnds HitsOfEpoch MiniFits GoneOnceTold
PROPERTIES SwitchesToBetter
