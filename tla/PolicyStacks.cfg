CONSTANTS
    HashedKeys = {h1, h2, h3}
    NoKey = NoKey
    Choices = {"fifo", "lru", "mru", "clock", "sieve", "lfu", "2q", "s3-fifo", "arc"}
    ObjectSizes = {1, 2}
    CacheSizes = {2, 4}
    MaxUses = 4
    Scale = 4
    KIn = 2
    Ratio = 1
SPECIFICATION Spec
SYMMETRY KeySymmetry
INVARIANTS NothingForgotten SizesKept NoUnwrapFails
PROPERTIES GivesUpAKnownKey EvictsInOrder UsedKeysGetAnotherChance NewKeyFits EvictsAsTheLoopsDo
