\* The allocator has a behaviour that ends: kvs_free of a wrong pointer aborts.
SPECIFICATION StorageSpec
CONSTANTS
    BlockSize <- TwoClasses
    Blocks <- TwoAndOne
    Sizes = {1, 3, 4}
    Region = {1, 2, 3, 4}
    MaxFaults = 2
INVARIANTS
    EnginesIntact
    NoLeak
    PoolSound
PROPERTIES
    Refines
CHECK_DEADLOCK FALSE
