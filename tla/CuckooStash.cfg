SPECIFICATION Spec
CONSTANTS
    t1 = t1
    t2 = t2
    Threads <- Both
    Tables <- StashedTables
    MaxBins = 7
    MaxStash = 5
    MaxItems = 8
    BatchSize = 2
    BlockSize = 5
    ReinsertLimit = 3
INVARIANT ThreadSafe
