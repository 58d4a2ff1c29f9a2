SPECIFICATION Spec
CONSTANTS
    t1 = t1
    t2 = t2
    Threads <- Both
    Tables <- SomeTables
    MaxBins = 7
    MaxStash = 5
    MaxItems = 8
    BatchSize = 2
    BlockSize = 5
    ReinsertLimit = 3
INVARIANTS
    TypeOK
    ItemsKept
    FoundWherePlaced
    RowsDistinct
PROPERTY EveryThreadEnds
