SPECIFICATION Spec
CONSTANTS
    NumPartitions = 64
    NumBatches = 2
    MaxCalls = 2
    Plans <- CallPlans
INVARIANTS
    TypeOK
    ExpectedMessage
    SenderReturnsWhole
    ReceiverReturnsWhole
    FreshCorrelations
    Drained
    Correlated
PROPERTIES
    EveryThreadEnds
    FailTogether
    EveryCallReturns
    ImplementsFunctionality
