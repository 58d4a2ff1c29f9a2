SPECIFICATION Spec
CONSTANTS
    Bits <- FourBits
    Domains <- SomeDomains
    MaxDepth = 3
    Hash <- SomeHash
    RoundFn <- SomeRoundFn
    Expand3 <- SomeExpand3
    Points <- SomePoints
    Values <- SomeValues
    Seeds <- SomeSeeds
    Masks <- SomeMasks
    BaseOts <- SomeBaseOts
    Choices <- SomeChoices
INVARIANTS
    TypeOK
    Matched
    OneActivePath
    SharesPoint
PROPERTY Terminates
