SPECIFICATION Spec
CONSTANTS
    NumPartitions = 64
    NumBatches = 2
    MaxCalls = 2
    Plans <- BenchmarkPlans
INVARIANT NoCallThrows
