SPECIFICATION Spec
CONSTANTS
    Degree = 5
    NumVars = 3
    Ctx = "CoeffCtxGF128"
    Gf128Modulus = {0, 3}
    Values <- SomeValues
    Messages <- SparseMessages
    Deltas <- SomeDeltas
    Noise <- SomeNoise
    BlockLength = 2
    NumPolys = 2
    Polys <- SomePolys
    Factors <- SomeFactors
    Outputs <- SomeOutputs
    Functions = {"VOLE_QASD"}
INVARIANT EncodingCorrelated
