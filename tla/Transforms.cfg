SPECIFICATION Spec
CONSTANTS
    Degree = 5
    NumVars = 3
    Ctx = "CoeffCtxGF128_F4"
    Gf128Modulus = {0, 3}
    Values <- SomeValues
    Messages <- SparseMessages
    Deltas <- SomeDeltas
    Noise <- SomeNoise
    BlockLength = 2
    NumPolys = 2
    Polys <- SomePolys
    Factors <- SomeFactors
    Outputs <- SomeOutputs
    Functions = {"QA_encode_test_PCS", "VOLE_QASD", "Extension_Field_OLE"}
INVARIANTS
    TypeOK
    ForwardEvaluates
    ProductsReduced
    CodedIsProduct
    EncodingCorrelated
    Verified
    VolIsSyndrome
    CrossTermsShared
    OleHolds
