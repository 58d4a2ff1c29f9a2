------------------------------- MODULE CoeffCtx -------------------------------
(***************************************************************************)
(* The two coefficient contexts with F = G = block, which differ in their   *)
(* multiplication: CoeffCtxGF128_F4, which VOLE_QASD uses, and              *)
(* CoeffCtxGF128, the default of the silent VOLE classes.                   *)
(***************************************************************************)
EXTENDS BlockF4

CONSTANTS
    Ctx,            \* the context
    Gf128Modulus    \* exponents below 2 * Degree of GF128's modulus: 0, 1, 2, 7

ASSUME CtxAssumption ==
    /\ Ctx \in {"CoeffCtxGF128_F4", "CoeffCtxGF128"}
    /\ Gf128Modulus \subseteq 0 .. Degree

\* A block as a polynomial over F2 of degree below 2 * Degree.
Bits(x) == {2 * b[1] + (IF b[2] = "h" THEN 1 ELSE 0) : b \in x}
FromBits(p) == {<<e \div 2, IF e % 2 = 0 THEN "l" ELSE "h">> : e \in p}

Raised(p) == {e + Degree : e \in p}

gf128Reduce(low, high) ==
    LET tmp == Clmul(HighHalf(high), Gf128Modulus)
        mul256_high == Xor(high, HighHalf(tmp))
    IN  Xor(Xor(low, Raised(LowHalf(tmp))), Clmul(LowHalf(mul256_high), Gf128Modulus))

gf128Mul(x, y) ==
    LET p == Bits(x)
        q == Bits(y)
        t1 == Clmul(LowHalf(p), LowHalf(q))
        t2 == Xor(Clmul(LowHalf(p), HighHalf(q)), Clmul(HighHalf(p), LowHalf(q)))
        t4 == Clmul(HighHalf(p), HighHalf(q))
    IN  FromBits(gf128Reduce(Xor(t1, Raised(LowHalf(t2))), Xor(t4, HighHalf(t2))))

mul(x, y) == IF Ctx = "CoeffCtxGF128_F4" THEN F4_mul(x, y) ELSE gf128Mul(x, y)
plus(x, y) == Xor(x, y)
=============================================================================
