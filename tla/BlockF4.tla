------------------------------- MODULE BlockF4 -------------------------------
(***************************************************************************)
(* A block as a polynomial of degree below Degree over F4, whose elements   *)
(* are 0, 1, alpha and omega = alpha^2 = alpha + 1: each coefficient is a   *)
(* pair of adjacent bits, the low one for 1 and the high one for alpha.     *)
(* The set of its bits that are set stands for a block, and a set of        *)
(* exponents for a polynomial over F2, which is what the carry-less         *)
(* multiplication takes and returns.                                        *)
(***************************************************************************)
EXTENDS Integers, FiniteSets

CONSTANT Degree         \* coefficients of a block: 64 in the code

\* Two passes of F4_reduce suffice from degree 5 on.
ASSUME DegreeAssumption == Degree \in Nat /\ Degree >= 5

Bit == {"l", "h"}
Block == SUBSET ((0 .. Degree - 1) \X Bit)
Zero == {}

Xor(x, y) == (x \ y) \cup (y \ x)

\* The sum of a family of blocks: the bits that an odd number of them have set.
XorAll(f) ==
    LET terms == {<<x, f[x]>> : x \in DOMAIN f}
    IN  {b \in UNION {t[2] : t \in terms} : Cardinality({t \in terms : b \in t[2]}) % 2 = 1}

Masked(x, bit) == {b \in x : b[2] = bit}
Shifted(x, bit) == {<<b[1], bit>> : b \in x}

\* mult of the transforms: a low bit gives alpha + 1 and a high bit 1, so this
\* is the multiplication by omega.
TimesOmega(x) ==
    LET xor_h == Masked(x, "h")
        xor_l == Masked(x, "l")
    IN  Xor(Shifted(xor_h, "l"), xor_l) \cup Shifted(xor_l, "h")

-----------------------------------------------------------------------------
(* F4_mul: multiplication modulo x^Degree + alpha(x^3 + x) + 1.             *)

Poly == SUBSET (0 .. 2 * Degree - 1)

\* The carry-less product: an exponent survives if it arises an odd number of
\* times.
Clmul(p, q) ==
    {e \in 0 .. 2 * Degree - 1 : Cardinality({i \in p : e - i \in q}) % 2 = 1}

LowHalf(p) == {e \in p : e < Degree}
HighHalf(p) == {e - Degree : e \in {i \in p : i >= Degree}}

odd_bit_extraction(x) == {b[1] : b \in Masked(x, "l")}
even_bit_extraction(x) == {b[1] : b \in Masked(x, "h")}
interleave(a, b) == (a \X {"l"}) \cup (b \X {"h"})

\* The low and the high half of mod.
h1 == {0}
h2 == {1, 3}

\* What the high halves of odd + alpha * even contribute below x^Degree.
FoldedOdd(odd, even) ==
    Xor(Clmul(HighHalf(odd), h1), Clmul(HighHalf(even), h2))
FoldedEven(odd, even) ==
    Xor(Xor(Clmul(HighHalf(odd), h2), Clmul(HighHalf(even), h1)),
        Clmul(HighHalf(even), h2))

\* As if what overflows again after the first pass were dropped.
F4_reduceOnce(odd, even) ==
    interleave(LowHalf(Xor(odd, FoldedOdd(odd, even))),
               LowHalf(Xor(even, FoldedEven(odd, even))))

\* As if the high half were folded in but not cut off.
F4_reduceUncut(odd, even) ==
    interleave(Xor(odd, FoldedOdd(odd, even)), Xor(even, FoldedEven(odd, even)))

F4_reduce(odd, even) ==
    LET reduced_odd == FoldedOdd(odd, even)
        reduced_even == FoldedEven(odd, even)
        final_reduced_odd == FoldedOdd(reduced_odd, reduced_even)
        final_reduced_even == FoldedEven(reduced_odd, reduced_even)
    IN  interleave(LowHalf(Xor(Xor(odd, final_reduced_odd), reduced_odd)),
                   LowHalf(Xor(Xor(even, final_reduced_even), reduced_even)))

F4_mul(x, y) ==
    LET t1 == Clmul(odd_bit_extraction(x), odd_bit_extraction(y))
        t2 == Clmul(odd_bit_extraction(x), even_bit_extraction(y))
        t3 == Clmul(even_bit_extraction(x), odd_bit_extraction(y))
        t4 == Clmul(even_bit_extraction(x), even_bit_extraction(y))
    IN  F4_reduce(Xor(t1, t4), Xor(Xor(t2, t3), t4))
=============================================================================
