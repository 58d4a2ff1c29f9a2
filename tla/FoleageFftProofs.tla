--------------------------- MODULE FoleageFftProofs ---------------------------
(***************************************************************************)
(* F4 arithmetic and the transform, for every Degree and number of          *)
(* variables: the blocks are a commutative ring with the multiplication     *)
(* F4_mul, over which foleageFft evaluates a polynomial in NumVars          *)
(* variables at all points whose coordinates are cube roots of unity.       *)
(***************************************************************************)
EXTENDS FoleageFft, FiniteSetTheorems, WellFoundedInduction, TLAPS

\* The exponents of one of the two polynomials a block consists of.
HalfPoly == SUBSET (0 .. Degree - 1)

-----------------------------------------------------------------------------
(* Xor                                                                     *)

\* Xor adds no bits that neither operand may have.
LEMMA XorType ==
    ASSUME NEW S, NEW x \in SUBSET S, NEW y \in SUBSET S
    PROVE  Xor(x, y) \in SUBSET S
BY DEF Xor

\* Xor does not depend on the order of its operands.
LEMMA XorComm == ASSUME NEW x, NEW y PROVE Xor(x, y) = Xor(y, x)
BY DEF Xor

\* Nor on how a sum is bracketed.
LEMMA XorAssoc ==
    ASSUME NEW x, NEW y, NEW z
    PROVE  Xor(Xor(x, y), z) = Xor(x, Xor(y, z))
BY DEF Xor

\* What is added twice cancels.
LEMMA XorCancel == ASSUME NEW x, NEW y PROVE Xor(x, Xor(x, y)) = y
BY DEF Xor

\* Two sums are added term by term.
LEMMA XorPairs ==
    ASSUME NEW x, NEW y, NEW z, NEW w
    PROVE  Xor(Xor(x, y), Xor(z, w)) = Xor(Xor(x, z), Xor(y, w))
BY DEF Xor

-----------------------------------------------------------------------------
(* A block and its two polynomials                                         *)

\* interleave puts the two polynomials of a block together, and the extractions
\* take them apart.
LEMMA InterleaveType ==
    ASSUME NEW p \in HalfPoly, NEW q \in HalfPoly
    PROVE  /\ interleave(p, q) \in Block
           /\ odd_bit_extraction(interleave(p, q)) = p
           /\ even_bit_extraction(interleave(p, q)) = q
<1>1. interleave(p, q) \in Block
  BY DEF interleave, Block, Bit, HalfPoly
<1>2. odd_bit_extraction(interleave(p, q)) = p
  <2>1. Masked(interleave(p, q), "l") = p \X {"l"}
    BY DEF interleave, Masked
  <2>2. \A e \in p : <<e, "l">> \in p \X {"l"} /\ <<e, "l">>[1] = e
    OBVIOUS
  <2>3. \A b \in p \X {"l"} : b[1] \in p
    OBVIOUS
  <2> QED
    BY <2>1, <2>2, <2>3 DEF odd_bit_extraction
<1>3. even_bit_extraction(interleave(p, q)) = q
  <2>1. Masked(interleave(p, q), "h") = q \X {"h"}
    BY DEF interleave, Masked
  <2>2. \A e \in q : <<e, "h">> \in q \X {"h"} /\ <<e, "h">>[1] = e
    OBVIOUS
  <2>3. \A b \in q \X {"h"} : b[1] \in q
    OBVIOUS
  <2> QED
    BY <2>1, <2>2, <2>3 DEF even_bit_extraction
<1> QED
  BY <1>1, <1>2, <1>3

\* The Xor of two blocks is a block.
LEMMA BlockXor ==
    ASSUME NEW x \in Block, NEW y \in Block
    PROVE  Xor(x, y) \in Block
BY DEF Xor, Block

\* The polynomials of a block, by the bits that are set.
LEMMA ExtractionType ==
    ASSUME NEW x \in Block
    PROVE  /\ odd_bit_extraction(x) \in HalfPoly
           /\ even_bit_extraction(x) \in HalfPoly
           /\ \A e : e \in odd_bit_extraction(x) <=> <<e, "l">> \in x
           /\ \A e : e \in even_bit_extraction(x) <=> <<e, "h">> \in x
<1>1. \A b \in x : b[1] \in 0 .. Degree - 1 /\ b = <<b[1], b[2]>>
  BY DEF Block, Bit
<1> QED
  BY <1>1 DEF odd_bit_extraction, even_bit_extraction, Masked, HalfPoly

\* A block is determined by its polynomials.
LEMMA BlockEqual ==
    ASSUME NEW x \in Block, NEW y \in Block,
           odd_bit_extraction(x) = odd_bit_extraction(y),
           even_bit_extraction(x) = even_bit_extraction(y)
    PROVE  x = y
<1>1. \A e : <<e, "l">> \in x <=> <<e, "l">> \in y
  BY ExtractionType
<1>2. \A e : <<e, "h">> \in x <=> <<e, "h">> \in y
  BY ExtractionType
<1>3. \A b \in x \cup y : b = <<b[1], "l">> \/ b = <<b[1], "h">>
  BY DEF Block, Bit
<1> QED
  BY <1>1, <1>2, <1>3

\* The extractions are linear.
LEMMA ExtractionXor ==
    ASSUME NEW x \in Block, NEW y \in Block
    PROVE  /\ odd_bit_extraction(Xor(x, y))
                = Xor(odd_bit_extraction(x), odd_bit_extraction(y))
           /\ even_bit_extraction(Xor(x, y))
                = Xor(even_bit_extraction(x), even_bit_extraction(y))
<1>1. Xor(x, y) \in Block
  BY BlockXor
<1>2. \A b : b \in Xor(x, y) <=> ~(b \in x <=> b \in y)
  BY DEF Xor
<1>3. \A e : e \in odd_bit_extraction(Xor(x, y))
                 <=> ~(e \in odd_bit_extraction(x) <=> e \in odd_bit_extraction(y))
  BY <1>1, <1>2, ExtractionType
<1>4. \A e : e \in even_bit_extraction(Xor(x, y))
                 <=> ~(e \in even_bit_extraction(x) <=> e \in even_bit_extraction(y))
  BY <1>1, <1>2, ExtractionType
<1>5. odd_bit_extraction(Xor(x, y))
        = Xor(odd_bit_extraction(x), odd_bit_extraction(y))
  BY <1>3 DEF Xor
<1>6. even_bit_extraction(Xor(x, y))
        = Xor(even_bit_extraction(x), even_bit_extraction(y))
  BY <1>4 DEF Xor
<1> QED
  BY <1>5, <1>6

\* interleave is linear.
LEMMA InterleaveXor ==
    ASSUME NEW p \in HalfPoly, NEW q \in HalfPoly, NEW r \in HalfPoly, NEW s \in HalfPoly
    PROVE  interleave(Xor(p, r), Xor(q, s)) = Xor(interleave(p, q), interleave(r, s))
<1>1. Xor(p, r) \in HalfPoly /\ Xor(q, s) \in HalfPoly
  BY XorType DEF HalfPoly
<1>2. interleave(p, q) \in Block /\ interleave(r, s) \in Block
  BY InterleaveType
<1>3. Xor(interleave(p, q), interleave(r, s)) \in Block
  BY <1>2, BlockXor
<1> QED
  BY <1>1, <1>2, <1>3, InterleaveType, ExtractionXor, BlockEqual

-----------------------------------------------------------------------------
(* Multiplication by omega                                                 *)

\* omega * (p + alpha q) = (p + q) + alpha p.
LEMMA TimesOmegaParts ==
    ASSUME NEW x \in Block
    PROVE  /\ TimesOmega(x) \in Block
           /\ odd_bit_extraction(TimesOmega(x))
                = Xor(odd_bit_extraction(x), even_bit_extraction(x))
           /\ even_bit_extraction(TimesOmega(x)) = odd_bit_extraction(x)
<1> DEFINE p == odd_bit_extraction(x)
           q == even_bit_extraction(x)
<1>1. p \in HalfPoly /\ q \in HalfPoly
  BY ExtractionType
<1>2. \A b \in x : b = <<b[1], b[2]>> /\ b[2] \in {"l", "h"}
  BY DEF Block, Bit
<1>3. Masked(x, "l") = p \X {"l"} /\ Shifted(Masked(x, "l"), "h") = p \X {"h"}
  BY <1>2 DEF Masked, Shifted, odd_bit_extraction
<1>4. Shifted(Masked(x, "h"), "l") = q \X {"l"}
  BY <1>2 DEF Masked, Shifted, even_bit_extraction
<1>5. Xor(q \X {"l"}, p \X {"l"}) = Xor(p, q) \X {"l"}
  BY DEF Xor
<1>6. TimesOmega(x) = interleave(Xor(p, q), p)
  BY <1>3, <1>4, <1>5 DEF TimesOmega, interleave
<1>7. Xor(p, q) \in HalfPoly
  BY <1>1, XorType DEF HalfPoly
<1> QED
  BY <1>1, <1>6, <1>7, InterleaveType

\* Multiplication by omega is linear.
LEMMA TimesOmegaXor ==
    ASSUME NEW x \in Block, NEW y \in Block
    PROVE  TimesOmega(Xor(x, y)) = Xor(TimesOmega(x), TimesOmega(y))
<1> DEFINE z == Xor(x, y)
<1>1. z \in Block
  BY BlockXor
<1>2. TimesOmega(x) \in Block /\ TimesOmega(y) \in Block /\ TimesOmega(z) \in Block
  BY <1>1, TimesOmegaParts
<1>3. Xor(TimesOmega(x), TimesOmega(y)) \in Block
  BY <1>2, BlockXor
<1>4. odd_bit_extraction(TimesOmega(z))
        = odd_bit_extraction(Xor(TimesOmega(x), TimesOmega(y)))
  <2>1. odd_bit_extraction(TimesOmega(z))
          = Xor(Xor(odd_bit_extraction(x), odd_bit_extraction(y)),
                Xor(even_bit_extraction(x), even_bit_extraction(y)))
    BY <1>1, TimesOmegaParts, ExtractionXor
  <2>2. odd_bit_extraction(Xor(TimesOmega(x), TimesOmega(y)))
          = Xor(Xor(odd_bit_extraction(x), even_bit_extraction(x)),
                Xor(odd_bit_extraction(y), even_bit_extraction(y)))
    BY <1>2, TimesOmegaParts, ExtractionXor
  <2> QED
    BY <2>1, <2>2, XorPairs
<1>5. even_bit_extraction(TimesOmega(z))
        = even_bit_extraction(Xor(TimesOmega(x), TimesOmega(y)))
  BY <1>1, <1>2, TimesOmegaParts, ExtractionXor
<1> HIDE DEF z
<1>6. TimesOmega(z) = Xor(TimesOmega(x), TimesOmega(y))
  BY <1>2, <1>3, <1>4, <1>5, BlockEqual
<1> QED
  BY <1>6 DEF z

-----------------------------------------------------------------------------
(* The carry-less product                                                  *)

\* A symmetric difference is odd if exactly one of the two sets is.
LEMMA XorParity ==
    ASSUME NEW A, IsFiniteSet(A), NEW B, IsFiniteSet(B)
    PROVE  Cardinality(Xor(A, B)) % 2 = 1
             <=> ~(Cardinality(A) % 2 = 1 <=> Cardinality(B) % 2 = 1)
<1> DEFINE n == Cardinality(A)
           m == Cardinality(B)
           j == Cardinality(A \cap B)
<1>1. IsFiniteSet(A \ B) /\ Cardinality(A \ B) = n - j
  BY FS_Difference
<1>2. IsFiniteSet(B \ A) /\ Cardinality(B \ A) = m - j
  <2>1. B \cap A = A \cap B
    OBVIOUS
  <2> QED
    BY <2>1, FS_Difference
<1>3. (A \ B) \cap (B \ A) = {}
  OBVIOUS
<1>4. Cardinality(Xor(A, B)) = (n - j) + (m - j) - 0
  <2>1. Cardinality((A \ B) \cap (B \ A)) = 0
    BY <1>3, FS_EmptySet
  <2> QED
    BY <1>1, <1>2, <2>1, FS_Union DEF Xor
<1>5. n \in Nat /\ m \in Nat
  BY FS_CardinalityType
<1>6. j \in Nat
  <2>1. IsFiniteSet(A \cap B)
    BY FS_Subset
  <2> QED
    BY <2>1, FS_CardinalityType
<1> HIDE DEF n, m, j
<1>7. Cardinality(Xor(A, B)) = n + m - 2 * j
  BY <1>4, <1>5, <1>6
<1>8. (n + m - 2 * j) % 2 = (n + m) % 2
  BY <1>5, <1>6
<1>9. (n + m) % 2 = 1 <=> ~(n % 2 = 1 <=> m % 2 = 1)
  BY <1>5
<1> QED
  BY <1>7, <1>8, <1>9 DEF n, m

\* A polynomial has finitely many terms.
LEMMA HalfPolyFinite == ASSUME NEW p \in HalfPoly PROVE IsFiniteSet(p)
<1>1. Degree - 1 \in Int
  BY DegreeAssumption
<1>2. IsFiniteSet(0 .. Degree - 1)
  BY <1>1, FS_Interval
<1> QED
  BY <1>2, FS_Subset DEF HalfPoly

\* The carry-less product is linear in its first factor.
LEMMA ClmulXor ==
    ASSUME NEW p \in HalfPoly, NEW r \in HalfPoly, NEW q
    PROVE  Clmul(Xor(p, r), q) = Xor(Clmul(p, q), Clmul(r, q))
<1> DEFINE Terms(t, e) == {i \in t : e - i \in q}
<1>1. ASSUME NEW e
      PROVE  Cardinality(Terms(Xor(p, r), e)) % 2 = 1
               <=> ~(Cardinality(Terms(p, e)) % 2 = 1 <=> Cardinality(Terms(r, e)) % 2 = 1)
  <2>1. IsFiniteSet(Terms(p, e)) /\ IsFiniteSet(Terms(r, e))
    BY HalfPolyFinite, FS_Subset
  <2>2. Terms(Xor(p, r), e) = Xor(Terms(p, e), Terms(r, e))
    BY DEF Xor
  <2> HIDE DEF Terms
  <2> QED
    BY <2>1, <2>2, XorParity
<1>2. \A t : Clmul(t, q) = {e \in 0 .. 2 * Degree - 1 : Cardinality(Terms(t, e)) % 2 = 1}
  BY DEF Clmul
<1> HIDE DEF Terms
<1> DEFINE All == 0 .. 2 * Degree - 1
           OddIn(t, e) == Cardinality(Terms(t, e)) % 2 = 1
<1>3. \A e : OddIn(Xor(p, r), e) <=> ~(OddIn(p, e) <=> OddIn(r, e))
  BY <1>1
<1>4. \A t : Clmul(t, q) = {e \in All : OddIn(t, e)}
  BY <1>2
<1> HIDE DEF All, OddIn
<1> QED
  BY <1>3, <1>4 DEF Xor

\* A product has no exponent of 2 * Degree or more.
LEMMA ClmulType == \A p, q : Clmul(p, q) \in Poly
BY DEF Clmul, Poly

\* Cutting a polynomial in halves is linear.
LEMMA HalvesXor ==
    ASSUME NEW p \in Poly, NEW q \in Poly
    PROVE  /\ LowHalf(p) \in HalfPoly /\ HighHalf(p) \in HalfPoly
           /\ LowHalf(Xor(p, q)) = Xor(LowHalf(p), LowHalf(q))
           /\ HighHalf(Xor(p, q)) = Xor(HighHalf(p), HighHalf(q))
<1>1. Degree \in Nat
  BY DegreeAssumption
<1>2. Xor(p, q) \in Poly
  BY XorType DEF Poly
<1>3. \A r \in Poly : \A e \in HighHalf(r) : e \in 0 .. Degree - 1 /\ e + Degree \in r
  BY <1>1 DEF HighHalf, Poly
<1>4. \A r \in Poly : \A e \in 0 .. Degree - 1 : e + Degree \in r => e \in HighHalf(r)
  <2> SUFFICES ASSUME NEW r \in Poly, NEW e \in 0 .. Degree - 1, e + Degree \in r
               PROVE  e \in HighHalf(r)
    OBVIOUS
  <2>1. e + Degree >= Degree /\ (e + Degree) - Degree = e
    BY <1>1
  <2> QED
    BY <2>1 DEF HighHalf
<1>5. LowHalf(p) \in HalfPoly
  <2>1. \A e \in LowHalf(p) : e \in 0 .. 2 * Degree - 1 /\ e < Degree
    BY DEF LowHalf, Poly
  <2>2. \A e \in 0 .. 2 * Degree - 1 : e < Degree => e \in 0 .. Degree - 1
    BY <1>1
  <2> QED
    BY <2>1, <2>2 DEF HalfPoly
<1>6. HighHalf(p) \in HalfPoly
  BY <1>3 DEF HalfPoly
<1>7. LowHalf(Xor(p, q)) = Xor(LowHalf(p), LowHalf(q))
  BY DEF LowHalf, Xor
<1>8. \A e \in 0 .. Degree - 1 :
        e \in HighHalf(Xor(p, q)) <=> ~(e \in HighHalf(p) <=> e \in HighHalf(q))
  <2> TAKE e \in 0 .. Degree - 1
  <2>1. \A r \in Poly : e \in HighHalf(r) <=> e + Degree \in r
    BY <1>3, <1>4
  <2>2. e + Degree \in Xor(p, q) <=> ~(e + Degree \in p <=> e + Degree \in q)
    BY DEF Xor
  <2> QED
    BY <2>1, <2>2, <1>2
<1>9. HighHalf(Xor(p, q)) = Xor(HighHalf(p), HighHalf(q))
  BY <1>2, <1>3, <1>8 DEF Xor
<1> QED
  BY <1>5, <1>6, <1>7, <1>9

-----------------------------------------------------------------------------
(* The reduction                                                           *)

\* The Xor of two products is one of the polynomials F4_reduce takes.
LEMMA PolyXor ==
    ASSUME NEW p \in Poly, NEW q \in Poly
    PROVE  Xor(p, q) \in Poly
BY XorType DEF Poly

\* What the high halves contribute is folded into such polynomials.
LEMMA FoldedType ==
    ASSUME NEW o \in Poly, NEW e \in Poly
    PROVE  FoldedOdd(o, e) \in Poly /\ FoldedEven(o, e) \in Poly
<1>1. \A p, q, r : /\ Xor(Clmul(p, h1), Clmul(q, h2)) \in Poly
                   /\ Xor(Xor(Clmul(p, h2), Clmul(r, h1)), Clmul(q, h2)) \in Poly
  BY ClmulType, PolyXor
<1> QED
  BY <1>1 DEF FoldedOdd, FoldedEven

\* The folding is linear.
LEMMA FoldedXor ==
    ASSUME NEW o \in Poly, NEW e \in Poly, NEW o2 \in Poly, NEW e2 \in Poly
    PROVE  /\ FoldedOdd(Xor(o, o2), Xor(e, e2)) = Xor(FoldedOdd(o, e), FoldedOdd(o2, e2))
           /\ FoldedEven(Xor(o, o2), Xor(e, e2)) = Xor(FoldedEven(o, e), FoldedEven(o2, e2))
<1> DEFINE P1(p) == Clmul(HighHalf(p), h1)
           P2(p) == Clmul(HighHalf(p), h2)
<1>1. /\ P1(Xor(o, o2)) = Xor(P1(o), P1(o2)) /\ P2(Xor(o, o2)) = Xor(P2(o), P2(o2))
      /\ P1(Xor(e, e2)) = Xor(P1(e), P1(e2)) /\ P2(Xor(e, e2)) = Xor(P2(e), P2(e2))
  BY HalvesXor, ClmulXor
<1>2. \A p, q : /\ FoldedOdd(p, q) = Xor(P1(p), P2(q))
                /\ FoldedEven(p, q) = Xor(Xor(P2(p), P1(q)), P2(q))
  BY DEF FoldedOdd, FoldedEven
<1> HIDE DEF P1, P2
<1>3. FoldedOdd(Xor(o, o2), Xor(e, e2)) = Xor(Xor(P1(o), P1(o2)), Xor(P2(e), P2(e2)))
  BY <1>1, <1>2
<1>4. FoldedEven(Xor(o, o2), Xor(e, e2))
        = Xor(Xor(Xor(P2(o), P2(o2)), Xor(P1(e), P1(e2))), Xor(P2(e), P2(e2)))
  BY <1>1, <1>2
<1>5. FoldedOdd(Xor(o, o2), Xor(e, e2)) = Xor(Xor(P1(o), P2(e)), Xor(P1(o2), P2(e2)))
  BY <1>3, XorPairs
<1>6. FoldedEven(Xor(o, o2), Xor(e, e2))
        = Xor(Xor(Xor(P2(o), P1(e)), P2(e)), Xor(Xor(P2(o2), P1(e2)), P2(e2)))
  BY <1>4, XorPairs
<1> QED
  BY <1>2, <1>5, <1>6

\* The folding commutes with the multiplication by omega.
LEMMA FoldedOmega ==
    ASSUME NEW o \in Poly, NEW e \in Poly
    PROVE  /\ FoldedOdd(Xor(o, e), o) = Xor(FoldedOdd(o, e), FoldedEven(o, e))
           /\ FoldedEven(Xor(o, e), o) = FoldedOdd(o, e)
<1> DEFINE P1(p) == Clmul(HighHalf(p), h1)
           P2(p) == Clmul(HighHalf(p), h2)
<1>1. P1(Xor(o, e)) = Xor(P1(o), P1(e)) /\ P2(Xor(o, e)) = Xor(P2(o), P2(e))
  BY HalvesXor, ClmulXor
<1>2. \A p, q : /\ FoldedOdd(p, q) = Xor(P1(p), P2(q))
                /\ FoldedEven(p, q) = Xor(Xor(P2(p), P1(q)), P2(q))
  BY DEF FoldedOdd, FoldedEven
<1> HIDE DEF P1, P2
<1>3. FoldedOdd(Xor(o, e), o) = Xor(Xor(P1(o), P1(e)), P2(o))
  BY <1>1, <1>2
<1>4. FoldedEven(Xor(o, e), o) = Xor(Xor(Xor(P2(o), P2(e)), P1(o)), P2(o))
  BY <1>1, <1>2
<1>5. \A w, x, y, z :
        /\ Xor(Xor(w, y), x) = Xor(Xor(w, z), Xor(Xor(x, y), z))
        /\ Xor(Xor(Xor(x, z), w), x) = Xor(w, z)
  BY DEF Xor
<1>6. Xor(Xor(P1(o), P1(e)), P2(o))
        = Xor(Xor(P1(o), P2(e)), Xor(Xor(P2(o), P1(e)), P2(e)))
  BY <1>5
<1>7. Xor(Xor(Xor(P2(o), P2(e)), P1(o)), P2(o)) = Xor(P1(o), P2(e))
  BY <1>5
<1> QED
  BY <1>2, <1>3, <1>4, <1>6, <1>7

\* Both polynomials of a reduced product, before they are put together.
ReducedOdd(o, e) ==
    LowHalf(Xor(Xor(o, FoldedOdd(FoldedOdd(o, e), FoldedEven(o, e))), FoldedOdd(o, e)))
ReducedEven(o, e) ==
    LowHalf(Xor(Xor(e, FoldedEven(FoldedOdd(o, e), FoldedEven(o, e))), FoldedEven(o, e)))

\* They are polynomials of a block.
LEMMA ReducedType ==
    ASSUME NEW o \in Poly, NEW e \in Poly
    PROVE  /\ ReducedOdd(o, e) \in HalfPoly /\ ReducedEven(o, e) \in HalfPoly
           /\ F4_reduce(o, e) = interleave(ReducedOdd(o, e), ReducedEven(o, e))
<1>1. FoldedOdd(o, e) \in Poly /\ FoldedEven(o, e) \in Poly
  BY FoldedType
<1>2. /\ FoldedOdd(FoldedOdd(o, e), FoldedEven(o, e)) \in Poly
      /\ FoldedEven(FoldedOdd(o, e), FoldedEven(o, e)) \in Poly
  BY <1>1, FoldedType
<1>3. /\ Xor(Xor(o, FoldedOdd(FoldedOdd(o, e), FoldedEven(o, e))), FoldedOdd(o, e)) \in Poly
      /\ Xor(Xor(e, FoldedEven(FoldedOdd(o, e), FoldedEven(o, e))), FoldedEven(o, e)) \in Poly
  BY <1>1, <1>2, PolyXor
<1>4. ReducedOdd(o, e) \in HalfPoly /\ ReducedEven(o, e) \in HalfPoly
  BY <1>3, HalvesXor DEF ReducedOdd, ReducedEven
<1> QED
  BY <1>4 DEF F4_reduce, ReducedOdd, ReducedEven

\* The low half of a sum of three pairs is added pair by pair.
LEMMA LowHalfSum ==
    ASSUME NEW u, NEW v, NEW w, Xor(Xor(u, v), w) \in Poly,
           NEW u2, NEW v2, NEW w2, Xor(Xor(u2, v2), w2) \in Poly
    PROVE  LowHalf(Xor(Xor(Xor(u, u2), Xor(v, v2)), Xor(w, w2)))
             = Xor(LowHalf(Xor(Xor(u, v), w)), LowHalf(Xor(Xor(u2, v2), w2)))
<1>1. Xor(Xor(Xor(u, u2), Xor(v, v2)), Xor(w, w2))
        = Xor(Xor(Xor(u, v), w), Xor(Xor(u2, v2), w2))
  BY XorPairs
<1> QED
  BY <1>1, HalvesXor

\* The reduction is linear.
LEMMA ReducedXor ==
    ASSUME NEW o \in Poly, NEW e \in Poly, NEW o2 \in Poly, NEW e2 \in Poly
    PROVE  F4_reduce(Xor(o, o2), Xor(e, e2)) = Xor(F4_reduce(o, e), F4_reduce(o2, e2))
<1> DEFINE f == FoldedOdd(o, e)
           g == FoldedEven(o, e)
           f2 == FoldedOdd(o2, e2)
           g2 == FoldedEven(o2, e2)
           oo == Xor(o, o2)
           ee == Xor(e, e2)
<1>1. f \in Poly /\ g \in Poly /\ f2 \in Poly /\ g2 \in Poly /\ oo \in Poly /\ ee \in Poly
  BY FoldedType, PolyXor
<1>2. FoldedOdd(oo, ee) = Xor(f, f2) /\ FoldedEven(oo, ee) = Xor(g, g2)
  BY FoldedXor
<1>3. /\ ReducedOdd(oo, ee) = LowHalf(Xor(Xor(oo, FoldedOdd(Xor(f, f2), Xor(g, g2))), Xor(f, f2)))
      /\ ReducedEven(oo, ee) = LowHalf(Xor(Xor(ee, FoldedEven(Xor(f, f2), Xor(g, g2))), Xor(g, g2)))
      /\ ReducedOdd(o, e) = LowHalf(Xor(Xor(o, FoldedOdd(f, g)), f))
      /\ ReducedEven(o, e) = LowHalf(Xor(Xor(e, FoldedEven(f, g)), g))
      /\ ReducedOdd(o2, e2) = LowHalf(Xor(Xor(o2, FoldedOdd(f2, g2)), f2))
      /\ ReducedEven(o2, e2) = LowHalf(Xor(Xor(e2, FoldedEven(f2, g2)), g2))
  BY <1>2 DEF ReducedOdd, ReducedEven
<1>4. /\ ReducedOdd(oo, ee) \in HalfPoly /\ ReducedEven(oo, ee) \in HalfPoly
      /\ F4_reduce(oo, ee) = interleave(ReducedOdd(oo, ee), ReducedEven(oo, ee))
      /\ ReducedOdd(o, e) \in HalfPoly /\ ReducedEven(o, e) \in HalfPoly
      /\ F4_reduce(o, e) = interleave(ReducedOdd(o, e), ReducedEven(o, e))
      /\ ReducedOdd(o2, e2) \in HalfPoly /\ ReducedEven(o2, e2) \in HalfPoly
      /\ F4_reduce(o2, e2) = interleave(ReducedOdd(o2, e2), ReducedEven(o2, e2))
  BY <1>1, ReducedType
<1> HIDE DEF f, g, f2, g2
<1>5. /\ FoldedOdd(Xor(f, f2), Xor(g, g2)) = Xor(FoldedOdd(f, g), FoldedOdd(f2, g2))
      /\ FoldedEven(Xor(f, f2), Xor(g, g2)) = Xor(FoldedEven(f, g), FoldedEven(f2, g2))
  BY <1>1, FoldedXor
<1>6. /\ FoldedOdd(f, g) \in Poly /\ FoldedOdd(f2, g2) \in Poly
      /\ FoldedEven(f, g) \in Poly /\ FoldedEven(f2, g2) \in Poly
  BY <1>1, FoldedType
<1>7. /\ ReducedOdd(oo, ee)
           = LowHalf(Xor(Xor(oo, Xor(FoldedOdd(f, g), FoldedOdd(f2, g2))), Xor(f, f2)))
      /\ ReducedEven(oo, ee)
           = LowHalf(Xor(Xor(ee, Xor(FoldedEven(f, g), FoldedEven(f2, g2))), Xor(g, g2)))
  BY <1>3, <1>5
<1>8. ReducedOdd(oo, ee) = Xor(ReducedOdd(o, e), ReducedOdd(o2, e2))
  <2>1. /\ Xor(Xor(o, FoldedOdd(f, g)), f) \in Poly
        /\ Xor(Xor(o2, FoldedOdd(f2, g2)), f2) \in Poly
    BY <1>1, <1>6, PolyXor
  <2> QED
    BY <1>3, <1>7, <2>1, LowHalfSum
<1>9. ReducedEven(oo, ee) = Xor(ReducedEven(o, e), ReducedEven(o2, e2))
  <2>1. /\ Xor(Xor(e, FoldedEven(f, g)), g) \in Poly
        /\ Xor(Xor(e2, FoldedEven(f2, g2)), g2) \in Poly
    BY <1>1, <1>6, PolyXor
  <2> QED
    BY <1>3, <1>7, <2>1, LowHalfSum
<1> QED
  BY <1>4, <1>8, <1>9, InterleaveXor

\* The reduction commutes with the multiplication by omega.
LEMMA ReducedOmega ==
    ASSUME NEW o \in Poly, NEW e \in Poly
    PROVE  F4_reduce(Xor(o, e), o) = TimesOmega(F4_reduce(o, e))
<1> DEFINE f == FoldedOdd(o, e)
           g == FoldedEven(o, e)
           oe == Xor(o, e)
<1>1. f \in Poly /\ g \in Poly /\ oe \in Poly
  BY FoldedType, PolyXor
<1>2. FoldedOdd(oe, o) = Xor(f, g) /\ FoldedEven(oe, o) = f
  BY FoldedOmega
<1>3. /\ ReducedOdd(oe, o) = LowHalf(Xor(Xor(oe, FoldedOdd(Xor(f, g), f)), Xor(f, g)))
      /\ ReducedEven(oe, o) = LowHalf(Xor(Xor(o, FoldedEven(Xor(f, g), f)), f))
      /\ ReducedOdd(o, e) = LowHalf(Xor(Xor(o, FoldedOdd(f, g)), f))
      /\ ReducedEven(o, e) = LowHalf(Xor(Xor(e, FoldedEven(f, g)), g))
  BY <1>2 DEF ReducedOdd, ReducedEven
<1>4. /\ ReducedOdd(oe, o) \in HalfPoly /\ ReducedEven(oe, o) \in HalfPoly
      /\ F4_reduce(oe, o) = interleave(ReducedOdd(oe, o), ReducedEven(oe, o))
      /\ ReducedOdd(o, e) \in HalfPoly /\ ReducedEven(o, e) \in HalfPoly
      /\ F4_reduce(o, e) = interleave(ReducedOdd(o, e), ReducedEven(o, e))
  BY <1>1, ReducedType
<1> HIDE DEF f, g
<1>5. /\ FoldedOdd(Xor(f, g), f) = Xor(FoldedOdd(f, g), FoldedEven(f, g))
      /\ FoldedEven(Xor(f, g), f) = FoldedOdd(f, g)
  BY <1>1, FoldedOmega
<1>6. FoldedOdd(f, g) \in Poly /\ FoldedEven(f, g) \in Poly
  BY <1>1, FoldedType
<1>7. ReducedOdd(oe, o)
        = LowHalf(Xor(Xor(oe, Xor(FoldedOdd(f, g), FoldedEven(f, g))), Xor(f, g)))
  BY <1>3, <1>5
<1>8. ReducedOdd(oe, o) = Xor(ReducedOdd(o, e), ReducedEven(o, e))
  <2>1. /\ Xor(Xor(o, FoldedOdd(f, g)), f) \in Poly
        /\ Xor(Xor(e, FoldedEven(f, g)), g) \in Poly
    BY <1>1, <1>6, PolyXor
  <2> QED
    BY <1>3, <1>7, <2>1, LowHalfSum
<1>9. ReducedEven(oe, o) = ReducedOdd(o, e)
  BY <1>3, <1>5
<1>10. TimesOmega(F4_reduce(o, e)) \in Block /\ F4_reduce(oe, o) \in Block
  BY <1>4, InterleaveType, TimesOmegaParts
<1>11. odd_bit_extraction(F4_reduce(oe, o)) = odd_bit_extraction(TimesOmega(F4_reduce(o, e)))
  BY <1>4, <1>8, InterleaveType, TimesOmegaParts
<1>12. even_bit_extraction(F4_reduce(oe, o)) = even_bit_extraction(TimesOmega(F4_reduce(o, e)))
  BY <1>4, <1>9, InterleaveType, TimesOmegaParts
<1> QED
  BY <1>10, <1>11, <1>12, BlockEqual

-----------------------------------------------------------------------------
(* F4_mul                                                                  *)

\* The two polynomials F4_mul reduces.
ProductOdd(p, q, r, s) == Xor(Clmul(p, r), Clmul(q, s))
ProductEven(p, q, r, s) == Xor(Xor(Clmul(p, s), Clmul(q, r)), Clmul(q, s))

\* F4_mul is the reduced product of p + alpha q and r + alpha s.
LEMMA F4_mulParts ==
    ASSUME NEW x, NEW y
    PROVE  F4_mul(x, y)
             = F4_reduce(ProductOdd(odd_bit_extraction(x), even_bit_extraction(x),
                                    odd_bit_extraction(y), even_bit_extraction(y)),
                         ProductEven(odd_bit_extraction(x), even_bit_extraction(x),
                                     odd_bit_extraction(y), even_bit_extraction(y)))
BY DEF F4_mul, ProductOdd, ProductEven

\* The product polynomials are ones F4_reduce takes.
LEMMA ProductType ==
    ASSUME NEW p, NEW q, NEW r, NEW s
    PROVE  ProductOdd(p, q, r, s) \in Poly /\ ProductEven(p, q, r, s) \in Poly
BY ClmulType, PolyXor DEF ProductOdd, ProductEven

\* F4_mul, which CoeffCtxGF128_F4 multiplies with, distributes over Xor.
THEOREM F4_mulXor ==
    ASSUME NEW x \in Block, NEW y \in Block, NEW z
    PROVE  /\ F4_mul(x, z) \in Block
           /\ F4_mul(Xor(x, y), z) = Xor(F4_mul(x, z), F4_mul(y, z))
<1> DEFINE p == odd_bit_extraction(x)
           q == even_bit_extraction(x)
           p2 == odd_bit_extraction(y)
           q2 == even_bit_extraction(y)
           r == odd_bit_extraction(z)
           s == even_bit_extraction(z)
<1>1. p \in HalfPoly /\ q \in HalfPoly /\ p2 \in HalfPoly /\ q2 \in HalfPoly
  BY ExtractionType
<1>2. F4_mul(Xor(x, y), z)
        = F4_reduce(ProductOdd(Xor(p, p2), Xor(q, q2), r, s),
                    ProductEven(Xor(p, p2), Xor(q, q2), r, s))
  BY F4_mulParts, ExtractionXor
<1>3. /\ F4_mul(x, z) = F4_reduce(ProductOdd(p, q, r, s), ProductEven(p, q, r, s))
      /\ F4_mul(y, z) = F4_reduce(ProductOdd(p2, q2, r, s), ProductEven(p2, q2, r, s))
  BY F4_mulParts
<1> HIDE DEF p, q, p2, q2, r, s
<1>4. /\ Clmul(Xor(p, p2), r) = Xor(Clmul(p, r), Clmul(p2, r))
      /\ Clmul(Xor(p, p2), s) = Xor(Clmul(p, s), Clmul(p2, s))
      /\ Clmul(Xor(q, q2), r) = Xor(Clmul(q, r), Clmul(q2, r))
      /\ Clmul(Xor(q, q2), s) = Xor(Clmul(q, s), Clmul(q2, s))
  BY <1>1, ClmulXor
<1>5. ProductOdd(Xor(p, p2), Xor(q, q2), r, s)
        = Xor(ProductOdd(p, q, r, s), ProductOdd(p2, q2, r, s))
  BY <1>4, XorPairs DEF ProductOdd
<1>6. ProductEven(Xor(p, p2), Xor(q, q2), r, s)
        = Xor(ProductEven(p, q, r, s), ProductEven(p2, q2, r, s))
  BY <1>4, XorPairs DEF ProductEven
<1>7. /\ ProductOdd(p, q, r, s) \in Poly /\ ProductEven(p, q, r, s) \in Poly
      /\ ProductOdd(p2, q2, r, s) \in Poly /\ ProductEven(p2, q2, r, s) \in Poly
  BY ProductType
<1>8. F4_mul(Xor(x, y), z) = Xor(F4_mul(x, z), F4_mul(y, z))
  BY <1>2, <1>3, <1>5, <1>6, <1>7, ReducedXor
<1>9. F4_mul(x, z) \in Block
  BY <1>3, <1>7, ReducedType, InterleaveType
<1> QED
  BY <1>8, <1>9

\* F4_mul commutes with the multiplication by omega.
THEOREM F4_mulOmega ==
    ASSUME NEW x \in Block, NEW z
    PROVE  F4_mul(TimesOmega(x), z) = TimesOmega(F4_mul(x, z))
<1> DEFINE p == odd_bit_extraction(x)
           q == even_bit_extraction(x)
           r == odd_bit_extraction(z)
           s == even_bit_extraction(z)
<1>1. p \in HalfPoly /\ q \in HalfPoly
  BY ExtractionType
<1>2. F4_mul(TimesOmega(x), z)
        = F4_reduce(ProductOdd(Xor(p, q), p, r, s), ProductEven(Xor(p, q), p, r, s))
  BY F4_mulParts, TimesOmegaParts
<1>3. F4_mul(x, z) = F4_reduce(ProductOdd(p, q, r, s), ProductEven(p, q, r, s))
  BY F4_mulParts
<1> HIDE DEF p, q, r, s
<1>4. /\ Clmul(Xor(p, q), r) = Xor(Clmul(p, r), Clmul(q, r))
      /\ Clmul(Xor(p, q), s) = Xor(Clmul(p, s), Clmul(q, s))
  BY <1>1, ClmulXor
<1>5. \A t1, t2, t3, t4 :
        /\ Xor(Xor(t1, t3), t2) = Xor(Xor(t1, t4), Xor(Xor(t2, t3), t4))
        /\ Xor(Xor(Xor(t2, t4), t1), t2) = Xor(t1, t4)
  BY DEF Xor
<1>6. ProductOdd(Xor(p, q), p, r, s) = Xor(ProductOdd(p, q, r, s), ProductEven(p, q, r, s))
  <2>1. ProductOdd(Xor(p, q), p, r, s) = Xor(Xor(Clmul(p, r), Clmul(q, r)), Clmul(p, s))
    BY <1>4 DEF ProductOdd
  <2> QED
    BY <1>5, <2>1 DEF ProductOdd, ProductEven
<1>7. ProductEven(Xor(p, q), p, r, s) = ProductOdd(p, q, r, s)
  <2>1. ProductEven(Xor(p, q), p, r, s)
          = Xor(Xor(Xor(Clmul(p, s), Clmul(q, s)), Clmul(p, r)), Clmul(p, s))
    BY <1>4 DEF ProductEven
  <2> QED
    BY <1>5, <2>1 DEF ProductOdd
<1>8. ProductOdd(p, q, r, s) \in Poly /\ ProductEven(p, q, r, s) \in Poly
  BY ProductType
<1> QED
  BY <1>2, <1>3, <1>6, <1>7, <1>8, ReducedOmega

-----------------------------------------------------------------------------
(* Induction, over sets of numbers and sets of sets                        *)

\* A set of natural numbers that is not empty has a least element.
LEMMA LeastNatural ==
    ASSUME NEW S \in SUBSET Nat, S # {}
    PROVE  \E i \in S : \A j \in S : i <= j
<1> DEFINE Below(i) == {j \in S : j <= i}
           T == {Below(i) : i \in S}
           R == StrictSubsetOrdering(S)
<1>1. T \subseteq FiniteSubsetsOf(S)
  <2>1. ASSUME NEW i \in S PROVE IsFiniteSet(Below(i))
    BY FS_BoundedSetOfNaturals
  <2>2. \A i \in S : Below(i) \in SUBSET S
    OBVIOUS
  <2> HIDE DEF Below
  <2> QED
    BY <2>1, <2>2 DEF FiniteSubsetsOf
<1>2. T # {}
  OBVIOUS
<1>3. IsWellFoundedOn(R, FiniteSubsetsOf(S))
  BY FS_StrictSubsetOrderingWellFounded
<1>4. PICK t \in T : \A u \in T : ~(<<u, t>> \in R)
  <2> HIDE DEF T, R
  <2> QED
    BY <1>1, <1>2, <1>3, WFMin
<1>5. PICK i \in S : t = Below(i)
  OBVIOUS
<1>6. ASSUME NEW j \in S, ~(i <= j) PROVE FALSE
  <2>1. Below(j) \subseteq Below(i) /\ Below(j) # Below(i)
    <3>1. i \in Below(i) /\ i \notin Below(j)
      BY <1>6
    <3>2. \A k \in S : k <= j => k <= i
      BY <1>6
    <3> QED
      BY <3>1, <3>2
  <2>2. Below(j) \in T /\ Below(i) \in SUBSET S /\ Below(j) \in SUBSET S
    OBVIOUS
  <2>3. <<Below(j), Below(i)>> \in R
    <3> HIDE DEF Below
    <3> QED
      BY <2>1, <2>2 DEF StrictSubsetOrdering
  <2> QED
    BY <1>4, <1>5, <2>2, <2>3
<1> QED
  BY <1>6

\* A set that holds 0 and the successor of each number below n holds them up to n.
LEMMA UpTo ==
    ASSUME NEW n \in Nat, NEW S, 0 \in S, \A k \in 0 .. n - 1 : k \in S => k + 1 \in S
    PROVE  \A k \in 0 .. n : k \in S
<1> SUFFICES ASSUME NEW k \in 0 .. n, k \notin S PROVE FALSE
  OBVIOUS
<1> DEFINE Out == {j \in 0 .. n : j \notin S}
<1>1. PICK j \in Out : \A l \in Out : j <= l
  <2>1. Out \in SUBSET Nat /\ Out # {}
    OBVIOUS
  <2> HIDE DEF Out
  <2> QED
    BY <2>1, LeastNatural
<1>2. j \in 1 .. n /\ j \notin S
  OBVIOUS
<1>3. j - 1 \in 0 .. n - 1 /\ j - 1 \notin Out /\ (j - 1) + 1 = j
  BY <1>1, <1>2
<1>4. j - 1 \in S
  BY <1>3
<1> QED
  BY <1>2, <1>3, <1>4

\* A set of sets that holds the empty one, and what an element more makes of a set it
\* holds, holds every finite set.
LEMMA SetByElement ==
    ASSUME NEW A, IsFiniteSet(A), NEW S, {} \in S,
           \A T \in SUBSET A : \A x \in A \ T : T \in S => T \cup {x} \in S
    PROVE  A \in S
<1> DEFINE Sizes == {n \in Nat : \A T \in SUBSET A : Cardinality(T) = n => T \in S}
<1>1. Cardinality(A) \in Nat
  BY FS_CardinalityType
<1>2. 0 \in Sizes
  <2>1. ASSUME NEW T \in SUBSET A, Cardinality(T) = 0 PROVE T = {}
    BY <2>1, FS_Subset, FS_EmptySet
  <2> QED
    BY <2>1
<1>3. ASSUME NEW n \in Nat, n \in Sizes PROVE n + 1 \in Sizes
  <2> SUFFICES ASSUME NEW T \in SUBSET A, Cardinality(T) = n + 1 PROVE T \in S
    OBVIOUS
  <2>1. IsFiniteSet(T)
    BY FS_Subset
  <2>2. T # {}
    BY FS_EmptySet
  <2>3. PICK x \in T : TRUE
    BY <2>2
  <2>4. Cardinality(T \ {x}) = n
    <3>1. Cardinality(T \ {x}) = Cardinality(T) - 1
      BY <2>1, FS_RemoveElement
    <3> QED
      BY <2>1, <3>1, FS_CardinalityType
  <2>5. T \ {x} \in S
    BY <1>3, <2>4
  <2>6. T = (T \ {x}) \cup {x} /\ x \in A \ (T \ {x}) /\ T \ {x} \in SUBSET A
    OBVIOUS
  <2> QED
    BY <2>5, <2>6
<1> HIDE DEF Sizes
<1>4. Cardinality(A) \in 0 .. Cardinality(A)
  BY <1>1
<1>5. Cardinality(A) \in Sizes
  BY <1>1, <1>2, <1>3, <1>4, UpTo
<1> QED
  BY <1>5 DEF Sizes

-----------------------------------------------------------------------------
(* The ring of the blocks                                                  *)

\* The block x^e, and what powers up to the square of the highest one reduce to.
Monomial(e) == {<<e, "l">>}
Power(n) == F4_reduce({n}, {})

\* The carry-less product does not depend on the order of its factors.
LEMMA ClmulComm ==
    ASSUME NEW p \in HalfPoly, NEW q \in HalfPoly
    PROVE  Clmul(p, q) = Clmul(q, p)
<1>1. ASSUME NEW e \in 0 .. 2 * Degree - 1
      PROVE  Cardinality({i \in p : e - i \in q}) = Cardinality({i \in q : e - i \in p})
  <2> DEFINE S == {i \in p : e - i \in q}
             T == {i \in q : e - i \in p}
             f == [i \in S |-> e - i]
  <2>1. \A i \in p : i \in Int
    BY DEF HalfPoly
  <2>2. \A i \in q : i \in Int
    BY DEF HalfPoly
  <2>3. e \in Int
    BY DegreeAssumption
  <2>4. \A i \in S : e - i \in T
    BY <2>1, <2>3
  <2>5. \A j \in T : e - j \in S /\ e - (e - j) = j
    BY <2>2, <2>3
  <2>6. \A i, j \in S : e - i = e - j => i = j
    BY <2>1, <2>3
  <2>7. f \in Bijection(S, T)
    BY <2>4, <2>5, <2>6 DEF Bijection, Injection, Surjection, IsInjective
  <2>8. IsFiniteSet(S)
    BY HalfPolyFinite, FS_Subset
  <2> HIDE DEF S, T, f
  <2>9. Cardinality(S) = Cardinality(T)
    BY <2>7, <2>8, FS_Bijection DEF ExistsBijection
  <2> QED
    BY <2>9 DEF S, T
<1> QED
  BY <1>1 DEF Clmul

\* F4_mul does not either.
THEOREM F4_mulCommutes ==
    ASSUME NEW x \in Block, NEW y \in Block
    PROVE  F4_mul(x, y) = F4_mul(y, x)
<1> DEFINE p == odd_bit_extraction(x)
           q == even_bit_extraction(x)
           r == odd_bit_extraction(y)
           s == even_bit_extraction(y)
<1>1. p \in HalfPoly /\ q \in HalfPoly /\ r \in HalfPoly /\ s \in HalfPoly
  BY ExtractionType
<1>2. /\ F4_mul(x, y) = F4_reduce(ProductOdd(p, q, r, s), ProductEven(p, q, r, s))
      /\ F4_mul(y, x) = F4_reduce(ProductOdd(r, s, p, q), ProductEven(r, s, p, q))
  BY F4_mulParts
<1> HIDE DEF p, q, r, s
<1>3. /\ Clmul(p, r) = Clmul(r, p) /\ Clmul(q, s) = Clmul(s, q)
      /\ Clmul(p, s) = Clmul(s, p) /\ Clmul(q, r) = Clmul(r, q)
  BY <1>1, ClmulComm
<1>4. ProductOdd(p, q, r, s) = ProductOdd(r, s, p, q)
  BY <1>3 DEF ProductOdd
<1>5. ProductEven(p, q, r, s) = ProductEven(r, s, p, q)
  BY <1>3, XorComm DEF ProductEven
<1> QED
  BY <1>2, <1>4, <1>5

\* x^e is the block with the exponent e.
LEMMA MonomialParts ==
    ASSUME NEW e \in 0 .. Degree - 1
    PROVE  /\ Monomial(e) \in Block
           /\ odd_bit_extraction(Monomial(e)) = {e}
           /\ even_bit_extraction(Monomial(e)) = {}
           /\ Monomial(e) = interleave({e}, {})
<1>1. Monomial(e) \in Block
  BY DEF Monomial, Block, Bit
<1>2. \A k : <<k, "l">> \in Monomial(e) <=> k = e
  BY DEF Monomial
<1>3. \A k : ~(<<k, "h">> \in Monomial(e))
  BY DEF Monomial
<1>4. /\ \A k : k \in odd_bit_extraction(Monomial(e)) <=> k = e
      /\ \A k : ~(k \in even_bit_extraction(Monomial(e)))
  BY <1>1, <1>2, <1>3, ExtractionType
<1>5. odd_bit_extraction(Monomial(e)) = {e} /\ even_bit_extraction(Monomial(e)) = {}
  BY <1>4
<1>6. Monomial(e) = interleave({e}, {})
  BY DEF Monomial, interleave
<1> QED
  BY <1>1, <1>5, <1>6

\* A set of blocks that holds the powers of x, their products with omega and all sums
\* holds all blocks.
LEMMA BlockSpan ==
    ASSUME NEW Z, \A e \in 0 .. Degree - 1 : Monomial(e) \in Z,
           \A x \in Z \cap Block : TimesOmega(x) \in Z,
           \A x, y \in Z \cap Block : Xor(x, y) \in Z
    PROVE  Block \subseteq Z
<1> SUFFICES ASSUME NEW b \in Block PROVE b \in Z
  OBVIOUS
<1>1. ASSUME NEW e \in 0 .. Degree - 1, NEW t \in Bit PROVE {<<e, t>>} \in Z
  <2>1. Monomial(e) \in Z \cap Block
    BY DEF Monomial, Block, Bit
  <2> DEFINE w == TimesOmega(Monomial(e))
             v == TimesOmega(w)
  <2>2. w \in Z \cap Block
    BY <2>1, TimesOmegaParts
  <2>3. v \in Z \cap Block
    BY <2>2, TimesOmegaParts
  <2>4. odd_bit_extraction(Monomial(e)) = {e} /\ even_bit_extraction(Monomial(e)) = {}
    BY MonomialParts
  <2> DEFINE E == {e}
  <2>10. Xor(E, {}) = E /\ Xor(E, E) = {}
    BY DEF Xor
  <2>5. odd_bit_extraction(w) = E /\ even_bit_extraction(w) = E
    <3>1. /\ odd_bit_extraction(w)
                = Xor(odd_bit_extraction(Monomial(e)), even_bit_extraction(Monomial(e)))
          /\ even_bit_extraction(w) = odd_bit_extraction(Monomial(e))
      BY <2>1, TimesOmegaParts
    <3> HIDE DEF w
    <3> QED
      BY <2>4, <2>10, <3>1
  <2>6. odd_bit_extraction(v) = {} /\ even_bit_extraction(v) = {e}
    <3> HIDE DEF w
    <3>1. /\ odd_bit_extraction(v) = Xor(odd_bit_extraction(w), even_bit_extraction(w))
          /\ even_bit_extraction(v) = odd_bit_extraction(w)
      BY <2>2, TimesOmegaParts
    <3> HIDE DEF v
    <3> QED
      BY <2>5, <2>10, <3>1
  <2> DEFINE h == {<<e, "h">>}
  <2>8. h \in Block
    BY DEF Block, Bit
  <2>7. odd_bit_extraction(h) = {} /\ even_bit_extraction(h) = {e}
    <3>1. \A k : k \in odd_bit_extraction(h) <=> <<k, "l">> \in h
      BY <2>8, ExtractionType
    <3>2. \A k : k \in even_bit_extraction(h) <=> <<k, "h">> \in h
      BY <2>8, ExtractionType
    <3>3. \A k : ~(<<k, "l">> \in h) /\ (<<k, "h">> \in h <=> k = e)
      OBVIOUS
    <3> HIDE DEF h
    <3> QED
      BY <3>1, <3>2, <3>3
  <2>9. v = h
    <3> HIDE DEF v, h
    <3> QED
      BY <2>3, <2>6, <2>7, <2>8, BlockEqual
  <2> QED
    BY <2>1, <2>3, <2>9 DEF Bit, Monomial
<1>2. {} \in Z
  <2>1. 0 \in 0 .. Degree - 1
    BY DegreeAssumption
  <2>2. Monomial(0) \in Z \cap Block
    BY <2>1 DEF Monomial, Block, Bit
  <2> QED
    BY <2>2 DEF Xor
<1>3. IsFiniteSet(b)
  <2>1. IsFiniteSet((0 .. Degree - 1) \X Bit)
    <3>1. Bit = {"l"} \cup {"h"}
      BY DEF Bit
    <3>2. IsFiniteSet(Bit)
      BY <3>1, FS_Singleton, FS_Union
    <3>3. IsFiniteSet(0 .. Degree - 1)
      BY DegreeAssumption, FS_Interval
    <3> QED
      BY <3>2, <3>3, FS_Product
  <2> QED
    BY <2>1, FS_Subset DEF Block
<1>4. ASSUME NEW T \in SUBSET b, NEW x \in b \ T, T \in Z PROVE T \cup {x} \in Z
  <2>1. {x} \in Z \cap Block
    BY <1>1 DEF Block
  <2>2. T \in Z \cap Block
    BY <1>4 DEF Block
  <2>3. T \cup {x} = Xor(T, {x})
    BY DEF Xor
  <2> QED
    BY <2>1, <2>2, <2>3
<1> QED
  BY <1>2, <1>3, <1>4, SetByElement

-----------------------------------------------------------------------------
(* Products of powers of x                                                 *)

\* The carry-less product by nothing.
LEMMA ClmulEmpty == \A q : Clmul({}, q) = {}
<1>1. ASSUME NEW e, NEW q PROVE ~(Cardinality({k \in {} : e - k \in q}) % 2 = 1)
  <2>1. {k \in {} : e - k \in q} = {}
    OBVIOUS
  <2>2. Cardinality({k \in {} : e - k \in q}) = 0
    BY <2>1, FS_EmptySet
  <2> QED
    BY <2>2
<1> QED
  BY <1>1 DEF Clmul

\* What the carry-less product by a power shifts.
LEMMA ClmulPower ==
    ASSUME NEW i \in Nat, NEW q
    PROVE  Clmul({i}, q) = {e \in 0 .. 2 * Degree - 1 : e - i \in q}
<1>1. ASSUME NEW e PROVE Cardinality({k \in {i} : e - k \in q}) % 2 = 1 <=> e - i \in q
  <2> DEFINE S == {k \in {i} : e - k \in q}
  <2>1. CASE e - i \in q
    <3>1. S = {i}
      BY <2>1
    <3>2. Cardinality({i}) = 1
      BY FS_Singleton
    <3>3. Cardinality(S) = 1
      <4> HIDE DEF S
      <4> QED
        BY <3>1, <3>2
    <3> QED
      BY <2>1, <3>3
  <2>2. CASE e - i \notin q
    <3>1. S = {}
      BY <2>2
    <3>2. Cardinality({}) = 0
      BY FS_EmptySet
    <3>3. Cardinality(S) = 0
      <4> HIDE DEF S
      <4> QED
        BY <3>1, <3>2
    <3> QED
      BY <2>2, <3>3
  <2> QED
    BY <2>1, <2>2
<1> QED
  BY <1>1 DEF Clmul

\* A block of powers that are given, and their exponents.
LEMMA BlockOfParts ==
    ASSUME NEW o \in HalfPoly, NEW e \in HalfPoly
    PROVE  /\ interleave(o, e) \in Block
           /\ odd_bit_extraction(interleave(o, e)) = o
           /\ even_bit_extraction(interleave(o, e)) = e
BY InterleaveType

\* A block times a power: both polynomials are shifted before they are reduced.
LEMMA ShiftParts ==
    ASSUME NEW o \in HalfPoly, NEW e \in HalfPoly, NEW j \in 0 .. Degree - 1
    PROVE  F4_mul(Monomial(j), interleave(o, e))
             = F4_reduce(Clmul({j}, o), Clmul({j}, e))
<1> DEFINE y == interleave(o, e)
<1>1. odd_bit_extraction(y) = o /\ even_bit_extraction(y) = e
  BY BlockOfParts
<1>2. odd_bit_extraction(Monomial(j)) = {j} /\ even_bit_extraction(Monomial(j)) = {}
  BY MonomialParts
<1> HIDE DEF y
<1>3. F4_mul(Monomial(j), y)
        = F4_reduce(ProductOdd({j}, {}, o, e), ProductEven({j}, {}, o, e))
  BY <1>1, <1>2, F4_mulParts
<1>4. Clmul({}, o) = {} /\ Clmul({}, e) = {}
  BY ClmulEmpty
<1>5. \A u : Xor(u, {}) = u
  BY DEF Xor
<1>6. ProductOdd({j}, {}, o, e) = Clmul({j}, o)
  BY <1>4, <1>5 DEF ProductOdd
<1>7. ProductEven({j}, {}, o, e) = Clmul({j}, e)
  BY <1>4, <1>5 DEF ProductEven
<1> QED
  BY <1>3, <1>6, <1>7 DEF y

\* What it is of a power, and of what fits in the block once it is shifted.
LEMMA ClmulShift ==
    ASSUME NEW j \in 0 .. Degree - 1
    PROVE  /\ Clmul({j}, {}) = {}
           /\ \A i \in 0 .. Degree - 1 : Clmul({j}, {i}) = {j + i}
<1>0. j \in Nat /\ Degree \in Nat /\ j < Degree
  BY DegreeAssumption
<1>1. \A q : Clmul({j}, q) = {e \in 0 .. 2 * Degree - 1 : e - j \in q}
  BY <1>0, ClmulPower
<1>2. ASSUME NEW i \in 0 .. Degree - 1 PROVE Clmul({j}, {i}) = {j + i}
  <2>1. \A e : e \in Clmul({j}, {i}) <=> e \in 0 .. 2 * Degree - 1 /\ e - j = i
    <3>1. Clmul({j}, {i}) = {e \in 0 .. 2 * Degree - 1 : e - j \in {i}}
      BY <1>1
    <3> QED
      BY <3>1
  <2>2. \A e \in 0 .. 2 * Degree - 1 : e - j = i <=> e = j + i
    BY <1>0
  <2>3. j + i \in 0 .. 2 * Degree - 1
    BY <1>0
  <2> QED
    BY <2>1, <2>2, <2>3
<1>3. Clmul({j}, {}) = {}
  <2>1. Clmul({j}, {}) = {e \in 0 .. 2 * Degree - 1 : e - j \in {}}
    BY <1>1
  <2>2. \A e : ~(e - j \in {})
    OBVIOUS
  <2> QED
    BY <2>1, <2>2
<1> QED
  BY <1>2, <1>3

\* The product of two powers.
LEMMA MonomialProduct ==
    ASSUME NEW i \in 0 .. Degree - 1, NEW j \in 0 .. Degree - 1
    PROVE  F4_mul(Monomial(j), Monomial(i)) = Power(j + i)
<1>1. {i} \in HalfPoly /\ {} \in HalfPoly
  BY DEF HalfPoly
<1>2. F4_mul(Monomial(j), Monomial(i)) = F4_reduce(Clmul({j}, {i}), Clmul({j}, {}))
  BY <1>1, ShiftParts, MonomialParts
<1> QED
  BY <1>2, ClmulShift DEF Power

\* What has no high half is reduced.
LEMMA ReduceLow ==
    ASSUME NEW o \in HalfPoly, NEW e \in HalfPoly
    PROVE  F4_reduce(o, e) = interleave(o, e)
<1>0. \A q \in HalfPoly : \A i \in q : i < Degree /\ ~(i >= Degree)
  BY DegreeAssumption DEF HalfPoly
<1>1. \A q \in HalfPoly : HighHalf(q) = {} /\ LowHalf(q) = q
  BY <1>0 DEF HighHalf, LowHalf
<1>2. \A q : Clmul({}, q) = {}
  BY ClmulEmpty
<1>3. {} \in HalfPoly
  BY DEF HalfPoly
<1>4. \A u : Xor(u, {}) = u /\ Xor({}, u) = u
  BY DEF Xor
<1>5. \A p, q \in HalfPoly : FoldedOdd(p, q) = {} /\ FoldedEven(p, q) = {}
  BY <1>1, <1>2, <1>4 DEF FoldedOdd, FoldedEven
<1>6. FoldedOdd(o, e) = {} /\ FoldedEven(o, e) = {} /\ FoldedOdd({}, {}) = {}
      /\ FoldedEven({}, {}) = {}
  BY <1>3, <1>5
<1> QED
  BY <1>1, <1>4, <1>6 DEF F4_reduce

\* x^Degree and above: what the two passes of F4_reduce leave.
LEMMA HighPower ==
    ASSUME NEW f \in 0 .. Degree - 2
    PROVE  LET g == f + 3 - Degree
               again == g \in {0, 1}
               o == IF again THEN Xor({f}, {g + 1, g + 3}) ELSE {f}
               e == IF again THEN Xor({f + 1}, {g, g + 1, g + 3}) ELSE {f + 1, f + 3}
           IN  o \in HalfPoly /\ e \in HalfPoly /\ Power(Degree + f) = interleave(o, e)
<1> DEFINE n == Degree + f
           g == f + 3 - Degree
           again == g \in {0, 1}
<1>0. Degree \in Nat /\ Degree >= 5 /\ f \in Nat /\ f <= Degree - 2
  BY DegreeAssumption
<1>1. HighHalf({n}) = {f} /\ HighHalf({}) = {} /\ HighHalf({f}) = {}
  BY <1>0 DEF HighHalf
<1>2. \A q : Clmul({}, q) = {}
  BY ClmulEmpty
<1>3. Clmul({f}, h1) = {f} /\ Clmul({f}, h2) = {f + 1, f + 3}
  <2>1. /\ Clmul({f}, h1) = {k \in 0 .. 2 * Degree - 1 : k - f \in {0}}
        /\ Clmul({f}, h2) = {k \in 0 .. 2 * Degree - 1 : k - f \in {1, 3}}
    BY <1>0, ClmulPower DEF h1, h2
  <2>2. f \in 0 .. 2 * Degree - 1 /\ f + 1 \in 0 .. 2 * Degree - 1 /\ f + 3 \in 0 .. 2 * Degree - 1
    BY <1>0
  <2>3. \A k \in 0 .. 2 * Degree - 1 : k - f = 0 <=> k = f
    BY <1>0
  <2>4. \A k \in 0 .. 2 * Degree - 1 : k - f \in {1, 3} <=> k \in {f + 1, f + 3}
    BY <1>0
  <2> QED
    BY <2>1, <2>2, <2>3, <2>4
<1>4. \A u : Xor(u, {}) = u /\ Xor({}, u) = u
  BY DEF Xor
<1>5. FoldedOdd({n}, {}) = {f} /\ FoldedEven({n}, {}) = {f + 1, f + 3}
  BY <1>1, <1>2, <1>3, <1>4 DEF FoldedOdd, FoldedEven
<1> DEFINE b == {f + 1, f + 3}
           high == IF again THEN {g} ELSE {}
<1>6. HighHalf(b) = high
  BY <1>0 DEF HighHalf
<1>7. FoldedOdd({f}, b) = Clmul(high, h2)
      /\ FoldedEven({f}, b) = Xor(Clmul(high, h1), Clmul(high, h2))
  <2> HIDE DEF b, high
  <2> QED
    BY <1>1, <1>2, <1>4, <1>6 DEF FoldedOdd, FoldedEven
<1>8. LowHalf(Xor(Xor({n}, {}), {f})) = {f}
  BY <1>0 DEF LowHalf, Xor
<1>9. CASE ~again
  <2>1. Clmul(high, h1) = {} /\ Clmul(high, h2) = {}
    BY <1>2, <1>9
  <2>2. F4_reduce({n}, {}) = interleave(LowHalf(Xor(Xor({n}, {}), {f})), LowHalf(Xor(Xor({}, {}), b)))
    <3> HIDE DEF high
    <3> QED
      BY <1>4, <1>5, <1>7, <2>1 DEF F4_reduce
  <2>3. f + 3 < Degree
    BY <1>0, <1>9
  <2>4. LowHalf(Xor(Xor({}, {}), b)) = b
    BY <1>0, <1>4, <2>3 DEF LowHalf
  <2>5. {f} \in HalfPoly /\ b \in HalfPoly
    BY <1>0, <2>3 DEF HalfPoly
  <2> QED
    BY <1>8, <1>9, <2>2, <2>4, <2>5 DEF Power
<1>10. CASE again
  <2>1. g \in {0, 1}
    BY <1>10
  <2>2. Clmul({g}, h1) = {g} /\ Clmul({g}, h2) = {g + 1, g + 3}
    <3> HIDE DEF g
    <3>1. /\ Clmul({g}, h1) = {k \in 0 .. 2 * Degree - 1 : k - g \in {0}}
          /\ Clmul({g}, h2) = {k \in 0 .. 2 * Degree - 1 : k - g \in {1, 3}}
      BY <2>1, ClmulPower DEF h1, h2
    <3>2. g \in 0 .. 2 * Degree - 1 /\ g + 1 \in 0 .. 2 * Degree - 1 /\ g + 3 \in 0 .. 2 * Degree - 1
      BY <1>0, <2>1
    <3>3. \A k \in 0 .. 2 * Degree - 1 : k - g = 0 <=> k = g
      BY <1>0, <2>1
    <3>4. \A k \in 0 .. 2 * Degree - 1 : k - g \in {1, 3} <=> k \in {g + 1, g + 3}
      BY <1>0, <2>1
    <3> QED
      BY <3>1, <3>2, <3>3, <3>4
  <2> DEFINE c == {g + 1, g + 3}
             c0 == {g, g + 1, g + 3}
  <2>3. Xor({g}, c) = c0
    BY <2>1 DEF Xor
  <2>4. FoldedOdd({f}, b) = c /\ FoldedEven({f}, b) = c0
    <3> HIDE DEF g, b, c, c0
    <3> QED
      BY <1>7, <1>10, <2>2, <2>3 DEF c
  <2>5. F4_reduce({n}, {}) = interleave(LowHalf(Xor(Xor({n}, c), {f})), LowHalf(Xor(Xor({}, c0), b)))
    <3> HIDE DEF n, b, c, c0
    <3> QED
      BY <1>5, <2>4 DEF F4_reduce, b
  <2>6. LowHalf(Xor(Xor({n}, c), {f})) = Xor({f}, c)
    <3>1. \A k \in c : k \in 0 .. Degree - 1
      BY <1>0, <2>1
    <3>2. n \notin c /\ ~(n < Degree) /\ f < Degree /\ n # f
      BY <1>0, <3>1
    <3> HIDE DEF n, c, g
    <3> QED
      BY <1>0, <3>1, <3>2 DEF LowHalf, Xor
  <2>7. LowHalf(Xor(Xor({}, c0), b)) = Xor({f + 1}, c0)
    <3>1. \A k \in c0 : k \in 0 .. Degree - 1
      BY <1>0, <2>1
    <3>2. f + 1 < Degree /\ ~(f + 3 < Degree)
      BY <1>0, <2>1
    <3> HIDE DEF c0, g
    <3> QED
      BY <1>0, <3>1, <3>2 DEF LowHalf, Xor
  <2>8. Xor({f}, c) \in HalfPoly /\ Xor({f + 1}, c0) \in HalfPoly
    <3>1. \A k \in c \cup c0 : k \in 0 .. Degree - 1
      BY <1>0, <2>1
    <3>2. f \in 0 .. Degree - 1 /\ f + 1 \in 0 .. Degree - 1
      BY <1>0
    <3> HIDE DEF c, c0
    <3> QED
      BY <3>1, <3>2 DEF Xor, HalfPoly
  <2> QED
    BY <1>10, <2>5, <2>6, <2>7, <2>8 DEF Power
<1> QED
  BY <1>9, <1>10

\* The product of a block by x: both polynomials move up by one.
LEMMA TimesX ==
    ASSUME NEW o \in HalfPoly, NEW e \in HalfPoly, Degree - 1 \notin o, Degree - 1 \notin e
    PROVE  LET up(p) == {i \in 0 .. Degree - 1 : i - 1 \in p}
           IN  F4_mul(Monomial(1), interleave(o, e)) = interleave(up(o), up(e))
<1> DEFINE up(p) == {i \in 0 .. Degree - 1 : i - 1 \in p}
<1>0. Degree \in Nat /\ Degree >= 5 /\ 1 \in 0 .. Degree - 1 /\ 1 \in Nat
  BY DegreeAssumption
<1>1. F4_mul(Monomial(1), interleave(o, e)) = F4_reduce(Clmul({1}, o), Clmul({1}, e))
  BY <1>0, ShiftParts
<1>2. ASSUME NEW p \in HalfPoly, Degree - 1 \notin p PROVE Clmul({1}, p) = up(p)
  <2>1. Clmul({1}, p) = {i \in 0 .. 2 * Degree - 1 : i - 1 \in p}
    BY <1>0, ClmulPower
  <2>2. \A i \in p : i \in 0 .. Degree - 1 /\ i # Degree - 1
    BY <1>2 DEF HalfPoly
  <2>3. \A i \in 0 .. 2 * Degree - 1 : i - 1 \in p => i \in 0 .. Degree - 1
    BY <1>0, <2>2
  <2>4. \A i \in 0 .. Degree - 1 : i \in 0 .. 2 * Degree - 1
    BY <1>0
  <2> QED
    BY <2>1, <2>3, <2>4
<1>3. up(o) \in HalfPoly /\ up(e) \in HalfPoly
  BY DEF HalfPoly
<1> HIDE DEF up
<1>4. Clmul({1}, o) = up(o) /\ Clmul({1}, e) = up(e)
  BY <1>2
<1>5. F4_mul(Monomial(1), interleave(o, e)) = interleave(up(o), up(e))
  BY <1>1, <1>3, <1>4, ReduceLow
<1> QED
  BY <1>5 DEF up

\* alpha times x^Degree.
LEMMA AlphaPower == F4_reduce({}, {Degree}) = interleave({1, 3}, {0, 1, 3})
<1>0. Degree \in Nat /\ Degree >= 5 /\ 0 \in Nat
  BY DegreeAssumption
<1>1. HighHalf({Degree}) = {0} /\ HighHalf({}) = {}
  BY <1>0 DEF HighHalf
<1>2. \A q : Clmul({}, q) = {}
  BY ClmulEmpty
<1>3. Clmul({0}, h1) = {0} /\ Clmul({0}, h2) = {1, 3}
  <2>1. /\ Clmul({0}, h1) = {k \in 0 .. 2 * Degree - 1 : k - 0 \in {0}}
        /\ Clmul({0}, h2) = {k \in 0 .. 2 * Degree - 1 : k - 0 \in {1, 3}}
    BY <1>0, ClmulPower DEF h1, h2
  <2>2. 0 \in 0 .. 2 * Degree - 1 /\ 1 \in 0 .. 2 * Degree - 1 /\ 3 \in 0 .. 2 * Degree - 1
    BY <1>0
  <2>3. \A k \in 0 .. 2 * Degree - 1 : k - 0 = k
    BY <1>0
  <2> QED
    BY <2>1, <2>2, <2>3
<1> DEFINE c == {1, 3}
           c0 == {0, 1, 3}
<1>4. \A u : Xor(u, {}) = u /\ Xor({}, u) = u
  BY DEF Xor
<1>5. Xor({0}, c) = c0
  BY DEF Xor
<1>6. HighHalf(c) = {} /\ HighHalf(c0) = {}
  <2>1. \A k \in c \cup c0 : ~(k >= Degree)
    BY <1>0
  <2> HIDE DEF c, c0
  <2> QED
    BY <2>1 DEF HighHalf
<1>7. LowHalf(c) = c
  BY <1>0 DEF LowHalf
<1>8. LowHalf(Xor({Degree}, c0)) = c0
  <2>1. \A k \in c0 : k < Degree /\ k # Degree
    BY <1>0
  <2> HIDE DEF c0
  <2> QED
    BY <1>0, <2>1 DEF LowHalf, Xor
<1> HIDE DEF c, c0
<1>9. FoldedOdd({}, {Degree}) = c /\ FoldedEven({}, {Degree}) = c0
  BY <1>1, <1>2, <1>3, <1>4, <1>5 DEF FoldedOdd, FoldedEven, c
<1>10. FoldedOdd(c, c0) = {} /\ FoldedEven(c, c0) = {}
  BY <1>2, <1>4, <1>6 DEF FoldedOdd, FoldedEven
<1>11. F4_reduce({}, {Degree}) = interleave(c, c0)
  BY <1>4, <1>7, <1>8, <1>9, <1>10 DEF F4_reduce
<1> QED
  BY <1>11 DEF c, c0

\* The next power is x times the one before.
LEMMA NextPower ==
    ASSUME NEW n \in 0 .. 2 * Degree - 3
    PROVE  F4_mul(Monomial(1), Power(n)) = Power(n + 1)
<1>0. Degree \in Nat /\ Degree >= 5 /\ 1 \in 0 .. Degree - 1
  BY DegreeAssumption
<1>1. CASE n < Degree
  <2>1. n \in 0 .. Degree - 1
    BY <1>0, <1>1
  <2>2. {n} \in HalfPoly /\ {} \in HalfPoly
    BY <2>1 DEF HalfPoly
  <2>3. Power(n) = Monomial(n)
    BY <2>1, <2>2, ReduceLow, MonomialParts DEF Power
  <2>4. 1 + n = n + 1
    BY <2>1
  <2> QED
    BY <1>0, <2>1, <2>3, <2>4, MonomialProduct
<1>2. CASE n >= Degree
  <2> DEFINE f == n - Degree
             g == f + 3 - Degree
             up(p) == {i \in 0 .. Degree - 1 : i - 1 \in p}
  <2>1. f \in 0 .. Degree - 3 /\ f \in 0 .. Degree - 2 /\ f + 1 \in 0 .. Degree - 2
        /\ n = Degree + f /\ n + 1 = Degree + (f + 1) /\ g \in Int /\ g <= 0
        /\ f + 1 + 3 - Degree = g + 1 /\ g + 1 + 1 = g + 2 /\ g + 1 + 3 = g + 4
        /\ f + 1 + 1 = f + 2 /\ f + 1 + 3 = f + 4
    BY <1>0, <1>2
  <2>2. CASE g < -1
    <3>1. ~(g \in {0, 1}) /\ ~(g + 1 \in {0, 1})
      BY <2>1, <2>2
    <3>2. {f} \in HalfPoly /\ {f + 1, f + 3} \in HalfPoly
          /\ Power(n) = interleave({f}, {f + 1, f + 3})
      BY <2>1, <3>1, HighPower
    <3>3. Power(n + 1) = interleave({f + 1}, {f + 2, f + 4})
      BY <2>1, <3>1, HighPower
    <3>4. Degree - 1 \notin {f} /\ Degree - 1 \notin {f + 1, f + 3}
      BY <1>0, <2>1, <2>2
    <3>5. up({f}) = {f + 1} /\ up({f + 1, f + 3}) = {f + 2, f + 4}
      <4>1. \A i \in 0 .. Degree - 1 : (i - 1 = f <=> i = f + 1)
               /\ (i - 1 = f + 1 <=> i = f + 2) /\ (i - 1 = f + 3 <=> i = f + 4)
        BY <1>0, <2>1
      <4>2. f + 1 \in 0 .. Degree - 1 /\ f + 2 \in 0 .. Degree - 1 /\ f + 4 \in 0 .. Degree - 1
        BY <1>0, <2>1, <2>2
      <4> QED
        BY <4>1, <4>2
    <3> QED
      BY <3>2, <3>3, <3>4, <3>5, TimesX
  <2>3. CASE g = -1
    <3>1. ~(g \in {0, 1}) /\ g + 1 = 0 /\ g + 2 = 1 /\ g + 4 = 3
          /\ f + 3 = Degree - 1 /\ f + 1 + 3 - Degree = 0
      <4>1. f = Degree - 4
        BY <1>0, <2>1, <2>3
      <4> HIDE DEF f
      <4> QED
        BY <1>0, <2>3, <4>1
    <3>2. {f} \in HalfPoly /\ {f + 1, f + 3} \in HalfPoly
          /\ Power(n) = interleave({f}, {f + 1, f + 3})
      BY <2>1, <3>1, HighPower
    <3>3. Power(n + 1) = interleave(Xor({f + 1}, {1, 3}), Xor({f + 2}, {0, 1, 3}))
      <4>1. /\ 0 + 1 = 1 /\ 0 + 3 = 3
        OBVIOUS
      <4> QED
        BY <2>1, <3>1, <4>1, HighPower
    <3>4. F4_mul(Monomial(1), Power(n)) = F4_reduce(Clmul({1}, {f}), Clmul({1}, {f + 1, f + 3}))
      BY <1>0, <3>2, ShiftParts
    <3>5. Clmul({1}, {f}) = {f + 1} /\ Clmul({1}, {f + 1, f + 3}) = Xor({f + 2}, {Degree})
      <4>1. /\ Clmul({1}, {f}) = {i \in 0 .. 2 * Degree - 1 : i - 1 \in {f}}
            /\ Clmul({1}, {f + 1, f + 3})
                 = {i \in 0 .. 2 * Degree - 1 : i - 1 \in {f + 1, f + 3}}
        BY <1>0, ClmulPower
      <4>2. \A i \in 0 .. 2 * Degree - 1 : (i - 1 = f <=> i = f + 1)
               /\ (i - 1 = f + 1 <=> i = f + 2) /\ (i - 1 = f + 3 <=> i = Degree)
        BY <1>0, <2>1, <3>1
      <4>3. f + 1 \in 0 .. 2 * Degree - 1 /\ f + 2 \in 0 .. 2 * Degree - 1
            /\ Degree \in 0 .. 2 * Degree - 1 /\ f + 2 # Degree
        BY <1>0, <2>1, <3>1
      <4>4. Clmul({1}, {f}) = {f + 1}
        BY <4>1, <4>2, <4>3
      <4>5. \A i : i \in Clmul({1}, {f + 1, f + 3}) <=> i = f + 2 \/ i = Degree
        BY <4>1, <4>2, <4>3
      <4> QED
        BY <4>3, <4>4, <4>5 DEF Xor
    <3>6. {f + 1} \in HalfPoly /\ {f + 2} \in HalfPoly /\ {} \in Poly
          /\ {f + 1} \in Poly /\ {f + 2} \in Poly /\ {Degree} \in Poly
          /\ {1, 3} \in HalfPoly /\ {0, 1, 3} \in HalfPoly
      BY <1>0, <2>1, <3>1 DEF HalfPoly, Poly
    <3>7. F4_reduce(Xor({f + 1}, {}), Xor({f + 2}, {Degree}))
            = Xor(F4_reduce({f + 1}, {f + 2}), F4_reduce({}, {Degree}))
      BY <3>6, ReducedXor
    <3>8. Xor({f + 1}, {}) = {f + 1}
      BY DEF Xor
    <3>9. F4_reduce({f + 1}, {f + 2}) = interleave({f + 1}, {f + 2})
      BY <3>6, ReduceLow
    <3>10. interleave(Xor({f + 1}, {1, 3}), Xor({f + 2}, {0, 1, 3}))
             = Xor(interleave({f + 1}, {f + 2}), interleave({1, 3}, {0, 1, 3}))
      BY <3>6, InterleaveXor
    <3> QED
      BY <3>3, <3>4, <3>5, <3>7, <3>8, <3>9, <3>10, AlphaPower
  <2>4. CASE g = 0
    <3> DEFINE o == Xor({f}, {1, 3})
               e == Xor({f + 1}, {0, 1, 3})
    <3>1. g \in {0, 1} /\ g + 1 = 1 /\ g + 3 = 3 /\ g + 2 = 2 /\ g + 4 = 4
          /\ f + 3 - Degree = 0 /\ f + 1 + 3 - Degree = 1
      BY <2>1, <2>4
    <3>2. o \in HalfPoly /\ e \in HalfPoly /\ Power(n) = interleave(o, e)
      <4>1. /\ 0 + 1 = 1 /\ 0 + 3 = 3
        OBVIOUS
      <4> QED
        BY <2>1, <3>1, <4>1, HighPower
    <3>3. Power(n + 1) = interleave(Xor({f + 1}, {2, 4}), Xor({f + 2}, {1, 2, 4}))
      <4>1. /\ 1 + 1 = 2 /\ 1 + 3 = 4
        OBVIOUS
      <4> QED
        BY <2>1, <3>1, <4>1, HighPower
    <3>4. Degree - 1 \notin o /\ Degree - 1 \notin e
      <4>1. ~(Degree - 1 \in {f, 1, 3}) /\ ~(Degree - 1 \in {f + 1, 0, 1, 3})
        BY <1>0, <2>1, <3>1
      <4> QED
        BY <4>1 DEF Xor
    <3>5. up(o) = Xor({f + 1}, {2, 4}) /\ up(e) = Xor({f + 2}, {1, 2, 4})
      <4>1. \A i \in 0 .. Degree - 1 :
               /\ i - 1 = f <=> i = f + 1
               /\ i - 1 = f + 1 <=> i = f + 2
               /\ i - 1 = 0 <=> i = 1
               /\ i - 1 = 1 <=> i = 2
               /\ i - 1 = 3 <=> i = 4
        BY <1>0, <2>1
      <4>2. f + 1 \in 0 .. Degree - 1 /\ f + 2 \in 0 .. Degree - 1 /\ 1 \in 0 .. Degree - 1
            /\ 2 \in 0 .. Degree - 1 /\ 4 \in 0 .. Degree - 1
        BY <1>0, <2>1
      <4>3. /\ \A k : k \in o <=> ~(k = f <=> k \in {1, 3})
            /\ \A k : k \in e <=> ~(k = f + 1 <=> k \in {0, 1, 3})
        BY DEF Xor
      <4>4. /\ \A k : k \in Xor({f + 1}, {2, 4}) <=> ~(k = f + 1 <=> k \in {2, 4})
            /\ \A k : k \in Xor({f + 2}, {1, 2, 4}) <=> ~(k = f + 2 <=> k \in {1, 2, 4})
        BY DEF Xor
      <4> HIDE DEF o, e, f, g
      <4>5. ASSUME NEW i \in 0 .. Degree - 1
            PROVE  (i - 1 \in o <=> i \in Xor({f + 1}, {2, 4}))
                   /\ (i - 1 \in e <=> i \in Xor({f + 2}, {1, 2, 4}))
        BY <4>1, <4>3, <4>4
      <4>6. (\A k \in Xor({f + 1}, {2, 4}) : k \in 0 .. Degree - 1)
            /\ (\A k \in Xor({f + 2}, {1, 2, 4}) : k \in 0 .. Degree - 1)
        <5>1. \A k \in Xor({f + 1}, {2, 4}) : k \in {f + 1, 2, 4}
          BY DEF Xor
        <5>2. \A k \in Xor({f + 2}, {1, 2, 4}) : k \in {f + 2, 1, 2, 4}
          BY DEF Xor
        <5> QED
          BY <4>2, <5>1, <5>2
      <4> QED
        BY <4>5, <4>6
    <3> HIDE DEF o, e, f, g, up
    <3>6. F4_mul(Monomial(1), interleave(o, e)) = interleave(up(o), up(e))
      BY <3>2, <3>4, TimesX DEF up
    <3> QED
      BY <3>2, <3>3, <3>5, <3>6
  <2> QED
    BY <2>1, <2>2, <2>3, <2>4
<1> QED
  BY <1>0, <1>1, <1>2

-----------------------------------------------------------------------------
(* The product of three blocks                                             *)

\* F4_mul is linear in its second factor too.
LEMMA F4_mulRight ==
    ASSUME NEW a \in Block, NEW x \in Block, NEW y \in Block
    PROVE  /\ F4_mul(a, x) \in Block
           /\ F4_mul(a, Xor(x, y)) = Xor(F4_mul(a, x), F4_mul(a, y))
           /\ F4_mul(a, TimesOmega(x)) = TimesOmega(F4_mul(a, x))
<1>1. Xor(x, y) \in Block /\ TimesOmega(x) \in Block
  BY BlockXor, TimesOmegaParts
<1>2. /\ F4_mul(a, x) = F4_mul(x, a) /\ F4_mul(a, y) = F4_mul(y, a)
      /\ F4_mul(a, Xor(x, y)) = F4_mul(Xor(x, y), a)
      /\ F4_mul(a, TimesOmega(x)) = F4_mul(TimesOmega(x), a)
  BY <1>1, F4_mulCommutes
<1> QED
  BY <1>2, F4_mulXor, F4_mulOmega

\* The block 1 is neutral.
LEMMA MonomialZero == \A y \in Block : F4_mul(Monomial(0), y) = y
<1> DEFINE Z == {y \in Block : F4_mul(Monomial(0), y) = y}
<1>0. 0 \in 0 .. Degree - 1 /\ Degree \in Nat
  BY DegreeAssumption
<1>1. Monomial(0) \in Block
  BY <1>0, MonomialParts
<1>2. ASSUME NEW e \in 0 .. Degree - 1 PROVE Monomial(e) \in Z
  <2>1. {e} \in HalfPoly /\ {} \in HalfPoly /\ 0 + e = e
    BY <1>0 DEF HalfPoly
  <2>2. Power(e) = Monomial(e)
    BY <2>1, ReduceLow, MonomialParts DEF Power
  <2>3. F4_mul(Monomial(0), Monomial(e)) = Power(e)
    BY <1>0, <2>1, MonomialProduct
  <2> QED
    BY <2>2, <2>3, MonomialParts
<1>3. ASSUME NEW x \in Z PROVE TimesOmega(x) \in Z
  BY <1>1, F4_mulRight, TimesOmegaParts
<1>4. ASSUME NEW x \in Z, NEW y \in Z PROVE Xor(x, y) \in Z
  BY <1>1, F4_mulRight, BlockXor
<1>5. Block \subseteq Z
  <2> HIDE DEF Z
  <2> QED
    BY <1>2, <1>3, <1>4, BlockSpan
<1> QED
  BY <1>5

\* A power of x more is one multiplication by x more.
LEMMA MonomialNext ==
    ASSUME NEW j \in 0 .. Degree - 2
    PROVE  \A y \in Block : F4_mul(Monomial(j + 1), y)
                              = F4_mul(Monomial(1), F4_mul(Monomial(j), y))
<1> DEFINE a == Monomial(1)
           b == Monomial(j)
           c == Monomial(j + 1)
           Z == {y \in Block : F4_mul(c, y) = F4_mul(a, F4_mul(b, y))}
<1>0. 1 \in 0 .. Degree - 1 /\ j \in 0 .. Degree - 1 /\ j + 1 \in 0 .. Degree - 1
      /\ Degree \in Nat
  BY DegreeAssumption
<1>1. a \in Block /\ b \in Block /\ c \in Block
  BY <1>0, MonomialParts
<1>2. ASSUME NEW e \in 0 .. Degree - 1 PROVE Monomial(e) \in Z
  <2>1. j + e \in 0 .. 2 * Degree - 3 /\ j + 1 + e = j + e + 1
    BY <1>0
  <2>2. F4_mul(b, Monomial(e)) = Power(j + e) /\ F4_mul(c, Monomial(e)) = Power(j + 1 + e)
    BY <1>0, MonomialProduct
  <2>3. F4_mul(a, Power(j + e)) = Power(j + e + 1)
    BY <2>1, NextPower
  <2>4. Monomial(e) \in Block
    BY MonomialParts
  <2> HIDE DEF a, b, c
  <2> QED
    BY <2>1, <2>2, <2>3, <2>4
<1> HIDE DEF a, b, c
<1>3. ASSUME NEW x \in Z PROVE TimesOmega(x) \in Z
  <2>1. F4_mul(b, x) \in Block /\ F4_mul(b, TimesOmega(x)) = TimesOmega(F4_mul(b, x))
    BY <1>1, F4_mulRight
  <2>2. F4_mul(a, TimesOmega(F4_mul(b, x))) = TimesOmega(F4_mul(a, F4_mul(b, x)))
    BY <1>1, <2>1, F4_mulRight
  <2>3. F4_mul(c, TimesOmega(x)) = TimesOmega(F4_mul(c, x))
    BY <1>1, F4_mulRight
  <2> QED
    BY <2>1, <2>2, <2>3, TimesOmegaParts
<1>4. ASSUME NEW x \in Z, NEW y \in Z PROVE Xor(x, y) \in Z
  <2>1. /\ F4_mul(b, x) \in Block /\ F4_mul(b, y) \in Block
        /\ F4_mul(b, Xor(x, y)) = Xor(F4_mul(b, x), F4_mul(b, y))
    BY <1>1, F4_mulRight
  <2>2. F4_mul(a, Xor(F4_mul(b, x), F4_mul(b, y)))
          = Xor(F4_mul(a, F4_mul(b, x)), F4_mul(a, F4_mul(b, y)))
    BY <1>1, <2>1, F4_mulRight
  <2>3. F4_mul(c, Xor(x, y)) = Xor(F4_mul(c, x), F4_mul(c, y))
    BY <1>1, F4_mulRight
  <2> QED
    BY <2>1, <2>2, <2>3, BlockXor
<1>5. Block \subseteq Z
  <2> HIDE DEF Z
  <2> QED
    BY <1>2, <1>3, <1>4, BlockSpan
<1> QED
  BY <1>5 DEF a, b, c

\* Multiplying by x and by a power of x commutes.
LEMMA TimesXCommutes ==
    \A j \in 0 .. Degree - 1 : \A y \in Block :
       F4_mul(Monomial(1), F4_mul(Monomial(j), y))
         = F4_mul(Monomial(j), F4_mul(Monomial(1), y))
<1> DEFINE a == Monomial(1)
           Same(j) == \A y \in Block :
              F4_mul(a, F4_mul(Monomial(j), y)) = F4_mul(Monomial(j), F4_mul(a, y))
           S == {j \in Nat : Same(j)}
<1>0. 1 \in 0 .. Degree - 1 /\ 0 \in 0 .. Degree - 1 /\ Degree - 1 \in Nat
  BY DegreeAssumption
<1>1. a \in Block
  BY <1>0, MonomialParts
<1>2. \A y \in Block : F4_mul(a, y) \in Block
  BY <1>1, F4_mulRight
<1>3. 0 \in S
  BY <1>2, MonomialZero
<1>4. ASSUME NEW j \in 0 .. Degree - 1 - 1, j \in S PROVE j + 1 \in S
  <2>1. j \in 0 .. Degree - 2 /\ j \in 0 .. Degree - 1 /\ j + 1 \in Nat
    BY DegreeAssumption
  <2>2. Monomial(j) \in Block
    BY <2>1, MonomialParts
  <2>3. ASSUME NEW y \in Block
        PROVE  F4_mul(a, F4_mul(Monomial(j + 1), y)) = F4_mul(Monomial(j + 1), F4_mul(a, y))
    <3> DEFINE z == F4_mul(Monomial(j), y)
    <3>1. z \in Block /\ F4_mul(a, y) \in Block
      BY <1>2, <2>2, F4_mulRight
    <3>2. F4_mul(Monomial(j + 1), y) = F4_mul(a, z)
      BY <2>1, MonomialNext
    <3>3. F4_mul(Monomial(j + 1), F4_mul(a, y)) = F4_mul(a, F4_mul(Monomial(j), F4_mul(a, y)))
      BY <2>1, <3>1, MonomialNext
    <3>4. F4_mul(Monomial(j), F4_mul(a, y)) = F4_mul(a, z)
      BY <1>4
    <3> QED
      BY <3>2, <3>3, <3>4
  <2>4. Same(j + 1)
    BY <2>3
  <2> HIDE DEF Same
  <2> QED
    BY <2>1, <2>4
<1> HIDE DEF S
<1>5. \A j \in 0 .. Degree - 1 : j \in S
  BY <1>0, <1>3, <1>4, UpTo
<1> QED
  BY <1>5 DEF S

\* Multiplying by two powers of x commutes.
LEMMA MonomialsCommute ==
    ASSUME NEW i \in 0 .. Degree - 1
    PROVE  \A j \in 0 .. Degree - 1 : \A y \in Block :
              F4_mul(Monomial(i), F4_mul(Monomial(j), y))
                = F4_mul(Monomial(j), F4_mul(Monomial(i), y))
<1> DEFINE a == Monomial(1)
           m == Monomial(i)
           Same(j) == \A y \in Block :
              F4_mul(m, F4_mul(Monomial(j), y)) = F4_mul(Monomial(j), F4_mul(m, y))
           S == {j \in Nat : Same(j)}
<1>0. 1 \in 0 .. Degree - 1 /\ 0 \in 0 .. Degree - 1 /\ Degree - 1 \in Nat
  BY DegreeAssumption
<1>1. a \in Block /\ m \in Block
  BY <1>0, MonomialParts
<1>2. \A y \in Block : F4_mul(a, y) \in Block /\ F4_mul(m, y) \in Block
  BY <1>1, F4_mulRight
<1>3. 0 \in S
  BY <1>2, MonomialZero
<1>4. \A y \in Block : F4_mul(m, F4_mul(a, y)) = F4_mul(a, F4_mul(m, y))
  BY TimesXCommutes
<1>5. ASSUME NEW j \in 0 .. Degree - 1 - 1, j \in S PROVE j + 1 \in S
  <2>1. j \in 0 .. Degree - 2 /\ j \in 0 .. Degree - 1 /\ j + 1 \in Nat
    BY DegreeAssumption
  <2>2. Monomial(j) \in Block
    BY <2>1, MonomialParts
  <2>3. ASSUME NEW y \in Block
        PROVE  F4_mul(m, F4_mul(Monomial(j + 1), y)) = F4_mul(Monomial(j + 1), F4_mul(m, y))
    <3> DEFINE z == F4_mul(Monomial(j), y)
    <3>1. z \in Block /\ F4_mul(m, y) \in Block
      BY <1>2, <2>2, F4_mulRight
    <3>2. F4_mul(Monomial(j + 1), y) = F4_mul(a, z)
      BY <2>1, MonomialNext
    <3>3. F4_mul(Monomial(j + 1), F4_mul(m, y)) = F4_mul(a, F4_mul(Monomial(j), F4_mul(m, y)))
      BY <2>1, <3>1, MonomialNext
    <3>4. F4_mul(Monomial(j), F4_mul(m, y)) = F4_mul(m, z)
      BY <1>5
    <3>5. F4_mul(m, F4_mul(a, z)) = F4_mul(a, F4_mul(m, z))
      BY <1>4, <3>1
    <3> QED
      BY <3>2, <3>3, <3>4, <3>5
  <2>4. Same(j + 1)
    BY <2>3
  <2> HIDE DEF Same
  <2> QED
    BY <2>1, <2>4
<1> HIDE DEF S
<1>6. \A j \in 0 .. Degree - 1 : j \in S
  BY <1>0, <1>3, <1>5, UpTo
<1> QED
  BY <1>6 DEF S

\* A block whose multiplication commutes with the one by each power of x commutes with
\* the one by each block.
LEMMA CommutesByPower ==
    ASSUME NEW b \in Block,
           \A e \in 0 .. Degree - 1 : \A y \in Block :
              F4_mul(Monomial(e), F4_mul(b, y)) = F4_mul(b, F4_mul(Monomial(e), y))
    PROVE  \A a, y \in Block : F4_mul(a, F4_mul(b, y)) = F4_mul(b, F4_mul(a, y))
<1> DEFINE Same(a) == \A y \in Block : F4_mul(a, F4_mul(b, y)) = F4_mul(b, F4_mul(a, y))
           Z == {a \in Block : Same(a)}
<1>1. \A e \in 0 .. Degree - 1 : Monomial(e) \in Z
  BY MonomialParts
<1>2. ASSUME NEW a \in Z PROVE TimesOmega(a) \in Z
  <2>1. ASSUME NEW y \in Block
        PROVE  F4_mul(TimesOmega(a), F4_mul(b, y)) = F4_mul(b, F4_mul(TimesOmega(a), y))
    <3>1. F4_mul(b, y) \in Block /\ F4_mul(a, y) \in Block
      BY F4_mulRight
    <3>2. F4_mul(TimesOmega(a), F4_mul(b, y)) = TimesOmega(F4_mul(a, F4_mul(b, y)))
      BY <3>1, F4_mulOmega
    <3>3. F4_mul(TimesOmega(a), y) = TimesOmega(F4_mul(a, y))
      BY F4_mulOmega
    <3>4. F4_mul(b, TimesOmega(F4_mul(a, y))) = TimesOmega(F4_mul(b, F4_mul(a, y)))
      BY <3>1, F4_mulRight
    <3> QED
      BY <3>2, <3>3, <3>4
  <2> QED
    BY <2>1, TimesOmegaParts
<1>3. ASSUME NEW a \in Z, NEW c \in Z PROVE Xor(a, c) \in Z
  <2>1. ASSUME NEW y \in Block
        PROVE  F4_mul(Xor(a, c), F4_mul(b, y)) = F4_mul(b, F4_mul(Xor(a, c), y))
    <3>1. F4_mul(b, y) \in Block /\ F4_mul(a, y) \in Block /\ F4_mul(c, y) \in Block
      BY F4_mulRight
    <3>2. F4_mul(Xor(a, c), F4_mul(b, y)) = Xor(F4_mul(a, F4_mul(b, y)), F4_mul(c, F4_mul(b, y)))
      BY <3>1, F4_mulXor
    <3>3. F4_mul(Xor(a, c), y) = Xor(F4_mul(a, y), F4_mul(c, y))
      BY F4_mulXor
    <3>4. F4_mul(b, Xor(F4_mul(a, y), F4_mul(c, y)))
            = Xor(F4_mul(b, F4_mul(a, y)), F4_mul(b, F4_mul(c, y)))
      BY <3>1, F4_mulRight
    <3> QED
      BY <3>2, <3>3, <3>4
  <2> QED
    BY <2>1, BlockXor
<1>4. Block \subseteq Z
  <2> HIDE DEF Z
  <2> QED
    BY <1>1, <1>2, <1>3, BlockSpan
<1> QED
  BY <1>4

\* The multiplications by any two blocks commute.
THEOREM F4_mulExchange ==
    ASSUME NEW a \in Block, NEW b \in Block, NEW y \in Block
    PROVE  F4_mul(a, F4_mul(b, y)) = F4_mul(b, F4_mul(a, y))
<1>1. ASSUME NEW i \in 0 .. Degree - 1
      PROVE  \A c, z \in Block : F4_mul(c, F4_mul(Monomial(i), z))
                                   = F4_mul(Monomial(i), F4_mul(c, z))
  <2>1. Monomial(i) \in Block
    BY MonomialParts
  <2>2. \A e \in 0 .. Degree - 1 : \A z \in Block :
          F4_mul(Monomial(e), F4_mul(Monomial(i), z)) = F4_mul(Monomial(i), F4_mul(Monomial(e), z))
    BY MonomialsCommute
  <2> QED
    BY <2>1, <2>2, CommutesByPower
<1>2. \A e \in 0 .. Degree - 1 : \A z \in Block :
         F4_mul(Monomial(e), F4_mul(b, z)) = F4_mul(b, F4_mul(Monomial(e), z))
  BY <1>1
<1> QED
  BY <1>2, CommutesByPower

\* F4_mul does not depend on how a product of three blocks is bracketed.
THEOREM F4_mulAssociates ==
    ASSUME NEW x \in Block, NEW y \in Block, NEW z \in Block
    PROVE  F4_mul(F4_mul(x, y), z) = F4_mul(x, F4_mul(y, z))
<1>1. F4_mul(x, y) \in Block
  BY F4_mulRight
<1>2. F4_mul(F4_mul(x, y), z) = F4_mul(z, F4_mul(x, y))
  BY <1>1, F4_mulCommutes
<1>3. F4_mul(z, F4_mul(x, y)) = F4_mul(x, F4_mul(z, y))
  BY F4_mulExchange
<1> QED
  BY <1>2, <1>3, F4_mulCommutes

-----------------------------------------------------------------------------
(* The transform                                                           *)

\* Each of the three values of a loop body is a block.
LEMMA ButterflyType ==
    ASSUME NEW L \in Block, NEW M \in Block, NEW R \in Block
    PROVE  \A z \in 0 .. 2 : Butterfly(L, M, R)[z] \in Block
<1> DEFINE mult == TimesOmega(Xor(M, R))
<1>1. mult \in Block
  BY BlockXor, TimesOmegaParts
<1>2. /\ Xor(Xor(L, M), R) \in Block
      /\ Xor(Xor(L, R), mult) \in Block
      /\ Xor(Xor(L, M), mult) \in Block
  BY <1>1, BlockXor
<1> QED
  BY <1>2 DEF Butterfly

\* A position whose digit is replaced is a position.
LEMMA ThirdsType ==
    ASSUME NEW k \in Vars, NEW i \in Position
    PROVE  /\ [i EXCEPT ![k] = 0] \in Position
           /\ [i EXCEPT ![k] = 1] \in Position
           /\ [i EXCEPT ![k] = 2] \in Position
           /\ i[k] \in 0 .. 2
BY DEF Position

\* A pass maps vectors of blocks to vectors of blocks.
LEMMA PassType ==
    ASSUME NEW k \in Vars, NEW c \in Coeffs
    PROVE  Pass(k, c) \in Coeffs
<1>1. ASSUME NEW i \in Position
      PROVE  Butterfly(c[[i EXCEPT ![k] = 0]], c[[i EXCEPT ![k] = 1]],
                       c[[i EXCEPT ![k] = 2]])[i[k]] \in Block
  <2> DEFINE i0 == [i EXCEPT ![k] = 0]
             i1 == [i EXCEPT ![k] = 1]
             i2 == [i EXCEPT ![k] = 2]
  <2>1. i0 \in Position /\ i1 \in Position /\ i2 \in Position /\ i[k] \in 0 .. 2
    BY ThirdsType
  <2> HIDE DEF i0, i1, i2
  <2>2. c[i0] \in Block /\ c[i1] \in Block /\ c[i2] \in Block
    BY <2>1 DEF Coeffs
  <2>3. Butterfly(c[i0], c[i1], c[i2])[i[k]] \in Block
    BY <2>1, <2>2, ButterflyType
  <2> QED
    BY <2>3 DEF i0, i1, i2
<1> QED
  BY <1>1 DEF Pass, Coeffs

-----------------------------------------------------------------------------
(* Sums of families of blocks                                              *)

Odd(A) == Cardinality(A) % 2 = 1

\* The members of a family that have a bit set.
Having(f, b) == {x \in DOMAIN f : b \in f[x]}

\* The members of a finite family that have a bit set are finitely many.
LEMMA HavingFinite ==
    ASSUME NEW f, IsFiniteSet(DOMAIN f), NEW b
    PROVE  IsFiniteSet(Having(f, b))
BY FS_Subset DEF Having

\* The parity of no and of one element.
LEMMA OddSmall == ~Odd({}) /\ \A x : Odd({x})
<1>1. Cardinality({}) = 0 /\ \A x : Cardinality({x}) = 1
  BY FS_EmptySet, FS_Singleton
<1> QED
  BY <1>1 DEF Odd

\* The parity of what is in one of two sets only.
LEMMA OddXor ==
    ASSUME NEW A, IsFiniteSet(A), NEW B, IsFiniteSet(B)
    PROVE  Odd(Xor(A, B)) <=> ~(Odd(A) <=> Odd(B))
BY XorParity DEF Odd

\* Sets that are mapped to one another one to one have the same parity.
LEMMA OddBijection ==
    ASSUME NEW A, NEW B, IsFiniteSet(A), NEW h \in Bijection(A, B)
    PROVE  Odd(A) <=> Odd(B)
BY FS_Bijection DEF ExistsBijection, Odd

\* A sum has a bit set if an odd number of the members of the family have it set.
LEMMA XorAllBit ==
    ASSUME NEW f, IsFiniteSet(DOMAIN f), NEW b
    PROVE  b \in XorAll(f) <=> Odd(Having(f, b))
<1> DEFINE terms == {<<x, f[x]>> : x \in DOMAIN f}
           A == Having(f, b)
           B == {t \in terms : b \in t[2]}
           h == [x \in A |-> <<x, f[x]>>]
<1>1. h \in Bijection(A, B)
  <2>1. \A x \in A : h[x] \in B
    BY DEF Having
  <2>2. \A t \in B : \E x \in A : h[x] = t
    BY DEF Having
  <2>3. \A x, y \in A : h[x] = h[y] => x = y
    OBVIOUS
  <2> QED
    BY <2>1, <2>2, <2>3 DEF Bijection, Injection, Surjection, IsInjective
<1>2. Odd(A) <=> Odd(B)
  <2> HIDE DEF A, B, h
  <2>1. IsFiniteSet(A)
    BY HavingFinite DEF A
  <2> QED
    BY <1>1, <2>1, OddBijection
<1>3. b \in XorAll(f) <=> b \in UNION {t[2] : t \in terms} /\ Odd(B)
  BY DEF XorAll, Odd
<1>4. ASSUME Odd(B) PROVE b \in UNION {t[2] : t \in terms}
  <2>1. B # {}
    BY <1>4, OddSmall
  <2>2. PICK t \in terms : b \in t[2]
    BY <2>1
  <2> QED
    BY <2>2
<1> QED
  BY <1>2, <1>3, <1>4

\* The sum of blocks is a block.
LEMMA XorAllType ==
    ASSUME NEW f, \A x \in DOMAIN f : f[x] \in Block
    PROVE  XorAll(f) \in Block
<1>1. \A b \in XorAll(f) : \E x \in DOMAIN f : b \in f[x]
  BY DEF XorAll
<1> QED
  BY <1>1 DEF Block

\* Families in which every bit is set an odd number of times or not have the same sum.
LEMMA XorAllSame ==
    ASSUME NEW f, IsFiniteSet(DOMAIN f), NEW g, IsFiniteSet(DOMAIN g),
           \A b : Odd(Having(f, b)) <=> Odd(Having(g, b))
    PROVE  XorAll(f) = XorAll(g)
<1>1. \A b : b \in XorAll(f) <=> b \in XorAll(g)
  BY XorAllBit
<1> QED
  BY <1>1

\* The sum does not depend on what the members are called.
LEMMA XorAllMoved ==
    ASSUME NEW f, IsFiniteSet(DOMAIN f), NEW g, NEW h \in Bijection(DOMAIN f, DOMAIN g),
           \A x \in DOMAIN f : f[x] = g[h[x]]
    PROVE  XorAll(f) = XorAll(g)
<1>1. IsFiniteSet(DOMAIN g)
  BY FS_Bijection DEF ExistsBijection
<1>2. ASSUME NEW b PROVE Odd(Having(f, b)) <=> Odd(Having(g, b))
  <2> DEFINE k == [x \in Having(f, b) |-> h[x]]
  <2>1. h \in [DOMAIN f -> DOMAIN g] /\ (\A x, y \in DOMAIN f : h[x] = h[y] => x = y)
        /\ \A y \in DOMAIN g : \E x \in DOMAIN f : h[x] = y
    BY DEF Bijection, Injection, Surjection, IsInjective
  <2>2. k \in Bijection(Having(f, b), Having(g, b))
    <3>1. \A x \in Having(f, b) : k[x] \in Having(g, b)
      BY <2>1 DEF Having
    <3>2. \A y \in Having(g, b) : \E x \in Having(f, b) : k[x] = y
      BY <2>1 DEF Having
    <3>3. \A x, y \in Having(f, b) : k[x] = k[y] => x = y
      BY <2>1 DEF Having
    <3> QED
      BY <3>1, <3>2, <3>3 DEF Bijection, Injection, Surjection, IsInjective
  <2> QED
    BY <2>2, HavingFinite, OddBijection
<1> QED
  BY <1>1, <1>2, XorAllSame

\* Two families are added member by member.
LEMMA XorAllXor ==
    ASSUME NEW f, NEW g, DOMAIN f = DOMAIN g, IsFiniteSet(DOMAIN f)
    PROVE  XorAll([x \in DOMAIN f |-> Xor(f[x], g[x])]) = Xor(XorAll(f), XorAll(g))
<1> DEFINE s == [x \in DOMAIN f |-> Xor(f[x], g[x])]
<1>1. ASSUME NEW b PROVE b \in XorAll(s) <=> ~(b \in XorAll(f) <=> b \in XorAll(g))
  <2>1. Having(s, b) = Xor(Having(f, b), Having(g, b))
    BY DEF Having, Xor
  <2> HIDE DEF s
  <2>2. IsFiniteSet(Having(f, b)) /\ IsFiniteSet(Having(g, b))
    BY HavingFinite
  <2>3. Odd(Having(s, b)) <=> ~(Odd(Having(f, b)) <=> Odd(Having(g, b)))
    BY <2>1, <2>2, OddXor
  <2>4. IsFiniteSet(DOMAIN s)
    BY DEF s
  <2> QED
    BY <2>3, <2>4, XorAllBit
<1> HIDE DEF s
<1>2. \A b : b \in XorAll(s) <=> b \in Xor(XorAll(f), XorAll(g))
  BY <1>1 DEF Xor
<1>3. XorAll(s) = Xor(XorAll(f), XorAll(g))
  BY <1>2
<1> QED
  BY <1>3 DEF s

\* Members that are zero do not count.
LEMMA XorAllPart ==
    ASSUME NEW f, IsFiniteSet(DOMAIN f), NEW S \in SUBSET DOMAIN f,
           \A x \in DOMAIN f \ S : f[x] = Zero
    PROVE  XorAll([x \in S |-> f[x]]) = XorAll(f)
<1> DEFINE s == [x \in S |-> f[x]]
<1>1. IsFiniteSet(DOMAIN s)
  BY FS_Subset
<1>2. \A b : Having(s, b) = Having(f, b)
  BY DEF Having, Zero
<1> HIDE DEF s
<1>3. XorAll(s) = XorAll(f)
  BY <1>1, <1>2, XorAllSame
<1> QED
  BY <1>3 DEF s

\* The sums of no and of one block.
LEMMA XorAllSmall ==
    ASSUME NEW f, NEW x
    PROVE  /\ DOMAIN f = {} => XorAll(f) = Zero
           /\ DOMAIN f = {x} => XorAll(f) = f[x]
<1>1. ASSUME DOMAIN f = {} PROVE XorAll(f) = Zero
  <2>1. \A b \in XorAll(f) : \E y \in DOMAIN f : b \in f[y]
    BY DEF XorAll
  <2> QED
    BY <1>1, <2>1 DEF Zero
<1>2. ASSUME DOMAIN f = {x} PROVE XorAll(f) = f[x]
  <2>1. IsFiniteSet(DOMAIN f)
    BY <1>2, FS_Singleton
  <2>2. ASSUME NEW b PROVE b \in XorAll(f) <=> b \in f[x]
    <3>1. Having(f, b) = IF b \in f[x] THEN {x} ELSE {}
      BY <1>2 DEF Having
    <3> QED
      BY <2>1, <3>1, XorAllBit, OddSmall
  <2> QED
    BY <2>2
<1> QED
  BY <1>1, <1>2

\* One member more is one block more.
LEMMA XorAllAdd ==
    ASSUME NEW g, IsFiniteSet(DOMAIN g), NEW x, x \notin DOMAIN g,
           NEW f, DOMAIN f = DOMAIN g \cup {x}, \A y \in DOMAIN g : f[y] = g[y]
    PROVE  XorAll(f) = Xor(XorAll(g), f[x])
<1>1. IsFiniteSet(DOMAIN f)
  BY FS_AddElement
<1>2. ASSUME NEW b PROVE b \in XorAll(f) <=> ~(b \in XorAll(g) <=> b \in f[x])
  <2> DEFINE B == IF b \in f[x] THEN {x} ELSE {}
  <2>1. Having(f, b) = Xor(Having(g, b), B)
    BY DEF Having, Xor
  <2>2. IsFiniteSet(B) /\ (Odd(B) <=> b \in f[x])
    BY OddSmall, FS_EmptySet, FS_Singleton
  <2> HIDE DEF B
  <2>3. Odd(Having(f, b)) <=> ~(Odd(Having(g, b)) <=> Odd(B))
    BY <2>1, <2>2, HavingFinite, OddXor
  <2> QED
    BY <1>1, <2>2, <2>3, XorAllBit
<1> QED
  BY <1>2 DEF Xor

\* The sum of three blocks.
LEMMA XorAllThree ==
    ASSUME NEW f, DOMAIN f = 0 .. 2
    PROVE  XorAll(f) = Xor(Xor(f[0], f[1]), f[2])
<1> DEFINE g == [y \in {0, 1} |-> f[y]]
           g0 == [y \in {0} |-> g[y]]
<1>1. XorAll(f) = Xor(XorAll(g), f[2])
  <2>1. IsFiniteSet({0, 1}) /\ 2 \notin {0, 1} /\ DOMAIN f = {0, 1} \cup {2}
        /\ DOMAIN g = {0, 1} /\ \A y \in {0, 1} : f[y] = g[y]
    <3>1. IsFiniteSet({0} \cup {1}) /\ {0} \cup {1} = {0, 1}
      BY FS_Singleton, FS_Union
    <3>2. 0 .. 2 = {0, 1} \cup {2}
      OBVIOUS
    <3> QED
      BY <3>1, <3>2
  <2> HIDE DEF g
  <2> QED
    BY <2>1, XorAllAdd
<1>2. XorAll(g) = Xor(XorAll(g0), g[1])
  <2>1. IsFiniteSet({0}) /\ 1 \notin {0}
    BY FS_Singleton
  <2>2. DOMAIN g = {0} \cup {1} /\ DOMAIN g0 = {0} /\ \A y \in {0} : g[y] = g0[y]
    OBVIOUS
  <2> HIDE DEF g, g0
  <2> QED
    BY <2>1, <2>2, XorAllAdd
<1>3. XorAll(g0) = g0[0]
  <2>1. DOMAIN g0 = {0}
    OBVIOUS
  <2> HIDE DEF g0
  <2> QED
    BY <2>1, XorAllSmall
<1> QED
  BY <1>1, <1>2, <1>3

\* A map that distributes over the sums of the members of a set that is closed under them.
Additive(X, F) ==
    \A x, y \in X : Xor(x, y) \in X /\ F[Xor(x, y)] = Xor(F[x], F[y])

\* Such a map may be applied to each member.
LEMMA XorAllMapped ==
    ASSUME NEW S, IsFiniteSet(S), NEW X, Zero \in X, NEW f \in [S -> X], NEW F,
           Additive(X, F)
    PROVE  /\ XorAll(f) \in X
           /\ F[XorAll(f)] = XorAll([x \in S |-> F[f[x]]])
<1> DEFINE Sub(T) == [x \in T |-> f[x]]
           Image(T) == [x \in T |-> F[f[x]]]
           Z == {T \in SUBSET S : /\ XorAll(Sub(T)) \in X
                                  /\ F[XorAll(Sub(T))] = XorAll(Image(T))}
<1>1. {} \in Z
  <2>1. DOMAIN Sub({}) = {} /\ DOMAIN Image({}) = {}
    OBVIOUS
  <2> HIDE DEF Sub, Image
  <2>2. XorAll(Sub({})) = Zero /\ XorAll(Image({})) = Zero
    BY <2>1, XorAllSmall
  <2>3. F[Zero] = Zero
    <3>1. Xor(Zero, Zero) = Zero
      BY DEF Zero, Xor
    <3>2. \A u : Xor(u, u) = Zero
      BY DEF Zero, Xor
    <3>3. F[Xor(Zero, Zero)] = Xor(F[Zero], F[Zero])
      BY <3>1 DEF Additive
    <3> QED
      BY <3>1, <3>2, <3>3
  <2> QED
    BY <2>2, <2>3
<1>2. ASSUME NEW T \in SUBSET S, NEW x \in S \ T, T \in Z PROVE T \cup {x} \in Z
  <2> DEFINE U == T \cup {x}
  <2>1. IsFiniteSet(T) /\ x \notin T
    BY FS_Subset
  <2>2. XorAll(Sub(U)) = Xor(XorAll(Sub(T)), f[x])
    <3>1. DOMAIN Sub(U) = T \cup {x} /\ DOMAIN Sub(T) = T /\ Sub(U)[x] = f[x]
          /\ \A y \in T : Sub(U)[y] = Sub(T)[y]
      OBVIOUS
    <3> HIDE DEF Sub, U
    <3> QED
      BY <2>1, <3>1, XorAllAdd
  <2>3. XorAll(Image(U)) = Xor(XorAll(Image(T)), F[f[x]])
    <3>1. DOMAIN Image(U) = T \cup {x} /\ DOMAIN Image(T) = T /\ Image(U)[x] = F[f[x]]
          /\ \A y \in T : Image(U)[y] = Image(T)[y]
      OBVIOUS
    <3> DEFINE v == Image(U)
               w == Image(T)
    <3>2. DOMAIN v = T \cup {x} /\ DOMAIN w = T /\ v[x] = F[f[x]] /\ \A y \in T : v[y] = w[y]
      BY <3>1
    <3> HIDE DEF v, w, Image, U, Z
    <3>3. XorAll(v) = Xor(XorAll(w), v[x])
      BY <2>1, <3>2, XorAllAdd
    <3> QED
      BY <3>2, <3>3 DEF v, w
  <2>4. f[x] \in X
    OBVIOUS
  <2>5. XorAll(Sub(T)) \in X /\ F[XorAll(Sub(T))] = XorAll(Image(T))
    BY <1>2
  <2>6. U \in SUBSET S
    OBVIOUS
  <2> HIDE DEF Sub, Image, U
  <2>7. XorAll(Sub(U)) \in X /\ F[XorAll(Sub(U))] = XorAll(Image(U))
    BY <2>2, <2>3, <2>4, <2>5 DEF Additive
  <2> QED
    BY <2>6, <2>7 DEF U
<1>3. S \in Z
  <2> HIDE DEF Z
  <2> QED
    BY <1>1, <1>2, SetByElement
<1>4. Sub(S) = f
  OBVIOUS
<1> QED
  BY <1>3, <1>4

\* An odd number of elements has an odd number of images with an odd number of elements.
LEMMA OddImages ==
    ASSUME NEW A, IsFiniteSet(A), NEW T, IsFiniteSet(T), NEW h, \A x \in A : h[x] \in T
    PROVE  Odd(A) <=> Odd({t \in T : Odd({x \in A : h[x] = t})})
<1> DEFINE Fiber(B, t) == {x \in B : h[x] = t}
           OddOnes(B) == {t \in T : Odd(Fiber(B, t))}
           Z == {B \in SUBSET A : Odd(B) <=> Odd(OddOnes(B))}
<1>1. {} \in Z
  <2>1. \A t : Fiber({}, t) = {}
    OBVIOUS
  <2>2. OddOnes({}) = {}
    BY <2>1, OddSmall
  <2> QED
    BY <2>2, OddSmall
<1>2. ASSUME NEW B \in SUBSET A, NEW x \in A \ B, B \in Z PROVE B \cup {x} \in Z
  <2> DEFINE U == B \cup {x}
             s == h[x]
  <2>1. IsFiniteSet(B) /\ IsFiniteSet({x}) /\ IsFiniteSet({s}) /\ s \in T
    BY FS_Subset, FS_Singleton
  <2>2. Odd(U) <=> ~Odd(B)
    <3>1. U = Xor(B, {x})
      BY DEF Xor
    <3> HIDE DEF U
    <3> QED
      BY <2>1, <3>1, OddXor, OddSmall
  <2>3. Odd(Fiber(U, s)) <=> ~Odd(Fiber(B, s))
    <3>1. Fiber(U, s) = Xor(Fiber(B, s), {x}) /\ Fiber(B, s) \in SUBSET B
      BY DEF Xor
    <3> HIDE DEF U, Fiber, s
    <3>2. IsFiniteSet(Fiber(B, s)) /\ Odd({x})
      BY <2>1, <3>1, FS_Subset, OddSmall
    <3>3. Odd(Xor(Fiber(B, s), {x})) <=> ~(Odd(Fiber(B, s)) <=> Odd({x}))
      BY <2>1, <3>2, OddXor
    <3> QED
      BY <3>1, <3>2, <3>3
  <2>4. \A t : t # s => Fiber(U, t) = Fiber(B, t)
    OBVIOUS
  <2>5. OddOnes(U) = Xor(OddOnes(B), {s})
    <3> HIDE DEF U, Fiber, s
    <3>1. \A t \in T : t \in OddOnes(U) <=> ~(t \in OddOnes(B) <=> t = s)
      BY <2>3, <2>4
    <3> HIDE DEF OddOnes
    <3>2. OddOnes(U) \in SUBSET T /\ OddOnes(B) \in SUBSET T
      BY DEF OddOnes
    <3>3. \A t : t \in Xor(OddOnes(B), {s}) <=> ~(t \in OddOnes(B) <=> t = s)
      BY DEF Xor
    <3>4. \A t : t \in OddOnes(U) <=> t \in Xor(OddOnes(B), {s})
      BY <2>1, <3>1, <3>2, <3>3
    <3> QED
      BY <3>4
  <2>6. Odd(OddOnes(U)) <=> ~Odd(OddOnes(B))
    <3>1. OddOnes(B) \in SUBSET T
      OBVIOUS
    <3> HIDE DEF OddOnes, U, s
    <3>2. IsFiniteSet(OddOnes(B)) /\ Odd({s})
      BY <3>1, FS_Subset, OddSmall
    <3>3. Odd(Xor(OddOnes(B), {s})) <=> ~(Odd(OddOnes(B)) <=> Odd({s}))
      BY <2>1, <3>2, OddXor
    <3> QED
      BY <2>5, <3>2, <3>3
  <2>7. Odd(B) <=> Odd(OddOnes(B))
    BY <1>2
  <2>8. U \in SUBSET A
    OBVIOUS
  <2> HIDE DEF OddOnes, U
  <2> QED
    BY <2>2, <2>6, <2>7, <2>8 DEF U
<1>3. A \in Z
  <2> HIDE DEF Z
  <2> QED
    BY <1>1, <1>2, SetByElement
<1> QED
  BY <1>3

\* A sum may be taken part by part.
LEMMA XorAllGrouped ==
    ASSUME NEW f, IsFiniteSet(DOMAIN f), NEW T, IsFiniteSet(T), NEW h,
           \A x \in DOMAIN f : h[x] \in T
    PROVE  XorAll(f) = XorAll([t \in T |->
                           XorAll([x \in {y \in DOMAIN f : h[y] = t} |-> f[x]])])
<1> DEFINE S == DOMAIN f
           Part(t) == [x \in {y \in S : h[y] = t} |-> f[x]]
           g == [t \in T |-> XorAll(Part(t))]
<1>1. ASSUME NEW b PROVE Odd(Having(f, b)) <=> Odd(Having(g, b))
  <2> DEFINE A == Having(f, b)
  <2>1. IsFiniteSet(A) /\ \A x \in A : h[x] \in T
    BY HavingFinite DEF Having
  <2>2. ASSUME NEW t \in T PROVE b \in g[t] <=> Odd({x \in A : h[x] = t})
    <3>1. DOMAIN Part(t) \in SUBSET S
      OBVIOUS
    <3>2. Having(Part(t), b) = {x \in A : h[x] = t}
      BY DEF Having
    <3>3. g[t] = XorAll(Part(t))
      OBVIOUS
    <3> HIDE DEF Part, A, g
    <3>4. IsFiniteSet(DOMAIN Part(t))
      BY <3>1, FS_Subset
    <3> QED
      BY <3>2, <3>3, <3>4, XorAllBit
  <2>3. DOMAIN g = T
    OBVIOUS
  <2>4. Having(g, b) = {t \in T : Odd({x \in A : h[x] = t})}
    <3> HIDE DEF g, A
    <3> QED
      BY <2>2, <2>3 DEF Having
  <2> HIDE DEF A, g
  <2>5. Odd(A) <=> Odd({t \in T : Odd({x \in A : h[x] = t})})
    BY <2>1, OddImages
  <2> QED
    BY <2>4, <2>5 DEF A
<1>2. IsFiniteSet(DOMAIN g)
  OBVIOUS
<1> HIDE DEF g
<1>3. XorAll(f) = XorAll(g)
  BY <1>1, <1>2, XorAllSame
<1> QED
  BY <1>3 DEF g

\* A sum over pairs is a sum of sums.
LEMMA XorAllProduct ==
    ASSUME NEW A, IsFiniteSet(A), NEW B, IsFiniteSet(B), NEW g, DOMAIN g = A \X B
    PROVE  XorAll(g) = XorAll([u \in A |-> XorAll([v \in B |-> g[<<u, v>>]])])
<1> DEFINE h == [p \in A \X B |-> p[1]]
           Row(u) == [p \in {y \in DOMAIN g : h[y] = u} |-> g[p]]
           Sums(u) == [v \in B |-> g[<<u, v>>]]
<1>1. IsFiniteSet(A \X B)
  BY FS_Product
<1>2. XorAll(g) = XorAll([u \in A |-> XorAll(Row(u))])
  <2> DEFINE f == g
  <2>1. IsFiniteSet(DOMAIN f) /\ \A p \in DOMAIN f : h[p] \in A
    BY <1>1
  <2> HIDE DEF f, h
  <2>2. XorAll(f) = XorAll([u \in A |-> XorAll([p \in {y \in DOMAIN f : h[y] = u} |-> f[p]])])
    BY <2>1, XorAllGrouped
  <2> QED
    BY <2>2 DEF f
<1>3. ASSUME NEW u \in A PROVE XorAll(Row(u)) = XorAll(Sums(u))
  <2> DEFINE m == [v \in B |-> <<u, v>>]
  <2>1. DOMAIN Row(u) = {<<u, v>> : v \in B} /\ DOMAIN Sums(u) = B
    OBVIOUS
  <2>2. m \in Bijection(B, {<<u, v>> : v \in B})
    <3>1. m \in [B -> {<<u, v>> : v \in B}]
      OBVIOUS
    <3>2. \A v, w \in B : m[v] = m[w] => v = w
      OBVIOUS
    <3>3. \A p \in {<<u, v>> : v \in B} : \E v \in B : m[v] = p
      OBVIOUS
    <3> HIDE DEF m
    <3> QED
      BY <3>1, <3>2, <3>3 DEF Bijection, Injection, Surjection, IsInjective
  <2>3. \A v \in B : Sums(u)[v] = Row(u)[m[v]]
    OBVIOUS
  <2> HIDE DEF m, Row, Sums
  <2>4. XorAll(Sums(u)) = XorAll(Row(u))
    BY <2>1, <2>2, <2>3, XorAllMoved
  <2> QED
    BY <2>4
<1>4. [u \in A |-> XorAll(Row(u))] = [u \in A |-> XorAll(Sums(u))]
  <2> HIDE DEF Row, Sums
  <2> QED
    BY <1>3
<1> QED
  BY <1>2, <1>4

\* A block is finite, and the sum of its bits.
LEMMA XorAllBits ==
    ASSUME NEW x, IsFiniteSet(x)
    PROVE  XorAll([b \in x |-> {b}]) = x
<1> DEFINE f == [b \in x |-> {b}]
<1>1. ASSUME NEW b PROVE b \in XorAll(f) <=> b \in x
  <2>1. b \in XorAll(f) <=> Odd(Having(f, b))
    BY XorAllBit
  <2>2. Having(f, b) = IF b \in x THEN {b} ELSE {}
    BY DEF Having
  <2> HIDE DEF f
  <2> QED
    BY <2>1, <2>2, OddSmall
<1> QED
  BY <1>1

LEMMA BlockFinite ==
    ASSUME NEW x \in Block
    PROVE  IsFiniteSet(x)
<1>1. IsFiniteSet(0 .. Degree - 1)
  <2>1. 0 \in Int /\ Degree - 1 \in Int
    BY DegreeAssumption
  <2> QED
    BY <2>1, FS_Interval
<1>2. IsFiniteSet(Bit)
  <2>1. IsFiniteSet({"l"}) /\ IsFiniteSet({"h"}) /\ Bit = {"l"} \cup {"h"}
    BY FS_Singleton DEF Bit
  <2> QED
    BY <2>1, FS_Union
<1>3. IsFiniteSet((0 .. Degree - 1) \X Bit)
  BY <1>1, <1>2, FS_Product
<1> QED
  BY <1>3, FS_Subset DEF Block

\* The product of two blocks is the sum of the products of their bits.
LEMMA MulBits ==
    ASSUME NEW x \in Block, NEW y \in Block
    PROVE  F4_mul(x, y) = XorAll([p \in x \X y |-> F4_mul({p[1]}, {p[2]})])
<1> DEFINE F == [u \in Block |-> F4_mul(u, y)]
           G(b) == [v \in Block |-> F4_mul({b}, v)]
           X == [b \in x |-> {b}]
           Y == [b \in y |-> {b}]
           g == [p \in x \X y |-> F4_mul({p[1]}, {p[2]})]
<1>1. IsFiniteSet(x) /\ IsFiniteSet(y)
  BY BlockFinite
<1>2. /\ Zero \in Block /\ X \in [x -> Block] /\ Y \in [y -> Block]
      /\ \A b \in x \cup y : {b} \in Block
  BY DEF Zero, Block
<1>3. Additive(Block, F) /\ \A b \in x : Additive(Block, G(b))
  <2>1. Additive(Block, F)
    BY F4_mulXor, BlockXor DEF Additive
  <2>2. ASSUME NEW b \in x PROVE Additive(Block, G(b))
    <3>1. {b} \in Block
      BY <1>2
    <3>2. \A u, v \in Block : /\ Xor(u, v) \in Block
                              /\ F4_mul({b}, Xor(u, v)) = Xor(F4_mul({b}, u), F4_mul({b}, v))
      BY <3>1, F4_mulRight, BlockXor
    <3> QED
      BY <3>2 DEF Additive
  <2> QED
    BY <2>1, <2>2
<1>4. XorAll(X) = x /\ XorAll(Y) = y
  BY <1>1, XorAllBits
<1>5. F[x] = XorAll([b \in x |-> F[X[b]]])
  <2> HIDE DEF F, X
  <2>1. F[XorAll(X)] = XorAll([b \in x |-> F[X[b]]])
    BY <1>1, <1>2, <1>3, XorAllMapped
  <2> QED
    BY <1>4, <2>1
<1>6. ASSUME NEW b \in x PROVE F4_mul({b}, y) = XorAll([c \in y |-> F4_mul({b}, {c})])
  <2>1. G(b)[y] = XorAll([c \in y |-> G(b)[Y[c]]])
    <3> DEFINE H == G(b)
    <3>1. Additive(Block, H)
      BY <1>3
    <3> HIDE DEF H, Y
    <3>2. H[XorAll(Y)] = XorAll([c \in y |-> H[Y[c]]])
      BY <1>1, <1>2, <3>1, XorAllMapped
    <3>3. H[y] = XorAll([c \in y |-> H[Y[c]]])
      BY <1>4, <3>2
    <3> QED
      BY <3>3 DEF H
  <2>2. \A c \in y : G(b)[Y[c]] = F4_mul({b}, {c})
    BY <1>2
  <2>3. G(b)[y] = F4_mul({b}, y)
    OBVIOUS
  <2> HIDE DEF G, Y
  <2> QED
    BY <2>1, <2>2, <2>3
<1>7. XorAll(g) = XorAll([b \in x |-> XorAll([c \in y |-> g[<<b, c>>]])])
  <2>1. DOMAIN g = x \X y
    OBVIOUS
  <2> HIDE DEF g
  <2> QED
    BY <1>1, <2>1, XorAllProduct
<1>8. \A b \in x : F[X[b]] = F4_mul({b}, y)
  BY <1>2
<1>9. \A b \in x : [c \in y |-> g[<<b, c>>]] = [c \in y |-> F4_mul({b}, {c})]
  OBVIOUS
<1>10. F[x] = F4_mul(x, y)
  OBVIOUS
<1> HIDE DEF F, X, g
<1>11. \A b \in x : F[X[b]] = XorAll([c \in y |-> g[<<b, c>>]])
  BY <1>6, <1>8, <1>9
<1>12. XorAll(g) = F4_mul(x, y)
  BY <1>5, <1>7, <1>10, <1>11
<1> QED
  BY <1>12 DEF g

-----------------------------------------------------------------------------
(* Powers of omega                                                         *)

\* omega is a cube root of unity, and the sum of its powers is zero.
LEMMA OmegaCubed ==
    ASSUME NEW x \in Block
    PROVE  /\ TimesOmega(TimesOmega(x)) = Xor(TimesOmega(x), x)
           /\ TimesOmega(TimesOmega(TimesOmega(x))) = x
<1> DEFINE w == TimesOmega(x)
           v == TimesOmega(w)
<1>1. w \in Block /\ v \in Block /\ TimesOmega(v) \in Block
  BY TimesOmegaParts
<1> DEFINE p == odd_bit_extraction(x)
           q == even_bit_extraction(x)
<1>2. odd_bit_extraction(w) = Xor(p, q) /\ even_bit_extraction(w) = p
  BY TimesOmegaParts
<1>3. /\ odd_bit_extraction(v) = Xor(odd_bit_extraction(w), even_bit_extraction(w))
      /\ even_bit_extraction(v) = odd_bit_extraction(w)
  BY <1>1, TimesOmegaParts
<1>4. v = Xor(w, x)
  <2> HIDE DEF v, w
  <2>1. Xor(w, x) \in Block
    BY <1>1, BlockXor
  <2>2. /\ odd_bit_extraction(Xor(w, x)) = Xor(odd_bit_extraction(w), p)
        /\ even_bit_extraction(Xor(w, x)) = Xor(even_bit_extraction(w), q)
    BY <1>1, ExtractionXor
  <2>3. \A t, u : Xor(Xor(t, u), t) = Xor(Xor(t, u), t) /\ Xor(t, u) = Xor(t, u)
    OBVIOUS
  <2>4. odd_bit_extraction(v) = odd_bit_extraction(Xor(w, x))
    BY <1>2, <1>3, <2>2
  <2>5. even_bit_extraction(v) = even_bit_extraction(Xor(w, x))
    BY <1>2, <1>3, <2>2
  <2> QED
    BY <1>1, <2>1, <2>4, <2>5, BlockEqual
<1>5. TimesOmega(v) = x
  <2>1. TimesOmega(Xor(w, x)) = Xor(TimesOmega(w), TimesOmega(x))
    BY <1>1, TimesOmegaXor
  <2>2. TimesOmega(v) = Xor(v, w)
    BY <1>4, <2>1
  <2>3. Xor(Xor(w, x), w) = x
    BY DEF Xor
  <2> QED
    BY <1>4, <2>2, <2>3
<1> QED
  BY <1>4, <1>5

\* A power of omega times a block is a block, and distributes over sums.
LEMMA OmegaPowerXor ==
    ASSUME NEW n, NEW x \in Block, NEW y \in Block
    PROVE  /\ OmegaPower(n, x) \in Block
           /\ OmegaPower(n, Xor(x, y)) = Xor(OmegaPower(n, x), OmegaPower(n, y))
<1>1. TimesOmega(x) \in Block /\ TimesOmega(y) \in Block
  BY TimesOmegaParts
<1>2. TimesOmega(TimesOmega(x)) \in Block
  BY <1>1, TimesOmegaParts
<1>3. TimesOmega(Xor(x, y)) = Xor(TimesOmega(x), TimesOmega(y))
  BY TimesOmegaXor
<1>4. TimesOmega(TimesOmega(Xor(x, y))) = Xor(TimesOmega(TimesOmega(x)), TimesOmega(TimesOmega(y)))
  BY <1>1, <1>3, TimesOmegaXor
<1> QED
  BY <1>1, <1>2, <1>3, <1>4 DEF OmegaPower

\* The powers of omega times zero are zero.
LEMMA OmegaPowerZero == \A n : OmegaPower(n, Zero) = Zero
<1>1. TimesOmega(Zero) = Zero
  BY DEF TimesOmega, Zero, Masked, Shifted, Xor
<1> QED
  BY <1>1 DEF OmegaPower

\* Two powers of omega are one.
LEMMA OmegaPowerAdd ==
    ASSUME NEW n \in 0 .. 2, NEW m \in 0 .. 2, NEW x \in Block
    PROVE  OmegaPower(n, OmegaPower(m, x)) = OmegaPower((n + m) % 3, x)
<1> DEFINE w == TimesOmega(x)
           v == TimesOmega(w)
<1>1. TimesOmega(v) = x
  BY OmegaCubed
<1> HIDE DEF w, v
<1>2. OmegaPower(0, x) = x /\ OmegaPower(1, x) = w /\ OmegaPower(2, x) = v
  BY DEF OmegaPower, w, v
<1>3. /\ OmegaPower(1, w) = v /\ OmegaPower(2, w) = x /\ OmegaPower(1, v) = x
      /\ OmegaPower(2, v) = w /\ \A y : OmegaPower(0, y) = y
  BY <1>1 DEF OmegaPower, w, v
<1>4. /\ 0 % 3 = 0 /\ 1 % 3 = 1 /\ 2 % 3 = 2 /\ 3 % 3 = 0 /\ 4 % 3 = 1
  OBVIOUS
<1>5. (n = 0 \/ n = 1 \/ n = 2) /\ (m = 0 \/ m = 1 \/ m = 2)
  OBVIOUS
<1>6. CASE n = 0
  <2>1. (n + m) % 3 = m
    BY <1>4, <1>5, <1>6
  <2> QED
    BY <1>3, <1>6, <2>1
<1>7. CASE m = 0
  <2>1. (n + m) % 3 = n
    BY <1>4, <1>5, <1>7
  <2> QED
    BY <1>2, <1>7, <2>1
<1>8. CASE n # 0 /\ m # 0
  <2>1. \/ n = 1 /\ m = 1 /\ (n + m) % 3 = 2
        \/ n = 1 /\ m = 2 /\ (n + m) % 3 = 0
        \/ n = 2 /\ m = 1 /\ (n + m) % 3 = 0
        \/ n = 2 /\ m = 2 /\ (n + m) % 3 = 1
    BY <1>4, <1>5, <1>8
  <2> QED
    BY <1>2, <1>3, <2>1
<1> QED
  BY <1>6, <1>7, <1>8

\* A power of omega may be multiplied to each member of a sum.
LEMMA OmegaPowerXorAll ==
    ASSUME NEW n, NEW S, IsFiniteSet(S), NEW f \in [S -> Block]
    PROVE  OmegaPower(n, XorAll(f)) = XorAll([x \in S |-> OmegaPower(n, f[x])])
<1> DEFINE F == [x \in Block |-> OmegaPower(n, x)]
<1>1. Zero \in Block
  BY DEF Zero, Block
<1>2. Additive(Block, F)
  BY OmegaPowerXor, BlockXor DEF Additive
<1>3. XorAll(f) \in Block
  BY XorAllType
<1>4. F[XorAll(f)] = XorAll([x \in S |-> F[f[x]]])
  <2> HIDE DEF F
  <2> QED
    BY <1>1, <1>2, XorAllMapped
<1>5. [x \in S |-> F[f[x]]] = [x \in S |-> OmegaPower(n, f[x])]
  OBVIOUS
<1> QED
  BY <1>3, <1>4, <1>5

\* The loop body evaluates the polynomial with coefficients L, M and R at the three
\* cube roots of unity.
LEMMA ButterflyEvaluates ==
    ASSUME NEW L \in Block, NEW M \in Block, NEW R \in Block, NEW z \in 0 .. 2
    PROVE  Butterfly(L, M, R)[z]
             = Xor(Xor(L, OmegaPower(z, M)), OmegaPower((2 * z) % 3, R))
<1> DEFINE m == TimesOmega(M)
           r == TimesOmega(R)
<1>1. TimesOmega(Xor(M, R)) = Xor(m, r)
  BY TimesOmegaXor
<1>2. TimesOmega(m) = Xor(m, M) /\ TimesOmega(r) = Xor(r, R)
  BY OmegaCubed
<1> HIDE DEF m, r
<1>3. /\ Butterfly(L, M, R)[0] = Xor(Xor(L, M), R)
      /\ Butterfly(L, M, R)[1] = Xor(Xor(L, R), Xor(m, r))
      /\ Butterfly(L, M, R)[2] = Xor(Xor(L, M), Xor(m, r))
  BY <1>1 DEF Butterfly
<1>4. /\ Xor(Xor(L, R), Xor(m, r)) = Xor(Xor(L, m), Xor(r, R))
      /\ Xor(Xor(L, M), Xor(m, r)) = Xor(Xor(L, Xor(m, M)), r)
  BY DEF Xor
<1>5. /\ OmegaPower(0, M) = M /\ OmegaPower(0, R) = R /\ OmegaPower(1, M) = m
      /\ OmegaPower(1, R) = r /\ OmegaPower(2, M) = Xor(m, M) /\ OmegaPower(2, R) = Xor(r, R)
  BY <1>2 DEF OmegaPower, m, r
<1>6. (2 * 0) % 3 = 0 /\ (2 * 1) % 3 = 2 /\ (2 * 2) % 3 = 1
  OBVIOUS
<1>7. CASE z = 0
  BY <1>3, <1>5, <1>6, <1>7
<1>8. CASE z = 1
  BY <1>3, <1>4, <1>5, <1>6, <1>8
<1>9. CASE z = 2
  BY <1>3, <1>4, <1>5, <1>6, <1>9
<1> QED
  BY <1>7, <1>8, <1>9

\* What the inverse stores is taken back to L, M and R by the loop body.
LEMMA ButterflyInverse ==
    ASSUME NEW L \in Block, NEW M \in Block, NEW R \in Block
    PROVE  LET inv == inv_Butterfly(L, M, R)
           IN  /\ \A z \in 0 .. 2 : inv[z] \in Block
               /\ Butterfly(inv[0], inv[1], inv[2])[0] = L
               /\ Butterfly(inv[0], inv[1], inv[2])[1] = M
               /\ Butterfly(inv[0], inv[1], inv[2])[2] = R
<1> DEFINE m == TimesOmega(M)
           r == TimesOmega(R)
           inv == inv_Butterfly(L, M, R)
<1>1. TimesOmega(Xor(M, R)) = Xor(m, r)
  BY TimesOmegaXor
<1>2. TimesOmega(m) = Xor(m, M) /\ TimesOmega(r) = Xor(r, R) /\ m \in Block /\ r \in Block
  BY OmegaCubed, TimesOmegaParts
<1> HIDE DEF m, r
<1>3. /\ inv[0] = Xor(Xor(L, M), R)
      /\ inv[1] = Xor(Xor(L, M), Xor(m, r))
      /\ inv[2] = Xor(Xor(L, R), Xor(m, r))
  BY <1>1 DEF inv_Butterfly
<1>4. /\ Xor(Xor(L, M), R) \in Block /\ Xor(Xor(L, M), Xor(m, r)) \in Block
      /\ Xor(Xor(L, R), Xor(m, r)) \in Block /\ Xor(M, R) \in Block
  BY <1>2, BlockXor
<1>5. Xor(inv[1], inv[2]) = Xor(M, R)
  <2>1. Xor(Xor(Xor(L, M), Xor(m, r)), Xor(Xor(L, R), Xor(m, r))) = Xor(M, R)
    BY DEF Xor
  <2> QED
    BY <1>3, <2>1
<1> HIDE DEF inv
<1>6. /\ Butterfly(inv[0], inv[1], inv[2])[0] = Xor(Xor(inv[0], inv[1]), inv[2])
      /\ Butterfly(inv[0], inv[1], inv[2])[1] = Xor(Xor(inv[0], inv[2]), Xor(m, r))
      /\ Butterfly(inv[0], inv[1], inv[2])[2] = Xor(Xor(inv[0], inv[1]), Xor(m, r))
  BY <1>1, <1>5 DEF Butterfly
<1>7. /\ Xor(Xor(Xor(Xor(L, M), R), Xor(Xor(L, M), Xor(m, r))), Xor(Xor(L, R), Xor(m, r))) = L
      /\ Xor(Xor(Xor(Xor(L, M), R), Xor(Xor(L, R), Xor(m, r))), Xor(m, r)) = M
      /\ Xor(Xor(Xor(Xor(L, M), R), Xor(Xor(L, M), Xor(m, r))), Xor(m, r)) = R
  <2>1. Xor(Xor(Xor(Xor(L, M), R), Xor(Xor(L, M), Xor(m, r))), Xor(Xor(L, R), Xor(m, r))) = L
    BY DEF Xor
  <2>2. Xor(Xor(Xor(Xor(L, M), R), Xor(Xor(L, R), Xor(m, r))), Xor(m, r)) = M
    BY DEF Xor
  <2>3. Xor(Xor(Xor(Xor(L, M), R), Xor(Xor(L, M), Xor(m, r))), Xor(m, r)) = R
    BY DEF Xor
  <2> QED
    BY <2>1, <2>2, <2>3
<1>8. \A z \in 0 .. 2 : inv[z] \in Block
  <2>1. \A z \in 0 .. 2 : z = 0 \/ z = 1 \/ z = 2
    OBVIOUS
  <2> QED
    BY <1>3, <1>4, <2>1
<1> QED
  BY <1>3, <1>6, <1>7, <1>8 DEF inv

-----------------------------------------------------------------------------
(* The passes evaluate                                                     *)

\* There are finitely many positions.
LEMMA PositionFinite == IsFiniteSet(Position)
<1> DEFINE S == SUBSET (Vars \X (0 .. 2))
           f == [x \in Position |-> {<<i, x[i]>> : i \in Vars}]
<1>1. IsFiniteSet(Vars) /\ IsFiniteSet(0 .. 2)
  <2>1. 0 \in Int /\ 1 \in Int /\ 2 \in Int /\ NumVars \in Int
    BY NumVarsAssumption
  <2> QED
    BY <2>1, FS_Interval DEF Vars
<1>2. IsFiniteSet(S)
  BY <1>1, FS_Product, FS_SUBSET
<1>3. f \in Injection(Position, S)
  <2>1. f \in [Position -> S]
    BY DEF Position
  <2>2. ASSUME NEW x \in Position, NEW y \in Position, f[x] = f[y] PROVE x = y
    <3>1. ASSUME NEW i \in Vars PROVE x[i] = y[i]
      <4>1. <<i, x[i]>> \in f[x]
        OBVIOUS
      <4>2. PICK j \in Vars : <<i, x[i]>> = <<j, y[j]>>
        BY <4>1, <2>2
      <4> QED
        BY <4>2
    <3> QED
      BY <3>1 DEF Position
  <2> QED
    BY <2>1, <2>2 DEF Injection, IsInjective
<1> QED
  BY <1>2, <1>3, FS_Injection

\* The sum of the products of the digits in K.
ProductsAt(K, i, e, n) == {k \in K : (i[k] * e[k]) % 3 = n}
ExponentOver(K, i, e) ==
    (Cardinality(ProductsAt(K, i, e, 1)) + 2 * Cardinality(ProductsAt(K, i, e, 2))) % 3

\* Two positions have the same digits outside K.
AgreeBut(K, i, e) == \A k \in Vars \ K : e[k] = i[k]

\* The values of the polynomial with coefficients c if only the variables in K are
\* evaluated.
TermOver(K, c, i) ==
    [e \in Position |-> IF AgreeBut(K, i, e) THEN OmegaPower(ExponentOver(K, i, e), c[e]) ELSE Zero]
ValueOver(K, c, i) == XorAll(TermOver(K, c, i))

\* The products of two digits modulo 3.
LEMMA DigitProducts ==
    ASSUME NEW u \in 0 .. 2, NEW z \in 0 .. 2
    PROVE  /\ (u * 0) % 3 = 0
           /\ (u * 1) % 3 = u
           /\ (u * 2) % 3 = (2 * u) % 3
           /\ (u * z) % 3 \in 0 .. 2
<1>1. u = 0 \/ u = 1 \/ u = 2
  OBVIOUS
<1>2. z = 0 \/ z = 1 \/ z = 2
  OBVIOUS
<1> QED
  BY <1>1, <1>2

\* The sets of digits are finite, and the exponent is a digit.
LEMMA ExponentType ==
    ASSUME NEW K \in SUBSET Vars, NEW i, NEW e
    PROVE  /\ ExponentOver(K, i, e) \in 0 .. 2
           /\ \A n : /\ IsFiniteSet(ProductsAt(K, i, e, n))
                     /\ Cardinality(ProductsAt(K, i, e, n)) \in Nat
<1>1. IsFiniteSet(Vars)
  <2>1. 1 \in Int /\ NumVars \in Int
    BY NumVarsAssumption
  <2> QED
    BY <2>1, FS_Interval DEF Vars
<1>2. ASSUME NEW n
      PROVE  /\ IsFiniteSet(ProductsAt(K, i, e, n))
             /\ Cardinality(ProductsAt(K, i, e, n)) \in Nat
  <2>1. ProductsAt(K, i, e, n) \in SUBSET Vars
    BY DEF ProductsAt
  <2> QED
    BY <1>1, <2>1, FS_Subset, FS_CardinalityType
<1> DEFINE p == Cardinality(ProductsAt(K, i, e, 1))
           q == Cardinality(ProductsAt(K, i, e, 2))
<1>3. p \in Nat /\ q \in Nat
  BY <1>2
<1> HIDE DEF p, q
<1>4. (p + 2 * q) % 3 \in 0 .. 2
  BY <1>3
<1> QED
  BY <1>2, <1>4 DEF ExponentOver, p, q

\* One more variable adds the product of its digits.
LEMMA ExponentAdd ==
    ASSUME NEW K \in SUBSET Vars, NEW k \in Vars \ K, NEW i \in Position,
           NEW t, NEW e \in Position, \A j \in K : e[j] = t[j]
    PROVE  ExponentOver(K \cup {k}, i, e) = (ExponentOver(K, i, t) + ((i[k] * e[k]) % 3)) % 3
<1> DEFINE A(n) == ProductsAt(K, i, t, n)
           B(n) == ProductsAt(K \cup {k}, i, e, n)
           v == (i[k] * e[k]) % 3
<1>1. i[k] \in 0 .. 2 /\ e[k] \in 0 .. 2
  BY DEF Position
<1>2. v \in 0 .. 2
  BY <1>1, DigitProducts
<1>3. ASSUME NEW n PROVE B(n) = IF v = n THEN A(n) \cup {k} ELSE A(n)
  BY DEF ProductsAt
<1>4. ASSUME NEW n
      PROVE  /\ Cardinality(B(n)) = IF v = n THEN Cardinality(A(n)) + 1 ELSE Cardinality(A(n))
             /\ Cardinality(A(n)) \in Nat
  <2>1. IsFiniteSet(A(n)) /\ Cardinality(A(n)) \in Nat
    BY ExponentType
  <2>2. k \notin A(n)
    BY DEF ProductsAt
  <2>3. B(n) = IF v = n THEN A(n) \cup {k} ELSE A(n)
    BY <1>3
  <2> HIDE DEF A, B, v
  <2> QED
    BY <2>1, <2>2, <2>3, FS_AddElement
<1> DEFINE p == Cardinality(A(1))
           q == Cardinality(A(2))
<1>5. /\ Cardinality(B(1)) = IF v = 1 THEN p + 1 ELSE p
      /\ Cardinality(B(2)) = IF v = 2 THEN q + 1 ELSE q
      /\ p \in Nat /\ q \in Nat
  BY <1>4
<1>6. ExponentOver(K, i, t) = (p + 2 * q) % 3
  BY DEF ExponentOver
<1>7. ExponentOver(K \cup {k}, i, e) = (Cardinality(B(1)) + 2 * Cardinality(B(2))) % 3
  BY DEF ExponentOver
<1> HIDE DEF A, B, p, q, v
<1>8. Cardinality(B(1)) + 2 * Cardinality(B(2)) = (p + 2 * q) + v
  <2>1. v = 0 \/ v = 1 \/ v = 2
    BY <1>2
  <2> QED
    BY <1>5, <2>1
<1> DEFINE r == p + 2 * q
<1>9. r \in Nat /\ ExponentOver(K, i, t) = r % 3
      /\ ExponentOver(K \cup {k}, i, e) = (r + v) % 3
  BY <1>5, <1>6, <1>7, <1>8
<1> HIDE DEF r
<1>10. (r + v) % 3 = ((r % 3) + v) % 3
  BY <1>2, <1>9
<1>11. ExponentOver(K \cup {k}, i, e) = (ExponentOver(K, i, t) + v) % 3
  BY <1>9, <1>10
<1> QED
  BY <1>11, Zenon DEF v

\* If no variable is evaluated, the values are the coefficients.
LEMMA ValueNone ==
    ASSUME NEW c \in Coeffs, NEW i \in Position
    PROVE  ValueOver({}, c, i) = c[i]
<1> DEFINE f == TermOver({}, c, i)
           g == [x \in {i} |-> f[x]]
<1>1. DOMAIN f = Position
  BY DEF TermOver
<1>2. \A x \in Position \ {i} : f[x] = Zero
  <2>1. \A x \in Position : AgreeBut({}, i, x) => x = i
    BY DEF AgreeBut, Position
  <2> QED
    BY <2>1 DEF TermOver
<1>3. f[i] = c[i]
  <2>1. AgreeBut({}, i, i)
    BY DEF AgreeBut
  <2>2. ProductsAt({}, i, i, 1) = {} /\ ProductsAt({}, i, i, 2) = {}
    BY DEF ProductsAt
  <2>3. Cardinality({}) = 0
    BY FS_EmptySet
  <2>4. ExponentOver({}, i, i) = 0
    <3>1. (0 + 2 * 0) % 3 = 0
      OBVIOUS
    <3> QED
      BY <2>2, <2>3, <3>1, Zenon DEF ExponentOver
  <2> QED
    BY <2>1, <2>4 DEF TermOver, OmegaPower
<1> HIDE DEF f
<1>4. XorAll(g) = XorAll(f)
  BY <1>1, <1>2, PositionFinite, XorAllPart
<1>5. DOMAIN g = {i} /\ g[i] = f[i]
  OBVIOUS
<1> HIDE DEF g
<1>6. XorAll(g) = f[i]
  BY <1>5, XorAllSmall
<1> QED
  BY <1>3, <1>4, <1>6 DEF ValueOver, f

\* If all variables are evaluated, the value is the polynomial's.
LEMMA ValueAll ==
    ASSUME NEW c, NEW i
    PROVE  ValueOver(Vars, c, i) = Evaluate(c, i)
<1>1. ASSUME NEW e PROVE AgreeBut(Vars, i, e) /\ ExponentOver(Vars, i, e) = Exponent(i, e)
  BY DEF AgreeBut, ExponentOver, Exponent, ProductsAt
<1>2. TermOver(Vars, c, i) = [e \in Position |-> OmegaPower(Exponent(i, e), c[e])]
  BY <1>1 DEF TermOver
<1> QED
  BY <1>2 DEF ValueOver, Evaluate

\* The types of terms and values.
LEMMA ValueType ==
    ASSUME NEW K, NEW c \in Coeffs, NEW i
    PROVE  /\ DOMAIN TermOver(K, c, i) = Position
           /\ \A e \in Position : TermOver(K, c, i)[e] \in Block
           /\ ValueOver(K, c, i) \in Block
<1>1. \A e \in Position : c[e] \in Block
  BY DEF Coeffs
<1>2. Zero \in Block
  BY DEF Zero, Block
<1>3. \A e \in Position : TermOver(K, c, i)[e] \in Block
  BY <1>1, <1>2, OmegaPowerXor DEF TermOver
<1>4. DOMAIN TermOver(K, c, i) = Position
  BY DEF TermOver
<1> QED
  BY <1>3, <1>4, XorAllType DEF ValueOver

\* The pass for variable k evaluates it: the values after the pass are those of one more
\* variable before it.
LEMMA ValuePass ==
    ASSUME NEW K \in SUBSET Vars, NEW k \in Vars \ K, NEW c \in Coeffs, NEW i \in Position
    PROVE  ValueOver(K, Pass(k, c), i) = ValueOver(K \cup {k}, c, i)
<1> DEFINE J == K \cup {k}
           f == TermOver(J, c, i)
           g == TermOver(K, Pass(k, c), i)
           h == [e \in Position |-> [e EXCEPT ![k] = i[k]]]
           Fiber(t) == {e \in Position : h[e] = t}
           Part(t) == [e \in Fiber(t) |-> f[e]]
           At(t, z) == [t EXCEPT ![k] = z]
<1>1. k \in Vars /\ i[k] \in 0 .. 2
  BY DEF Position
<1>2. \A e \in Position : h[e] \in Position
  BY <1>1 DEF Position
<1>3. DOMAIN f = Position /\ DOMAIN g = Position
  BY DEF TermOver
<1>4. XorAll(f) = XorAll([t \in Position |-> XorAll(Part(t))])
  <2>1. XorAll(f) = XorAll([t \in Position |->
                               XorAll([e \in {y \in DOMAIN f : h[y] = t} |-> f[e]])])
    <3> HIDE DEF f, h
    <3> QED
      BY <1>2, <1>3, PositionFinite, XorAllGrouped
  <2> QED
    BY <1>3, <2>1
<1>5. ASSUME NEW t \in Position, t[k] # i[k]
      PROVE  XorAll(Part(t)) = Zero /\ g[t] = Zero
  <2>1. \A e \in Position : h[e][k] = i[k]
    BY <1>1 DEF Position
  <2>2. Fiber(t) = {}
    BY <1>5, <2>1
  <2>3. DOMAIN Part(t) = {}
    BY <2>2
  <2>4. XorAll(Part(t)) = Zero
    <3> HIDE DEF Part
    <3> QED
      BY <2>3, XorAllSmall
  <2>5. ~AgreeBut(K, i, t)
    BY <1>5 DEF AgreeBut
  <2> QED
    BY <2>4, <2>5 DEF TermOver
<1>6. ASSUME NEW t \in Position, t[k] = i[k]
      PROVE  XorAll(Part(t)) = g[t]
  <2> DEFINE s == [z \in 0 .. 2 |-> f[At(t, z)]]
             m == [z \in 0 .. 2 |-> At(t, z)]
             E == ExponentOver(K, i, t)
             L == c[At(t, 0)]
             M == c[At(t, 1)]
             R == c[At(t, 2)]
  <2>1. \A z \in 0 .. 2 : At(t, z) \in Position /\ At(t, z)[k] = z
    BY <1>1 DEF Position
  <2>2. m \in Bijection(0 .. 2, Fiber(t))
    <3>1. ASSUME NEW z \in 0 .. 2 PROVE m[z] \in Fiber(t)
      <4>1. h[At(t, z)] = [At(t, z) EXCEPT ![k] = i[k]]
        BY <2>1
      <4>2. [At(t, z) EXCEPT ![k] = i[k]] = t
        BY <1>1, <1>6 DEF Position
      <4> QED
        BY <2>1, <4>1, <4>2
    <3>2. ASSUME NEW z \in 0 .. 2, NEW y \in 0 .. 2, m[z] = m[y] PROVE z = y
      BY <2>1, <3>2
    <3>3. ASSUME NEW e \in Fiber(t) PROVE e[k] \in 0 .. 2 /\ m[e[k]] = e
      <4>1. e \in Position /\ e[k] \in 0 .. 2
        BY <1>1 DEF Position
      <4>2. [e EXCEPT ![k] = i[k]] = t
        BY <4>1
      <4>3. \A j \in Vars \ {k} : e[j] = t[j]
        BY <4>1, <4>2 DEF Position
      <4>4. At(t, e[k]) = e
        BY <4>1, <4>3, <1>1 DEF Position
      <4> QED
        BY <4>1, <4>4
    <3> HIDE DEF m, Fiber
    <3>4. m \in [0 .. 2 -> Fiber(t)]
      BY <3>1 DEF m
    <3> QED
      BY <3>2, <3>3, <3>4 DEF Bijection, Injection, Surjection, IsInjective
  <2>3. XorAll(Part(t)) = XorAll(s)
    <3>1. DOMAIN s = 0 .. 2 /\ DOMAIN Part(t) = Fiber(t) /\ IsFiniteSet(DOMAIN s)
      <4>1. 0 \in Int /\ 2 \in Int
        OBVIOUS
      <4> QED
        BY <4>1, FS_Interval
    <3>2. \A z \in DOMAIN s : s[z] = Part(t)[m[z]]
      <4>1. \A z \in 0 .. 2 : m[z] \in Fiber(t)
        <5> HIDE DEF m, Fiber
        <5> QED
          BY <2>2 DEF Bijection, Injection
      <4> QED
        BY <4>1
    <3> HIDE DEF s, Part, m, Fiber
    <3> QED
      BY <2>2, <3>1, <3>2, XorAllMoved
  <2>4. XorAll(s) = Xor(Xor(f[At(t, 0)], f[At(t, 1)]), f[At(t, 2)])
    <3>1. s[0] = f[At(t, 0)] /\ s[1] = f[At(t, 1)] /\ s[2] = f[At(t, 2)] /\ DOMAIN s = 0 .. 2
      OBVIOUS
    <3> HIDE DEF s
    <3> QED
      BY <3>1, XorAllThree
  <2>5. ASSUME NEW z \in 0 .. 2
        PROVE  AgreeBut(J, i, At(t, z)) <=> AgreeBut(K, i, t)
    BY <1>6, <1>1 DEF AgreeBut, Position
  <2>6. CASE ~AgreeBut(K, i, t)
    <3>1. f[At(t, 0)] = Zero /\ f[At(t, 1)] = Zero /\ f[At(t, 2)] = Zero
      BY <2>1, <2>5, <2>6 DEF TermOver
    <3>2. Xor(Xor(Zero, Zero), Zero) = Zero
      BY DEF Xor, Zero
    <3>3. g[t] = Zero
      BY <2>6 DEF TermOver
    <3> QED
      BY <2>3, <2>4, <3>1, <3>2, <3>3
  <2>7. CASE AgreeBut(K, i, t)
    <3>1. ASSUME NEW z \in 0 .. 2
          PROVE  f[At(t, z)] = OmegaPower((E + ((i[k] * z) % 3)) % 3, c[At(t, z)])
      <4>1. \A j \in K : At(t, z)[j] = t[j]
        BY DEF Position
      <4>2. ExponentOver(J, i, At(t, z)) = (E + ((i[k] * At(t, z)[k]) % 3)) % 3
        <5> DEFINE e == At(t, z)
        <5>1. e \in Position
          BY <2>1
        <5>2. \A j \in K : e[j] = t[j]
          BY <4>1
        <5> HIDE DEF e, At
        <5>3. ExponentOver(J, i, e) = (E + ((i[k] * e[k]) % 3)) % 3
          BY <5>1, <5>2, ExponentAdd
        <5> QED
          BY <5>3, Zenon DEF e
      <4> QED
        BY <2>1, <2>5, <2>7, <4>2 DEF TermOver
    <3>2. L \in Block /\ M \in Block /\ R \in Block /\ E \in 0 .. 2
      BY <2>1, ExponentType DEF Coeffs
    <3>3. g[t] = OmegaPower(E, Butterfly(L, M, R)[i[k]])
      BY <1>6, <2>7 DEF TermOver, Pass
    <3>4. Butterfly(L, M, R)[i[k]]
            = Xor(Xor(L, OmegaPower(i[k], M)), OmegaPower((2 * i[k]) % 3, R))
      BY <1>1, <3>2, ButterflyEvaluates
    <3> DEFINE u == i[k]
               w == (2 * u) % 3
    <3>5. (i[k] * 0) % 3 = 0 /\ (i[k] * 1) % 3 = u /\ (i[k] * 2) % 3 = w /\ w \in 0 .. 2
          /\ u \in 0 .. 2
      BY <1>1, DigitProducts
    <3>6. /\ f[At(t, 0)] = OmegaPower((E + 0) % 3, L)
          /\ f[At(t, 1)] = OmegaPower((E + u) % 3, M)
          /\ f[At(t, 2)] = OmegaPower((E + w) % 3, R)
      <4> HIDE DEF f, At, E, u, w
      <4> QED
        BY <3>1, <3>5 DEF At
    <3>7. Butterfly(L, M, R)[u] = Xor(Xor(L, OmegaPower(u, M)), OmegaPower(w, R))
      BY <3>4
    <3>8. g[t] = OmegaPower(E, Butterfly(L, M, R)[u])
      BY <3>3
    <3> HIDE DEF f, g, At, E, L, M, R, u, w
    <3>9. OmegaPower((E + 0) % 3, L) = OmegaPower(E, L)
      <4>1. (E + 0) % 3 = E
        BY <3>2
      <4> QED
        BY <4>1
    <3>10. /\ OmegaPower((E + u) % 3, M) = OmegaPower(E, OmegaPower(u, M))
           /\ OmegaPower((E + w) % 3, R) = OmegaPower(E, OmegaPower(w, R))
      BY <3>2, <3>5, OmegaPowerAdd
    <3>11. OmegaPower(E, Xor(Xor(L, OmegaPower(u, M)), OmegaPower(w, R)))
             = Xor(Xor(OmegaPower(E, L), OmegaPower(E, OmegaPower(u, M))),
                   OmegaPower(E, OmegaPower(w, R)))
      <4>1. OmegaPower(u, M) \in Block /\ OmegaPower(w, R) \in Block
        BY <3>2, OmegaPowerXor
      <4>2. Xor(L, OmegaPower(u, M)) \in Block
        BY <3>2, <4>1, BlockXor
      <4> QED
        BY <3>2, <4>1, <4>2, OmegaPowerXor
    <3> QED
      BY <2>3, <2>4, <3>6, <3>7, <3>8, <3>9, <3>10, <3>11
  <2> QED
    BY <2>6, <2>7
<1>7. \A t \in Position : XorAll(Part(t)) = g[t]
  BY <1>5, <1>6
<1>8. [t \in Position |-> XorAll(Part(t))] = g
  <2>1. [t \in Position |-> XorAll(Part(t))] = [t \in Position |-> g[t]]
    BY <1>7
  <2>2. g = [t \in Position |-> g[t]]
    BY DEF TermOver
  <2> QED
    BY <2>1, <2>2
<1> QED
  BY <1>4, <1>8 DEF ValueOver

\* The inverse of a pass has values of the right type, and the pass takes it back.
LEMMA InversePass ==
    ASSUME NEW k \in Vars, NEW c \in Coeffs
    PROVE  inv_Pass(k, c) \in Coeffs /\ Pass(k, inv_Pass(k, c)) = c
<1> DEFINE v == inv_Pass(k, c)
           At(i, z) == [i EXCEPT ![k] = z]
           L(i) == c[At(i, 0)]
           M(i) == c[At(i, 1)]
           R(i) == c[At(i, 2)]
           inv(i) == inv_Butterfly(L(i), M(i), R(i))
<1>1. ASSUME NEW i \in Position
      PROVE  /\ i[k] \in 0 .. 2
             /\ \A z \in 0 .. 2 : /\ At(i, z) \in Position
                                  /\ At(i, z)[k] = z
                                  /\ \A y \in 0 .. 2 : At(At(i, z), y) = At(i, y)
             /\ At(i, i[k]) = i
  BY DEF Position
<1>2. ASSUME NEW i \in Position
      PROVE  /\ L(i) \in Block /\ M(i) \in Block /\ R(i) \in Block
             /\ \A z \in 0 .. 2 : inv(i)[z] \in Block
             /\ Butterfly(inv(i)[0], inv(i)[1], inv(i)[2])[0] = L(i)
             /\ Butterfly(inv(i)[0], inv(i)[1], inv(i)[2])[1] = M(i)
             /\ Butterfly(inv(i)[0], inv(i)[1], inv(i)[2])[2] = R(i)
  <2>1. L(i) \in Block /\ M(i) \in Block /\ R(i) \in Block
    <3> HIDE DEF At
    <3>1. At(i, 0) \in Position /\ At(i, 1) \in Position /\ At(i, 2) \in Position
      BY <1>1
    <3> QED
      BY <3>1 DEF Coeffs
  <2> HIDE DEF L, M, R
  <2> QED
    BY <2>1, ButterflyInverse
<1>3. \A i \in Position : v[i] = inv(i)[i[k]]
  BY DEF inv_Pass
<1>4. v \in Coeffs
  <2>1. v = [i \in Position |-> inv(i)[i[k]]]
    BY DEF inv_Pass
  <2> HIDE DEF v, inv
  <2> QED
    BY <1>1, <1>2, <2>1 DEF Coeffs
<1>5. ASSUME NEW i \in Position PROVE Pass(k, v)[i] = c[i]
  <2>1. ASSUME NEW z \in 0 .. 2 PROVE v[At(i, z)] = inv(i)[z]
    <3>1. At(i, z) \in Position /\ At(i, z)[k] = z
      BY <1>1
    <3>2. At(At(i, z), 0) = At(i, 0) /\ At(At(i, z), 1) = At(i, 1) /\ At(At(i, z), 2) = At(i, 2)
      <4> HIDE DEF At
      <4> QED
        BY <1>1
    <3>3. inv(At(i, z)) = inv(i)
      <4> HIDE DEF At
      <4> QED
        BY <3>2
    <3>4. v[At(i, z)] = inv(At(i, z))[At(i, z)[k]]
      <4> HIDE DEF At, inv, v
      <4> QED
        BY <1>3, <3>1
    <3> HIDE DEF At, inv, v
    <3> QED
      BY <3>1, <3>3, <3>4
  <2>2. v[At(i, 0)] = inv(i)[0] /\ v[At(i, 1)] = inv(i)[1] /\ v[At(i, 2)] = inv(i)[2]
    <3> HIDE DEF At, inv, v
    <3> QED
      BY <2>1
  <2>3. Pass(k, v)[i] = Butterfly(v[At(i, 0)], v[At(i, 1)], v[At(i, 2)])[i[k]]
    <3> HIDE DEF v
    <3> QED
      BY DEF Pass
  <2>4. Butterfly(inv(i)[0], inv(i)[1], inv(i)[2])[i[k]] = c[At(i, i[k])]
    <3> HIDE DEF inv, At
    <3>1. i[k] = 0 \/ i[k] = 1 \/ i[k] = 2
      BY <1>1
    <3>2. L(i) = c[At(i, 0)] /\ M(i) = c[At(i, 1)] /\ R(i) = c[At(i, 2)]
      OBVIOUS
    <3> HIDE DEF L, M, R
    <3> QED
      BY <1>2, <3>1, <3>2
  <2> HIDE DEF inv, v, At
  <2> QED
    BY <1>1, <2>2, <2>3, <2>4
<1>6. Pass(k, v) = [i \in Position |-> Pass(k, v)[i]] /\ c = [i \in Position |-> c[i]]
  <2> HIDE DEF v
  <2> QED
    BY DEF Pass, Coeffs
<1>7. Pass(k, v) = c
  <2> HIDE DEF v
  <2> QED
    BY <1>5, <1>6
<1> QED
  BY <1>4, <1>7

-----------------------------------------------------------------------------
(* The transform and its inverse, pass by pass                             *)

\* x is what n passes of the transform of c have left: evaluating the variables to come
\* gives the values of c.
Transformed(n, x, c) ==
    /\ x \in Coeffs
    /\ \A i \in Position : ValueOver(n + 1 .. NumVars, x, i) = Evaluate(c, i)

\* x is what n passes of the inverse transform of v have left: evaluating the variables
\* of these passes gives v.
Inverted(n, x, v) ==
    /\ x \in Coeffs
    /\ \A i \in Position : ValueOver(1 .. n, x, i) = v[i]

\* The next pass is for a variable, which belongs to those to come before it and to those
\* of the passes that are done after it.
LEMMA NextVariable ==
    ASSUME NEW n \in 0 .. NumVars, n # NumVars
    PROVE  /\ n + 1 \in Vars /\ n + 1 \in 0 .. NumVars
           /\ n + 1 + 1 .. NumVars \in SUBSET Vars /\ n + 1 \notin n + 1 + 1 .. NumVars
           /\ n + 1 .. NumVars = (n + 1 + 1 .. NumVars) \cup {n + 1}
           /\ 1 .. n \in SUBSET Vars /\ n + 1 \notin 1 .. n
           /\ 1 .. n + 1 = (1 .. n) \cup {n + 1}
BY NumVarsAssumption DEF Vars

\* No pass leaves the coefficients.
LEMMA TransformedStart ==
    ASSUME NEW c \in Coeffs
    PROVE  Transformed(0, c, c)
<1>1. 0 + 1 .. NumVars = Vars
  BY NumVarsAssumption DEF Vars
<1> QED
  BY <1>1, ValueAll DEF Transformed

\* Another pass.
LEMMA TransformedPass ==
    ASSUME NEW n \in 0 .. NumVars, n # NumVars, NEW x, NEW c, Transformed(n, x, c)
    PROVE  Transformed(n + 1, Pass(n + 1, x), c)
<1> DEFINE K == n + 1 + 1 .. NumVars
           k == n + 1
<1>1. k \in Vars \ K /\ K \in SUBSET Vars /\ n + 1 .. NumVars = K \cup {k}
  BY NextVariable
<1> HIDE DEF k, K
<1>2. \A i \in Position : ValueOver(K \cup {k}, x, i) = Evaluate(c, i)
  BY <1>1 DEF Transformed
<1>3. \A i \in Position : ValueOver(K, Pass(k, x), i) = ValueOver(K \cup {k}, x, i)
  BY <1>1, ValuePass DEF Transformed
<1>4. Pass(k, x) \in Coeffs
  BY <1>1, PassType DEF Transformed
<1> QED
  BY <1>2, <1>3, <1>4 DEF Transformed, k, K

\* All passes leave the values.
LEMMA TransformedEnd ==
    ASSUME NEW x, NEW c, Transformed(NumVars, x, c)
    PROVE  \A i \in Position : x[i] = Evaluate(c, i)
<1>1. NumVars + 1 .. NumVars = {}
  BY NumVarsAssumption
<1> QED
  BY <1>1, ValueNone DEF Transformed

\* No pass of the inverse leaves the values.
LEMMA InvertedStart ==
    ASSUME NEW v \in Coeffs
    PROVE  Inverted(0, v, v)
<1>1. 1 .. 0 = {}
  OBVIOUS
<1> QED
  BY <1>1, ValueNone DEF Inverted

\* Another pass of the inverse.
LEMMA InvertedPass ==
    ASSUME NEW n \in 0 .. NumVars, n # NumVars, NEW x, NEW v, Inverted(n, x, v)
    PROVE  Inverted(n + 1, inv_Pass(n + 1, x), v)
<1> DEFINE K == 1 .. n
           k == n + 1
           y == inv_Pass(k, x)
<1>1. k \in Vars \ K /\ K \in SUBSET Vars /\ 1 .. n + 1 = K \cup {k} /\ k \in Vars
  BY NextVariable
<1> HIDE DEF k, K
<1>2. y \in Coeffs /\ Pass(k, y) = x
  BY <1>1, InversePass DEF Inverted
<1> HIDE DEF y
<1>3. \A i \in Position : ValueOver(K, x, i) = ValueOver(K \cup {k}, y, i)
  BY <1>1, <1>2, ValuePass
<1>4. \A i \in Position : ValueOver(K, x, i) = v[i]
  BY DEF Inverted, K
<1>5. \A i \in Position : ValueOver(1 .. n + 1, y, i) = v[i]
  BY <1>1, <1>3, <1>4
<1> QED
  BY <1>2, <1>5 DEF Inverted, k, y

\* All passes of the inverse leave the coefficients of the polynomial with these values.
LEMMA InvertedEnd ==
    ASSUME NEW x, NEW v, Inverted(NumVars, x, v)
    PROVE  \A i \in Position : Evaluate(x, i) = v[i]
BY ValueAll DEF Inverted, Vars

\* A polynomial's values are blocks.
LEMMA EvaluateType ==
    ASSUME NEW c \in Coeffs, NEW i
    PROVE  Evaluate(c, i) \in Block
BY ValueAll, ValueType
=============================================================================
