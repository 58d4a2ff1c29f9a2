----------------------------- MODULE QaCodeProofs -----------------------------
(***************************************************************************)
(* The halves of a code word of QA_encode_test_PCS belong together, for     *)
(* every size of a block, number of variables, message and polynomial.      *)
(***************************************************************************)
EXTENDS QaCode, FoleageFftProofs

-----------------------------------------------------------------------------
(* Multiplication by alpha                                                 *)

\* alpha is the square of omega.
LEMMA AlphaOfBlock ==
    ASSUME NEW x \in Block
    PROVE  TimesAlpha(x) \in Block /\ TimesAlpha(x) = TimesOmega(TimesOmega(x))
<1> DEFINE p == odd_bit_extraction(x)
           q == even_bit_extraction(x)
           w == TimesOmega(x)
           v == TimesOmega(w)
<1>1. p \in HalfPoly /\ q \in HalfPoly /\ Xor(p, q) \in HalfPoly
  <2>1. p \in HalfPoly /\ q \in HalfPoly
    BY ExtractionType
  <2> QED
    BY <2>1, XorType DEF HalfPoly
<1>2. /\ TimesAlpha(x) \in Block
      /\ odd_bit_extraction(TimesAlpha(x)) = q
      /\ even_bit_extraction(TimesAlpha(x)) = Xor(p, q)
  BY <1>1, BlockOfParts DEF TimesAlpha
<1>3. w \in Block /\ odd_bit_extraction(w) = Xor(p, q) /\ even_bit_extraction(w) = p
  BY TimesOmegaParts
<1> HIDE DEF w
<1>4. v \in Block /\ odd_bit_extraction(v) = Xor(Xor(p, q), p) /\ even_bit_extraction(v) = Xor(p, q)
  BY <1>3, TimesOmegaParts
<1>5. Xor(Xor(p, q), p) = q
  BY DEF Xor
<1> HIDE DEF v
<1>6. TimesAlpha(x) = v
  BY <1>2, <1>4, <1>5, BlockEqual
<1> QED
  BY <1>2, <1>6 DEF v, w

\* The multiplication is linear, and the square of alpha is alpha + 1.
LEMMA AlphaLaws ==
    ASSUME NEW x \in Block, NEW y \in Block
    PROVE  /\ TimesAlpha(Xor(x, y)) = Xor(TimesAlpha(x), TimesAlpha(y))
           /\ TimesAlpha(TimesAlpha(x)) = Xor(TimesAlpha(x), x)
<1>1. TimesOmega(x) \in Block /\ TimesOmega(y) \in Block /\ Xor(x, y) \in Block
  BY TimesOmegaParts, BlockXor
<1>2. TimesOmega(Xor(x, y)) = Xor(TimesOmega(x), TimesOmega(y))
  BY TimesOmegaXor
<1>3. TimesOmega(Xor(TimesOmega(x), TimesOmega(y)))
        = Xor(TimesOmega(TimesOmega(x)), TimesOmega(TimesOmega(y)))
  BY <1>1, TimesOmegaXor
<1>4. TimesAlpha(Xor(x, y)) = Xor(TimesAlpha(x), TimesAlpha(y))
  BY <1>1, <1>2, <1>3, AlphaOfBlock
<1>5. TimesAlpha(x) \in Block /\ TimesAlpha(x) = TimesOmega(TimesOmega(x))
  BY AlphaOfBlock
<1>6. TimesAlpha(TimesAlpha(x)) = TimesOmega(TimesOmega(TimesOmega(TimesOmega(x))))
  BY <1>5, AlphaOfBlock
<1>7. TimesAlpha(TimesAlpha(x)) = TimesOmega(x)
  BY <1>6, OmegaCubed
<1>8. TimesAlpha(x) = Xor(TimesOmega(x), x)
  BY <1>5, OmegaCubed
<1>9. \A u : Xor(Xor(u, x), x) = u
  BY DEF Xor
<1> QED
  BY <1>4, <1>7, <1>8, <1>9

\* A product is multiplied by alpha by multiplying one of its factors.
LEMMA AlphaOfProduct ==
    ASSUME NEW x \in Block, NEW y \in Block
    PROVE  /\ F4_mul(TimesAlpha(x), y) = TimesAlpha(F4_mul(x, y))
           /\ F4_mul(x, TimesAlpha(y)) = TimesAlpha(F4_mul(x, y))
<1>1. TimesOmega(x) \in Block /\ TimesOmega(y) \in Block /\ F4_mul(x, y) \in Block
  BY TimesOmegaParts, F4_mulXor
<1>2. F4_mul(TimesOmega(TimesOmega(x)), y) = TimesOmega(TimesOmega(F4_mul(x, y)))
  BY <1>1, F4_mulOmega
<1>3. F4_mul(x, TimesOmega(TimesOmega(y))) = TimesOmega(TimesOmega(F4_mul(x, y)))
  BY <1>1, F4_mulRight
<1> QED
  BY <1>1, <1>2, <1>3, AlphaOfBlock

-----------------------------------------------------------------------------
(* What a power of x is reduced to                                         *)

\* The powers below x^Degree are blocks as they are, and all are reduced to blocks.
LEMMA PowerType ==
    /\ \A n \in 0 .. 2 * Degree - 2 : Power(n) \in Block
    /\ \A n \in 0 .. Degree - 1 : Power(n) = Monomial(n)
<1>0. Degree \in Nat
  BY DegreeAssumption
<1>1. ASSUME NEW n \in 0 .. Degree - 1 PROVE Power(n) = Monomial(n) /\ Power(n) \in Block
  <2>1. {n} \in HalfPoly /\ {} \in HalfPoly
    BY DEF HalfPoly
  <2> QED
    BY <2>1, ReduceLow, MonomialParts DEF Power
<1>2. ASSUME NEW n \in 0 .. 2 * Degree - 2, n >= Degree PROVE Power(n) \in Block
  <2> DEFINE f == n - Degree
  <2>1. f \in 0 .. Degree - 2 /\ Degree + f = n
    BY <1>0, <1>2
  <2> HIDE DEF f
  <2>2. \E o, e \in HalfPoly : Power(Degree + f) = interleave(o, e)
    <3> DEFINE g == f + 3 - Degree
               again == g \in {0, 1}
               o == IF again THEN Xor({f}, {g + 1, g + 3}) ELSE {f}
               e == IF again THEN Xor({f + 1}, {g, g + 1, g + 3}) ELSE {f + 1, f + 3}
    <3>1. o \in HalfPoly /\ e \in HalfPoly /\ Power(Degree + f) = interleave(o, e)
      BY <2>1, HighPower
    <3> HIDE DEF o, e
    <3> QED
      BY <3>1
  <2> QED
    BY <2>1, <2>2, BlockOfParts
<1>3. \A n \in 0 .. 2 * Degree - 2 : n >= Degree \/ n \in 0 .. Degree - 1
  BY <1>0
<1> QED
  BY <1>1, <1>2, <1>3

\* What F4_reduce makes of x^Degree.
LEMMA LowestPower == Power(Degree) = Xor(Power(0), TimesAlpha(Xor(Power(1), Power(3))))
<1>0. /\ Degree \in Nat /\ Degree >= 5
      /\ 0 \in 0 .. Degree - 1 /\ 1 \in 0 .. Degree - 1 /\ 3 \in 0 .. Degree - 1
  BY DegreeAssumption
<1>1. Power(Degree) = interleave({0}, {1, 3})
  <2>1. 0 \in 0 .. Degree - 2 /\ Degree + 0 = Degree /\ 0 + 3 - Degree \notin {0, 1}
    BY <1>0
  <2>2. 0 + 1 = 1 /\ 0 + 3 = 3
    OBVIOUS
  <2>3. Power(Degree + 0) = interleave({0}, {0 + 1, 0 + 3})
    BY <2>1, HighPower
  <2> QED
    BY <2>1, <2>2, <2>3
<1>2. /\ Power(0) = {<<0, "l">>} /\ Power(1) = {<<1, "l">>} /\ Power(3) = {<<3, "l">>}
  BY <1>0, PowerType DEF Monomial
<1>3. Xor(Power(1), Power(3)) = interleave({1, 3}, {})
  BY <1>2 DEF Xor, interleave
<1>4. {1, 3} \in HalfPoly /\ {} \in HalfPoly
  BY <1>0 DEF HalfPoly
<1>5. TimesAlpha(interleave({1, 3}, {})) = interleave({}, {1, 3})
  <2>1. /\ odd_bit_extraction(interleave({1, 3}, {})) = {1, 3}
        /\ even_bit_extraction(interleave({1, 3}, {})) = {}
    BY <1>4, BlockOfParts
  <2>2. Xor({1, 3}, {}) = {1, 3}
    BY DEF Xor
  <2> QED
    BY <2>1, <2>2 DEF TimesAlpha
<1>6. Xor({<<0, "l">>}, interleave({}, {1, 3})) = interleave({0}, {1, 3})
  BY DEF Xor, interleave
<1> QED
  BY <1>1, <1>2, <1>3, <1>5, <1>6

\* The powers from x^Degree on are reduced like it.
LEMMA PowerRecurs ==
    \A f \in 0 .. Degree - 2 :
       Power(Degree + f) = Xor(Power(f), TimesAlpha(Xor(Power(f + 1), Power(f + 3))))
<1> DEFINE S == {f \in Nat : Power(Degree + f)
                               = Xor(Power(f), TimesAlpha(Xor(Power(f + 1), Power(f + 3))))}
<1>0. Degree \in Nat /\ Degree >= 5 /\ Degree - 2 \in Nat /\ 1 \in 0 .. Degree - 1
  BY DegreeAssumption
<1>1. 0 \in S
  <2>1. Degree + 0 = Degree /\ 0 + 1 = 1 /\ 0 + 3 = 3
    BY <1>0
  <2> QED
    BY <2>1, LowestPower
<1>2. ASSUME NEW f \in 0 .. Degree - 2 - 1, f \in S PROVE f + 1 \in S
  <2>1. /\ Degree + f \in 0 .. 2 * Degree - 3 /\ f \in 0 .. 2 * Degree - 3
        /\ f + 1 \in 0 .. 2 * Degree - 3 /\ f + 3 \in 0 .. 2 * Degree - 3
        /\ \A n \in 0 .. 2 * Degree - 3 : n \in 0 .. 2 * Degree - 2
        /\ Degree + f + 1 = Degree + (f + 1) /\ f + 3 + 1 = f + 1 + 3
    BY <1>0
  <2> DEFINE m == Monomial(1)
             u == Power(f)
             v == Power(f + 1)
             w == Power(f + 3)
  <2>2. m \in Block /\ u \in Block /\ v \in Block /\ w \in Block
    BY <1>0, <2>1, MonomialParts, PowerType
  <2>3. /\ F4_mul(m, Power(Degree + f)) = Power(Degree + (f + 1))
        /\ F4_mul(m, u) = Power(f + 1)
        /\ F4_mul(m, v) = Power(f + 1 + 1)
        /\ F4_mul(m, w) = Power(f + 1 + 3)
    BY <2>1, NextPower
  <2>4. Power(Degree + f) = Xor(u, TimesAlpha(Xor(v, w)))
    BY <1>2
  <2> HIDE DEF m, u, v, w
  <2>5. Xor(v, w) \in Block /\ TimesAlpha(Xor(v, w)) \in Block
    BY <2>2, BlockXor, AlphaOfBlock
  <2>6. F4_mul(m, Xor(u, TimesAlpha(Xor(v, w))))
          = Xor(F4_mul(m, u), F4_mul(m, TimesAlpha(Xor(v, w))))
    BY <2>2, <2>5, F4_mulRight
  <2>7. F4_mul(m, TimesAlpha(Xor(v, w))) = TimesAlpha(F4_mul(m, Xor(v, w)))
    BY <2>2, <2>5, AlphaOfProduct
  <2>8. F4_mul(m, Xor(v, w)) = Xor(F4_mul(m, v), F4_mul(m, w))
    BY <2>2, F4_mulRight
  <2>9. Power(Degree + (f + 1)) = Xor(Power(f + 1), TimesAlpha(Xor(Power(f + 1 + 1), Power(f + 1 + 3))))
    BY <2>3, <2>4, <2>6, <2>7, <2>8
  <2> QED
    BY <2>1, <2>9
<1>3. \A f \in 0 .. Degree - 2 : f \in S
  <2> HIDE DEF S
  <2> QED
    BY <1>0, <1>1, <1>2, UpTo
<1> QED
  BY <1>3

-----------------------------------------------------------------------------
(* What a product that is not reduced stands for                           *)

\* Sets of bits with exponents up to m; products of blocks are of the widest kind.
UpToExponent(m) == SUBSET ((0 .. m) \X Bit)
Wide == UpToExponent(2 * Degree - 2)

\* The block that a bit, and a set of bits, is reduced to.
BitValue(b) == IF b[2] = "l" THEN Power(b[1]) ELSE TimesAlpha(Power(b[1]))
ValueOf(p) == XorAll([b \in p |-> BitValue(b)])

\* The sets are finite and closed under sums.
LEMMA WideSets ==
    /\ Zero \in Wide
    /\ \A p \in Wide : IsFiniteSet(p) /\ \A b \in p : {b} \in Wide
    /\ \A p, q \in Wide : Xor(p, q) \in Wide
    /\ \A p \in Wide : \A b \in p : b \in (0 .. 2 * Degree - 2) \X Bit
<1>1. IsFiniteSet(0 .. 2 * Degree - 2)
  <2>1. 0 \in Int /\ 2 * Degree - 2 \in Int
    BY DegreeAssumption
  <2> QED
    BY <2>1, FS_Interval
<1>2. IsFiniteSet(Bit)
  <2>1. IsFiniteSet({"l"}) /\ IsFiniteSet({"h"}) /\ Bit = {"l"} \cup {"h"}
    BY FS_Singleton DEF Bit
  <2> QED
    BY <2>1, FS_Union
<1> DEFINE U == (0 .. 2 * Degree - 2) \X Bit
<1>3. IsFiniteSet(U)
  BY <1>1, <1>2, FS_Product
<1>4. Wide = SUBSET U
  BY DEF Wide, UpToExponent
<1> HIDE DEF U
<1>5. \A p \in Wide : IsFiniteSet(p)
  BY <1>3, <1>4, FS_Subset
<1> QED
  BY <1>4, <1>5 DEF Zero, Xor, U

\* Two of them are equal if they have the same bits.
LEMMA WideEqual ==
    ASSUME NEW s \in Wide, NEW t \in Wide,
           \A e : (<<e, "l">> \in s <=> <<e, "l">> \in t) /\ (<<e, "h">> \in s <=> <<e, "h">> \in t)
    PROVE  s = t
<1>1. ASSUME NEW b \in s \cup t PROVE b \in s /\ b \in t
  <2>1. b = <<b[1], "l">> \/ b = <<b[1], "h">>
    BY DEF Wide, UpToExponent, Bit
  <2> DEFINE e == b[1]
  <2> HIDE DEF e
  <2>2. b = <<e, "l">> \/ b = <<e, "h">>
    BY <2>1 DEF e
  <2> QED
    BY <2>2
<1> QED
  BY <1>1

\* The value of a bit is a block, that of a bit of a block the bit itself.
LEMMA BitValueType ==
    /\ \A b \in (0 .. 2 * Degree - 2) \X Bit : BitValue(b) \in Block
    /\ \A b \in (0 .. Degree - 1) \X Bit : BitValue(b) = {b}
<1>1. ASSUME NEW b \in (0 .. 2 * Degree - 2) \X Bit PROVE BitValue(b) \in Block
  BY PowerType, AlphaOfBlock DEF BitValue
<1>2. ASSUME NEW b \in (0 .. Degree - 1) \X Bit PROVE BitValue(b) = {b}
  <2>1. b[1] \in 0 .. Degree - 1 /\ (b = <<b[1], "l">> \/ b = <<b[1], "h">>)
    BY DEF Bit
  <2> DEFINE n == b[1]
  <2>2. Power(n) = {<<n, "l">>}
    BY <2>1, PowerType DEF Monomial
  <2>3. TimesAlpha(Power(n)) = {<<n, "h">>}
    <3>1. /\ Power(n) = Monomial(n) /\ odd_bit_extraction(Monomial(n)) = {n}
          /\ even_bit_extraction(Monomial(n)) = {}
      BY <2>1, PowerType, MonomialParts
    <3>2. TimesAlpha(Power(n)) = interleave({}, Xor({n}, {}))
      BY <3>1 DEF TimesAlpha
    <3>3. Xor({n}, {}) = {n} /\ interleave({}, {n}) = {<<n, "h">>}
      BY DEF Xor, interleave
    <3> QED
      BY <3>2, <3>3
  <2> HIDE DEF n
  <2>4. BitValue(<<n, "l">>) = {<<n, "l">>} /\ BitValue(<<n, "h">>) = {<<n, "h">>}
    BY <2>2, <2>3 DEF BitValue
  <2>5. b = <<n, "l">> \/ b = <<n, "h">>
    BY <2>1 DEF n
  <2> QED
    BY <2>4, <2>5
<1> QED
  BY <1>1, <1>2

\* The value of a set of bits is a block; those of small sets.
LEMMA ValueOfType ==
    /\ \A p \in Wide : ValueOf(p) \in Block
    /\ \A b : ValueOf({b}) = BitValue(b)
    /\ \A x \in Block : ValueOf(x) = x
<1>1. ASSUME NEW p \in Wide PROVE ValueOf(p) \in Block
  <2> DEFINE f == [b \in p |-> BitValue(b)]
  <2>1. \A b \in DOMAIN f : f[b] \in Block
    BY WideSets, BitValueType
  <2> HIDE DEF f
  <2>2. XorAll(f) \in Block
    BY <2>1, XorAllType
  <2> QED
    BY <2>2 DEF ValueOf, f
<1>2. ASSUME NEW b PROVE ValueOf({b}) = BitValue(b)
  <2> DEFINE f == [c \in {b} |-> BitValue(c)]
  <2>1. DOMAIN f = {b} /\ f[b] = BitValue(b)
    OBVIOUS
  <2> HIDE DEF f
  <2>2. XorAll(f) = BitValue(b)
    BY <2>1, XorAllSmall
  <2> QED
    BY <2>2 DEF ValueOf, f
<1>3. ASSUME NEW x \in Block PROVE ValueOf(x) = x
  <2>1. \A b \in x : BitValue(b) = {b}
    BY BitValueType DEF Block
  <2>2. [b \in x |-> BitValue(b)] = [b \in x |-> {b}]
    BY <2>1
  <2>3. XorAll([b \in x |-> {b}]) = x
    BY BlockFinite, XorAllBits
  <2> QED
    BY <2>2, <2>3 DEF ValueOf
<1> QED
  BY <1>1, <1>2, <1>3

\* It distributes over sums.
LEMMA ValueOfXor ==
    ASSUME NEW p \in Wide, NEW q \in Wide
    PROVE  ValueOf(Xor(p, q)) = Xor(ValueOf(p), ValueOf(q))
<1> DEFINE S == p \cup q
           Part(r) == [b \in S |-> IF b \in r THEN BitValue(b) ELSE Zero]
           f == Part(p)
           g == Part(q)
<1>1. IsFiniteSet(S)
  BY WideSets, FS_Union
<1>2. ASSUME NEW r \in SUBSET S PROVE ValueOf(r) = XorAll(Part(r))
  <2> DEFINE h == Part(r)
  <2>1. DOMAIN h = S /\ \A b \in S \ r : h[b] = Zero
    OBVIOUS
  <2>2. [b \in r |-> h[b]] = [b \in r |-> BitValue(b)]
    OBVIOUS
  <2> HIDE DEF h
  <2>3. XorAll([b \in r |-> h[b]]) = XorAll(h)
    BY <1>1, <2>1, XorAllPart
  <2> QED
    BY <2>2, <2>3 DEF ValueOf, h
<1>3. p \in SUBSET S /\ q \in SUBSET S /\ Xor(p, q) \in SUBSET S
  BY DEF Xor
<1>4. Part(Xor(p, q)) = [b \in S |-> Xor(f[b], g[b])]
  <2>1. \A u : Xor(u, Zero) = u /\ Xor(Zero, u) = u /\ Xor(u, u) = Zero
    BY DEF Xor, Zero
  <2>2. \A b \in S : b \in Xor(p, q) <=> ~(b \in p <=> b \in q)
    BY DEF Xor
  <2>3. ASSUME NEW b \in S
        PROVE  (IF b \in Xor(p, q) THEN BitValue(b) ELSE Zero)
                 = Xor(IF b \in p THEN BitValue(b) ELSE Zero, IF b \in q THEN BitValue(b) ELSE Zero)
    BY <2>1, <2>2
  <2> QED
    BY <2>3
<1>5. DOMAIN f = S /\ DOMAIN g = S
  OBVIOUS
<1>6. ValueOf(p) = XorAll(f) /\ ValueOf(q) = XorAll(g)
  BY <1>2, <1>3
<1>7. ValueOf(Xor(p, q)) = XorAll(Part(Xor(p, q)))
  BY <1>2, <1>3
<1> HIDE DEF f, g, Part
<1>8. XorAll([b \in DOMAIN f |-> Xor(f[b], g[b])]) = Xor(XorAll(f), XorAll(g))
  BY <1>1, <1>5, XorAllXor
<1> QED
  BY <1>4, <1>5, <1>6, <1>7, <1>8

\* alpha times a set of bits, by the bits.
LEMMA AlphaOfWide ==
    ASSUME NEW p \in Wide
    PROVE  /\ TimesAlpha(p) \in Wide
           /\ \A e : <<e, "l">> \in TimesAlpha(p) <=> <<e, "h">> \in p
           /\ \A e : <<e, "h">> \in TimesAlpha(p) <=> ~(<<e, "l">> \in p <=> <<e, "h">> \in p)
<1>1. \A b \in p : b[1] \in 0 .. 2 * Degree - 2 /\ b = <<b[1], b[2]>> /\ b[2] \in {"l", "h"}
  BY DEF Wide, UpToExponent, Bit
<1>2. /\ \A e : e \in odd_bit_extraction(p) <=> <<e, "l">> \in p
      /\ \A e : e \in even_bit_extraction(p) <=> <<e, "h">> \in p
  BY <1>1 DEF odd_bit_extraction, even_bit_extraction, Masked
<1> DEFINE o == odd_bit_extraction(p)
           h == even_bit_extraction(p)
<1>3. o \subseteq 0 .. 2 * Degree - 2 /\ h \subseteq 0 .. 2 * Degree - 2
  BY <1>1, <1>2
<1>4. TimesAlpha(p) = (h \X {"l"}) \cup (Xor(o, h) \X {"h"})
  BY DEF TimesAlpha, interleave
<1> HIDE DEF o, h
<1>5. \A e : /\ <<e, "l">> \in TimesAlpha(p) <=> e \in h
             /\ <<e, "h">> \in TimesAlpha(p) <=> e \in Xor(o, h)
  BY <1>4
<1>6. \A e : e \in Xor(o, h) <=> ~(e \in o <=> e \in h)
  BY DEF Xor
<1>7. TimesAlpha(p) \in Wide
  BY <1>3, <1>4, <1>6 DEF Wide, UpToExponent, Bit
<1> QED
  BY <1>2, <1>5, <1>6, <1>7 DEF o, h

\* A set of bits times alpha stands for the block times alpha.
LEMMA ValueOfAlpha ==
    ASSUME NEW p \in Wide
    PROVE  ValueOf(TimesAlpha(p)) = TimesAlpha(ValueOf(p))
<1> DEFINE A == [q \in Wide |-> TimesAlpha(q)]
           V == [q \in Wide |-> ValueOf(q)]
           B == [x \in Block |-> TimesAlpha(x)]
           X == [b \in p |-> {b}]
           Y == [b \in p |-> TimesAlpha({b})]
           Z == [b \in p |-> BitValue(b)]
<1>1. /\ IsFiniteSet(p) /\ Zero \in Wide /\ Zero \in Block /\ X \in [p -> Wide]
      /\ XorAll(X) = p
  BY WideSets, XorAllBits DEF Zero, Block
<1>2. Additive(Wide, A)
  <2> SUFFICES ASSUME NEW q \in Wide, NEW r \in Wide
               PROVE  TimesAlpha(Xor(q, r)) = Xor(TimesAlpha(q), TimesAlpha(r))
    BY WideSets DEF Additive
  <2>1. Xor(q, r) \in Wide
    BY WideSets
  <2> HIDE DEF A, V, B, X, Y, Z
  <2> DEFINE s == Xor(q, r)
             t == Xor(TimesAlpha(q), TimesAlpha(r))
  <2>2. \A b : b \in s <=> ~(b \in q <=> b \in r)
    BY DEF Xor
  <2>3. \A b : b \in t <=> ~(b \in TimesAlpha(q) <=> b \in TimesAlpha(r))
    BY DEF Xor
  <2> HIDE DEF s, t
  <2>4. ASSUME NEW e
        PROVE  /\ <<e, "l">> \in TimesAlpha(s) <=> <<e, "l">> \in t
               /\ <<e, "h">> \in TimesAlpha(s) <=> <<e, "h">> \in t
    <3> DEFINE l == <<e, "l">>
               h == <<e, "h">>
    <3>1. \A u \in Wide : /\ l \in TimesAlpha(u) <=> h \in u
                          /\ h \in TimesAlpha(u) <=> ~(l \in u <=> h \in u)
      BY AlphaOfWide
    <3> HIDE DEF l, h
    <3>2. s \in Wide
      BY <2>1 DEF s
    <3>3. (l \in TimesAlpha(s) <=> l \in t) /\ (h \in TimesAlpha(s) <=> h \in t)
      BY <2>2, <2>3, <3>1, <3>2
    <3> QED
      BY <3>3 DEF l, h
  <2>5. TimesAlpha(s) \in Wide /\ t \in Wide
    BY <2>1, AlphaOfWide, WideSets DEF s, t
  <2>6. TimesAlpha(s) = t
    BY <2>4, <2>5, WideEqual
  <2> QED
    BY <2>6 DEF s, t
<1>3. Additive(Wide, V) /\ Additive(Block, B)
  <2>1. Additive(Wide, V)
    BY WideSets, ValueOfXor DEF Additive
  <2>2. Additive(Block, B)
    BY BlockXor, AlphaLaws DEF Additive
  <2> QED
    BY <2>1, <2>2
<1>4. TimesAlpha(p) = XorAll(Y)
  <2>1. A[p] = TimesAlpha(p) /\ [b \in p |-> A[X[b]]] = Y
    BY <1>1
  <2> HIDE DEF A, X, Y
  <2>2. A[XorAll(X)] = XorAll([b \in p |-> A[X[b]]])
    BY <1>1, <1>2, XorAllMapped
  <2> QED
    BY <1>1, <2>1, <2>2
<1>5. Y \in [p -> Wide]
  <2>1. \A b \in p : TimesAlpha({b}) \in Wide
    BY WideSets, AlphaOfWide
  <2> QED
    BY <2>1
<1>6. ValueOf(TimesAlpha(p)) = XorAll([b \in p |-> ValueOf(TimesAlpha({b}))])
  <2>1. V[TimesAlpha(p)] = ValueOf(TimesAlpha(p))
    BY AlphaOfWide
  <2>2. [b \in p |-> V[Y[b]]] = [b \in p |-> ValueOf(TimesAlpha({b}))]
    BY <1>5
  <2> HIDE DEF V, Y
  <2>3. V[XorAll(Y)] = XorAll([b \in p |-> V[Y[b]]])
    BY <1>1, <1>3, <1>5, XorAllMapped
  <2> QED
    BY <1>4, <2>1, <2>2, <2>3
<1>7. ASSUME NEW b \in p PROVE ValueOf(TimesAlpha({b})) = TimesAlpha(BitValue(b))
  <2> DEFINE n == b[1]
             u == Power(n)
  <2>1. n \in 0 .. 2 * Degree - 2 /\ (b = <<n, "l">> \/ b = <<n, "h">>) /\ {b} \in Wide
    BY WideSets DEF Bit
  <2>2. u \in Block /\ BitValue(<<n, "l">>) = u /\ BitValue(<<n, "h">>) = TimesAlpha(u)
    BY <2>1, PowerType DEF BitValue
  <2> DEFINE l == <<n, "l">>
             h == <<n, "h">>
  <2>3. {l} \in Wide /\ {h} \in Wide /\ l # h
    BY <2>1 DEF Wide, UpToExponent, Bit
  <2>4. CASE b = l
    <3>1. TimesAlpha({b}) = {h}
      <4>1. \A c \in TimesAlpha({b}) : c = <<c[1], "l">> \/ c = <<c[1], "h">>
        BY <2>1, AlphaOfWide DEF Wide, UpToExponent, Bit
      <4>2. \A e : ~(<<e, "l">> \in TimesAlpha({b})) /\ (<<e, "h">> \in TimesAlpha({b}) <=> e = n)
        <5>1. \A e : (<<e, "l">> \in {b} <=> e = n) /\ ~(<<e, "h">> \in {b})
          BY <2>4
        <5> QED
          BY <2>1, <5>1, AlphaOfWide
      <4> QED
        BY <4>1, <4>2
    <3> QED
      BY <2>2, <2>4, <3>1, ValueOfType
  <2>5. CASE b = h
    <3>1. TimesAlpha({b}) = Xor({l}, {h})
      <4>1. \A c \in TimesAlpha({b}) : c = <<c[1], "l">> \/ c = <<c[1], "h">>
        BY <2>1, AlphaOfWide DEF Wide, UpToExponent, Bit
      <4>2. \A e : /\ <<e, "l">> \in TimesAlpha({b}) <=> e = n
                   /\ <<e, "h">> \in TimesAlpha({b}) <=> e = n
        <5>1. \A e : (<<e, "h">> \in {b} <=> e = n) /\ ~(<<e, "l">> \in {b})
          BY <2>5
        <5> QED
          BY <2>1, <5>1, AlphaOfWide
      <4>3. Xor({l}, {h}) = {l, h}
        BY <2>3 DEF Xor
      <4> QED
        BY <4>1, <4>2, <4>3
    <3>2. ValueOf(TimesAlpha({b})) = Xor(u, TimesAlpha(u))
      BY <2>2, <2>3, <3>1, ValueOfXor, ValueOfType
    <3>3. TimesAlpha(TimesAlpha(u)) = Xor(TimesAlpha(u), u)
      BY <2>2, AlphaLaws
    <3>4. \A y, z : Xor(y, z) = Xor(z, y)
      BY DEF Xor
    <3> QED
      BY <2>2, <2>5, <3>2, <3>3, <3>4
  <2> QED
    BY <2>1, <2>4, <2>5
<1>8. TimesAlpha(ValueOf(p)) = XorAll([b \in p |-> TimesAlpha(BitValue(b))])
  <2>1. Z \in [p -> Block] /\ XorAll(Z) = ValueOf(p) /\ B[ValueOf(p)] = TimesAlpha(ValueOf(p))
    <3>1. \A b \in p : BitValue(b) \in Block
      BY WideSets, BitValueType
    <3>2. B[ValueOf(p)] = TimesAlpha(ValueOf(p))
      BY ValueOfType
    <3> QED
      BY <3>1, <3>2 DEF ValueOf
  <2>2. [b \in p |-> B[Z[b]]] = [b \in p |-> TimesAlpha(BitValue(b))]
    BY WideSets, BitValueType
  <2> HIDE DEF B, Z
  <2>3. B[XorAll(Z)] = XorAll([b \in p |-> B[Z[b]]])
    BY <1>1, <1>3, <2>1, XorAllMapped
  <2> QED
    BY <2>1, <2>2, <2>3
<1>9. [b \in p |-> ValueOf(TimesAlpha({b}))] = [b \in p |-> TimesAlpha(BitValue(b))]
  BY <1>7
<1> QED
  BY <1>6, <1>8, <1>9

-----------------------------------------------------------------------------
(* Reduction from the highest coefficient down                             *)

\* A bit at x^Degree or above stands for the bits that replace it.
LEMMA BitValueRecurs ==
    ASSUME NEW f \in 0 .. Degree - 2, NEW t \in Bit
    PROVE  BitValue(<<Degree + f, t>>)
             = Xor(BitValue(<<f, t>>), TimesAlpha(Xor(BitValue(<<f + 1, t>>), BitValue(<<f + 3, t>>))))
<1> DEFINE u == Power(f)
           v == Power(f + 1)
           w == Power(f + 3)
           z == Power(Degree + f)
<1>1. u \in Block /\ v \in Block /\ w \in Block
  <2>1. /\ f \in 0 .. 2 * Degree - 2 /\ f + 1 \in 0 .. 2 * Degree - 2
        /\ f + 3 \in 0 .. 2 * Degree - 2
    BY DegreeAssumption
  <2> QED
    BY <2>1, PowerType
<1>2. z = Xor(u, TimesAlpha(Xor(v, w)))
  BY PowerRecurs
<1>3. \A n : BitValue(<<n, t>>) = IF t = "l" THEN Power(n) ELSE TimesAlpha(Power(n))
  BY DEF BitValue
<1>4. /\ BitValue(<<Degree + f, t>>) = (IF t = "l" THEN z ELSE TimesAlpha(z))
      /\ BitValue(<<f, t>>) = (IF t = "l" THEN u ELSE TimesAlpha(u))
      /\ BitValue(<<f + 1, t>>) = (IF t = "l" THEN v ELSE TimesAlpha(v))
      /\ BitValue(<<f + 3, t>>) = (IF t = "l" THEN w ELSE TimesAlpha(w))
  BY <1>3
<1> HIDE DEF u, v, w, z
<1>5. CASE t = "l"
  BY <1>2, <1>4, <1>5
<1>6. CASE t # "l"
  <2>1. /\ Xor(v, w) \in Block /\ TimesAlpha(Xor(v, w)) \in Block
        /\ TimesAlpha(Xor(v, w)) = Xor(TimesAlpha(v), TimesAlpha(w))
    BY <1>1, BlockXor, AlphaOfBlock, AlphaLaws
  <2>2. TimesAlpha(z) = Xor(TimesAlpha(u), TimesAlpha(TimesAlpha(Xor(v, w))))
    BY <1>1, <1>2, <2>1, AlphaLaws
  <2> QED
    BY <1>4, <1>6, <2>1, <2>2
<1> QED
  BY <1>5, <1>6

\* The bits of one exponent, moved to another one.
LEMMA MovedValue ==
    ASSUME NEW e, NEW n, NEW T, IsFiniteSet(T), \A b \in T : b = <<e, b[2]>>
    PROVE  ValueOf({<<n, b[2]>> : b \in T}) = XorAll([b \in T |-> BitValue(<<n, b[2]>>)])
<1> DEFINE U == {<<n, b[2]>> : b \in T}
           f == [b \in T |-> BitValue(<<n, b[2]>>)]
           g == [b \in U |-> BitValue(b)]
           m == [b \in T |-> <<n, b[2]>>]
<1>1. DOMAIN f = T /\ DOMAIN g = U
  OBVIOUS
<1>2. m \in Bijection(T, U)
  <2>1. m \in [T -> U]
    OBVIOUS
  <2>2. \A b, c \in T : m[b] = m[c] => b = c
    OBVIOUS
  <2>3. \A c \in U : \E b \in T : m[b] = c
    OBVIOUS
  <2> HIDE DEF m, U
  <2> QED
    BY <2>1, <2>2, <2>3 DEF Bijection, Injection, Surjection, IsInjective
<1>3. \A b \in T : f[b] = g[m[b]]
  OBVIOUS
<1>4. ValueOf(U) = XorAll(g)
  BY DEF ValueOf
<1> HIDE DEF f, g, m
<1>5. XorAll(f) = XorAll(g)
  BY <1>1, <1>2, <1>3, XorAllMoved
<1> QED
  BY <1>4, <1>5 DEF f

\* Replacing the highest coefficient does not change what a polynomial stands for.
LEMMA RemovedValue ==
    ASSUME NEW e \in Degree .. 2 * Degree - 2, NEW q \in UpToExponent(e)
    PROVE  /\ Removed(q, e) \in UpToExponent(e - 1)
           /\ ValueOf(Removed(q, e)) = ValueOf(q)
<1> DEFINE top == {b \in q : b[1] = e}
           f == e - Degree
           At(n) == {<<e - Degree + n, b[2]>> : b \in top}
           rest == q \ top
           sum == Xor(At(1), At(3))
           alpha == TimesAlpha(sum)
<1>0. /\ Degree \in Nat /\ Degree >= 5 /\ e \in Nat /\ e >= Degree /\ e <= 2 * Degree - 2
      /\ f \in 0 .. Degree - 2 /\ Degree + f = e
  BY DegreeAssumption
<1>1. \A b \in q : b = <<b[1], b[2]>> /\ b[1] \in 0 .. e /\ b[2] \in Bit
  BY DEF UpToExponent
<1>2. \A m \in 0 .. 2 * Degree - 2 : UpToExponent(m) \subseteq Wide
  <2>1. \A m \in 0 .. 2 * Degree - 2 : \A n \in 0 .. m : n \in 0 .. 2 * Degree - 2
    BY <1>0
  <2> QED
    BY <2>1 DEF UpToExponent, Wide
<1>3. q \in Wide /\ top \in Wide /\ rest \in UpToExponent(e - 1) /\ rest \in Wide
  <2>1. \A n \in 0 .. e : n # e => n \in 0 .. e - 1
    BY <1>0
  <2>2. rest \in UpToExponent(e - 1)
    BY <1>1, <2>1 DEF UpToExponent
  <2>3. e \in 0 .. 2 * Degree - 2 /\ e - 1 \in 0 .. 2 * Degree - 2
    BY <1>0
  <2>4. q \in Wide
    BY <1>2, <2>3
  <2>5. top \in Wide
    BY <2>4 DEF Wide, UpToExponent
  <2> QED
    BY <1>2, <2>2, <2>3, <2>4, <2>5
<1>4. ASSUME NEW n \in {0, 1, 3}
      PROVE  At(n) \in UpToExponent(e - 1) /\ At(n) \in Wide
  <2>1. e - Degree + n \in 0 .. e - 1 /\ e - 1 \in 0 .. 2 * Degree - 2
    BY <1>0
  <2>2. At(n) \in UpToExponent(e - 1)
    BY <1>1, <2>1 DEF UpToExponent
  <2> QED
    BY <1>2, <2>1, <2>2
<1>5. sum \in UpToExponent(e - 1) /\ sum \in Wide
  <2>1. At(1) \in UpToExponent(e - 1) /\ At(3) \in UpToExponent(e - 1)
        /\ At(1) \in Wide /\ At(3) \in Wide
    BY <1>4
  <2> HIDE DEF At
  <2> QED
    BY <2>1, WideSets DEF UpToExponent, Xor
<1>6. alpha \in UpToExponent(e - 1) /\ alpha \in Wide
  <2> HIDE DEF sum
  <2>1. alpha \in Wide
    BY <1>5, AlphaOfWide
  <2>2. ASSUME NEW b \in alpha PROVE b \in (0 .. e - 1) \X Bit
    <3> DEFINE m == b[1]
    <3>1. b \in (0 .. 2 * Degree - 2) \X Bit
      BY <2>1 DEF Wide, UpToExponent
    <3>2. (b = <<m, "l">> \/ b = <<m, "h">>) /\ b[2] \in Bit
      BY <3>1 DEF Bit
    <3> HIDE DEF m
    <3>3. <<m, "l">> \in sum \/ <<m, "h">> \in sum
      BY <1>5, <3>2, AlphaOfWide
    <3>4. m \in 0 .. e - 1
      BY <1>5, <3>3 DEF UpToExponent
    <3> QED
      BY <3>2, <3>4 DEF Bit
  <2>3. alpha \in UpToExponent(e - 1)
    BY <2>2 DEF UpToExponent
  <2> QED
    BY <2>1, <2>3
<1>7. Removed(q, e) = Xor(Xor(rest, At(0)), alpha)
  BY DEF Removed
<1>8. ValueOf(q) = Xor(ValueOf(rest), ValueOf(top))
  <2>1. q = Xor(rest, top)
    BY DEF Xor
  <2> HIDE DEF rest, top
  <2> QED
    BY <1>3, <2>1, ValueOfXor
<1> DEFINE g(n) == [b \in top |-> BitValue(<<f + n, b[2]>>)]
           g13 == [b \in top |-> Xor(g(1)[b], g(3)[b])]
           ga == [b \in top |-> TimesAlpha(g13[b])]
<1>9. IsFiniteSet(top) /\ \A b \in top : b = <<e, b[2]>> /\ b[2] \in Bit
  <2>1. IsFiniteSet(top)
    <3> HIDE DEF top
    <3> QED
      BY <1>3, WideSets
  <2> QED
    BY <1>1, <2>1
<1>10. ASSUME NEW n \in {0, 1, 3}
       PROVE  ValueOf(At(n)) = XorAll(g(n)) /\ \A b \in top : g(n)[b] \in Block
  <2>1. f + n \in 0 .. 2 * Degree - 2
    BY <1>0
  <2>2. \A b \in top : BitValue(<<f + n, b[2]>>) \in Block
    BY <1>9, <2>1, BitValueType
  <2>3. ValueOf(At(n)) = XorAll(g(n))
    <3> HIDE DEF top
    <3> QED
      BY <1>9, MovedValue
  <2> QED
    BY <2>2, <2>3
<1>11. ValueOf(top) = Xor(XorAll(g(0)), XorAll(ga))
  <2>1. \A b \in top : BitValue(b) = Xor(g(0)[b], ga[b])
    <3> SUFFICES ASSUME NEW b \in top PROVE BitValue(b) = Xor(g(0)[b], ga[b])
      OBVIOUS
    <3> DEFINE t == b[2]
    <3>1. b = <<Degree + f, t>> /\ t \in Bit
      BY <1>0, <1>9
    <3>2. BitValue(<<Degree + f, t>>)
            = Xor(BitValue(<<f, t>>), TimesAlpha(Xor(BitValue(<<f + 1, t>>), BitValue(<<f + 3, t>>))))
      BY <1>0, <3>1, BitValueRecurs
    <3>3. f + 0 = f
      BY <1>0
    <3>4. g(0)[b] = BitValue(<<f, t>>) /\ g(1)[b] = BitValue(<<f + 1, t>>) /\ g(3)[b] = BitValue(<<f + 3, t>>)
      BY <3>3
    <3>5. ga[b] = TimesAlpha(Xor(g(1)[b], g(3)[b]))
      OBVIOUS
    <3> HIDE DEF g, ga, t
    <3> QED
      BY <3>1, <3>2, <3>4, <3>5
  <2>2. DOMAIN g(0) = top /\ DOMAIN ga = top
    OBVIOUS
  <2>3. ValueOf(top) = XorAll([b \in top |-> BitValue(b)])
    BY DEF ValueOf
  <2> DEFINE h == g(0)
  <2>4. \A b \in top : BitValue(b) = Xor(h[b], ga[b])
    BY <2>1
  <2>5. DOMAIN h = top
    BY <2>2
  <2> HIDE DEF h, ga, top
  <2>6. [b \in top |-> BitValue(b)] = [b \in DOMAIN h |-> Xor(h[b], ga[b])]
    BY <2>4, <2>5
  <2>7. XorAll([b \in DOMAIN h |-> Xor(h[b], ga[b])]) = Xor(XorAll(h), XorAll(ga))
    BY <1>9, <2>2, <2>5, XorAllXor
  <2> QED
    BY <2>3, <2>6, <2>7 DEF h
<1>12. XorAll(g13) \in Block /\ XorAll(ga) = TimesAlpha(XorAll(g13))
  <2> DEFINE F == [x \in Block |-> TimesAlpha(x)]
  <2>1. Additive(Block, F) /\ Zero \in Block
    BY BlockXor, AlphaLaws DEF Additive, Zero, Block
  <2>2. g13 \in [top -> Block]
    <3>1. \A b \in top : g(1)[b] \in Block /\ g(3)[b] \in Block
      BY <1>10
    <3> HIDE DEF g, top
    <3> QED
      BY <3>1, BlockXor
  <2>3. ga = [b \in top |-> F[g13[b]]]
    <3> HIDE DEF g13, top
    <3> QED
      BY <2>2
  <2> HIDE DEF g13, top, ga
  <2>4. XorAll(g13) \in Block /\ F[XorAll(g13)] = XorAll([b \in top |-> F[g13[b]]])
    <3>1. IsFiniteSet(top)
      BY <1>9
    <3> HIDE DEF F
    <3> QED
      BY <2>1, <2>2, <3>1, XorAllMapped
  <2> QED
    BY <2>3, <2>4
<1>13. XorAll(g13) = Xor(ValueOf(At(1)), ValueOf(At(3)))
  <2> DEFINE h == g(1)
             k == g(3)
  <2>1. DOMAIN h = top /\ DOMAIN k = top
    OBVIOUS
  <2>2. g13 = [b \in DOMAIN h |-> Xor(h[b], k[b])]
    OBVIOUS
  <2>3. ValueOf(At(1)) = XorAll(h) /\ ValueOf(At(3)) = XorAll(k)
    BY <1>10
  <2> HIDE DEF h, k, g13, At, top
  <2>4. XorAll([b \in DOMAIN h |-> Xor(h[b], k[b])]) = Xor(XorAll(h), XorAll(k))
    BY <1>9, <2>1, XorAllXor
  <2> QED
    BY <2>2, <2>3, <2>4
<1>14. ValueOf(sum) = Xor(ValueOf(At(1)), ValueOf(At(3)))
  <2>1. At(1) \in Wide /\ At(3) \in Wide
    BY <1>4
  <2> HIDE DEF At
  <2> QED
    BY <2>1, ValueOfXor
<1>15. ValueOf(alpha) = XorAll(ga)
  <2>1. ValueOf(alpha) = TimesAlpha(ValueOf(sum))
    <3> HIDE DEF sum
    <3> QED
      BY <1>5, ValueOfAlpha
  <2> HIDE DEF alpha, sum, At, g13, ga
  <2> QED
    BY <1>12, <1>13, <1>14, <2>1
<1>16. At(0) \in UpToExponent(e - 1) /\ At(0) \in Wide /\ ValueOf(At(0)) = XorAll(g(0))
  BY <1>4, <1>10
<1> DEFINE zero == At(0)
           g0 == g(0)
<1>17. /\ zero \in UpToExponent(e - 1) /\ zero \in Wide /\ ValueOf(zero) = XorAll(g0)
       /\ ValueOf(top) = Xor(XorAll(g0), XorAll(ga)) /\ Removed(q, e) = Xor(Xor(rest, zero), alpha)
  BY <1>7, <1>11, <1>16
<1> HIDE DEF zero, g0, alpha, sum, At, g, g13, ga, rest, top
<1>18. Xor(Xor(rest, zero), alpha) \in UpToExponent(e - 1)
  BY <1>3, <1>6, <1>17 DEF UpToExponent, Xor
<1>19. ValueOf(Xor(Xor(rest, zero), alpha)) = Xor(Xor(ValueOf(rest), ValueOf(zero)), ValueOf(alpha))
  <2>1. Xor(rest, zero) \in Wide
    BY <1>3, <1>17, WideSets
  <2> QED
    BY <1>3, <1>6, <1>17, <2>1, ValueOfXor
<1>20. \A x, y, z : Xor(Xor(x, y), z) = Xor(x, Xor(y, z))
  BY DEF Xor
<1> QED
  BY <1>8, <1>15, <1>17, <1>18, <1>19, <1>20

\* Replacing all coefficients of x^Degree and above leaves the block that a polynomial
\* stands for.
LEMMA LoweredValue ==
    ASSUME NEW p \in Wide
    PROVE  Lowered(p) = ValueOf(p)
<1> DEFINE Next1(r, n) == IF n = 0 THEN p ELSE Removed(r[n - 1], 2 * Degree - 1 - n)
           Low(r, m) == r = [n \in 0 .. m |-> Next1(r, n)]
           S == {m \in Nat : \E r : Low(r, m)}
<1>0. Degree \in Nat /\ Degree >= 5 /\ Degree - 1 \in Nat
  BY DegreeAssumption
<1>1. 0 \in S
  <2> DEFINE r == [n \in 0 .. 0 |-> p]
  <2>1. Low(r, 0)
    OBVIOUS
  <2> HIDE DEF r, Low
  <2> QED
    BY <2>1
<1>2. ASSUME NEW m \in 0 .. Degree - 1 - 1, m \in S PROVE m + 1 \in S
  <2>1. PICK r : Low(r, m)
    BY <1>2
  <2> DEFINE r2 == [n \in 0 .. m + 1 |-> Next1(r, n)]
  <2>2. \A n \in 0 .. m : r2[n] = r[n]
    <3>1. \A n \in 0 .. m : r[n] = Next1(r, n) /\ n \in 0 .. m + 1
      BY <2>1
    <3> HIDE DEF Next1, Low
    <3> QED
      BY <3>1
  <2>3. \A n \in 0 .. m + 1 : Next1(r, n) = Next1(r2, n)
    <3> SUFFICES ASSUME NEW n \in 0 .. m + 1, n # 0 PROVE r[n - 1] = r2[n - 1]
      <4> HIDE DEF r2
      <4> QED
        OBVIOUS
    <3>1. n - 1 \in 0 .. m
      OBVIOUS
    <3> HIDE DEF r2
    <3> QED
      BY <2>2, <3>1
  <2>4. Low(r2, m + 1)
    <3> DEFINE s == r2
    <3>1. s = [n \in 0 .. m + 1 |-> Next1(r, n)] /\ \A n \in 0 .. m + 1 : Next1(r, n) = Next1(s, n)
      BY <2>3
    <3> HIDE DEF s, Next1
    <3>2. s = [n \in 0 .. m + 1 |-> Next1(s, n)]
      BY <3>1
    <3> QED
      BY <3>2 DEF s
  <2> HIDE DEF Low, r2
  <2> QED
    BY <2>4
<1>3. Degree - 1 \in S
  <2>1. Degree - 1 \in 0 .. Degree - 1
    BY <1>0
  <2> HIDE DEF S
  <2> QED
    BY <1>0, <1>1, <1>2, <2>1, UpTo
<1> DEFINE low[n \in 0 .. Degree - 1] ==
             IF n = 0 THEN p ELSE Removed(low[n - 1], 2 * Degree - 1 - n)
<1>4. Low(low, Degree - 1)
  <2>1. \E r : Low(r, Degree - 1)
    BY <1>3
  <2>2. low = CHOOSE r : Low(r, Degree - 1)
    OBVIOUS
  <2> HIDE DEF Low, low
  <2> QED
    BY <2>1, <2>2
<1>5. Lowered(p) = low[Degree - 1]
  BY DEF Lowered
<1> HIDE DEF low
<1> DEFINE T == {n \in Nat : /\ low[n] \in UpToExponent(2 * Degree - 2 - n)
                            /\ ValueOf(low[n]) = ValueOf(p)}
<1>6. 0 \in T
  <2>1. low[0] = p /\ 2 * Degree - 2 - 0 = 2 * Degree - 2
    BY <1>0, <1>4
  <2> QED
    BY <2>1 DEF Wide
<1>7. ASSUME NEW n \in 0 .. Degree - 1 - 1, n \in T PROVE n + 1 \in T
  <2> DEFINE e == 2 * Degree - 1 - (n + 1)
  <2>1. low[n + 1] = Removed(low[n], e)
    <3>1. n + 1 \in 0 .. Degree - 1 /\ n + 1 # 0 /\ n + 1 - 1 = n
      BY <1>0
    <3>2. low[n + 1] = Next1(low, n + 1)
      <4> HIDE DEF Next1
      <4> QED
        BY <1>4, <3>1
    <3> QED
      BY <3>1, <3>2
  <2>2. /\ e \in Degree .. 2 * Degree - 2 /\ e = 2 * Degree - 2 - n
        /\ e - 1 = 2 * Degree - 2 - (n + 1) /\ n + 1 \in Nat
    BY <1>0
  <2>3. low[n] \in UpToExponent(e) /\ ValueOf(low[n]) = ValueOf(p)
    BY <1>7, <2>2
  <2> HIDE DEF e
  <2>4. /\ Removed(low[n], e) \in UpToExponent(e - 1)
        /\ ValueOf(Removed(low[n], e)) = ValueOf(low[n])
    BY <2>2, <2>3, RemovedValue
  <2> QED
    BY <2>1, <2>2, <2>3, <2>4
<1>8. Degree - 1 \in T
  <2>1. Degree - 1 \in 0 .. Degree - 1
    BY <1>0
  <2> HIDE DEF T
  <2> QED
    BY <1>0, <1>6, <1>7, <2>1, UpTo
<1>9. low[Degree - 1] \in Block
  <2>1. 2 * Degree - 2 - (Degree - 1) = Degree - 1
    BY <1>0
  <2> QED
    BY <1>8, <2>1 DEF UpToExponent, Block
<1> QED
  BY <1>5, <1>8, <1>9, ValueOfType

-----------------------------------------------------------------------------
(* The product                                                             *)

\* The product of two bits of blocks.
LEMMA BitProductValue ==
    ASSUME NEW b \in (0 .. Degree - 1) \X Bit, NEW c \in (0 .. Degree - 1) \X Bit
    PROVE  BitProduct(b, c) \in Wide /\ ValueOf(BitProduct(b, c)) = F4_mul({b}, {c})
<1> DEFINE i == b[1]
           j == c[1]
           x == Monomial(i)
           y == Monomial(j)
           term == {<<i + j, c[2]>>}
<1>1. /\ i \in 0 .. Degree - 1 /\ j \in 0 .. Degree - 1 /\ i + j \in 0 .. 2 * Degree - 2
      /\ (b = <<i, "l">> \/ b = <<i, "h">>) /\ (c = <<j, "l">> \/ c = <<j, "h">>)
  BY DegreeAssumption DEF Bit
<1>2. x \in Block /\ y \in Block /\ F4_mul(x, y) = Power(i + j)
  BY <1>1, MonomialParts, MonomialProduct
<1>3. /\ {b} = IF b[2] = "l" THEN x ELSE TimesAlpha(x)
      /\ {c} = IF c[2] = "l" THEN y ELSE TimesAlpha(y)
  BY <1>1, PowerType, BitValueType DEF BitValue
<1>4. term \in Wide
  BY <1>1 DEF Wide, UpToExponent
<1>5. ValueOf(term) = F4_mul(x, {c})
  <2>1. ValueOf(term) = BitValue(<<i + j, c[2]>>)
    BY ValueOfType
  <2>2. BitValue(<<i + j, c[2]>>) = IF c[2] = "l" THEN F4_mul(x, y) ELSE TimesAlpha(F4_mul(x, y))
    BY <1>2 DEF BitValue
  <2> HIDE DEF x, y, term
  <2> QED
    BY <1>2, <1>3, <2>1, <2>2, AlphaOfProduct
<1>6. BitProduct(b, c) = IF b[2] = "l" THEN term ELSE TimesAlpha(term)
  BY DEF BitProduct
<1>7. {c} \in Block
  BY DEF Block
<1> HIDE DEF x, y, term
<1>8. TimesAlpha(term) \in Wide /\ ValueOf(TimesAlpha(term)) = TimesAlpha(ValueOf(term))
  BY <1>4, AlphaOfWide, ValueOfAlpha
<1>9. F4_mul(TimesAlpha(x), {c}) = TimesAlpha(F4_mul(x, {c}))
  BY <1>2, <1>7, AlphaOfProduct
<1> QED
  BY <1>3, <1>4, <1>5, <1>6, <1>8, <1>9

\* F4_mul is the product in F4[x], reduced modulo x^Degree + alpha(x^3 + x) + 1: the two
\* passes of F4_reduce leave nothing to reduce.
THEOREM F4_mulReduces ==
    ASSUME NEW x \in Block, NEW y \in Block
    PROVE  F4_mul(x, y) = Lowered(BlockProduct(x, y))
<1> DEFINE f == [p \in x \X y |-> BitProduct(p[1], p[2])]
           V == [q \in Wide |-> ValueOf(q)]
<1>1. IsFiniteSet(x \X y)
  BY BlockFinite, FS_Product
<1>2. ASSUME NEW p \in x \X y
      PROVE  f[p] \in Wide /\ V[f[p]] = F4_mul({p[1]}, {p[2]})
  <2>1. p[1] \in (0 .. Degree - 1) \X Bit /\ p[2] \in (0 .. Degree - 1) \X Bit
    BY DEF Block
  <2> QED
    BY <2>1, BitProductValue
<1>3. Additive(Wide, V) /\ Zero \in Wide
  BY WideSets, ValueOfXor DEF Additive
<1>4. f \in [x \X y -> Wide]
  BY <1>2
<1>5. XorAll(f) \in Wide /\ V[XorAll(f)] = XorAll([p \in x \X y |-> V[f[p]]])
  <2> DEFINE S == x \X y
  <2>1. IsFiniteSet(S) /\ f \in [S -> Wide]
    BY <1>1, <1>4
  <2> HIDE DEF f, V, S
  <2>2. XorAll(f) \in Wide /\ V[XorAll(f)] = XorAll([p \in S |-> V[f[p]]])
    BY <1>3, <2>1, XorAllMapped
  <2> QED
    BY <2>2 DEF S
<1>6. [p \in x \X y |-> V[f[p]]] = [p \in x \X y |-> F4_mul({p[1]}, {p[2]})]
  <2> HIDE DEF f, V
  <2> QED
    BY <1>2
<1>7. BlockProduct(x, y) = XorAll(f)
  BY DEF BlockProduct
<1>8. ValueOf(BlockProduct(x, y)) = F4_mul(x, y)
  <2>1. V[XorAll(f)] = ValueOf(XorAll(f))
    BY <1>5
  <2> HIDE DEF f, V
  <2> QED
    BY <1>5, <1>6, <1>7, <2>1, MulBits
<1> HIDE DEF f, V
<1> QED
  BY <1>5, <1>7, <1>8, LoweredValue

-----------------------------------------------------------------------------
(* The inductive invariant                                                 *)
(*                                                                         *)
(* What a vector holds between two passes is said by the values that it    *)
(* still has to get: Transformed and Inverted of FoleageFftProofs.         *)

\* The values of the coded half.
Products == [i \in Position |-> F4_mul(a[i], msg[i])]

TypeInv ==
    /\ message \in Coeffs /\ msg \in Coeffs /\ a \in Coeffs
    /\ coded \in Coeffs /\ systematic \in Coeffs
    /\ stage \in {"copy", "forward", "inverse"}
    /\ pass \in 0 .. NumVars

CInv ==
    /\ TypeInv
    /\ stage = "copy" => pass = 0 /\ msg = message
    /\ stage = "forward" => Transformed(pass, msg, message)
    /\ stage # "copy" => systematic = message
    /\ stage = "inverse" => Transformed(NumVars, msg, message) /\ Inverted(pass, coded, Products)

\* The products are blocks.
LEMMA ProductsType == TypeInv => Products \in Coeffs
<1>1. ASSUME TypeInv, NEW i \in Position PROVE F4_mul(a[i], msg[i]) \in Block
  <2>1. a[i] \in Block /\ msg[i] \in Block
    BY <1>1 DEF TypeInv, Coeffs
  <2> QED
    BY <2>1, F4_mulXor
<1> QED
  BY <1>1 DEF Products, Coeffs

\* The invariant holds at the start.
LEMMA InitCInv == CodeInit => CInv
<1> SUFFICES ASSUME CodeInit PROVE CInv
  OBVIOUS
<1>1. ZeroCoeffs \in Coeffs
  BY DEF ZeroCoeffs, Coeffs, Zero, Block
<1>2. message \in Coeffs /\ a \in Coeffs
  BY MessagesAssumption, ValuesAssumption DEF CodeInit
<1>3. 0 \in 0 .. NumVars
  BY NumVarsAssumption
<1> QED
  BY <1>1, <1>2, <1>3 DEF CodeInit, CInv, TypeInv

\* Every step keeps it.
LEMMA NextCInv == CInv /\ [CodeNext]_codeVars => CInv'
<1> SUFFICES ASSUME CInv, [CodeNext]_codeVars PROVE CInv'
  OBVIOUS
<1>1. CASE Copy
  <2>1. TypeInv'
    BY <1>1 DEF Copy, CInv, TypeInv
  <2>2. Transformed(0, message, message)
    BY TransformedStart DEF CInv, TypeInv
  <2> QED
    BY <1>1, <2>1, <2>2 DEF Copy, CInv
<1>2. CASE Forward
  <2>1. pass \in 0 .. NumVars /\ pass # NumVars /\ Transformed(pass, msg, message)
    BY <1>2, NumVarsAssumption DEF Forward, CInv, TypeInv
  <2>2. Transformed(pass + 1, Pass(pass + 1, msg), message)
    BY <2>1, TransformedPass
  <2>3. pass + 1 \in 0 .. NumVars
    BY <2>1, NextVariable
  <2>4. Pass(pass + 1, msg) \in Coeffs
    BY <2>2 DEF Transformed
  <2>5. TypeInv'
    BY <1>2, <2>3, <2>4 DEF Forward, CInv, TypeInv
  <2> QED
    BY <1>2, <2>2, <2>5 DEF Forward, CInv
<1>3. CASE Multiply
  <2>1. Products \in Coeffs
    BY ProductsType DEF CInv
  <2>2. coded' = Products /\ Products' = Products
    BY <1>3 DEF Multiply, Products
  <2>3. Inverted(0, Products, Products)
    BY <2>1, InvertedStart
  <2>4. 0 \in 0 .. NumVars
    BY NumVarsAssumption
  <2>5. TypeInv'
    BY <1>3, <2>1, <2>2, <2>4 DEF Multiply, CInv, TypeInv
  <2>6. Inverted(pass, coded, Products)'
    BY <1>3, <2>2, <2>3 DEF Multiply
  <2> QED
    BY <1>3, <2>5, <2>6 DEF Multiply, CInv
<1>4. CASE Backward
  <2>1. pass \in 0 .. NumVars /\ pass # NumVars /\ Inverted(pass, coded, Products)
    BY <1>4, NumVarsAssumption DEF Backward, CInv, TypeInv
  <2>2. Inverted(pass + 1, inv_Pass(pass + 1, coded), Products)
    BY <2>1, InvertedPass
  <2>3. pass + 1 \in 0 .. NumVars
    BY <2>1, NextVariable
  <2>4. inv_Pass(pass + 1, coded) \in Coeffs
    BY <2>2 DEF Inverted
  <2>5. TypeInv' /\ Products' = Products
    BY <1>4, <2>3, <2>4 DEF Backward, CInv, TypeInv, Products
  <2>6. Inverted(pass, coded, Products)'
    BY <1>4, <2>2, <2>5 DEF Backward
  <2> QED
    BY <1>4, <2>5, <2>6 DEF Backward, CInv
<1>5. CASE UNCHANGED codeVars
  BY <1>5 DEF codeVars, CInv, TypeInv, Products
<1> QED
  BY <1>1, <1>2, <1>3, <1>4, <1>5 DEF CodeNext, CodeDone

-----------------------------------------------------------------------------
(* The theorems                                                            *)

\* foleageFft, in place and pass by pass, leaves the values of the message at all points
\* whose coordinates are cube roots of unity.
THEOREM TransformEvaluates == CodeSpec => []ForwardEvaluates
<1>1. CInv => ForwardEvaluates
  BY TransformedEnd DEF CInv, ForwardEvaluates
<1> QED
  BY <1>1, InitCInv, NextCInv, PTL DEF CodeSpec

\* inv_foleageFft takes the products back to a polynomial that has them as its values, so
\* the coded half is the product of the polynomial a and the message the other half keeps.
THEOREM CodeWordIsProduct == CodeSpec => []CodedIsProduct
<1>1. CInv => CodedIsProduct
  <2> SUFFICES ASSUME CInv, Encoded, NEW i \in Position
               PROVE  Evaluate(coded, i) = F4_mul(a[i], Evaluate(systematic, i))
    BY DEF CodedIsProduct
  <2>1. /\ Transformed(NumVars, msg, message) /\ Inverted(NumVars, coded, Products)
        /\ systematic = message
    BY DEF CInv, Encoded
  <2>2. Evaluate(coded, i) = Products[i]
    BY <2>1, InvertedEnd
  <2>3. msg[i] = Evaluate(message, i)
    BY <2>1, TransformedEnd
  <2> QED
    BY <2>1, <2>2, <2>3 DEF Products
<1> QED
  BY <1>1, InitCInv, NextCInv, PTL DEF CodeSpec

\* The two passes of F4_reduce leave nothing to reduce of the products: each value of the
\* coded half is the product of the values in F4[x] / (x^Degree + alpha(x^3 + x) + 1).
THEOREM ProductsAreReduced == CodeSpec => []ProductsReduced
<1>1. CInv => ProductsReduced
  <2> SUFFICES ASSUME CInv, stage = "inverse", pass = 0, NEW i \in Position
               PROVE  coded[i] = Lowered(BlockProduct(a[i], msg[i]))
    BY DEF ProductsReduced
  <2>1. Inverted(0, coded, Products) /\ a[i] \in Block /\ msg[i] \in Block
    BY DEF CInv, TypeInv, Coeffs
  <2>2. 1 .. 0 = {}
    OBVIOUS
  <2>3. coded[i] = Products[i]
    BY <2>1, <2>2, ValueNone DEF Inverted
  <2>4. Products[i] = F4_mul(a[i], msg[i])
    BY DEF Products
  <2> QED
    BY <2>1, <2>3, <2>4, F4_mulReduces
<1> QED
  BY <1>1, InitCInv, NextCInv, PTL DEF CodeSpec
=============================================================================
