----------------------- MODULE ExtensionFieldOleProofs -----------------------
(***************************************************************************)
(* Proofs about ExtensionFieldOle, for every degree, number of variables,  *)
(* number and length of blocks, polynomials, factors and outputs: the      *)
(* calls of dpf() share the products of the polynomials, and the parties'  *)
(* additive shares add up to the product of what they hold.                *)
(*                                                                         *)
(* First comes the algebra: products of sums, exponents of sums of         *)
(* positions, and with them the value of a product of polynomials; then    *)
(* the pairs of polynomials of the calls, and the trees that share each    *)
(* coefficient of their product; then the invariant and the steps.         *)
(***************************************************************************)
EXTENDS ExtensionFieldOle, FoleageFftProofs

-----------------------------------------------------------------------------
(* Products of sums                                                        *)

\* Zero is a block, and is nothing in a sum and in a product.
LEMMA ZeroFacts ==
    /\ Zero \in Block
    /\ \A x : Xor(x, Zero) = x /\ Xor(Zero, x) = x /\ Xor(x, x) = Zero
    /\ \A x \in Block : F4_mul(Zero, x) = Zero /\ F4_mul(x, Zero) = Zero
<1>1. Zero \in Block
  BY DEF Zero, Block
<1>2. \A x : Xor(x, Zero) = x /\ Xor(Zero, x) = x /\ Xor(x, x) = Zero
  BY DEF Xor, Zero
<1>3. ASSUME NEW x \in Block PROVE F4_mul(Zero, x) = Zero /\ F4_mul(x, Zero) = Zero
  <2>1. F4_mul(Xor(Zero, Zero), x) = Xor(F4_mul(Zero, x), F4_mul(Zero, x))
    BY <1>1, F4_mulXor
  <2>2. F4_mul(Zero, x) = Zero
    BY <1>2, <2>1
  <2> QED
    BY <1>1, <2>2, F4_mulCommutes
<1> QED
  BY <1>1, <1>2, <1>3

\* A factor may be multiplied to each member of a sum.
LEMMA MulXorAll ==
    ASSUME NEW x \in Block, NEW S, IsFiniteSet(S), NEW f \in [S -> Block]
    PROVE  /\ XorAll(f) \in Block
           /\ F4_mul(x, XorAll(f)) = XorAll([t \in S |-> F4_mul(x, f[t])])
           /\ F4_mul(XorAll(f), x) = XorAll([t \in S |-> F4_mul(f[t], x)])
<1> DEFINE F == [y \in Block |-> F4_mul(x, y)]
<1>1. Additive(Block, F)
  BY F4_mulRight, BlockXor DEF Additive
<1>2. /\ XorAll(f) \in Block
      /\ F[XorAll(f)] = XorAll([t \in S |-> F[f[t]]])
  <2> HIDE DEF F
  <2> QED
    BY <1>1, ZeroFacts, XorAllMapped
<1>3. [t \in S |-> F[f[t]]] = [t \in S |-> F4_mul(x, f[t])]
  OBVIOUS
<1>4. F4_mul(x, XorAll(f)) = XorAll([t \in S |-> F4_mul(x, f[t])])
  BY <1>2, <1>3
<1>5. [t \in S |-> F4_mul(x, f[t])] = [t \in S |-> F4_mul(f[t], x)]
  <2>1. \A t \in S : F4_mul(x, f[t]) = F4_mul(f[t], x)
    BY F4_mulCommutes
  <2> QED
    BY <2>1
<1> QED
  BY <1>2, <1>4, <1>5, F4_mulCommutes

\* A finite family of blocks.
Family(S, f) == IsFiniteSet(S) /\ f \in [S -> Block]

\* The product of two sums is the sum of the products of their members.
LEMMA MulSums ==
    ASSUME NEW S, NEW f, Family(S, f), NEW T, NEW g, Family(T, g)
    PROVE  F4_mul(XorAll(f), XorAll(g))
             = XorAll([z \in S \X T |-> F4_mul(f[z[1]], g[z[2]])])
<1> DEFINE h == [z \in S \X T |-> F4_mul(f[z[1]], g[z[2]])]
           Row(u) == [v \in T |-> F4_mul(f[u], g[v])]
<1>1. IsFiniteSet(S) /\ f \in [S -> Block]
  BY DEF Family
<1>2. IsFiniteSet(T) /\ g \in [T -> Block]
  BY DEF Family
<1>3. XorAll(f) \in Block /\ XorAll(g) \in Block
  BY <1>1, <1>2, XorAllType
<1>4. F4_mul(XorAll(f), XorAll(g)) = XorAll([u \in S |-> F4_mul(f[u], XorAll(g))])
  BY <1>1, <1>3, MulXorAll
<1>5. ASSUME NEW u \in S PROVE F4_mul(f[u], XorAll(g)) = XorAll(Row(u))
  <2> DEFINE x == f[u]
  <2>1. x \in Block
    BY <1>1
  <2> HIDE DEF x
  <2>2. F4_mul(x, XorAll(g)) = XorAll([v \in T |-> F4_mul(x, g[v])])
    BY <1>2, <2>1, MulXorAll
  <2> QED
    BY <2>2 DEF x
<1>6. [u \in S |-> F4_mul(f[u], XorAll(g))] = [u \in S |-> XorAll([v \in T |-> h[<<u, v>>]])]
  <2>1. \A u \in S : Row(u) = [v \in T |-> h[<<u, v>>]]
    OBVIOUS
  <2> HIDE DEF Row, h
  <2> QED
    BY <1>5, <2>1
<1>7. XorAll(h) = XorAll([u \in S |-> XorAll([v \in T |-> h[<<u, v>>]])])
  <2>1. DOMAIN h = S \X T
    OBVIOUS
  <2>2. IsFiniteSet(S) /\ IsFiniteSet(T)
    BY <1>1, <1>2
  <2> HIDE DEF h
  <2> QED
    BY <2>1, <2>2, XorAllProduct, SMT
<1> HIDE DEF h
<1>8. F4_mul(XorAll(f), XorAll(g)) = XorAll(h)
  BY <1>4, <1>6, <1>7
<1> QED
  BY <1>8 DEF h

\* The same for two families over one set.
LEMMA MulSquares ==
    ASSUME NEW S, NEW f, NEW g, Family(S, f), Family(S, g),
           NEW h, h = [z \in S \X S |-> F4_mul(f[z[1]], g[z[2]])]
    PROVE  F4_mul(XorAll(f), XorAll(g)) = XorAll(h)
BY MulSums, SMT

-----------------------------------------------------------------------------
(* Positions that are added digit by digit                                 *)

\* Multiplying by powers of omega on both sides is multiplying by one power.
LEMMA OmegaPowerMul ==
    ASSUME NEW n \in 0 .. 2, NEW m \in 0 .. 2, NEW x \in Block, NEW y \in Block,
           NEW l, l = (n + m) % 3
    PROVE  F4_mul(OmegaPower(n, x), OmegaPower(m, y)) = OmegaPower(l, F4_mul(x, y))
<1>1. ASSUME NEW u \in Block, NEW v \in Block, NEW k
      PROVE  /\ F4_mul(OmegaPower(k, u), v) = OmegaPower(k, F4_mul(u, v))
             /\ F4_mul(u, OmegaPower(k, v)) = OmegaPower(k, F4_mul(u, v))
  <2>1. TimesOmega(u) \in Block /\ TimesOmega(v) \in Block
    BY TimesOmegaParts
  <2>2. /\ F4_mul(TimesOmega(u), v) = TimesOmega(F4_mul(u, v))
        /\ F4_mul(TimesOmega(TimesOmega(u)), v) = TimesOmega(TimesOmega(F4_mul(u, v)))
    BY <2>1, F4_mulOmega
  <2>3. /\ F4_mul(u, TimesOmega(v)) = TimesOmega(F4_mul(u, v))
        /\ F4_mul(u, TimesOmega(TimesOmega(v))) = TimesOmega(TimesOmega(F4_mul(u, v)))
    BY <2>1, F4_mulRight
  <2> QED
    BY <2>2, <2>3 DEF OmegaPower
<1>2. F4_mul(x, y) \in Block /\ OmegaPower(m, y) \in Block
  BY F4_mulRight, OmegaPowerXor
<1>3. F4_mul(OmegaPower(n, x), OmegaPower(m, y))
        = OmegaPower(n, OmegaPower(m, F4_mul(x, y)))
  BY <1>1, <1>2
<1> QED
  BY <1>2, <1>3, OmegaPowerAdd

\* The sum of two positions is a position.
LEMMA SumType ==
    ASSUME NEW K, NEW x \in [K -> 0 .. 2], NEW y \in [K -> 0 .. 2]
    PROVE  Sum(x, y) \in [K -> 0 .. 2] /\ \A k \in K : Sum(x, y)[k] = (x[k] + y[k]) % 3
<1>1. \A k \in K : (x[k] + y[k]) % 3 \in 0 .. 2
  OBVIOUS
<1> QED
  BY <1>1 DEF Sum

\* The product with a sum of digits.
LEMMA DigitSum ==
    ASSUME NEW u \in 0 .. 2, NEW v \in 0 .. 2, NEW w \in 0 .. 2
    PROVE  (u * ((v + w) % 3)) % 3 = (((u * v) % 3) + ((u * w) % 3)) % 3
<1>1. /\ 0 % 3 = 0 /\ 1 % 3 = 1 /\ 2 % 3 = 2 /\ 3 % 3 = 0 /\ 4 % 3 = 1
  OBVIOUS
<1>2. u = 0 \/ u = 1 \/ u = 2
  OBVIOUS
<1>3. v = 0 \/ v = 1 \/ v = 2
  OBVIOUS
<1>4. w = 0 \/ w = 1 \/ w = 2
  OBVIOUS
<1>5. (v + w) % 3 \in 0 .. 2
  OBVIOUS
<1>6. \A t \in 0 .. 2 : (0 * t) % 3 = 0 /\ (1 * t) % 3 = t /\ (2 * t) % 3 = (t + t) % 3
  OBVIOUS
<1>7. CASE u = 0
  BY <1>1, <1>5, <1>6, <1>7
<1>8. CASE u = 1
  BY <1>5, <1>6, <1>8
<1>9. CASE u = 2
  <2>1. (u * ((v + w) % 3)) % 3 = (((v + w) % 3) + ((v + w) % 3)) % 3
    BY <1>5, <1>6, <1>9
  <2>2. (u * v) % 3 = (v + v) % 3 /\ (u * w) % 3 = (w + w) % 3
    BY <1>6, <1>9
  <2>3. (((v + w) % 3) + ((v + w) % 3)) % 3 = (((v + v) % 3) + ((w + w) % 3)) % 3
    BY <1>3, <1>4
  <2> QED
    BY <2>1, <2>2, <2>3
<1> QED
  BY <1>2, <1>7, <1>8, <1>9

\* The sum of a sum of remainders.
LEMMA RemainderSums ==
    ASSUME NEW u \in 0 .. 2, NEW v \in 0 .. 2, NEW w \in 0 .. 2, NEW z \in 0 .. 2
    PROVE  (((u + v) % 3) + ((w + z) % 3)) % 3 = (((u + w) % 3) + ((v + z) % 3)) % 3
OBVIOUS

\* The exponent of a product of monomials is the sum of theirs.
LEMMA ExponentSum ==
    ASSUME NEW i \in Position, NEW x \in Position, NEW y \in Position
    PROVE  /\ Sum(x, y) \in Position
           /\ Exponent(i, x) \in 0 .. 2 /\ Exponent(i, y) \in 0 .. 2
           /\ Exponent(i, Sum(x, y)) = (Exponent(i, x) + Exponent(i, y)) % 3
<1> DEFINE z == Sum(x, y)
           Good == {K \in SUBSET Vars :
                       ExponentOver(K, i, z) = (ExponentOver(K, i, x) + ExponentOver(K, i, y)) % 3}
<1>1. z \in Position /\ \A k \in Vars : z[k] = (x[k] + y[k]) % 3
  BY SumType DEF Position
<1> HIDE DEF z
<1>2. IsFiniteSet(Vars)
  <2>1. 1 \in Int /\ NumVars \in Int
    BY NumVarsAssumption
  <2> QED
    BY <2>1, FS_Interval DEF Vars
<1>3. {} \in Good
  <2>1. \A e, n : ProductsAt({}, i, e, n) = {}
    BY DEF ProductsAt
  <2>2. Cardinality({}) = 0
    BY FS_EmptySet
  <2>3. \A e : ExponentOver({}, i, e) = 0
    BY <2>1, <2>2 DEF ExponentOver
  <2> QED
    BY <2>3
<1>4. ASSUME NEW K \in SUBSET Vars, NEW k \in Vars \ K, K \in Good
      PROVE  K \cup {k} \in Good
  <2> DEFINE D(e) == (i[k] * e[k]) % 3
             E(e) == ExponentOver(K, i, e)
  <2>1. \A e \in Position :
           ExponentOver(K \cup {k}, i, e) = (E(e) + D(e)) % 3
    BY ExponentAdd
  <2>2. i[k] \in 0 .. 2 /\ x[k] \in 0 .. 2 /\ y[k] \in 0 .. 2
    BY DEF Position
  <2>3. D(x) \in 0 .. 2 /\ D(y) \in 0 .. 2
    BY <2>2, DigitProducts
  <2>4. D(z) = (D(x) + D(y)) % 3
    BY <1>1, <2>2, DigitSum
  <2>5. E(x) \in 0 .. 2 /\ E(y) \in 0 .. 2
    BY ExponentType
  <2>6. E(z) = (E(x) + E(y)) % 3
    BY <1>4
  <2>7. ExponentOver(K \cup {k}, i, z) = (E(z) + D(z)) % 3
    BY <1>1, <2>1
  <2>8. /\ ExponentOver(K \cup {k}, i, x) = (E(x) + D(x)) % 3
        /\ ExponentOver(K \cup {k}, i, y) = (E(y) + D(y)) % 3
    BY <2>1
  <2> HIDE DEF D, E
  <2>9. (((E(x) + E(y)) % 3) + ((D(x) + D(y)) % 3)) % 3
           = (((E(x) + D(x)) % 3) + ((E(y) + D(y)) % 3)) % 3
    BY <2>3, <2>5, RemainderSums
  <2>10. ExponentOver(K \cup {k}, i, z)
           = (ExponentOver(K \cup {k}, i, x) + ExponentOver(K \cup {k}, i, y)) % 3
    BY <2>4, <2>6, <2>7, <2>8, <2>9
  <2> QED
    BY <2>10
<1> HIDE DEF Good
<1>5. Vars \in Good
  BY <1>2, <1>3, <1>4, SetByElement
<1>6. \A e : ExponentOver(Vars, i, e) = Exponent(i, e)
  BY DEF ExponentOver, Exponent, ProductsAt
<1> QED
  BY <1>1, <1>5, <1>6, ExponentType DEF Good, z

-----------------------------------------------------------------------------
(* The values of sums and products                                         *)

\* The value of a sum is the sum of the values.
LEMMA EvaluateXor ==
    ASSUME NEW f \in Coeffs, NEW g \in Coeffs, NEW h \in Coeffs, NEW i \in Position,
           \A e \in Position : h[e] = Xor(f[e], g[e])
    PROVE  Evaluate(h, i) = Xor(Evaluate(f, i), Evaluate(g, i))
<1> DEFINE F == [e \in Position |-> OmegaPower(Exponent(i, e), f[e])]
           G == [e \in Position |-> OmegaPower(Exponent(i, e), g[e])]
           H == [e \in Position |-> OmegaPower(Exponent(i, e), h[e])]
<1>1. \A e \in Position : H[e] = Xor(F[e], G[e])
  <2>1. \A e \in Position : f[e] \in Block /\ g[e] \in Block
    BY DEF Coeffs
  <2> QED
    BY <2>1, OmegaPowerXor
<1>2. DOMAIN F = Position /\ DOMAIN G = Position /\ H = [e \in Position |-> H[e]]
  OBVIOUS
<1>3. Evaluate(h, i) = XorAll(H) /\ Evaluate(f, i) = XorAll(F) /\ Evaluate(g, i) = XorAll(G)
  BY DEF Evaluate
<1> HIDE DEF F, G, H
<1>4. XorAll([e \in DOMAIN F |-> Xor(F[e], G[e])]) = Xor(XorAll(F), XorAll(G))
  BY <1>2, PositionFinite, XorAllXor
<1>5. H = [e \in DOMAIN F |-> Xor(F[e], G[e])]
  BY <1>1, <1>2
<1> QED
  BY <1>3, <1>4, <1>5

\* The pairs of positions whose sum is i.
Pairs(i) == {z \in Position \X Position : Sum(z[1], z[2]) = i}

\* There are finitely many pairs of positions.
LEMMA PairsFinite ==
    /\ IsFiniteSet(Position \X Position)
    /\ \A i : IsFiniteSet(Pairs(i))
<1>1. IsFiniteSet(Position \X Position)
  BY PositionFinite, FS_Product
<1>2. ASSUME NEW i PROVE IsFiniteSet(Pairs(i))
  <2>1. Pairs(i) \in SUBSET (Position \X Position)
    BY DEF Pairs
  <2> QED
    BY <1>1, <2>1, FS_Subset
<1> QED
  BY <1>1, <1>2

\* The coefficients of a product, with those that are zero.
LEMMA ProductAll ==
    ASSUME NEW f \in Coeffs, NEW g \in Coeffs, NEW i \in Position
    PROVE  /\ Product(f, g)[i] = XorAll([z \in Pairs(i) |-> F4_mul(f[z[1]], g[z[2]])])
           /\ Product(f, g)[i] \in Block
<1> DEFINE Support(h) == {e \in Position : h[e] # Zero}
           S == {z \in Support(f) \X Support(g) : Sum(z[1], z[2]) = i}
           F == [z \in Pairs(i) |-> F4_mul(f[z[1]], g[z[2]])]
<1>1. Product(f, g)[i] = XorAll([z \in S |-> F4_mul(f[z[1]], g[z[2]])])
  BY DEF Product
<1>2. S \in SUBSET Pairs(i)
  BY DEF Pairs
<1>3. \A z \in Pairs(i) : f[z[1]] \in Block /\ g[z[2]] \in Block
  BY DEF Pairs, Coeffs
<1>4. \A z \in DOMAIN F \ S : F[z] = Zero
  <2> SUFFICES ASSUME NEW z \in Pairs(i), z \notin S PROVE F4_mul(f[z[1]], g[z[2]]) = Zero
    OBVIOUS
  <2>1. f[z[1]] = Zero \/ g[z[2]] = Zero
    BY DEF Pairs
  <2> QED
    BY <1>3, <2>1, ZeroFacts
<1>5. [z \in S |-> F4_mul(f[z[1]], g[z[2]])] = [z \in S |-> F[z]]
  BY <1>2
<1>6. DOMAIN F = Pairs(i)
  OBVIOUS
<1>7. \A z \in Pairs(i) : F[z] \in Block
  BY <1>3, F4_mulRight
<1>8. Product(f, g)[i] = XorAll([z \in S |-> F[z]])
  BY <1>1, <1>5
<1> HIDE DEF F, S
<1>9. XorAll([z \in S |-> F[z]]) = XorAll(F)
  BY <1>2, <1>4, <1>6, PairsFinite, XorAllPart
<1>10. XorAll(F) \in Block
  BY <1>6, <1>7, XorAllType
<1> QED
  BY <1>8, <1>9, <1>10 DEF F

\* A product of coefficients is one.
LEMMA ProductCoeffs ==
    ASSUME NEW f \in Coeffs, NEW g \in Coeffs
    PROVE  Product(f, g) \in Coeffs
<1>1. \A i \in Position : Product(f, g)[i] \in Block
  BY ProductAll
<1>2. Product(f, g) = [i \in Position |-> Product(f, g)[i]]
  BY DEF Product
<1> QED
  BY <1>1, <1>2 DEF Coeffs

\* The value of a product is the product of the values: the transform makes the
\* coordinate-wise product of the values out of the product of polynomials.
THEOREM ProductEvaluates ==
    ASSUME NEW f \in Coeffs, NEW g \in Coeffs, NEW i \in Position
    PROVE  Evaluate(Product(f, g), i) = F4_mul(Evaluate(f, i), Evaluate(g, i))
<1> DEFINE F == [e \in Position |-> OmegaPower(Exponent(i, e), f[e])]
           G == [e \in Position |-> OmegaPower(Exponent(i, e), g[e])]
           H == [z \in Position \X Position |-> F4_mul(F[z[1]], G[z[2]])]
           P == [e \in Position |-> OmegaPower(Exponent(i, e), Product(f, g)[e])]
           sum == [z \in Position \X Position |-> Sum(z[1], z[2])]
           Fiber(e) == {z \in DOMAIN H : sum[z] = e}
           Part(e) == [z \in Fiber(e) |-> H[z]]
<1>1. \A e \in Position : f[e] \in Block /\ g[e] \in Block
  BY DEF Coeffs
<1>2. F \in [Position -> Block] /\ G \in [Position -> Block]
  BY <1>1, OmegaPowerXor
<1>3. F4_mul(XorAll(F), XorAll(G)) = XorAll(H)
  <2> DEFINE S == Position
  <2>1. Family(S, F) /\ Family(S, G)
    BY <1>2, PositionFinite DEF Family
  <2>2. H = [z \in S \X S |-> F4_mul(F[z[1]], G[z[2]])]
    OBVIOUS
  <2> HIDE DEF F, G, H, S
  <2> QED
    BY <2>1, <2>2, MulSquares, SMTT(60)
<1>4. \A z \in Position \X Position : sum[z] \in Position
  BY ExponentSum
<1>5. XorAll(H) = XorAll([e \in Position |-> XorAll(Part(e))])
  <2> DEFINE S == Position
  <2>1. IsFiniteSet(DOMAIN H) /\ IsFiniteSet(S) /\ \A z \in DOMAIN H : sum[z] \in S
    BY <1>4, PairsFinite, PositionFinite
  <2> HIDE DEF H, sum, S
  <2>2. XorAll(H) = XorAll([e \in S |-> XorAll([z \in {y \in DOMAIN H : sum[y] = e} |-> H[z]])])
    BY <2>1, XorAllGrouped
  <2> QED
    BY <2>2 DEF S
<1>6. ASSUME NEW e \in Position PROVE XorAll(Part(e)) = P[e]
  <2> DEFINE C == [z \in Pairs(e) |-> F4_mul(f[z[1]], g[z[2]])]
             n == Exponent(i, e)
  <2>1. Fiber(e) = Pairs(e)
    BY DEF Pairs
  <2>2. C \in [Pairs(e) -> Block]
    BY <1>1, F4_mulRight DEF Pairs
  <2>3. ASSUME NEW z \in Pairs(e) PROVE H[z] = OmegaPower(n, C[z])
    <3>1. z[1] \in Position /\ z[2] \in Position /\ Sum(z[1], z[2]) = e
          /\ z \in Position \X Position
      BY DEF Pairs
    <3> DEFINE x == z[1]
               y == z[2]
    <3>2. H[z] = F4_mul(OmegaPower(Exponent(i, x), f[x]), OmegaPower(Exponent(i, y), g[y]))
      BY <3>1
    <3>3. C[z] = F4_mul(f[x], g[y])
      OBVIOUS
    <3> HIDE DEF x, y, H, C
    <3>4. x \in Position /\ y \in Position /\ Sum(x, y) = e
      BY <3>1 DEF x, y
    <3>5. Exponent(i, x) \in 0 .. 2 /\ Exponent(i, y) \in 0 .. 2
          /\ n = (Exponent(i, x) + Exponent(i, y)) % 3
      BY <3>4, ExponentSum
    <3> HIDE DEF n
    <3>6. f[x] \in Block /\ g[y] \in Block
      BY <1>1, <3>4
    <3> DEFINE n1 == Exponent(i, x)
               n2 == Exponent(i, y)
               u == f[x]
               v == g[y]
    <3>7. n1 \in 0 .. 2 /\ n2 \in 0 .. 2 /\ n = (n1 + n2) % 3
      BY <3>5
    <3>8. u \in Block /\ v \in Block
      BY <3>6
    <3>9. H[z] = F4_mul(OmegaPower(n1, u), OmegaPower(n2, v)) /\ C[z] = F4_mul(u, v)
      BY <3>2, <3>3
    <3> HIDE DEF n1, n2, u, v
    <3>10. F4_mul(OmegaPower(n1, u), OmegaPower(n2, v)) = OmegaPower(n, F4_mul(u, v))
      BY <3>7, <3>8, OmegaPowerMul
    <3> QED
      BY <3>9, <3>10
  <2>4. Part(e) = [z \in Pairs(e) |-> OmegaPower(n, C[z])]
    <3>1. Part(e) = [z \in Pairs(e) |-> H[z]]
      BY <2>1
    <3> HIDE DEF Part, H, C
    <3> QED
      BY <2>3, <3>1
  <2>5. P[e] = OmegaPower(n, Product(f, g)[e])
    OBVIOUS
  <2>6. Product(f, g)[e] = XorAll(C)
    BY ProductAll
  <2> HIDE DEF Part, P, C, n
  <2>7. OmegaPower(n, XorAll(C)) = XorAll([z \in Pairs(e) |-> OmegaPower(n, C[z])])
    BY <2>2, PairsFinite, OmegaPowerXorAll
  <2> QED
    BY <2>4, <2>5, <2>6, <2>7
<1>7. [e \in Position |-> XorAll(Part(e))] = P
  <2>1. P = [e \in Position |-> P[e]]
    OBVIOUS
  <2> HIDE DEF Part, P
  <2> QED
    BY <1>6, <2>1
<1>8. /\ Evaluate(Product(f, g), i) = XorAll(P)
      /\ Evaluate(f, i) = XorAll(F) /\ Evaluate(g, i) = XorAll(G)
  BY DEF Evaluate
<1> HIDE DEF F, G, H, P, Part
<1> QED
  BY <1>3, <1>5, <1>7, <1>8

\* The passes of foleageFft evaluate the polynomial.
THEOREM foleageFftEvaluates ==
    ASSUME NEW x \in Coeffs
    PROVE  foleageFft(x) \in Coeffs /\ \A i \in Position : foleageFft(x)[i] = Evaluate(x, i)
<1> DEFINE Step1(r, k) == IF k = 0 THEN x ELSE Pass(k, r[k - 1])
           Passes(r, m) == r = [k \in 0 .. m |-> Step1(r, k)]
           S == {m \in Nat : \E r : Passes(r, m)}
<1>1. 0 \in S
  <2> DEFINE r == [k \in 0 .. 0 |-> x]
  <2>1. Passes(r, 0)
    OBVIOUS
  <2> HIDE DEF r, Passes
  <2> QED
    BY <2>1
<1>2. ASSUME NEW m \in 0 .. NumVars - 1, m \in S PROVE m + 1 \in S
  <2>1. PICK r : Passes(r, m)
    BY <1>2
  <2> DEFINE r2 == [k \in 0 .. m + 1 |-> Step1(r, k)]
  <2>2. \A k \in 0 .. m : r2[k] = r[k]
    <3>1. \A k \in 0 .. m : r[k] = Step1(r, k) /\ k \in 0 .. m + 1
      BY <2>1
    <3> HIDE DEF Step1, Passes
    <3> QED
      BY <3>1
  <2>3. \A k \in 0 .. m + 1 : Step1(r, k) = Step1(r2, k)
    <3> SUFFICES ASSUME NEW k \in 0 .. m + 1, k # 0 PROVE r[k - 1] = r2[k - 1]
      <4> HIDE DEF r2
      <4> QED
        OBVIOUS
    <3>1. k - 1 \in 0 .. m
      OBVIOUS
    <3> HIDE DEF r2
    <3> QED
      BY <2>2, <3>1
  <2>4. Passes(r2, m + 1)
    <3> DEFINE u == r2
    <3>1. u = [k \in 0 .. m + 1 |-> Step1(r, k)] /\ \A k \in 0 .. m + 1 : Step1(r, k) = Step1(u, k)
      BY <2>3
    <3> HIDE DEF u, Step1
    <3>2. u = [k \in 0 .. m + 1 |-> Step1(u, k)]
      BY <3>1
    <3> QED
      BY <3>2 DEF u
  <2> HIDE DEF Passes, r2
  <2> QED
    BY <2>4
<1>3. NumVars \in S
  <2>1. NumVars \in 0 .. NumVars /\ NumVars \in Nat
    BY NumVarsAssumption
  <2> HIDE DEF S
  <2> QED
    BY <1>1, <1>2, <2>1, UpTo
<1> DEFINE after[k \in 0 .. NumVars] == IF k = 0 THEN x ELSE Pass(k, after[k - 1])
<1>4. Passes(after, NumVars)
  <2>1. \E r : Passes(r, NumVars)
    BY <1>3
  <2>2. after = CHOOSE r : Passes(r, NumVars)
    OBVIOUS
  <2> HIDE DEF Passes, after
  <2> QED
    BY <2>1, <2>2
<1>5. foleageFft(x) = after[NumVars]
  BY DEF foleageFft
<1> HIDE DEF after
<1> DEFINE T == {k \in Nat : Transformed(k, after[k], x)}
<1>6. 0 \in T
  <2>1. after[0] = x
    BY <1>4, NumVarsAssumption
  <2> QED
    BY <2>1, TransformedStart
<1>7. ASSUME NEW k \in 0 .. NumVars - 1, k \in T PROVE k + 1 \in T
  <2>1. k + 1 \in 0 .. NumVars /\ k + 1 # 0 /\ (k + 1) - 1 = k /\ k \in 0 .. NumVars
        /\ k # NumVars /\ k + 1 \in Nat
    BY NumVarsAssumption
  <2>2. after[k + 1] = Step1(after, k + 1)
    <3> HIDE DEF Step1
    <3> QED
      BY <1>4, <2>1
  <2>3. after[k + 1] = Pass(k + 1, after[k])
    BY <2>1, <2>2
  <2> HIDE DEF Passes
  <2> QED
    BY <1>7, <2>1, <2>3, TransformedPass
<1>8. NumVars \in T
  <2>1. NumVars \in 0 .. NumVars /\ NumVars \in Nat
    BY NumVarsAssumption
  <2> HIDE DEF T
  <2> QED
    BY <1>6, <1>7, <2>1, UpTo
<1>9. Transformed(NumVars, foleageFft(x), x)
  BY <1>5, <1>8
<1> QED
  BY <1>9, TransformedEnd DEF Transformed

-----------------------------------------------------------------------------
(* The calls and the pairs of polynomials                                  *)

Calls == NumPolys * NumPolys

\* The number of calls, and the polynomials of each.
LEMMA CallsType ==
    /\ NumPolys \in Nat /\ NumPolys > 0
    /\ Calls \in Nat /\ Calls > 0
    /\ Cross = 0 .. Calls - 1
    /\ Index = 0 .. NumPolys - 1
<1>1. NumPolys \in Nat /\ NumPolys > 0
  BY OleAssumption
<1>2. NumPolys * NumPolys \in Nat
  BY <1>1
<1>3. NumPolys * NumPolys > 0
  BY <1>1
<1> QED
  BY <1>1, <1>2, <1>3 DEF Calls, Cross, Index

\* A larger quotient is at least a divisor more.
LEMMA QuotientStep ==
    ASSUME NEW n \in Nat, NEW q \in Nat, NEW r \in Nat, q < r
    PROVE  n * q \in Nat /\ n * r \in Nat /\ n * r >= n * q + n
<1>1. PICK d \in Nat : r = q + 1 + d
  <2>1. r - q - 1 \in Nat /\ r = q + 1 + (r - q - 1)
    OBVIOUS
  <2> QED
    BY <2>1
<1>2. n * r = n * q + n + n * d
  BY <1>1
<1>3. n * q \in Nat /\ n * d \in Nat /\ n * r \in Nat
  OBVIOUS
<1> QED
  BY <1>2, <1>3

\* Quotient and remainder.
LEMMA Quotient ==
    ASSUME NEW j \in Nat, NEW n \in Nat, n > 0
    PROVE  /\ j \div n \in Nat /\ j % n \in 0 .. n - 1
           /\ j = n * (j \div n) + (j % n)
OBVIOUS

\* Quotient and remainder are the only ones.
LEMMA QuotientUnique ==
    ASSUME NEW n \in Nat, NEW q \in Nat, NEW r \in Nat, NEW u \in 0 .. n - 1, NEW v \in 0 .. n - 1,
           n * q + u = n * r + v
    PROVE  q = r /\ u = v
<1>1. n * q \in Nat /\ n * r \in Nat
  OBVIOUS
<1>2. ~(q < r)
  <2> SUFFICES ASSUME q < r PROVE FALSE
    OBVIOUS
  <2>1. n * r >= n * q + n
    BY QuotientStep
  <2> DEFINE y == n * q
             z == n * r
  <2>2. y \in Nat /\ z \in Nat /\ z >= y + n /\ y + u = z + v
    BY <1>1, <2>1
  <2> HIDE DEF y, z
  <2> QED
    BY <2>2
<1>3. ~(r < q)
  <2> SUFFICES ASSUME r < q PROVE FALSE
    OBVIOUS
  <2>1. n * q >= n * r + n
    BY QuotientStep
  <2> DEFINE y == n * q
             z == n * r
  <2>2. y \in Nat /\ z \in Nat /\ y >= z + n /\ y + u = z + v
    BY <1>1, <2>1
  <2> HIDE DEF y, z
  <2> QED
    BY <2>2
<1>4. q = r
  BY <1>2, <1>3
<1> QED
  BY <1>1, <1>4

\* Each call is for one pair of polynomials, and each pair has one call.
LEMMA CallsArePairs ==
    /\ \A j \in Cross : j \div NumPolys \in Index /\ j % NumPolys \in Index
    /\ [j \in Cross |-> <<j \div NumPolys, j % NumPolys>>] \in Bijection(Cross, Index \X Index)
    /\ IsFiniteSet(Cross) /\ IsFiniteSet(Index)
<1> DEFINE N == NumPolys
           m == [j \in Cross |-> <<j \div N, j % N>>]
<1>1. N \in Nat /\ N > 0 /\ Cross = 0 .. N * N - 1 /\ Index = 0 .. N - 1 /\ N * N \in Nat
  BY CallsType DEF Calls
<1> HIDE DEF N
<1>2. ASSUME NEW j \in Cross
      PROVE  /\ j \div N \in Nat /\ j % N \in 0 .. N - 1
             /\ j = N * (j \div N) + (j % N)
  <2>1. j \in Nat
    BY <1>1
  <2> QED
    BY <1>1, <2>1, Quotient
<1>3. ASSUME NEW j \in Cross PROVE j \div N \in 0 .. N - 1
  <2> DEFINE q == j \div N
             r == j % N
             t == N * q
             n2 == N * N
  <2>1. q \in Nat /\ r \in 0 .. N - 1 /\ j = t + r /\ t \in Nat
    BY <1>1, <1>2
  <2>2. j < n2 /\ n2 \in Nat /\ j \in Nat
    BY <1>1
  <2>3. ASSUME N <= q PROVE FALSE
    <3>1. t >= n2
      <4> HIDE DEF q
      <4>1. CASE N = q
        BY <4>1, <1>1, <2>1
      <4>2. CASE N < q
        <5>1. N * q >= N * N + N
          BY <1>1, <2>1, <4>2, QuotientStep
        <5> QED
          BY <5>1, <1>1, <2>1, <2>2
      <4> QED
        BY <1>1, <2>1, <2>3, <4>1, <4>2
    <3> HIDE DEF t, n2, q, r
    <3> QED
      BY <2>1, <2>2, <3>1
  <2> HIDE DEF q
  <2>4. q < N
    BY <1>1, <2>1, <2>3
  <2> QED
    BY <1>1, <2>1, <2>4 DEF q
<1>4. m \in [Cross -> Index \X Index]
  BY <1>1, <1>2, <1>3
<1>5. ASSUME NEW j \in Cross, NEW k \in Cross, m[j] = m[k] PROVE j = k
  <2>1. j \div N = k \div N /\ j % N = k % N
    BY <1>5
  <2> QED
    BY <1>2, <2>1
<1>6. ASSUME NEW x \in Index \X Index PROVE \E j \in Cross : m[j] = x
  <2> DEFINE q == x[1]
             r == x[2]
             j == N * q + r
  <2>1. q \in 0 .. N - 1 /\ r \in 0 .. N - 1 /\ q \in Nat /\ r \in Nat /\ x = <<q, r>>
    BY <1>1
  <2>2. N * q \in Nat /\ N * N >= N * q + N
    <3> HIDE DEF q
    <3>1. q < N
      BY <1>1, <2>1
    <3> QED
      BY <1>1, <2>1, <3>1, QuotientStep
  <2>3. j \in Cross /\ j \in Nat
    <3> DEFINE t == N * q
               n2 == N * N
    <3>1. t \in Nat /\ n2 >= t + N /\ n2 \in Nat /\ j = t + r /\ Cross = 0 .. n2 - 1
      BY <1>1, <2>2
    <3> HIDE DEF t, n2, q, r, j
    <3> QED
      BY <1>1, <2>1, <3>1
  <2>4. /\ j \div N \in Nat /\ j % N \in 0 .. N - 1
        /\ j = N * (j \div N) + (j % N)
    BY <1>2, <2>3
  <2>5. j \div N = q /\ j % N = r
    <3> DEFINE q2 == j \div N
               r2 == j % N
    <3>1. N * q2 + r2 = N * q + r /\ q2 \in Nat /\ r2 \in 0 .. N - 1
      BY <2>4
    <3> HIDE DEF q, r, q2, r2, j
    <3>2. q2 = q /\ r2 = r
      BY <1>1, <2>1, <3>1, QuotientUnique
    <3> QED
      BY <3>2 DEF q2, r2
  <2>6. m[j] = x
    <3> HIDE DEF j, q, r
    <3> QED
      BY <2>1, <2>3, <2>5
  <2> QED
    BY <2>3, <2>6
<1>7. m \in Bijection(Cross, Index \X Index)
  <2> HIDE DEF m
  <2> QED
    BY <1>4, <1>5, <1>6 DEF Bijection, Injection, Surjection, IsInjective
<1>8. IsFiniteSet(Cross) /\ IsFiniteSet(Index)
  <2>1. 0 \in Int /\ N - 1 \in Int /\ N * N - 1 \in Int
    BY <1>1
  <2> QED
    BY <1>1, <2>1, FS_Interval
<1> QED
  BY <1>1, <1>2, <1>3, <1>7, <1>8 DEF N

-----------------------------------------------------------------------------
(* Positions, their blocks and their points                                *)

Low == Vars \ High

\* The position with the block b and the point y.
Joined(b, y) == [d \in Vars |-> IF d \in High THEN b[d] ELSE y[d]]

\* A position is its block and its point.
LEMMA JoinedFacts ==
    /\ High \in SUBSET Vars /\ Low \in SUBSET Vars
    /\ Block3 = [High -> 0 .. 2] /\ Domain = [Low -> 0 .. 2]
    /\ \A b \in Block3, y \in Domain :
          /\ Joined(b, y) \in Position
          /\ Restricted(Joined(b, y), High) = b
          /\ Restricted(Joined(b, y), Low) = y
    /\ \A i \in Position :
          /\ Restricted(i, High) \in Block3
          /\ Restricted(i, Low) \in Domain
          /\ Joined(Restricted(i, High), Restricted(i, Low)) = i
<1>1. High \in SUBSET Vars /\ Low \in SUBSET Vars
  <2>1. BlockLength \in 1 .. NumVars - 1
    BY OleAssumption
  <2> QED
    BY <2>1, NumVarsAssumption DEF High, Low, Vars
<1>2. Block3 = [High -> 0 .. 2] /\ Domain = [Low -> 0 .. 2] /\ Position = [Vars -> 0 .. 2]
  BY DEF Block3, Domain, Low, Position
<1>3. \A d : d \in Low <=> d \in Vars /\ d \notin High
  BY DEF Low
<1> HIDE DEF Low
<1>4. ASSUME NEW b \in Block3, NEW y \in Domain
      PROVE  /\ Joined(b, y) \in Position
             /\ Restricted(Joined(b, y), High) = b
             /\ Restricted(Joined(b, y), Low) = y
  <2>1. \A d \in Vars : (IF d \in High THEN b[d] ELSE y[d]) \in 0 .. 2
    BY <1>2, <1>3
  <2>2. Joined(b, y) \in Position
    BY <1>2, <2>1 DEF Joined
  <2>3. /\ \A d \in High : Joined(b, y)[d] = b[d]
        /\ \A d \in Low : Joined(b, y)[d] = y[d]
    BY <1>1, <1>3 DEF Joined
  <2>4. b = [d \in High |-> b[d]] /\ y = [d \in Low |-> y[d]]
    BY <1>2
  <2> QED
    BY <2>2, <2>3, <2>4 DEF Restricted
<1>5. ASSUME NEW i \in Position
      PROVE  /\ Restricted(i, High) \in Block3
             /\ Restricted(i, Low) \in Domain
             /\ Joined(Restricted(i, High), Restricted(i, Low)) = i
  <2>1. i = [d \in Vars |-> i[d]] /\ \A d \in Vars : i[d] \in 0 .. 2
    BY <1>2
  <2>2. /\ Restricted(i, High) \in Block3 /\ \A d \in High : Restricted(i, High)[d] = i[d]
        /\ Restricted(i, Low) \in Domain /\ \A d \in Low : Restricted(i, Low)[d] = i[d]
    BY <1>1, <1>2, <2>1 DEF Restricted
  <2> DEFINE b == Restricted(i, High)
             y == Restricted(i, Low)
  <2>3. \A d \in Vars : (IF d \in High THEN b[d] ELSE y[d]) = i[d]
    BY <1>3, <2>2
  <2> HIDE DEF b, y
  <2>4. Joined(b, y) = i
    BY <2>1, <2>3 DEF Joined
  <2> QED
    BY <2>2, <2>4 DEF b, y
<1> QED
  BY <1>1, <1>2, <1>4, <1>5

\* The digits of a sum in K are the sum of those of its terms.
LEMMA SumOfParts ==
    ASSUME NEW x \in Position, NEW y \in Position, NEW K \in SUBSET Vars
    PROVE  Restricted(Sum(x, y), K) = Sum(Restricted(x, K), Restricted(y, K))
<1>1. DOMAIN x = Vars /\ DOMAIN y = Vars
  BY DEF Position
<1>2. Sum(x, y) = [d \in Vars |-> (x[d] + y[d]) % 3]
  BY <1>1 DEF Sum
<1>3. Sum(Restricted(x, K), Restricted(y, K)) = [d \in K |-> (x[d] + y[d]) % 3]
  BY DEF Sum, Restricted
<1> QED
  BY <1>2, <1>3 DEF Restricted

\* The position of the term of a polynomial in a block.
TermAt(p, k, b) == Joined(b, poly[p][k][b].at)

PolysTyped == poly \in [Party -> [Index -> [Block3 -> Term]]]

\* The terms of a polynomial.
LEMMA TermFacts ==
    ASSUME PolysTyped, NEW p \in Party, NEW k \in Index, NEW b \in Block3
    PROVE  /\ poly[p][k][b].at \in Domain /\ poly[p][k][b].coeff \in Block
           /\ TermAt(p, k, b) \in Position
           /\ Restricted(TermAt(p, k, b), High) = b
           /\ Restricted(TermAt(p, k, b), Low) = poly[p][k][b].at
<1>1. poly[p][k][b] \in Term
  BY DEF PolysTyped
<1>2. poly[p][k][b].at \in Domain /\ poly[p][k][b].coeff \in Block
  BY <1>1 DEF Term
<1> QED
  BY <1>2, JoinedFacts DEF TermAt

\* A polynomial has its terms' coefficients at their positions, and zero elsewhere.
LEMMA DenseFacts ==
    ASSUME PolysTyped, NEW p \in Party, NEW k \in Index
    PROVE  /\ Dense(p, k) \in Coeffs
           /\ \A b \in Block3 : Dense(p, k)[TermAt(p, k, b)] = poly[p][k][b].coeff
           /\ \A i \in Position :
                 Dense(p, k)[i] # Zero => i = TermAt(p, k, Restricted(i, High))
<1> DEFINE At(i) == poly[p][k][Restricted(i, High)]
<1>1. \A i \in Position : Dense(p, k)[i] = IF Restricted(i, Low) = At(i).at THEN At(i).coeff ELSE Zero
  BY DEF Dense, Low
<1>2. \A i \in Position : At(i).coeff \in Block
  BY JoinedFacts, TermFacts
<1>3. \A i \in Position : Dense(p, k)[i] \in Block
  BY <1>1, <1>2, ZeroFacts
<1>4. Dense(p, k) \in Coeffs
  <2>1. Dense(p, k) = [i \in Position |-> Dense(p, k)[i]]
    BY DEF Dense
  <2> QED
    BY <1>3, <2>1 DEF Coeffs
<1>5. ASSUME NEW b \in Block3 PROVE Dense(p, k)[TermAt(p, k, b)] = poly[p][k][b].coeff
  BY <1>1, TermFacts
<1>6. ASSUME NEW i \in Position, Dense(p, k)[i] # Zero
      PROVE  i = TermAt(p, k, Restricted(i, High))
  <2>1. Restricted(i, Low) = At(i).at
    BY <1>1, <1>6
  <2> QED
    BY <2>1, JoinedFacts DEF TermAt
<1> QED
  BY <1>4, <1>5, <1>6

-----------------------------------------------------------------------------
(* What the trees of a call share                                          *)

ProductOf(j) == Product(Dense(0, j \div NumPolys), Dense(1, j % NumPolys))

\* The trees that are added to the block of i, and what they share at its point.
TreesAt(i) == {x \in Tree : BlockOf(x) = Restricted(i, High)}
SharedAt(i, x) == IF Restricted(i, Low) = PointOf(x) THEN ValueOf(x) ELSE Zero

\* There are finitely many trees.
LEMMA TreesFinite ==
    /\ IsFiniteSet(Tree)
    /\ \A i : TreesAt(i) \in SUBSET Tree /\ IsFiniteSet(TreesAt(i))
<1> DEFINE y0 == [d \in Low |-> 0]
           m == [b \in Block3 |-> Joined(b, y0)]
<1>1. y0 \in Domain
  BY JoinedFacts
<1> HIDE DEF y0
<1>2. m \in Injection(Block3, Position)
  <2>1. m \in [Block3 -> Position]
    BY <1>1, JoinedFacts
  <2>2. ASSUME NEW b \in Block3, NEW c \in Block3, m[b] = m[c] PROVE b = c
    <3>1. Joined(b, y0) = Joined(c, y0)
      BY <2>2
    <3>2. Restricted(Joined(b, y0), High) = b /\ Restricted(Joined(c, y0), High) = c
      BY <1>1, JoinedFacts
    <3> QED
      BY <3>1, <3>2
  <2> HIDE DEF m
  <2> QED
    BY <2>1, <2>2 DEF Injection, IsInjective
<1>3. IsFiniteSet(Block3)
  <2> HIDE DEF m
  <2> QED
    BY <1>2, PositionFinite, FS_Injection
<1>4. IsFiniteSet(Tree)
  BY <1>3, FS_Product DEF Tree
<1>5. ASSUME NEW i PROVE TreesAt(i) \in SUBSET Tree /\ IsFiniteSet(TreesAt(i))
  <2>1. TreesAt(i) \in SUBSET Tree
    BY DEF TreesAt
  <2> QED
    BY <1>4, <2>1, FS_Subset
<1> QED
  BY <1>4, <1>5

\* The trees that are added to a block share the coefficients of the product of the two
\* polynomials: each pair of terms whose positions add up to i is one tree.
LEMMA TreesShareProduct ==
    ASSUME PolysTyped, running \in Cross, NEW i \in Position
    PROVE  XorAll([x \in TreesAt(i) |-> SharedAt(i, x)]) = ProductOf(running)[i]
<1> DEFINE f == Dense(0, First)
           g == Dense(1, Second)
           A(b) == TermAt(0, First, b)
           B(b) == TermAt(1, Second, b)
           G == [x \in TreesAt(i) |-> SharedAt(i, x)]
           H == {x \in TreesAt(i) : Restricted(i, Low) = PointOf(x)}
           V == [x \in H |-> ValueOf(x)]
           C == [z \in Pairs(i) |-> F4_mul(f[z[1]], g[z[2]])]
           Z == {z \in Pairs(i) : /\ z[1] = A(Restricted(z[1], High))
                                  /\ z[2] = B(Restricted(z[2], High))}
           D == [z \in Z |-> C[z]]
           m == [x \in H |-> <<A(x[1]), B(x[2])>>]
<1>1. First \in Index /\ Second \in Index /\ 0 \in Party /\ 1 \in Party
  BY CallsArePairs DEF First, Second, Party
<1>2. /\ f \in Coeffs /\ g \in Coeffs
      /\ \A b \in Block3 : f[A(b)] = poly[0][First][b].coeff /\ g[B(b)] = poly[1][Second][b].coeff
      /\ \A e \in Position : /\ f[e] # Zero => e = A(Restricted(e, High))
                             /\ g[e] # Zero => e = B(Restricted(e, High))
  BY <1>1, DenseFacts
<1>3. \A b \in Block3 :
         /\ A(b) \in Position /\ Restricted(A(b), High) = b
         /\ Restricted(A(b), Low) = poly[0][First][b].at
         /\ B(b) \in Position /\ Restricted(B(b), High) = b
         /\ Restricted(B(b), Low) = poly[1][Second][b].at
  BY <1>1, TermFacts
<1> HIDE DEF f, g, A, B
<1>4. XorAll(V) = XorAll(G)
  <2>1. DOMAIN G = TreesAt(i) /\ \A x \in DOMAIN G \ H : G[x] = Zero
    BY DEF SharedAt
  <2>2. [x \in H |-> G[x]] = V
    BY DEF SharedAt
  <2>3. H \in SUBSET TreesAt(i)
    OBVIOUS
  <2> HIDE DEF G, H, V
  <2>4. XorAll([x \in H |-> G[x]]) = XorAll(G)
    BY <2>1, <2>3, TreesFinite, XorAllPart
  <2> QED
    BY <2>2, <2>4
<1>5. XorAll(D) = XorAll(C)
  <2>1. DOMAIN C = Pairs(i)
    OBVIOUS
  <2>2. Z \in SUBSET Pairs(i)
    OBVIOUS
  <2>3. ASSUME NEW z \in Pairs(i), z \notin Z PROVE F4_mul(f[z[1]], g[z[2]]) = Zero
    <3>1. z[1] \in Position /\ z[2] \in Position
      BY DEF Pairs
    <3>2. f[z[1]] = Zero \/ g[z[2]] = Zero
      BY <1>2, <2>3, <3>1
    <3>3. f[z[1]] \in Block /\ g[z[2]] \in Block
      BY <1>2, <3>1 DEF Coeffs
    <3> QED
      BY <3>2, <3>3, ZeroFacts
  <2>4. \A z \in DOMAIN C \ Z : C[z] = Zero
    BY <2>1, <2>3
  <2> HIDE DEF C, Z
  <2> QED
    BY <2>1, <2>2, <2>4, PairsFinite, XorAllPart
<1>6. ASSUME NEW x \in Tree
      PROVE  /\ x[1] \in Block3 /\ x[2] \in Block3 /\ x = <<x[1], x[2]>>
             /\ Sum(A(x[1]), B(x[2])) \in Position
             /\ Restricted(Sum(A(x[1]), B(x[2])), High) = BlockOf(x)
             /\ Restricted(Sum(A(x[1]), B(x[2])), Low) = PointOf(x)
  <2>1. x[1] \in Block3 /\ x[2] \in Block3 /\ x = <<x[1], x[2]>>
    BY DEF Tree
  <2>2. A(x[1]) \in Position /\ B(x[2]) \in Position
    BY <1>3, <2>1
  <2>3. Sum(A(x[1]), B(x[2])) \in Position
    BY <2>2, ExponentSum
  <2>4. \A K \in SUBSET Vars : Restricted(Sum(A(x[1]), B(x[2])), K)
                                = Sum(Restricted(A(x[1]), K), Restricted(B(x[2]), K))
    BY <2>2, SumOfParts
  <2>5. High \in SUBSET Vars /\ Low \in SUBSET Vars
    BY JoinedFacts
  <2> QED
    BY <1>3, <2>1, <2>3, <2>4, <2>5 DEF BlockOf, PointOf
<1>7. m \in Bijection(H, Z)
  <2>1. ASSUME NEW x \in H PROVE <<A(x[1]), B(x[2])>> \in Z
    <3>1. x \in Tree /\ BlockOf(x) = Restricted(i, High) /\ PointOf(x) = Restricted(i, Low)
      BY DEF TreesAt
    <3> DEFINE w == Sum(A(x[1]), B(x[2]))
    <3>2. /\ w \in Position /\ Restricted(w, High) = Restricted(i, High)
          /\ Restricted(w, Low) = Restricted(i, Low)
          /\ x[1] \in Block3 /\ x[2] \in Block3
      BY <1>6, <3>1
    <3>3. w = i
      <4> HIDE DEF w
      <4> QED
        BY <3>2, JoinedFacts
    <3>4. <<A(x[1]), B(x[2])>> \in Pairs(i)
      BY <1>3, <3>2, <3>3 DEF Pairs
    <3> QED
      BY <1>3, <3>2, <3>4
  <2>2. ASSUME NEW x \in H, NEW y \in H, m[x] = m[y] PROVE x = y
    <3>1. x \in Tree /\ y \in Tree
      BY DEF TreesAt
    <3>2. A(x[1]) = A(y[1]) /\ B(x[2]) = B(y[2])
      BY <2>2
    <3>3. /\ x[1] \in Block3 /\ x[2] \in Block3 /\ x = <<x[1], x[2]>>
          /\ y[1] \in Block3 /\ y[2] \in Block3 /\ y = <<y[1], y[2]>>
      BY <1>6, <3>1
    <3>4. x[1] = y[1] /\ x[2] = y[2]
      BY <1>3, <3>2, <3>3
    <3> QED
      BY <3>3, <3>4
  <2>3. ASSUME NEW z \in Z PROVE \E x \in H : m[x] = z
    <3> DEFINE x == <<Restricted(z[1], High), Restricted(z[2], High)>>
    <3>1. z[1] \in Position /\ z[2] \in Position /\ Sum(z[1], z[2]) = i /\ z = <<z[1], z[2]>>
      BY DEF Pairs
    <3>2. x \in Tree
      BY <3>1, JoinedFacts DEF Tree
    <3>3. A(x[1]) = z[1] /\ B(x[2]) = z[2]
      OBVIOUS
    <3> HIDE DEF x
    <3>4. BlockOf(x) = Restricted(i, High) /\ PointOf(x) = Restricted(i, Low)
      BY <1>6, <3>1, <3>2, <3>3
    <3>5. x \in H
      BY <3>2, <3>4 DEF TreesAt
    <3> QED
      BY <3>1, <3>3, <3>5
  <2>4. m \in [H -> Z]
    BY <2>1
  <2> HIDE DEF m, H, Z
  <2> QED
    BY <2>2, <2>3, <2>4 DEF Bijection, Injection, Surjection, IsInjective
<1>8. ASSUME NEW x \in H PROVE V[x] = D[m[x]]
  <2>1. x \in Tree
    BY DEF TreesAt
  <2>2. x[1] \in Block3 /\ x[2] \in Block3
    BY <1>6, <2>1
  <2>3. m[x] \in Z /\ m[x] = <<A(x[1]), B(x[2])>>
    BY <1>7 DEF Bijection, Injection
  <2>4. D[m[x]] = F4_mul(f[A(x[1])], g[B(x[2])])
    BY <2>3
  <2> QED
    BY <1>2, <2>2, <2>4 DEF ValueOf
<1>9. XorAll(V) = XorAll(D)
  <2>1. DOMAIN V = H /\ DOMAIN D = Z
    OBVIOUS
  <2>2. H \in SUBSET TreesAt(i)
    OBVIOUS
  <2> HIDE DEF V, D, H, Z, m
  <2>3. IsFiniteSet(H)
    BY <2>2, TreesFinite, FS_Subset
  <2> QED
    BY <1>7, <1>8, <2>1, <2>3, XorAllMoved
<1>10. ProductOf(running)[i] = XorAll(C)
  <2>1. ProductOf(running) = Product(f, g)
    BY DEF ProductOf, First, Second, f, g
  <2> QED
    BY <1>2, <2>1, ProductAll
<1> HIDE DEF V, D, G, C
<1>11. XorAll(G) = ProductOf(running)[i]
  BY <1>4, <1>5, <1>9, <1>10
<1> QED
  BY <1>11 DEF G

-----------------------------------------------------------------------------
(* The inductive invariant                                                 *)

Expanding == thread = [p \in Party |-> "expand"] /\ running < Calls
Adding == thread \in [Party -> {"add", "added"}] /\ running < Calls
Ending == thread \in [Party -> {"transform", "combine", "combined"}] /\ running = Calls

Typed ==
    /\ PolysTyped
    /\ factor \in [Index -> Coeffs]
    /\ s \in [Party -> [Index -> Coeffs]]
    /\ cross \in [Party -> [Cross -> Coeffs]]
    /\ running \in Nat
    /\ Expanding \/ Adding \/ Ending
    /\ additive \in [Party -> Coeffs]
    /\ ole \in [Party -> Coeffs]

\* The parties' outputs are shares of the point functions of all trees.
OutputsShared ==
    Adding =>
        /\ output \in [Party -> [Tree -> [Domain -> Block]]]
        /\ \A x \in Tree, y \in Domain :
              Xor(output[0][x][y], output[1][x][y])
                = IF y = PointOf(x) THEN ValueOf(x) ELSE Zero

\* What a party adds to its cross term for position i.
AddedAt(p, i) == [x \in TreesAt(i) |-> output[p][x][Restricted(i, Low)]]

\* The cross terms of the calls to come are zero, that of the running call until the
\* party has added to it.
CrossToCome ==
    \A p \in Party, j \in Cross :
        (j > running \/ (j = running /\ thread[p] # "added")) => cross[p][j] = ZeroCoeffs

\* What the party has added to that of the running call.
CrossAdded ==
    \A p \in Party :
        thread[p] = "added" =>
            \A i \in Position : cross[p][running][i] = XorAll(AddedAt(p, i))

Late(p) == thread[p] \in {"combine", "combined"}

\* The values of a party's cross term, which it may have transformed or not.
CrossValue(p, j, i) == IF Late(p) THEN cross[p][j][i] ELSE Evaluate(cross[p][j], i)

\* The values of the cross terms of the earlier calls are shares of those of the product.
ValuesShared ==
    \A j \in Cross :
        j < running =>
            \A i \in Position :
                Xor(CrossValue(0, j, i), CrossValue(1, j, i)) = Evaluate(ProductOf(j), i)

\* A party's polynomials, or their values.
PolysKept ==
    \A p \in Party, k \in Index :
        /\ ~Late(p) => s[p][k] = Dense(p, k)
        /\ Late(p) => \A i \in Position : s[p][k][i] = Evaluate(Dense(p, k), i)

WeighedCross(p, i) == [j \in Cross |-> F4_mul(a_cross(j, i), cross[p][j][i])]
WeighedPolys(p, i) == [k \in Index |-> F4_mul(factor[k][i], s[p][k][i])]

\* What a party has combined.
SumsCombined ==
    \A p \in Party :
        thread[p] = "combined" =>
            \A i \in Position : /\ additive[p][i] = XorAll(WeighedCross(p, i))
                                /\ ole[p][i] = XorAll(WeighedPolys(p, i))

OInv ==
    /\ Typed
    /\ OutputsShared
    /\ CrossToCome
    /\ CrossAdded
    /\ CrossTermsShared
    /\ ValuesShared
    /\ PolysKept
    /\ SumsCombined

\* Zero everywhere is a polynomial.
LEMMA ZeroCoeffsType == ZeroCoeffs \in Coeffs /\ \A i \in Position : ZeroCoeffs[i] = Zero
BY ZeroFacts DEF ZeroCoeffs, Coeffs

\* The invariant holds at the start.
LEMMA OInvInit == OleInit => OInv
<1> SUFFICES ASSUME OleInit PROVE OInv
  OBVIOUS
<1>1. PolysTyped /\ factor \in [Index -> Coeffs]
  BY OleAssumption DEF OleInit, PolysTyped
<1>2. Expanding /\ running = 0
  BY CallsType DEF OleInit, Expanding
<1>3. \A p \in Party : thread[p] = "expand"
  BY DEF OleInit
<1>4. s \in [Party -> [Index -> Coeffs]] /\ \A p \in Party, k \in Index : s[p][k] = Dense(p, k)
  BY <1>1, DenseFacts DEF OleInit
<1>5. cross \in [Party -> [Cross -> Coeffs]]
      /\ \A p \in Party, j \in Cross : cross[p][j] = ZeroCoeffs
  BY ZeroCoeffsType DEF OleInit
<1>6. additive \in [Party -> Coeffs] /\ ole \in [Party -> Coeffs]
  BY ZeroCoeffsType DEF OleInit
<1>7. Typed
  BY <1>1, <1>2, <1>4, <1>5, <1>6 DEF Typed
<1>8. ~Adding
  BY <1>3 DEF Adding, Party
<1>9. \A p \in Party : ~Late(p) /\ thread[p] # "added" /\ thread[p] # "combined"
  BY <1>3 DEF Late
<1>10. \A j \in Cross : ~(j < running)
  BY <1>2, CallsType
<1> QED
  BY <1>4, <1>5, <1>7, <1>8, <1>9, <1>10
     DEF OInv, OutputsShared, CrossToCome, CrossAdded, CrossTermsShared, ValuesShared,
         PolysKept, SumsCombined

-----------------------------------------------------------------------------
(* The steps                                                               *)

\* What is defined by the inputs alone stays.
LEMMA InputsKept ==
    ASSUME UNCHANGED oleInputs
    PROVE  /\ poly' = poly /\ factor' = factor
           /\ \A p, k : Dense(p, k)' = Dense(p, k)
           /\ \A j : ProductOf(j)' = ProductOf(j)
           /\ \A j, i : a_cross(j, i)' = a_cross(j, i)
<1>1. poly' = poly /\ factor' = factor
  BY DEF oleInputs
<1>2. \A p, k : Dense(p, k)' = Dense(p, k)
  BY <1>1 DEF Dense
<1>3. \A j : ProductOf(j)' = ProductOf(j)
  BY <1>1 DEF ProductOf, Dense
<1>4. \A j, i : a_cross(j, i)' = a_cross(j, i)
  BY <1>1 DEF a_cross
<1> QED
  BY <1>1, <1>2, <1>3, <1>4

\* The points and values of the trees are typed.
LEMMA TreeValues ==
    ASSUME PolysTyped, running \in Cross, NEW x \in Tree
    PROVE  PointOf(x) \in Domain /\ ValueOf(x) \in Block
<1>1. First \in Index /\ Second \in Index /\ 0 \in Party /\ 1 \in Party
  BY CallsArePairs DEF First, Second, Party
<1>2. x[1] \in Block3 /\ x[2] \in Block3
  BY DEF Tree
<1>3. /\ poly[0][First][x[1]].at \in Domain /\ poly[1][Second][x[2]].at \in Domain
      /\ poly[0][First][x[1]].coeff \in Block /\ poly[1][Second][x[2]].coeff \in Block
  BY <1>1, <1>2, TermFacts
<1>4. ValueOf(x) \in Block
  BY <1>3, F4_mulRight DEF ValueOf
<1>5. PointOf(x) \in Domain
  BY <1>3, SumType, JoinedFacts DEF PointOf
<1> QED
  BY <1>4, <1>5

\* A running call is one.
LEMMA RunningCall ==
    ASSUME running \in Nat, running < Calls
    PROVE  running \in Cross
BY CallsType

\* Expanding keeps the invariant.
LEMMA OInvExpand == OInv /\ Expand => OInv'
<1> SUFFICES ASSUME OInv, Expand PROVE OInv'
  OBVIOUS
<1>1. UNCHANGED <<oleInputs, s, cross, running, additive, ole>>
  BY DEF Expand
<1>2. running < Calls
  BY DEF Expand, Calls
<1>3. Typed
  BY DEF OInv
<1>4. running \in Cross
  BY <1>2, <1>3, RunningCall DEF Typed
<1>5. thread = [p \in Party |-> "expand"] /\ thread' = [p \in Party |-> "add"]
  BY DEF Expand
<1>6. Adding'
  BY <1>1, <1>2, <1>5 DEF Adding, Calls
<1>7. Typed'
  BY <1>1, <1>3, <1>6 DEF Typed, PolysTyped, oleInputs
<1>8. OutputsShared'
  <2>1. PICK first \in Outputs :
          output' = [p \in Party |->
              IF p = 0 THEN first
              ELSE [x \in Tree |-> [y \in Domain |->
                        Xor(first[x][y], IF y = PointOf(x) THEN ValueOf(x) ELSE Zero)]]]
    BY DEF Expand
  <2> DEFINE V(x, y) == IF y = PointOf(x) THEN ValueOf(x) ELSE Zero
             second == [x \in Tree |-> [y \in Domain |-> Xor(first[x][y], V(x, y))]]
  <2>2. first \in [Tree -> [Domain -> Block]]
    BY OleAssumption
  <2>3. \A x \in Tree, y \in Domain : V(x, y) \in Block
    BY <1>3, <1>4, TreeValues, ZeroFacts DEF Typed
  <2>4. output' = [p \in Party |-> IF p = 0 THEN first ELSE second]
    BY <2>1
  <2>5. \A x \in Tree : PointOf(x)' = PointOf(x) /\ ValueOf(x)' = ValueOf(x)
    BY <1>1 DEF PointOf, ValueOf, First, Second, oleInputs
  <2>6. \A x \in Tree, y \in Domain : V(x, y)' = V(x, y)
    BY <2>5
  <2> HIDE DEF V
  <2>7. \A x \in Tree, y \in Domain : Xor(first[x][y], V(x, y)) \in Block
    BY <2>2, <2>3, BlockXor
  <2>8. second \in [Tree -> [Domain -> Block]]
    BY <2>7
  <2>9. \A x \in Tree, y \in Domain : second[x][y] = Xor(first[x][y], V(x, y))
    OBVIOUS
  <2> HIDE DEF second
  <2>10. output' \in [Party -> [Tree -> [Domain -> Block]]] /\ output'[0] = first /\ output'[1] = second
    BY <2>2, <2>4, <2>8 DEF Party
  <2>11. \A x \in Tree, y \in Domain : Xor(output'[0][x][y], output'[1][x][y]) = V(x, y)'
    BY <2>6, <2>9, <2>10, XorCancel
  <2> QED
    BY <2>10, <2>11 DEF OutputsShared, V
<1>9. \A p \in Party : /\ thread[p] = "expand" /\ thread'[p] = "add"
                       /\ ~Late(p) /\ ~Late(p)'
  BY <1>5 DEF Late
<1>10. CrossToCome' /\ CrossAdded'
  BY <1>1, <1>9 DEF OInv, CrossToCome, CrossAdded
<1>11. CrossTermsShared'
  <2>1. Untransformed
    BY <1>9 DEF Untransformed, Late
  <2> QED
    BY <1>1, <2>1 DEF OInv, CrossTermsShared, Dense, oleInputs
<1>12. ValuesShared'
  <2>1. \A j \in Cross, i \in Position, p \in Party : CrossValue(p, j, i)' = CrossValue(p, j, i)
    BY <1>1, <1>9 DEF CrossValue
  <2> QED
    BY <1>1, <2>1, InputsKept DEF OInv, ValuesShared, Party
<1>13. PolysKept'
  BY <1>1, <1>9, InputsKept DEF OInv, PolysKept
<1>14. SumsCombined'
  BY <1>9 DEF SumsCombined
<1> QED
  BY <1>7, <1>8, <1>10, <1>11, <1>12, <1>13, <1>14 DEF OInv

\* The sum over the trees of a block of what a party has of them is a block.
LEMMA AddedType ==
    ASSUME output \in [Party -> [Tree -> [Domain -> Block]]], NEW p \in Party, NEW i \in Position
    PROVE  /\ DOMAIN AddedAt(p, i) = TreesAt(i)
           /\ \A x \in TreesAt(i) : AddedAt(p, i)[x] \in Block
           /\ XorAll(AddedAt(p, i)) \in Block
<1>1. Restricted(i, Low) \in Domain
  BY JoinedFacts
<1>2. \A x \in TreesAt(i) : x \in Tree
  BY DEF TreesAt
<1>3. DOMAIN AddedAt(p, i) = TreesAt(i)
  BY DEF AddedAt
<1>4. \A x \in TreesAt(i) : AddedAt(p, i)[x] \in Block
  BY <1>1, <1>2 DEF AddedAt
<1> QED
  BY <1>3, <1>4, XorAllType

\* A party that adds makes its cross term the sum of what it has of the trees, and leaves
\* the other cross terms.
LEMMA AddFacts ==
    ASSUME OInv, NEW p \in Party, Add(p)
    PROVE  /\ Adding /\ Adding' /\ running \in Cross
           /\ thread' = [thread EXCEPT ![p] = "added"] /\ thread[p] = "add"
           /\ UNCHANGED <<oleInputs, s, running, output, additive, ole>>
           /\ cross' \in [Party -> [Cross -> Coeffs]]
           /\ \A i \in Position : cross'[p][running][i] = XorAll(AddedAt(p, i))
           /\ \A q \in Party, j \in Cross : q # p \/ j # running => cross'[q][j] = cross[q][j]
<1>1. /\ thread' = [thread EXCEPT ![p] = "added"] /\ thread[p] = "add"
      /\ UNCHANGED <<oleInputs, s, running, output, additive, ole>>
  BY DEF Add
<1>2. Typed
  BY DEF OInv
<1>3. Adding
  BY <1>1, <1>2 DEF Typed, Expanding, Ending
<1>4. Adding'
  BY <1>1, <1>3 DEF Adding, Calls
<1>5. running \in Cross
  BY <1>2, <1>3, RunningCall DEF Typed, Adding
<1>6. output \in [Party -> [Tree -> [Domain -> Block]]]
  BY <1>3 DEF OInv, OutputsShared
<1> DEFINE sums == [b \in Block3 |-> {x \in Tree : BlockOf(x) = b}]
           new == [i \in Position |->
                     Xor(cross[p][running][i],
                         XorAll([x \in sums[Restricted(i, High)] |->
                                    output[p][x][Restricted(i, Vars \ High)]]))]
<1>7. cross' = [cross EXCEPT ![p][running] = new]
  BY DEF Add
<1>8. cross[p][running] = ZeroCoeffs
  BY <1>1, <1>5 DEF OInv, CrossToCome
<1>9. ASSUME NEW i \in Position PROVE new[i] = XorAll(AddedAt(p, i))
  <2>1. sums[Restricted(i, High)] = TreesAt(i)
    BY JoinedFacts DEF TreesAt
  <2>2. cross[p][running][i] = Zero
    BY <1>8, ZeroCoeffsType
  <2>3. new[i] = Xor(Zero, XorAll(AddedAt(p, i)))
    BY <2>1, <2>2 DEF AddedAt, Low
  <2> QED
    BY <2>3, ZeroFacts
<1>10. new \in Coeffs
  <2>1. \A i \in Position : new[i] \in Block
    BY <1>6, <1>9, AddedType
  <2> QED
    BY <2>1 DEF Coeffs
<1> HIDE DEF new
<1>11. cross \in [Party -> [Cross -> Coeffs]]
  BY <1>2 DEF Typed
<1>12. /\ cross' \in [Party -> [Cross -> Coeffs]]
       /\ cross'[p][running] = new
       /\ \A q \in Party, j \in Cross : q # p \/ j # running => cross'[q][j] = cross[q][j]
  BY <1>5, <1>7, <1>10, <1>11
<1> QED
  BY <1>1, <1>3, <1>4, <1>5, <1>9, <1>12

\* What the trees share, and what a party has added of them, stays with outputs and call.
LEMMA CallKept ==
    ASSUME UNCHANGED <<oleInputs, running, output>>
    PROVE  /\ \A x : PointOf(x)' = PointOf(x) /\ ValueOf(x)' = ValueOf(x)
           /\ \A p, i : AddedAt(p, i)' = AddedAt(p, i)
<1>1. \A x : PointOf(x)' = PointOf(x) /\ ValueOf(x)' = ValueOf(x)
  BY DEF PointOf, ValueOf, First, Second, oleInputs
<1>2. \A p, i : AddedAt(p, i)' = AddedAt(p, i)
  BY DEF AddedAt
<1> QED
  BY <1>1, <1>2

\* Adding keeps the invariant.
LEMMA OInvAdd == ASSUME OInv, NEW p \in Party, Add(p) PROVE OInv'
<1>1. /\ Adding /\ Adding' /\ running \in Cross
      /\ thread' = [thread EXCEPT ![p] = "added"] /\ thread[p] = "add"
      /\ UNCHANGED <<oleInputs, s, running, output, additive, ole>>
      /\ cross' \in [Party -> [Cross -> Coeffs]]
      /\ \A i \in Position : cross'[p][running][i] = XorAll(AddedAt(p, i))
      /\ \A q \in Party, j \in Cross : q # p \/ j # running => cross'[q][j] = cross[q][j]
  BY AddFacts
<1>2. Typed
  BY DEF OInv
<1>3. Typed'
  BY <1>1, <1>2 DEF Typed, PolysTyped, oleInputs
<1>4. /\ thread'[p] = "added" /\ \A q \in Party : q # p => thread'[q] = thread[q]
      /\ \A q \in Party : /\ thread[q] \in {"add", "added"} /\ thread'[q] \in {"add", "added"}
                          /\ ~Late(q) /\ ~Late(q)'
  BY <1>1 DEF Adding, Late
<1>5. OutputsShared'
  BY <1>1, CallKept DEF OInv, OutputsShared
<1>6. CrossToCome'
  <2> SUFFICES ASSUME NEW q \in Party, NEW j \in Cross,
                      j > running \/ (j = running /\ thread'[q] # "added")
               PROVE  cross'[q][j] = ZeroCoeffs
    BY <1>1 DEF CrossToCome
  <2>1. q # p \/ j # running
    BY <1>1, <1>4, CallsType
  <2>2. cross[q][j] = ZeroCoeffs
    BY <1>1, <1>4, CallsType DEF OInv, CrossToCome
  <2> QED
    BY <1>1, <2>1, <2>2
<1>7. CrossAdded'
  <2> SUFFICES ASSUME NEW q \in Party, thread'[q] = "added", NEW i \in Position
               PROVE  cross'[q][running][i] = XorAll(AddedAt(q, i))
    BY <1>1, CallKept DEF CrossAdded
  <2>1. CASE q = p
    BY <1>1, <2>1
  <2>2. CASE q # p
    BY <1>1, <1>4, <2>2 DEF OInv, CrossAdded
  <2> QED
    BY <2>1, <2>2
<1>8. \A q \in Party, j \in Cross : j < running => cross'[q][j] = cross[q][j]
  BY <1>1, CallsType
<1>9. CrossTermsShared'
  <2>1. Untransformed
    BY <1>4 DEF Untransformed, Late
  <2> QED
    BY <1>1, <1>8, <2>1, InputsKept DEF OInv, CrossTermsShared, Party
<1>10. ValuesShared'
  <2>1. \A j \in Cross, i \in Position, q \in Party :
           j < running => CrossValue(q, j, i)' = CrossValue(q, j, i)
    BY <1>4, <1>8 DEF CrossValue
  <2> QED
    BY <1>1, <2>1, InputsKept DEF OInv, ValuesShared, Party
<1>11. PolysKept'
  BY <1>1, <1>4, InputsKept DEF OInv, PolysKept
<1>12. SumsCombined'
  BY <1>4 DEF SumsCombined
<1> QED
  BY <1>3, <1>5, <1>6, <1>7, <1>9, <1>10, <1>11, <1>12 DEF OInv

\* When both parties have added, their cross terms share the product.
LEMMA AddedShared ==
    ASSUME OInv, Adding, \A p \in Party : thread[p] = "added", NEW i \in Position
    PROVE  Xor(cross[0][running][i], cross[1][running][i]) = ProductOf(running)[i]
<1> DEFINE F == AddedAt(0, i)
           G == AddedAt(1, i)
           H == [x \in TreesAt(i) |-> SharedAt(i, x)]
<1>1. running \in Cross
  BY RunningCall DEF OInv, Typed, Adding
<1>2. /\ output \in [Party -> [Tree -> [Domain -> Block]]]
      /\ \A x \in Tree, y \in Domain :
            Xor(output[0][x][y], output[1][x][y]) = IF y = PointOf(x) THEN ValueOf(x) ELSE Zero
  BY DEF OInv, OutputsShared
<1>3. cross[0][running][i] = XorAll(F) /\ cross[1][running][i] = XorAll(G)
  BY DEF OInv, CrossAdded, Party
<1>4. DOMAIN F = TreesAt(i) /\ DOMAIN G = TreesAt(i)
  BY DEF AddedAt
<1>5. \A x \in TreesAt(i) : Xor(F[x], G[x]) = H[x]
  <2>1. Restricted(i, Low) \in Domain /\ \A x \in TreesAt(i) : x \in Tree
    BY JoinedFacts DEF TreesAt
  <2> QED
    BY <1>2, <2>1 DEF AddedAt, SharedAt
<1>6. H = [x \in TreesAt(i) |-> H[x]]
  OBVIOUS
<1>7. XorAll(H) = ProductOf(running)[i]
  BY <1>1, TreesShareProduct DEF OInv, Typed
<1> HIDE DEF F, G, H
<1>8. XorAll([x \in DOMAIN F |-> Xor(F[x], G[x])]) = Xor(XorAll(F), XorAll(G))
  BY <1>4, TreesFinite, XorAllXor
<1>9. [x \in DOMAIN F |-> Xor(F[x], G[x])] = H
  BY <1>4, <1>5, <1>6
<1> QED
  BY <1>3, <1>7, <1>8, <1>9

\* Joining the threads keeps the invariant.
LEMMA OInvJoin == OInv /\ Join => OInv'
<1> SUFFICES ASSUME OInv, Join PROVE OInv'
  OBVIOUS
<1>1. /\ thread = [p \in Party |-> "added"] /\ running' = running + 1
      /\ thread' = [p \in Party |-> IF running + 1 < Calls THEN "expand" ELSE "transform"]
      /\ UNCHANGED <<oleInputs, s, cross, additive, ole>>
  BY DEF Join, Calls
<1>2. Typed
  BY DEF OInv
<1>3. \A p \in Party : thread[p] = "added"
  BY <1>1
<1>4. Adding
  BY <1>2, <1>3 DEF Typed, Expanding, Ending, Party
<1>5. running \in Nat /\ running < Calls /\ Calls \in Nat
  BY <1>2, <1>4, CallsType DEF Typed, Adding
<1>6. Expanding' \/ Ending'
  <2>1. CASE running + 1 < Calls
    BY <1>1, <2>1 DEF Expanding, Calls
  <2>2. CASE ~(running + 1 < Calls)
    <3>1. running + 1 = Calls
      BY <1>5, <2>2
    <3> QED
      BY <1>1, <2>2, <3>1 DEF Ending, Calls
  <2> QED
    BY <2>1, <2>2
<1>7. Typed'
  <2>1. running' \in Nat
    BY <1>1, <1>5
  <2> QED
    BY <1>1, <1>2, <1>6, <2>1 DEF Typed, PolysTyped, oleInputs
<1>8. \A p \in Party : /\ thread'[p] \in {"expand", "transform"} /\ ~Late(p) /\ ~Late(p)'
  BY <1>1 DEF Late
<1>9. OutputsShared' /\ CrossAdded' /\ SumsCombined'
  <2>1. ~Adding'
    BY <1>8 DEF Adding, Party
  <2> QED
    BY <1>8, <2>1 DEF OutputsShared, CrossAdded, SumsCombined
<1>10. CrossToCome'
  <2> SUFFICES ASSUME NEW p \in Party, NEW j \in Cross, j > running' \/ j = running'
               PROVE  cross[p][j] = ZeroCoeffs
    BY <1>1 DEF CrossToCome
  <2>1. j > running
    BY <1>1, <1>5, CallsType
  <2> QED
    BY <2>1 DEF OInv, CrossToCome
<1>11. ASSUME NEW j \in Cross, j < running', NEW i \in Position
       PROVE  Xor(cross[0][j][i], cross[1][j][i]) = ProductOf(j)[i]
  <2>1. j < running \/ j = running
    BY <1>1, <1>5, <1>11, CallsType
  <2>2. CASE j < running
    <3>1. Untransformed
      BY <1>8 DEF Untransformed, Late
    <3> QED
      BY <2>2, <3>1 DEF OInv, CrossTermsShared, ProductOf
  <2>3. CASE j = running
    BY <1>3, <1>4, <2>3, AddedShared
  <2> QED
    BY <2>1, <2>2, <2>3
<1>12. CrossTermsShared'
  BY <1>1, <1>11, InputsKept DEF CrossTermsShared, ProductOf
<1>13. ValuesShared'
  <2> SUFFICES ASSUME NEW j \in Cross, j < running', NEW i \in Position
               PROVE  Xor(CrossValue(0, j, i)', CrossValue(1, j, i)') = Evaluate(ProductOf(j), i)
    BY <1>1, InputsKept DEF ValuesShared
  <2>1. /\ CrossValue(0, j, i)' = Evaluate(cross[0][j], i)
        /\ CrossValue(1, j, i)' = Evaluate(cross[1][j], i)
    BY <1>1, <1>8 DEF CrossValue, Party
  <2> DEFINE f == cross[0][j]
             g == cross[1][j]
             h == ProductOf(j)
  <2>2. f \in Coeffs /\ g \in Coeffs
    BY <1>2 DEF Typed, Party
  <2>3. h \in Coeffs
    <3>1. j \div NumPolys \in Index /\ j % NumPolys \in Index
      BY CallsArePairs
    <3> QED
      BY <1>2, <3>1, DenseFacts, ProductCoeffs DEF Typed, ProductOf, Party
  <2>4. \A e \in Position : h[e] = Xor(f[e], g[e])
    BY <1>11
  <2> HIDE DEF f, g, h
  <2>5. Evaluate(h, i) = Xor(Evaluate(f, i), Evaluate(g, i))
    BY <2>2, <2>3, <2>4, EvaluateXor
  <2> QED
    BY <2>1, <2>5 DEF f, g, h
<1>14. PolysKept'
  BY <1>1, <1>8, InputsKept DEF OInv, PolysKept
<1> QED
  BY <1>7, <1>9, <1>10, <1>12, <1>13, <1>14 DEF OInv

\* In the end phase there are no calls to come.
LEMMA EndingFacts ==
    ASSUME Typed, NEW p \in Party, thread[p] \in {"transform", "combine", "combined"}
    PROVE  /\ Ending /\ \A j \in Cross : j < running
           /\ \A q \in Party : thread[q] \in {"transform", "combine", "combined"}
<1>1. Ending
  BY DEF Typed, Expanding, Adding
<1> QED
  BY <1>1, CallsType DEF Ending

\* Transforming keeps the invariant.
LEMMA OInvTransform == ASSUME OInv, NEW p \in Party, Transform(p) PROVE OInv'
<1>1. /\ thread[p] = "transform" /\ thread' = [thread EXCEPT ![p] = "combine"]
      /\ cross' = [cross EXCEPT ![p] = [j \in Cross |-> foleageFft(@[j])]]
      /\ s' = [s EXCEPT ![p] = [k \in Index |-> foleageFft(@[k])]]
      /\ UNCHANGED <<oleInputs, running, output, additive, ole>>
  BY DEF Transform
<1>2. Typed
  BY DEF OInv
<1>3. /\ Ending /\ \A j \in Cross : j < running
      /\ \A q \in Party : thread[q] \in {"transform", "combine", "combined"}
  BY <1>1, <1>2, EndingFacts
<1>4. Ending' /\ thread'[p] = "combine" /\ Late(p)' /\ ~Late(p)
      /\ \A q \in Party : /\ q # p => thread'[q] = thread[q] /\ (Late(q)' <=> Late(q))
                          /\ thread'[q] \in {"transform", "combine", "combined"}
  BY <1>1, <1>3 DEF Ending, Calls, Late
<1>5. /\ cross \in [Party -> [Cross -> Coeffs]] /\ s \in [Party -> [Index -> Coeffs]]
  BY <1>2 DEF Typed
<1>6. /\ \A j \in Cross : /\ foleageFft(cross[p][j]) \in Coeffs
                          /\ \A i \in Position :
                                foleageFft(cross[p][j])[i] = Evaluate(cross[p][j], i)
      /\ \A k \in Index : /\ foleageFft(s[p][k]) \in Coeffs
                          /\ \A i \in Position :
                                foleageFft(s[p][k])[i] = Evaluate(s[p][k], i)
  BY <1>5, foleageFftEvaluates
<1>7. /\ \A j \in Cross : cross'[p][j] = foleageFft(cross[p][j])
      /\ \A k \in Index : s'[p][k] = foleageFft(s[p][k])
      /\ \A q \in Party : q # p => cross'[q] = cross[q] /\ s'[q] = s[q]
      /\ cross' \in [Party -> [Cross -> Coeffs]] /\ s' \in [Party -> [Index -> Coeffs]]
  BY <1>1, <1>5, <1>6
<1>8. Typed'
  BY <1>1, <1>2, <1>4, <1>7 DEF Typed, PolysTyped, oleInputs
<1>9. OutputsShared' /\ CrossAdded'
  <2>1. ~Adding' /\ \A q \in Party : thread'[q] # "added"
    BY <1>4 DEF Adding
  <2> QED
    BY <2>1 DEF OutputsShared, CrossAdded
<1>10. CrossToCome'
  <2>1. \A j \in Cross : ~(j > running) /\ j # running
    <3>1. running \in Nat
      BY <1>2 DEF Typed
    <3>2. \A j \in Cross : j \in Int
      BY CallsType
    <3> QED
      BY <1>3, <3>1, <3>2
  <2> QED
    BY <1>1, <2>1 DEF CrossToCome
<1>11. CrossTermsShared'
  BY <1>4 DEF CrossTermsShared, Untransformed, Late
<1>12. ValuesShared'
  <2>1. \A j \in Cross, i \in Position, q \in Party : CrossValue(q, j, i)' = CrossValue(q, j, i)
    BY <1>4, <1>6, <1>7 DEF CrossValue
  <2> QED
    BY <1>1, <2>1, InputsKept DEF OInv, ValuesShared, Party
<1>13. PolysKept'
  <2> SUFFICES ASSUME NEW q \in Party, NEW k \in Index
               PROVE  /\ ~Late(q)' => s'[q][k] = Dense(q, k)
                      /\ Late(q)' => \A i \in Position : s'[q][k][i] = Evaluate(Dense(q, k), i)
    BY <1>1, InputsKept DEF PolysKept
  <2>1. CASE q = p
    BY <1>4, <1>6, <1>7, <2>1 DEF OInv, PolysKept
  <2>2. CASE q # p
    BY <1>4, <1>7, <2>2 DEF OInv, PolysKept
  <2> QED
    BY <2>1, <2>2
<1>14. SumsCombined'
  <2> SUFFICES ASSUME NEW q \in Party, thread'[q] = "combined", NEW i \in Position
               PROVE  (/\ additive[q][i] = XorAll(WeighedCross(q, i))
                       /\ ole[q][i] = XorAll(WeighedPolys(q, i)))'
    BY DEF SumsCombined
  <2>1. q # p /\ thread[q] = "combined"
    BY <1>4
  <2>2. /\ WeighedCross(q, i)' = WeighedCross(q, i)
        /\ WeighedPolys(q, i)' = WeighedPolys(q, i)
    BY <1>1, <1>7, <2>1, InputsKept DEF WeighedCross, WeighedPolys
  <2> QED
    BY <1>1, <2>1, <2>2 DEF OInv, SumsCombined
<1> QED
  BY <1>8, <1>9, <1>10, <1>11, <1>12, <1>13, <1>14 DEF OInv

\* Combining keeps the invariant.
LEMMA OInvCombine == ASSUME OInv, NEW p \in Party, Combine(p) PROVE OInv'
<1> DEFINE A == [i \in Position |-> XorAll(WeighedCross(p, i))]
           O == [i \in Position |-> XorAll(WeighedPolys(p, i))]
<1>1. /\ thread[p] = "combine" /\ thread' = [thread EXCEPT ![p] = "combined"]
      /\ UNCHANGED <<oleInputs, s, cross, running, output>>
  BY DEF Combine
<1>2. additive' = [additive EXCEPT ![p] = A] /\ ole' = [ole EXCEPT ![p] = O]
  BY DEF Combine, WeighedCross, WeighedPolys
<1>3. Typed
  BY DEF OInv
<1>4. /\ Ending /\ \A j \in Cross : j < running
      /\ \A q \in Party : thread[q] \in {"transform", "combine", "combined"}
  BY <1>1, <1>3, EndingFacts
<1>5. Ending' /\ \A q \in Party : /\ q # p => thread'[q] = thread[q]
                                  /\ Late(q)' <=> Late(q)
                                  /\ thread'[q] \in {"transform", "combine", "combined"}
  BY <1>1, <1>4 DEF Ending, Calls, Late
<1>6. A \in Coeffs /\ O \in Coeffs
  <2> SUFFICES ASSUME NEW i \in Position
               PROVE  XorAll(WeighedCross(p, i)) \in Block /\ XorAll(WeighedPolys(p, i)) \in Block
    BY DEF Coeffs
  <2>1. \A j \in Cross : a_cross(j, i) \in Block /\ cross[p][j][i] \in Block
    BY <1>3, CallsArePairs, F4_mulRight DEF Typed, a_cross, Coeffs
  <2>2. \A k \in Index : factor[k][i] \in Block /\ s[p][k][i] \in Block
    BY <1>3 DEF Typed, Coeffs
  <2>3. /\ \A j \in Cross : WeighedCross(p, i)[j] \in Block
        /\ \A k \in Index : WeighedPolys(p, i)[k] \in Block
    BY <2>1, <2>2, F4_mulRight DEF WeighedCross, WeighedPolys
  <2>4. DOMAIN WeighedCross(p, i) = Cross /\ DOMAIN WeighedPolys(p, i) = Index
    BY DEF WeighedCross, WeighedPolys
  <2> QED
    BY <2>3, <2>4, XorAllType
<1>7. \A i \in Position : A[i] = XorAll(WeighedCross(p, i)) /\ O[i] = XorAll(WeighedPolys(p, i))
  OBVIOUS
<1> HIDE DEF A, O
<1>8. /\ additive' \in [Party -> Coeffs] /\ ole' \in [Party -> Coeffs]
      /\ additive'[p] = A /\ ole'[p] = O
      /\ \A q \in Party : q # p => additive'[q] = additive[q] /\ ole'[q] = ole[q]
  BY <1>2, <1>3, <1>6 DEF Typed
<1>9. Typed'
  BY <1>1, <1>3, <1>5, <1>8 DEF Typed, PolysTyped, oleInputs
<1>10. OutputsShared' /\ CrossAdded'
  <2>1. ~Adding' /\ \A q \in Party : thread'[q] # "added"
    BY <1>5 DEF Adding
  <2> QED
    BY <2>1 DEF OutputsShared, CrossAdded
<1>11. CrossToCome'
  <2>1. \A j \in Cross : ~(j > running) /\ j # running
    <3>1. running \in Nat
      BY <1>3 DEF Typed
    <3>2. \A j \in Cross : j \in Int
      BY CallsType
    <3> QED
      BY <1>4, <3>1, <3>2
  <2> QED
    BY <1>1, <2>1 DEF CrossToCome
<1>12. CrossTermsShared'
  BY <1>1, <1>5 DEF CrossTermsShared, Untransformed, Late
<1>13. ValuesShared'
  <2>1. \A j \in Cross, i \in Position, q \in Party : CrossValue(q, j, i)' = CrossValue(q, j, i)
    BY <1>1, <1>5 DEF CrossValue
  <2> QED
    BY <1>1, <2>1, InputsKept DEF OInv, ValuesShared, Party
<1>14. PolysKept'
  BY <1>1, <1>5, InputsKept DEF OInv, PolysKept
<1>15. SumsCombined'
  <2> SUFFICES ASSUME NEW q \in Party, thread'[q] = "combined", NEW i \in Position
               PROVE  (/\ additive[q][i] = XorAll(WeighedCross(q, i))
                       /\ ole[q][i] = XorAll(WeighedPolys(q, i)))'
    BY DEF SumsCombined
  <2>1. /\ WeighedCross(q, i)' = WeighedCross(q, i)
        /\ WeighedPolys(q, i)' = WeighedPolys(q, i)
    BY <1>1, InputsKept DEF WeighedCross, WeighedPolys
  <2>2. CASE q = p
    BY <1>7, <1>8, <2>1, <2>2
  <2>3. CASE q # p
    <3>1. thread[q] = "combined"
      BY <1>5, <2>3
    <3> QED
      BY <1>8, <2>1, <2>3, <3>1 DEF OInv, SumsCombined
  <2> QED
    BY <2>2, <2>3
<1> QED
  BY <1>9, <1>10, <1>11, <1>12, <1>13, <1>14, <1>15 DEF OInv

\* The invariant holds in all reachable states.
LEMMA OInvAlways == OleSpec => []OInv
<1>1. ASSUME OInv, UNCHANGED oleVars PROVE OInv'
  <2>1. UNCHANGED <<oleInputs, s, cross, running, output, thread, additive, ole>>
    BY <1>1 DEF oleVars
  <2>2. /\ \A p, i : AddedAt(p, i)' = AddedAt(p, i)
        /\ \A x : PointOf(x)' = PointOf(x) /\ ValueOf(x)' = ValueOf(x)
        /\ \A p, k : Dense(p, k)' = Dense(p, k)
        /\ \A j : ProductOf(j)' = ProductOf(j)
        /\ \A j, i : a_cross(j, i)' = a_cross(j, i)
        /\ poly' = poly /\ factor' = factor
    BY <2>1, InputsKept, CallKept
  <2>3. Adding' <=> Adding
    BY <2>1 DEF Adding, Calls
  <2>4. Typed'
    BY <1>1, <2>1, <2>2 DEF OInv, Typed, PolysTyped, Expanding, Adding, Ending, Calls
  <2>5. OutputsShared'
    BY <1>1, <2>1, <2>2, <2>3 DEF OInv, OutputsShared
  <2>6. CrossToCome' /\ CrossAdded'
    BY <1>1, <2>1, <2>2 DEF OInv, CrossToCome, CrossAdded
  <2>7. CrossTermsShared'
    BY <1>1, <2>1, <2>2 DEF OInv, CrossTermsShared, Untransformed
  <2>8. \A p : Late(p)' <=> Late(p)
    BY <2>1 DEF Late
  <2>9. ValuesShared'
    <3>1. \A p, j, i : CrossValue(p, j, i)' = CrossValue(p, j, i)
      BY <2>1, <2>8 DEF CrossValue
    <3> QED
      BY <1>1, <2>1, <2>2, <3>1 DEF OInv, ValuesShared
  <2>10. PolysKept'
    BY <1>1, <2>1, <2>2, <2>8 DEF OInv, PolysKept
  <2>11. SumsCombined'
    <3>1. \A p, i : /\ WeighedCross(p, i)' = WeighedCross(p, i)
                    /\ WeighedPolys(p, i)' = WeighedPolys(p, i)
      BY <2>1, <2>2 DEF WeighedCross, WeighedPolys
    <3> QED
      BY <1>1, <2>1, <3>1 DEF OInv, SumsCombined
  <2> QED
    BY <2>4, <2>5, <2>6, <2>7, <2>9, <2>10, <2>11 DEF OInv
<1>2. OInv /\ [OleNext]_oleVars => OInv'
  <2> SUFFICES ASSUME OInv, [OleNext]_oleVars PROVE OInv'
    OBVIOUS
  <2>1. CASE Expand
    BY <2>1, OInvExpand
  <2>2. CASE \E p \in Party : Add(p) \/ Transform(p) \/ Combine(p)
    BY <2>2, OInvAdd, OInvTransform, OInvCombine
  <2>3. CASE Join
    BY <2>3, OInvJoin
  <2>4. CASE OleDone
    BY <1>1, <2>4 DEF OleDone
  <2> QED
    BY <1>1, <2>1, <2>2, <2>3, <2>4 DEF OleNext
<1> QED
  BY <1>2, OInvInit, PTL DEF OleSpec

-----------------------------------------------------------------------------
(* The results                                                             *)

\* Each call of dpf() leaves the parties with shares of the product of its two
\* polynomials, as long as these are not transformed.
THEOREM CallsShareProducts == OleSpec => []CrossTermsShared
<1>1. OInv => CrossTermsShared
  BY DEF OInv
<1> QED
  BY <1>1, OInvAlways, PTL

\* When both parties have combined, what they have adds up to the product of their values.
LEMMA SharesAddUp == OInv => OleHolds
<1> SUFFICES ASSUME OInv, Combined, NEW i \in Position
             PROVE  Xor(additive[0][i], additive[1][i]) = F4_mul(ole[0][i], ole[1][i])
  BY DEF OleHolds
<1> DEFINE C0 == WeighedCross(0, i)
           C1 == WeighedCross(1, i)
           P0 == WeighedPolys(0, i)
           P1 == WeighedPolys(1, i)
           G == [z \in Index \X Index |-> F4_mul(P0[z[1]], P1[z[2]])]
           H == [j \in Cross |-> Xor(C0[j], C1[j])]
           m == [j \in Cross |-> <<j \div NumPolys, j % NumPolys>>]
<1>1. Typed /\ 0 \in Party /\ 1 \in Party
  BY DEF OInv, Party
<1>2. \A p \in Party : thread[p] = "combined" /\ Late(p)
  BY DEF Combined, Late
<1>3. \A j \in Cross : j < running
  BY <1>1, <1>2, EndingFacts
<1>4. /\ additive[0][i] = XorAll(C0) /\ additive[1][i] = XorAll(C1)
      /\ ole[0][i] = XorAll(P0) /\ ole[1][i] = XorAll(P1)
  BY <1>1, <1>2 DEF OInv, SumsCombined
<1>5. Family(Index, P0) /\ Family(Index, P1)
  <2>1. \A k \in Index : factor[k][i] \in Block /\ s[0][k][i] \in Block /\ s[1][k][i] \in Block
    BY <1>1 DEF Typed, Coeffs
  <2>2. P0 \in [Index -> Block] /\ P1 \in [Index -> Block]
    BY <2>1, F4_mulRight DEF WeighedPolys
  <2> QED
    BY <2>2, CallsArePairs DEF Family
<1>6. ASSUME NEW j \in Cross PROVE H[j] = G[m[j]]
  <2> DEFINE k == j \div NumPolys
             l == j % NumPolys
  <2>1. k \in Index /\ l \in Index
    BY CallsArePairs
  <2>2. C0[j] = F4_mul(a_cross(j, i), cross[0][j][i]) /\ C1[j] = F4_mul(a_cross(j, i), cross[1][j][i])
    BY DEF WeighedCross
  <2>3. a_cross(j, i) = F4_mul(factor[k][i], factor[l][i])
    BY DEF a_cross
  <2>4. Xor(cross[0][j][i], cross[1][j][i]) = Evaluate(ProductOf(j), i)
    BY <1>1, <1>2, <1>3 DEF OInv, ValuesShared, CrossValue
  <2>5. ProductOf(j) = Product(Dense(0, k), Dense(1, l))
    BY DEF ProductOf
  <2>6. G[m[j]] = F4_mul(P0[k], P1[l])
    BY <2>1
  <2> HIDE DEF k, l, C0, C1, G, P0, P1
  <2> DEFINE u == factor[k][i]
             v == factor[l][i]
             x == Evaluate(Dense(0, k), i)
             y == Evaluate(Dense(1, l), i)
             c0 == cross[0][j][i]
             c1 == cross[1][j][i]
  <2>7. u \in Block /\ v \in Block /\ c0 \in Block /\ c1 \in Block
    BY <1>1, <2>1 DEF Typed, Coeffs
  <2>8. Dense(0, k) \in Coeffs /\ Dense(1, l) \in Coeffs
    BY <1>1, <2>1, DenseFacts DEF Typed
  <2>9. x \in Block /\ y \in Block
    BY <2>8, EvaluateType
  <2>10. Xor(c0, c1) = F4_mul(x, y)
    BY <2>4, <2>5, <2>8, ProductEvaluates
  <2>11. P0[k] = F4_mul(u, x) /\ P1[l] = F4_mul(v, y)
    BY <1>1, <1>2, <2>1 DEF OInv, PolysKept, P0, P1, WeighedPolys
  <2>12. H[j] = Xor(F4_mul(F4_mul(u, v), c0), F4_mul(F4_mul(u, v), c1))
    BY <2>2, <2>3
  <2> HIDE DEF u, v, x, y, c0, c1, H, m
  <2> DEFINE uv == F4_mul(u, v)
             xy == F4_mul(x, y)
             vy == F4_mul(v, y)
  <2>13. uv \in Block /\ xy \in Block /\ vy \in Block
    BY <2>7, <2>9, F4_mulRight
  <2>14. H[j] = F4_mul(uv, xy)
    BY <2>7, <2>10, <2>12, <2>13, F4_mulRight
  <2>15. F4_mul(uv, xy) = F4_mul(u, F4_mul(v, xy))
    BY <2>7, <2>13, F4_mulAssociates
  <2>16. F4_mul(v, xy) = F4_mul(x, vy)
    BY <2>7, <2>9, F4_mulExchange
  <2>17. F4_mul(F4_mul(u, x), vy) = F4_mul(u, F4_mul(x, vy))
    BY <2>7, <2>9, <2>13, F4_mulAssociates
  <2> QED
    BY <2>6, <2>11, <2>14, <2>15, <2>16, <2>17
<1>7. m \in Bijection(Cross, Index \X Index)
  BY CallsArePairs
<1>8. DOMAIN H = Cross /\ DOMAIN G = Index \X Index /\ DOMAIN C0 = Cross /\ DOMAIN C1 = Cross
  BY DEF WeighedCross
<1>9. H = [j \in DOMAIN C0 |-> Xor(C0[j], C1[j])]
  BY <1>8
<1>10. G = [z \in Index \X Index |-> F4_mul(P0[z[1]], P1[z[2]])]
  OBVIOUS
<1> HIDE DEF C0, C1, P0, P1, G, H, m
<1>11. XorAll(H) = XorAll(G)
  BY <1>6, <1>7, <1>8, CallsArePairs, XorAllMoved
<1>12. F4_mul(XorAll(P0), XorAll(P1)) = XorAll(G)
  BY <1>5, <1>10, MulSquares, SMTT(60)
<1>13. XorAll([j \in DOMAIN C0 |-> Xor(C0[j], C1[j])]) = Xor(XorAll(C0), XorAll(C1))
  BY <1>8, CallsArePairs, XorAllXor
<1> QED
  BY <1>4, <1>9, <1>11, <1>12, <1>13

\* The parties' additive shares add up to the product of what they hold: the transforms,
\* the weights and the order of the cross terms are right in every instance.
THEOREM OleAlwaysHolds == OleSpec => []OleHolds
BY OInvAlways, SharesAddUp, PTL
=============================================================================
