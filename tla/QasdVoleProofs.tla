---------------------------- MODULE QasdVoleProofs ----------------------------
(***************************************************************************)
(* With the context VOLE_QASD uses, the transforms keep the correlation of  *)
(* a call, for every size of a block, number of variables, delta and noise. *)
(***************************************************************************)
EXTENDS QasdVole, FoleageFftProofs

-----------------------------------------------------------------------------
(* The correlation of three blocks, and of three vectors                   *)

Correlated(x, y, z, delta) == x = Xor(y, F4_mul(z, delta))

VectorsCorrelated(x, y, z, delta) ==
    \A i \in Position : Correlated(x[i], y[i], z[i], delta)

\* The correlation is kept when two triples are added.
LEMMA CorrelatedXor ==
    ASSUME NEW delta, NEW x, NEW y, NEW z \in Block, NEW x2, NEW y2, NEW z2 \in Block,
           Correlated(x, y, z, delta), Correlated(x2, y2, z2, delta)
    PROVE  Correlated(Xor(x, x2), Xor(y, y2), Xor(z, z2), delta)
<1>1. Xor(x, x2) = Xor(Xor(y, F4_mul(z, delta)), Xor(y2, F4_mul(z2, delta)))
  BY DEF Correlated
<1>2. Xor(x, x2) = Xor(Xor(y, y2), Xor(F4_mul(z, delta), F4_mul(z2, delta)))
  BY <1>1, XorPairs
<1> QED
  BY <1>2, F4_mulXor DEF Correlated

\* It is kept when a triple is multiplied by omega.
LEMMA CorrelatedOmega ==
    ASSUME NEW delta, NEW x \in Block, NEW y \in Block, NEW z \in Block,
           Correlated(x, y, z, delta)
    PROVE  Correlated(TimesOmega(x), TimesOmega(y), TimesOmega(z), delta)
<1>1. F4_mul(z, delta) \in Block
  BY F4_mulXor
<1>2. TimesOmega(x) = Xor(TimesOmega(y), TimesOmega(F4_mul(z, delta)))
  BY <1>1, TimesOmegaXor DEF Correlated
<1> QED
  BY <1>2, F4_mulOmega DEF Correlated

\* It is kept by a loop body, in each of the three values it stores.
LEMMA CorrelatedButterfly ==
    ASSUME NEW delta,
           NEW LA \in Block, NEW MA \in Block, NEW RA \in Block,
           NEW LB \in Block, NEW MB \in Block, NEW RB \in Block,
           NEW LC \in Block, NEW MC \in Block, NEW RC \in Block,
           Correlated(LA, LB, LC, delta), Correlated(MA, MB, MC, delta),
           Correlated(RA, RB, RC, delta)
    PROVE  \A z \in 0 .. 2 :
             Correlated(Butterfly(LA, MA, RA)[z], Butterfly(LB, MB, RB)[z],
                        Butterfly(LC, MC, RC)[z], delta)
<1> DEFINE wA == TimesOmega(Xor(MA, RA))
           wB == TimesOmega(Xor(MB, RB))
           wC == TimesOmega(Xor(MC, RC))
<1>1. /\ Xor(MA, RA) \in Block /\ Xor(MB, RB) \in Block /\ Xor(MC, RC) \in Block
      /\ Xor(LC, MC) \in Block /\ Xor(LC, RC) \in Block
  BY BlockXor
<1>2. wC \in Block
  BY <1>1, TimesOmegaParts
<1>3. Correlated(wA, wB, wC, delta)
  <2>1. Correlated(Xor(MA, RA), Xor(MB, RB), Xor(MC, RC), delta)
    BY CorrelatedXor
  <2> QED
    BY <1>1, <2>1, CorrelatedOmega
<1>4. Correlated(Xor(LA, MA), Xor(LB, MB), Xor(LC, MC), delta)
  BY CorrelatedXor
<1>5. Correlated(Xor(LA, RA), Xor(LB, RB), Xor(LC, RC), delta)
  BY CorrelatedXor
<1> HIDE DEF wA, wB, wC
<1>6. Correlated(Xor(Xor(LA, MA), RA), Xor(Xor(LB, MB), RB), Xor(Xor(LC, MC), RC), delta)
  BY <1>1, <1>4, CorrelatedXor
<1>7. Correlated(Xor(Xor(LA, RA), wA), Xor(Xor(LB, RB), wB), Xor(Xor(LC, RC), wC), delta)
  BY <1>1, <1>2, <1>3, <1>5, CorrelatedXor
<1>8. Correlated(Xor(Xor(LA, MA), wA), Xor(Xor(LB, MB), wB), Xor(Xor(LC, MC), wC), delta)
  BY <1>1, <1>2, <1>3, <1>4, CorrelatedXor
<1> QED
  BY <1>6, <1>7, <1>8 DEF Butterfly, wA, wB, wC

\* It is kept by a pass over three vectors.
LEMMA CorrelatedPass ==
    ASSUME NEW delta, NEW k \in Vars, NEW x \in Coeffs, NEW y \in Coeffs, NEW z \in Coeffs,
           VectorsCorrelated(x, y, z, delta)
    PROVE  VectorsCorrelated(Pass(k, x), Pass(k, y), Pass(k, z), delta)
<1> SUFFICES ASSUME NEW i \in Position
             PROVE  Correlated(Pass(k, x)[i], Pass(k, y)[i], Pass(k, z)[i], delta)
  BY DEF VectorsCorrelated
<1> DEFINE i0 == [i EXCEPT ![k] = 0]
           i1 == [i EXCEPT ![k] = 1]
           i2 == [i EXCEPT ![k] = 2]
<1>1. i0 \in Position /\ i1 \in Position /\ i2 \in Position /\ i[k] \in 0 .. 2
  BY ThirdsType
<1>2. \A c : Pass(k, c)[i] = Butterfly(c[i0], c[i1], c[i2])[i[k]]
  BY DEF Pass
<1> HIDE DEF i0, i1, i2
<1>3. /\ x[i0] \in Block /\ x[i1] \in Block /\ x[i2] \in Block
      /\ y[i0] \in Block /\ y[i1] \in Block /\ y[i2] \in Block
      /\ z[i0] \in Block /\ z[i1] \in Block /\ z[i2] \in Block
  BY <1>1 DEF Coeffs
<1>4. /\ Correlated(x[i0], y[i0], z[i0], delta)
      /\ Correlated(x[i1], y[i1], z[i1], delta)
      /\ Correlated(x[i2], y[i2], z[i2], delta)
  BY <1>1 DEF VectorsCorrelated
<1>5. Correlated(Butterfly(x[i0], x[i1], x[i2])[i[k]],
                 Butterfly(y[i0], y[i1], y[i2])[i[k]],
                 Butterfly(z[i0], z[i1], z[i2])[i[k]], delta)
  BY <1>1, <1>3, <1>4, CorrelatedButterfly
<1> QED
  BY <1>2, <1>5

-----------------------------------------------------------------------------
(* Type correctness                                                        *)

\* In CoeffCtxGF128_F4 the products are blocks.
LEMMA MulType ==
    ASSUME Ctx = "CoeffCtxGF128_F4", NEW x \in Block, NEW y
    PROVE  mul(x, y) \in Block
BY F4_mulXor DEF mul

\* A party's share is a vector of blocks.
LEMMA AffineType ==
    ASSUME Ctx = "CoeffCtxGF128_F4", a \in Coeffs, NEW x \in Coeffs, NEW y \in Coeffs
    PROVE  Affine(x, y) \in Coeffs
<1>1. \A i \in Position : a[i] \in Block /\ y[i] \in Block
  BY DEF Coeffs
<1>2. \A i \in Position : plus(mul(a[i], x[i]), y[i]) \in Block
  BY <1>1, MulType, BlockXor DEF plus
<1> QED
  BY <1>2 DEF Affine, Coeffs

\* VOLE_QASD starts with vectors of blocks.
LEMMA InitTypeOK ==
    ASSUME Ctx = "CoeffCtxGF128_F4", VoleInit
    PROVE  TypeOK
<1>1. d \in Block /\ a \in Coeffs /\ noise \in [CallName -> [b : Coeffs, c : Coeffs]]
  BY InputsAssumption, ValuesAssumption DEF VoleInit
<1>2. ASSUME NEW k \in CallName
      PROVE  /\ noise[k].b \in Coeffs /\ noise[k].c \in Coeffs
             /\ [i \in Position |-> plus(noise[k].b[i], mul(noise[k].c[i], d))] \in Coeffs
  <2>1. noise[k].b \in Coeffs /\ noise[k].c \in Coeffs
    BY <1>1
  <2>2. \A i \in Position : noise[k].b[i] \in Block /\ mul(noise[k].c[i], d) \in Block
    BY <2>1, MulType DEF Coeffs
  <2>3. \A i \in Position : plus(noise[k].b[i], mul(noise[k].c[i], d)) \in Block
    BY <2>2, BlockXor DEF plus
  <2> QED
    BY <2>1, <2>3 DEF Coeffs
<1>3. mA \in [CallName -> Coeffs]
  BY <1>2 DEF VoleInit
<1>4. mB \in [CallName -> Coeffs] /\ mC \in [CallName -> Coeffs]
  BY <1>2 DEF VoleInit
<1>5. {passA, passB, passC} \subseteq [CallName -> 0 .. NumVars]
  BY NumVarsAssumption DEF VoleInit
<1>6. ZeroCoeffs \in Coeffs
  BY DEF ZeroCoeffs, Coeffs, Zero, Block
<1>7. {Vol, addshare1, addshare2} \subseteq Coeffs /\ combined = {}
  BY <1>6 DEF VoleInit
<1> QED
  BY <1>1, <1>3, <1>4, <1>5, <1>7 DEF TypeOK

\* The next pass of an encoding that is not done is one of its NumVars passes.
LEMMA PassCount ==
    ASSUME NEW n \in 0 .. NumVars, n # NumVars
    PROVE  n + 1 \in Vars /\ n + 1 \in 0 .. NumVars
BY NumVarsAssumption DEF Vars

\* Every step keeps them vectors of blocks.
LEMMA NextTypeOK ==
    ASSUME Ctx = "CoeffCtxGF128_F4", TypeOK, [VoleNext]_voleVars
    PROVE  TypeOK'
<1> USE DEF TypeOK
<1>1. ASSUME NEW k \in CallName, EncodeA(k)
      PROVE  TypeOK'
  <2>1. passA[k] + 1 \in Vars /\ passA[k] + 1 \in 0 .. NumVars
    <3>1. passA[k] \in 0 .. NumVars
      OBVIOUS
    <3>2. passA[k] # NumVars
      BY <1>1 DEF EncodeA, EncodedA
    <3> QED
      BY <3>1, <3>2, PassCount
  <2>2. Pass(passA[k] + 1, mA[k]) \in Coeffs
    BY <2>1, PassType
  <2>3. mA' \in [CallName -> Coeffs] /\ passA' \in [CallName -> 0 .. NumVars]
    BY <1>1, <2>1, <2>2 DEF EncodeA
  <2> QED
    BY <1>1, <2>3 DEF EncodeA, inputs, senderVars
<1>2. ASSUME NEW k \in CallName, EncodeB(k)
      PROVE  TypeOK'
  <2>1. passB[k] + 1 \in Vars /\ passB[k] + 1 \in 0 .. NumVars
    <3>1. passB[k] \in 0 .. NumVars
      OBVIOUS
    <3>2. passB[k] # NumVars
      BY <1>2 DEF EncodeB, EncodedB
    <3> QED
      BY <3>1, <3>2, PassCount
  <2>2. Pass(passB[k] + 1, mB[k]) \in Coeffs
    BY <2>1, PassType
  <2>3. mB' \in [CallName -> Coeffs] /\ passB' \in [CallName -> 0 .. NumVars]
    BY <1>2, <2>1, <2>2 DEF EncodeB
  <2> QED
    BY <1>2, <2>3 DEF EncodeB, inputs, receiverVars
<1>3. ASSUME NEW k \in CallName, EncodeC(k)
      PROVE  TypeOK'
  <2>1. passC[k] + 1 \in Vars /\ passC[k] + 1 \in 0 .. NumVars
    <3>1. passC[k] \in 0 .. NumVars
      OBVIOUS
    <3>2. passC[k] # NumVars
      BY <1>3 DEF EncodeC, EncodedC
    <3> QED
      BY <3>1, <3>2, PassCount
  <2>2. Pass(passC[k] + 1, mC[k]) \in Coeffs
    BY <2>1, PassType
  <2>3. mC' \in [CallName -> Coeffs] /\ passC' \in [CallName -> 0 .. NumVars]
    BY <1>3, <2>1, <2>2 DEF EncodeC
  <2> QED
    BY <1>3, <2>3 DEF EncodeC, inputs, senderVars
<1>4. ASSUME CombineReceiver
      PROVE  TypeOK'
  <2>1. mC["s"] \in Coeffs /\ mC["e"] \in Coeffs /\ mA["s"] \in Coeffs /\ mA["e"] \in Coeffs
    BY DEF CallName
  <2>2. Vol' \in Coeffs /\ addshare1' \in Coeffs
    BY <1>4, <2>1, AffineType DEF CombineReceiver
  <2> QED
    BY <1>4, <2>2 DEF CombineReceiver, inputs, senderVars
<1>5. ASSUME CombineSender
      PROVE  TypeOK'
  <2>1. mB["s"] \in Coeffs /\ mB["e"] \in Coeffs
    BY DEF CallName
  <2>2. addshare2' \in Coeffs
    BY <1>5, <2>1, AffineType DEF CombineSender
  <2> QED
    BY <1>5, <2>2 DEF CombineSender, inputs, receiverVars
<1>6. ASSUME UNCHANGED voleVars
      PROVE  TypeOK'
  BY <1>6 DEF voleVars, inputs, receiverVars, senderVars
<1> QED
  BY <1>1, <1>2, <1>3, <1>4, <1>5, <1>6 DEF VoleNext, Joined

\* Encoding and combining keep every vector a vector of blocks, with the
\* context VOLE_QASD uses.
THEOREM TypeCorrect ==
    ASSUME Ctx = "CoeffCtxGF128_F4"
    PROVE  VoleSpec => []TypeOK
<1>1. VoleInit => TypeOK
  BY InitTypeOK
<1>2. TypeOK /\ [VoleNext]_voleVars => TypeOK'
  BY NextTypeOK
<1> QED
  BY <1>1, <1>2, PTL DEF VoleSpec

-----------------------------------------------------------------------------
(* The correlation after the encoding                                      *)
(*                                                                         *)
(* mA, mB and mC of a call are encoded at their own pace, by two threads,  *)
(* so between the passes nothing relates what the three variables hold.    *)
(* What does is the history of all three, pass by pass, up to the one that *)
(* is furthest: at each of its points the correlation holds, and each      *)
(* variable holds its vector at one of its points.                         *)

Triples == [x : Coeffs, y : Coeffs, z : Coeffs]

\* The triples before and after n passes over a correlated triple.
History(n, t) ==
    /\ n \in 0 .. NumVars
    /\ t \in [0 .. n -> Triples]
    /\ \A j \in 0 .. n : VectorsCorrelated(t[j].x, t[j].y, t[j].z, d)
    /\ \A j \in 1 .. n : t[j] = [x |-> Pass(j, t[j - 1].x), y |-> Pass(j, t[j - 1].y),
                                z |-> Pass(j, t[j - 1].z)]

\* The three vectors of a call are on a history.
OnHistory(k, n, t) ==
    /\ History(n, t)
    /\ passA[k] \in 0 .. n /\ mA[k] = t[passA[k]].x
    /\ passB[k] \in 0 .. n /\ mB[k] = t[passB[k]].y
    /\ passC[k] \in 0 .. n /\ mC[k] = t[passC[k]].z

HasHistory(k) == \E n, t : OnHistory(k, n, t)

IInv == TypeOK /\ \A k \in CallName : HasHistory(k)

\* A history that is not complete goes on with a pass, which keeps the
\* correlation.
LEMMA HistoryExtends ==
    ASSUME NEW n, NEW t, History(n, t), n # NumVars
    PROVE  \E t2 : History(n + 1, t2) /\ \A j \in 0 .. n : t2[j] = t[j]
<1> DEFINE next == [x |-> Pass(n + 1, t[n].x), y |-> Pass(n + 1, t[n].y),
                    z |-> Pass(n + 1, t[n].z)]
           t2 == [j \in 0 .. n + 1 |-> IF j = n + 1 THEN next ELSE t[j]]
<1>1. n \in 0 .. NumVars /\ n \in Nat /\ n + 1 \in Vars /\ n + 1 \in 0 .. NumVars
  BY PassCount DEF History
<1>2. /\ t[n].x \in Coeffs /\ t[n].y \in Coeffs /\ t[n].z \in Coeffs
      /\ VectorsCorrelated(t[n].x, t[n].y, t[n].z, d)
  BY <1>1 DEF History, Triples
<1>3. next \in Triples /\ VectorsCorrelated(next.x, next.y, next.z, d)
  BY <1>1, <1>2, PassType, CorrelatedPass DEF Triples
<1> HIDE DEF next
<1>4. t2[n + 1] = next /\ \A j \in 0 .. n : t2[j] = t[j]
  BY <1>1
<1>5. t2 \in [0 .. n + 1 -> Triples]
  <2>1. \A j \in 0 .. n + 1 : j = n + 1 \/ j \in 0 .. n
    BY <1>1
  <2> QED
    BY <1>3, <2>1 DEF History
<1> HIDE DEF t2
<1>6. \A j \in 0 .. n + 1 : VectorsCorrelated(t2[j].x, t2[j].y, t2[j].z, d)
  <2>1. \A j \in 0 .. n + 1 : j = n + 1 \/ j \in 0 .. n
    BY <1>1
  <2> QED
    BY <1>3, <1>4, <2>1 DEF History
<1>7. \A j \in 1 .. n + 1 :
        t2[j] = [x |-> Pass(j, t2[j - 1].x), y |-> Pass(j, t2[j - 1].y),
                 z |-> Pass(j, t2[j - 1].z)]
  <2> SUFFICES ASSUME NEW j \in 1 .. n + 1
               PROVE  t2[j] = [x |-> Pass(j, t2[j - 1].x), y |-> Pass(j, t2[j - 1].y),
                               z |-> Pass(j, t2[j - 1].z)]
    OBVIOUS
  <2>1. CASE j = n + 1
    <3>1. j - 1 = n /\ n \in 0 .. n
      BY <1>1, <2>1
    <3> QED
      BY <1>4, <2>1, <3>1 DEF next
  <2>2. CASE j # n + 1
    <3>1. j \in 1 .. n /\ j \in 0 .. n /\ j - 1 \in 0 .. n
      BY <1>1, <2>2
    <3>2. t[j] = [x |-> Pass(j, t[j - 1].x), y |-> Pass(j, t[j - 1].y),
                  z |-> Pass(j, t[j - 1].z)]
      BY <3>1 DEF History
    <3>3. t2[j] = t[j] /\ t2[j - 1] = t[j - 1]
      BY <1>4, <3>1
    <3> QED
      BY <3>2, <3>3
  <2> QED
    BY <2>1, <2>2
<1>8. History(n + 1, t2)
  BY <1>1, <1>5, <1>6, <1>7 DEF History
<1> QED
  BY <1>4, <1>8

\* A vector that is not encoded yet finds its next pass on a history, which is
\* extended for the first of the three to get there.
LEMMA HistoryReaches ==
    ASSUME NEW k, NEW n, NEW t, OnHistory(k, n, t),
           NEW p \in 0 .. n, p # NumVars
    PROVE  \E n2, t2 : OnHistory(k, n2, t2) /\ p + 1 \in 0 .. n2 /\ t2[p] = t[p]
<1>1. n \in Nat /\ NumVars \in Nat /\ n \in 0 .. NumVars
  BY NumVarsAssumption DEF OnHistory, History
<1>2. CASE p # n
  <2>1. p + 1 \in 0 .. n
    BY <1>1, <1>2
  <2> QED
    BY <2>1
<1>3. CASE p = n
  <2>1. PICK t2 : History(n + 1, t2) /\ \A j \in 0 .. n : t2[j] = t[j]
    BY <1>3, HistoryExtends DEF OnHistory
  <2>2. \A j \in 0 .. n : j \in 0 .. n + 1
    BY <1>1
  <2>3. OnHistory(k, n + 1, t2)
    BY <2>1, <2>2 DEF OnHistory
  <2>4. p + 1 \in 0 .. n + 1
    BY <1>1
  <2> QED
    BY <2>1, <2>3, <2>4
<1> QED
  BY <1>2, <1>3

\* Each point of a history but the first is one pass on.
LEMMA HistoryPasses ==
    ASSUME NEW n, NEW t, History(n, t), NEW j \in 1 .. n
    PROVE  /\ t[j].x = Pass(j, t[j - 1].x)
           /\ t[j].y = Pass(j, t[j - 1].y)
           /\ t[j].z = Pass(j, t[j - 1].z)
<1>1. t[j] = [x |-> Pass(j, t[j - 1].x), y |-> Pass(j, t[j - 1].y),
              z |-> Pass(j, t[j - 1].z)]
  BY DEF History
<1> QED
  BY <1>1

\* A call starts at the only point of a history: mA = mB + mC * delta is what
\* it was given.
LEMMA InitHistory ==
    ASSUME Ctx = "CoeffCtxGF128_F4", VoleInit
    PROVE  \A k \in CallName : HasHistory(k)
<1> SUFFICES ASSUME NEW k \in CallName
             PROVE  HasHistory(k)
  OBVIOUS
<1> DEFINE t == [j \in 0 .. 0 |-> [x |-> mA[k], y |-> mB[k], z |-> mC[k]]]
<1>1. TypeOK
  BY InitTypeOK
<1>2. mA[k] \in Coeffs /\ mB[k] \in Coeffs /\ mC[k] \in Coeffs
  BY <1>1 DEF TypeOK
<1>3. VectorsCorrelated(mA[k], mB[k], mC[k], d)
  <2>1. /\ mA[k] = [i \in Position |-> plus(noise[k].b[i], mul(noise[k].c[i], d))]
        /\ mB[k] = noise[k].b /\ mC[k] = noise[k].c
    BY DEF VoleInit
  <2> QED
    BY <2>1 DEF VectorsCorrelated, Correlated, plus, mul
<1>4. History(0, t)
  <2>1. 0 \in 0 .. NumVars /\ 0 .. 0 = {0} /\ 1 .. 0 = {}
    BY NumVarsAssumption
  <2> QED
    BY <1>2, <1>3, <2>1 DEF History, Triples
<1>5. passA[k] = 0 /\ passB[k] = 0 /\ passC[k] = 0 /\ 0 \in 0 .. 0
  BY DEF VoleInit
<1>6. OnHistory(k, 0, t)
  BY <1>4, <1>5 DEF OnHistory
<1> QED
  BY <1>6 DEF HasHistory

\* A pass takes the vector to the next point of its history, and nothing else
\* moves a vector.
LEMMA NextHistory ==
    ASSUME TypeOK, \A k \in CallName : HasHistory(k), [VoleNext]_voleVars
    PROVE  \A k \in CallName : HasHistory(k)'
<1>1. ASSUME NEW k \in CallName, EncodeA(k)
      PROVE  \A j \in CallName : HasHistory(j)'
  <2>1. PICK n, t : OnHistory(k, n, t)
    BY DEF HasHistory
  <2>2. passA[k] \in 0 .. n /\ passA[k] # NumVars /\ mA[k] = t[passA[k]].x
    BY <1>1, <2>1 DEF EncodeA, EncodedA, OnHistory
  <2>3. PICK n2, t2 : /\ OnHistory(k, n2, t2)
                      /\ passA[k] + 1 \in 0 .. n2
                      /\ t2[passA[k]] = t[passA[k]]
    BY <2>1, <2>2, HistoryReaches
  <2>4. t2[passA[k] + 1].x = Pass(passA[k] + 1, mA[k])
    <3>1. passA[k] + 1 \in 1 .. n2 /\ (passA[k] + 1) - 1 = passA[k]
      <4>1. n \in Nat
        BY <2>1, NumVarsAssumption DEF OnHistory, History
      <4> QED
        BY <2>2, <2>3, <4>1
    <3>2. History(n2, t2)
      BY <2>3 DEF OnHistory
    <3>3. t2[passA[k] + 1].x = Pass(passA[k] + 1, t2[(passA[k] + 1) - 1].x)
      BY <3>1, <3>2, HistoryPasses
    <3> QED
      BY <2>2, <2>3, <3>1, <3>3
  <2>5. ASSUME NEW j \in CallName
        PROVE  /\ passA'[j] = IF j = k THEN passA[j] + 1 ELSE passA[j]
               /\ mA'[j] = IF j = k THEN Pass(passA[j] + 1, mA[j]) ELSE mA[j]
    BY <1>1 DEF EncodeA, TypeOK
  <2>6. UNCHANGED <<d, mB, mC, passB, passC>>
    BY <1>1 DEF EncodeA, inputs, senderVars, receiverVars
  <2>7. OnHistory(k, n2, t2)'
    <3>1. History(n2, t2)'
      BY <2>3, <2>6 DEF OnHistory, History
    <3> QED
      BY <2>3, <2>4, <2>5, <2>6, <3>1 DEF OnHistory
  <2>8. ASSUME NEW j \in CallName, j # k
        PROVE  HasHistory(j)'
    <3>1. PICK nj, tj : OnHistory(j, nj, tj)
      BY DEF HasHistory
    <3>2. History(nj, tj)'
      BY <2>6, <3>1 DEF OnHistory, History
    <3>3. OnHistory(j, nj, tj)'
      BY <2>5, <2>6, <2>8, <3>1, <3>2 DEF OnHistory
    <3> QED
      BY <3>3 DEF HasHistory
  <2> QED
    BY <2>7, <2>8 DEF HasHistory
<1>2. ASSUME NEW k \in CallName, EncodeB(k)
      PROVE  \A j \in CallName : HasHistory(j)'
  <2>1. PICK n, t : OnHistory(k, n, t)
    BY DEF HasHistory
  <2>2. passB[k] \in 0 .. n /\ passB[k] # NumVars /\ mB[k] = t[passB[k]].y
    BY <1>2, <2>1 DEF EncodeB, EncodedB, OnHistory
  <2>3. PICK n2, t2 : /\ OnHistory(k, n2, t2)
                      /\ passB[k] + 1 \in 0 .. n2
                      /\ t2[passB[k]] = t[passB[k]]
    BY <2>1, <2>2, HistoryReaches
  <2>4. t2[passB[k] + 1].y = Pass(passB[k] + 1, mB[k])
    <3>1. passB[k] + 1 \in 1 .. n2 /\ (passB[k] + 1) - 1 = passB[k]
      <4>1. n \in Nat
        BY <2>1, NumVarsAssumption DEF OnHistory, History
      <4> QED
        BY <2>2, <2>3, <4>1
    <3>2. History(n2, t2)
      BY <2>3 DEF OnHistory
    <3>3. t2[passB[k] + 1].y = Pass(passB[k] + 1, t2[(passB[k] + 1) - 1].y)
      BY <3>1, <3>2, HistoryPasses
    <3> QED
      BY <2>2, <2>3, <3>1, <3>3
  <2>5. ASSUME NEW j \in CallName
        PROVE  /\ passB'[j] = IF j = k THEN passB[j] + 1 ELSE passB[j]
               /\ mB'[j] = IF j = k THEN Pass(passB[j] + 1, mB[j]) ELSE mB[j]
    BY <1>2 DEF EncodeB, TypeOK
  <2>6. UNCHANGED <<d, mA, mC, passA, passC>>
    BY <1>2 DEF EncodeB, inputs, senderVars, receiverVars
  <2>7. OnHistory(k, n2, t2)'
    <3>1. History(n2, t2)'
      BY <2>3, <2>6 DEF OnHistory, History
    <3> QED
      BY <2>3, <2>4, <2>5, <2>6, <3>1 DEF OnHistory
  <2>8. ASSUME NEW j \in CallName, j # k
        PROVE  HasHistory(j)'
    <3>1. PICK nj, tj : OnHistory(j, nj, tj)
      BY DEF HasHistory
    <3>2. History(nj, tj)'
      BY <2>6, <3>1 DEF OnHistory, History
    <3>3. OnHistory(j, nj, tj)'
      BY <2>5, <2>6, <2>8, <3>1, <3>2 DEF OnHistory
    <3> QED
      BY <3>3 DEF HasHistory
  <2> QED
    BY <2>7, <2>8 DEF HasHistory
<1>3. ASSUME NEW k \in CallName, EncodeC(k)
      PROVE  \A j \in CallName : HasHistory(j)'
  <2>1. PICK n, t : OnHistory(k, n, t)
    BY DEF HasHistory
  <2>2. passC[k] \in 0 .. n /\ passC[k] # NumVars /\ mC[k] = t[passC[k]].z
    BY <1>3, <2>1 DEF EncodeC, EncodedC, OnHistory
  <2>3. PICK n2, t2 : /\ OnHistory(k, n2, t2)
                      /\ passC[k] + 1 \in 0 .. n2
                      /\ t2[passC[k]] = t[passC[k]]
    BY <2>1, <2>2, HistoryReaches
  <2>4. t2[passC[k] + 1].z = Pass(passC[k] + 1, mC[k])
    <3>1. passC[k] + 1 \in 1 .. n2 /\ (passC[k] + 1) - 1 = passC[k]
      <4>1. n \in Nat
        BY <2>1, NumVarsAssumption DEF OnHistory, History
      <4> QED
        BY <2>2, <2>3, <4>1
    <3>2. History(n2, t2)
      BY <2>3 DEF OnHistory
    <3>3. t2[passC[k] + 1].z = Pass(passC[k] + 1, t2[(passC[k] + 1) - 1].z)
      BY <3>1, <3>2, HistoryPasses
    <3> QED
      BY <2>2, <2>3, <3>1, <3>3
  <2>5. ASSUME NEW j \in CallName
        PROVE  /\ passC'[j] = IF j = k THEN passC[j] + 1 ELSE passC[j]
               /\ mC'[j] = IF j = k THEN Pass(passC[j] + 1, mC[j]) ELSE mC[j]
    BY <1>3 DEF EncodeC, TypeOK
  <2>6. UNCHANGED <<d, mA, mB, passA, passB>>
    BY <1>3 DEF EncodeC, inputs, senderVars, receiverVars
  <2>7. OnHistory(k, n2, t2)'
    <3>1. History(n2, t2)'
      BY <2>3, <2>6 DEF OnHistory, History
    <3> QED
      BY <2>3, <2>4, <2>5, <2>6, <3>1 DEF OnHistory
  <2>8. ASSUME NEW j \in CallName, j # k
        PROVE  HasHistory(j)'
    <3>1. PICK nj, tj : OnHistory(j, nj, tj)
      BY DEF HasHistory
    <3>2. History(nj, tj)'
      BY <2>6, <3>1 DEF OnHistory, History
    <3>3. OnHistory(j, nj, tj)'
      BY <2>5, <2>6, <2>8, <3>1, <3>2 DEF OnHistory
    <3> QED
      BY <3>3 DEF HasHistory
  <2> QED
    BY <2>7, <2>8 DEF HasHistory
<1>4. ASSUME UNCHANGED <<d, mA, mB, mC, passA, passB, passC>>
      PROVE  \A j \in CallName : HasHistory(j)'
  <2> SUFFICES ASSUME NEW j \in CallName
               PROVE  HasHistory(j)'
    OBVIOUS
  <2>1. PICK n, t : OnHistory(j, n, t)
    BY DEF HasHistory
  <2>2. OnHistory(j, n, t)'
    BY <1>4, <2>1 DEF OnHistory, History
  <2> QED
    BY <2>2 DEF HasHistory
<1>5. CombineReceiver \/ CombineSender \/ UNCHANGED voleVars
        => UNCHANGED <<d, mA, mB, mC, passA, passB, passC>>
  BY DEF CombineReceiver, CombineSender, voleVars, inputs, receiverVars, senderVars
<1> QED
  BY <1>1, <1>2, <1>3, <1>4, <1>5 DEF VoleNext, Joined

\* When all three vectors of a call are encoded they are at the same point of
\* its history.
LEMMA HistoryImpliesCorrelated ==
    ASSUME Ctx = "CoeffCtxGF128_F4", \A k \in CallName : HasHistory(k)
    PROVE  EncodingCorrelated
<1> SUFFICES ASSUME NEW k \in CallName, EncodedA(k), EncodedB(k), EncodedC(k),
                    NEW i \in Position
             PROVE  mA[k][i] = plus(mB[k][i], mul(mC[k][i], d))
  BY DEF EncodingCorrelated
<1>1. PICK n, t : OnHistory(k, n, t)
  BY DEF HasHistory
<1>2. NumVars \in 0 .. n /\ mA[k] = t[NumVars].x /\ mB[k] = t[NumVars].y
      /\ mC[k] = t[NumVars].z
  BY <1>1 DEF OnHistory, EncodedA, EncodedB, EncodedC
<1>3. VectorsCorrelated(mA[k], mB[k], mC[k], d)
  BY <1>1, <1>2 DEF OnHistory, History
<1> QED
  BY <1>3 DEF VectorsCorrelated, Correlated, plus, mul

\* mA = mB + mC * delta holds of the encoded vectors of each call, for every
\* size of a block, number of variables, delta and noise, and in whichever
\* order the two threads make their passes.
THEOREM EncodingKeepsCorrelation ==
    ASSUME Ctx = "CoeffCtxGF128_F4"
    PROVE  VoleSpec => []EncodingCorrelated
<1>1. VoleInit => IInv
  BY InitTypeOK, InitHistory DEF IInv
<1>2. IInv /\ [VoleNext]_voleVars => IInv'
  BY NextTypeOK, NextHistory DEF IInv
<1>3. IInv => EncodingCorrelated
  BY HistoryImpliesCorrelated DEF IInv
<1> QED
  BY <1>1, <1>2, <1>3, PTL DEF VoleSpec

-----------------------------------------------------------------------------
(* What the two parties combine                                            *)

\* The receiver encodes mA before mC and the first call's before the second's, and the
\* sender encodes in the order of the calls too.
Ordered ==
    /\ \A k \in CallName : passC[k] # 0 => EncodedA(k)
    /\ passA["e"] # 0 => EncodedC("s")
    /\ passB["e"] # 0 => EncodedB("s")

\* What the parties have combined are the encoded vectors.
SharesAffine ==
    /\ "receiver" \in combined =>
         EncodedC("e") /\ Vol = Affine(mC["s"], mC["e"]) /\ addshare1 = Affine(mA["s"], mA["e"])
    /\ "sender" \in combined => EncodedB("e") /\ addshare2 = Affine(mB["s"], mB["e"])

VInv == IInv /\ Ordered /\ SharesAffine

\* Who has encoded the last of its vectors has encoded all of them.
LEMMA AllEncoded ==
    ASSUME Ordered
    PROVE  /\ EncodedC("e") => \A k \in CallName : EncodedA(k) /\ EncodedC(k)
           /\ EncodedB("e") => \A k \in CallName : EncodedB(k)
<1>1. NumVars # 0
  BY NumVarsAssumption
<1>2. ASSUME EncodedC("e") PROVE \A k \in CallName : EncodedA(k) /\ EncodedC(k)
  <2>1. EncodedA("e")
    BY <1>1, <1>2 DEF EncodedC, Ordered, CallName
  <2>2. EncodedC("s")
    BY <1>1, <2>1 DEF EncodedA, Ordered
  <2>3. EncodedA("s")
    BY <1>1, <2>2 DEF EncodedC, Ordered, CallName
  <2> QED
    BY <1>2, <2>1, <2>2, <2>3 DEF CallName
<1>3. ASSUME EncodedB("e") PROVE EncodedB("s")
  BY <1>1, <1>3 DEF EncodedB, Ordered
<1> QED
  BY <1>2, <1>3 DEF CallName

\* No step changes what has been combined, or encodes out of order.
LEMMA NextShares ==
    ASSUME TypeOK, Ordered, SharesAffine, [VoleNext]_voleVars
    PROVE  Ordered' /\ SharesAffine'
<1> USE DEF Ordered
<1>1. ASSUME NEW k \in CallName, EncodeA(k)
      PROVE  Ordered' /\ SharesAffine'
  <2>1. passA' = [passA EXCEPT ![k] = @ + 1] /\ UNCHANGED <<passB, passC, mB, mC, a>>
        /\ UNCHANGED <<combined, Vol, addshare1, addshare2>> /\ ~EncodedA(k)
        /\ (k = "e" => EncodedC("s"))
    BY <1>1 DEF EncodeA, inputs, senderVars
  <2>2. passA \in [CallName -> 0 .. NumVars]
    BY DEF TypeOK
  <2>3. passC[k] = 0
    BY <2>1
  <2>4. \A j \in CallName : j # k => passA'[j] = passA[j]
    BY <2>1, <2>2
  <2>5. Ordered'
    <3>1. \A j \in CallName : passC'[j] # 0 => EncodedA(j)'
      BY <2>1, <2>3, <2>4 DEF EncodedA
    <3>2. passA'["e"] # 0 => EncodedC("s")'
      BY <2>1, <2>4 DEF EncodedC, CallName
    <3> QED
      BY <2>1, <3>1, <3>2 DEF EncodedB
  <2>6. "receiver" \notin combined
    BY <2>1, AllEncoded DEF SharesAffine
  <2> QED
    BY <2>1, <2>5, <2>6 DEF SharesAffine, Affine, EncodedB
<1>2. ASSUME NEW k \in CallName, EncodeB(k)
      PROVE  Ordered' /\ SharesAffine'
  <2>1. passB' = [passB EXCEPT ![k] = @ + 1] /\ UNCHANGED <<passA, passC, mA, mC, a>>
        /\ UNCHANGED <<combined, Vol, addshare1, addshare2>> /\ ~EncodedB(k)
        /\ (k = "e" => EncodedB("s"))
    BY <1>2 DEF EncodeB, inputs, receiverVars
  <2>2. passB \in [CallName -> 0 .. NumVars]
    BY DEF TypeOK
  <2>3. \A j \in CallName : j # k => passB'[j] = passB[j]
    BY <2>1, <2>2
  <2>4. Ordered'
    <3>1. passB'["e"] # 0 => EncodedB("s")'
      <4>1. CASE k = "e"
        BY <2>1, <2>3, <4>1 DEF EncodedB, CallName
      <4>2. CASE k = "s"
        BY <2>1, <2>3, <4>2 DEF EncodedB, CallName
      <4> QED
        BY <4>1, <4>2 DEF CallName
    <3> QED
      BY <2>1, <3>1 DEF EncodedA, EncodedC
  <2>5. "sender" \notin combined
    BY <2>1, AllEncoded DEF SharesAffine
  <2> QED
    BY <2>1, <2>4, <2>5 DEF SharesAffine, Affine, EncodedC
<1>3. ASSUME NEW k \in CallName, EncodeC(k)
      PROVE  Ordered' /\ SharesAffine'
  <2>1. passC' = [passC EXCEPT ![k] = @ + 1] /\ UNCHANGED <<passA, passB, mA, mB, a>>
        /\ UNCHANGED <<combined, Vol, addshare1, addshare2>> /\ ~EncodedC(k) /\ EncodedA(k)
    BY <1>3 DEF EncodeC, inputs, senderVars
  <2>2. passC \in [CallName -> 0 .. NumVars]
    BY DEF TypeOK
  <2>3. \A j \in CallName : j # k => passC'[j] = passC[j]
    BY <2>1, <2>2
  <2>4. Ordered'
    <3>1. \A j \in CallName : passC'[j] # 0 => EncodedA(j)'
      BY <2>1, <2>3 DEF EncodedA
    <3>2. passA'["e"] # 0 => EncodedC("s")'
      <4>1. CASE k = "e"
        BY <2>1, <2>3, <4>1 DEF EncodedC, CallName
      <4>2. CASE k = "s"
        BY <2>1, <2>3, <4>2 DEF EncodedC, CallName
      <4> QED
        BY <4>1, <4>2 DEF CallName
    <3> QED
      BY <2>1, <3>1, <3>2 DEF EncodedB
  <2>5. "receiver" \notin combined
    BY <2>1, AllEncoded DEF SharesAffine
  <2> QED
    BY <2>1, <2>4, <2>5 DEF SharesAffine, Affine, EncodedB
<1>4. ASSUME CombineReceiver
      PROVE  Ordered' /\ SharesAffine'
  BY <1>4 DEF CombineReceiver, inputs, senderVars, SharesAffine, Affine, EncodedA,
              EncodedB, EncodedC
<1>5. ASSUME CombineSender
      PROVE  Ordered' /\ SharesAffine'
  BY <1>5 DEF CombineSender, inputs, receiverVars, SharesAffine, Affine, EncodedA,
              EncodedB, EncodedC
<1>6. ASSUME UNCHANGED voleVars
      PROVE  Ordered' /\ SharesAffine'
  BY <1>6 DEF voleVars, inputs, receiverVars, senderVars, SharesAffine, Affine, EncodedA,
              EncodedB, EncodedC
<1> QED
  BY <1>1, <1>2, <1>3, <1>4, <1>5, <1>6 DEF VoleNext, Joined

\* a times one correlated triple plus another is a correlated triple: the parties'
\* multiplications by a commute with the one by d.
LEMMA AffineCorrelated ==
    ASSUME NEW delta \in Block, NEW f \in Block,
           NEW x \in Block, NEW y \in Block, NEW z \in Block, Correlated(x, y, z, delta),
           NEW x2 \in Block, NEW y2 \in Block, NEW z2 \in Block, Correlated(x2, y2, z2, delta)
    PROVE  Xor(F4_mul(f, x), x2)
             = Xor(F4_mul(delta, Xor(F4_mul(f, z), z2)), Xor(F4_mul(f, y), y2))
<1> DEFINE p == F4_mul(f, F4_mul(z, delta))
           q == F4_mul(z2, delta)
<1>1. F4_mul(z, delta) \in Block /\ F4_mul(f, z) \in Block
  BY F4_mulXor
<1>2. F4_mul(f, x) = Xor(F4_mul(f, y), p)
  BY <1>1, F4_mulRight DEF Correlated
<1>3. F4_mul(delta, Xor(F4_mul(f, z), z2)) = Xor(p, q)
  <2>1. F4_mul(delta, Xor(F4_mul(f, z), z2))
          = Xor(F4_mul(delta, F4_mul(f, z)), F4_mul(delta, z2))
    BY <1>1, F4_mulRight
  <2>2. F4_mul(delta, F4_mul(f, z)) = F4_mul(f, F4_mul(delta, z))
    BY F4_mulExchange
  <2>3. F4_mul(delta, z) = F4_mul(z, delta) /\ F4_mul(delta, z2) = F4_mul(z2, delta)
    BY F4_mulCommutes
  <2> QED
    BY <2>1, <2>2, <2>3
<1>4. x2 = Xor(y2, q)
  BY DEF Correlated
<1> HIDE DEF p, q
<1>5. \A u : Xor(Xor(u, p), Xor(y2, q)) = Xor(Xor(p, q), Xor(u, y2))
  BY DEF Xor
<1> QED
  BY <1>2, <1>3, <1>4, <1>5

\* When both parties have combined, their shares are those of one VOLE.
LEMMA SharesVerified ==
    ASSUME Ctx = "CoeffCtxGF128_F4", TypeOK, EncodingCorrelated, Ordered, SharesAffine
    PROVE  Verified
<1> SUFFICES ASSUME BothCombined, NEW i \in Position
             PROVE  addshare1[i] = plus(mul(d, Vol[i]), addshare2[i])
  BY DEF Verified
<1>1. /\ Vol = Affine(mC["s"], mC["e"]) /\ addshare1 = Affine(mA["s"], mA["e"])
      /\ addshare2 = Affine(mB["s"], mB["e"]) /\ EncodedC("e") /\ EncodedB("e")
  BY DEF BothCombined, SharesAffine
<1>2. \A k \in CallName : EncodedA(k) /\ EncodedB(k) /\ EncodedC(k)
  BY <1>1, AllEncoded
<1>3. \A k \in CallName : mA[k][i] = Xor(mB[k][i], F4_mul(mC[k][i], d))
  BY <1>2 DEF EncodingCorrelated, plus, mul
<1>4. /\ d \in Block /\ a[i] \in Block
      /\ \A k \in CallName : mA[k][i] \in Block /\ mB[k][i] \in Block /\ mC[k][i] \in Block
  BY DEF TypeOK, Coeffs
<1>5. /\ Vol[i] = Xor(F4_mul(a[i], mC["s"][i]), mC["e"][i])
      /\ addshare1[i] = Xor(F4_mul(a[i], mA["s"][i]), mA["e"][i])
      /\ addshare2[i] = Xor(F4_mul(a[i], mB["s"][i]), mB["e"][i])
  BY <1>1 DEF Affine, plus, mul
<1>6. addshare1[i] = Xor(F4_mul(d, Vol[i]), addshare2[i])
  <2>1. "s" \in CallName /\ "e" \in CallName
    BY DEF CallName
  <2>2. /\ Correlated(mA["s"][i], mB["s"][i], mC["s"][i], d)
        /\ Correlated(mA["e"][i], mB["e"][i], mC["e"][i], d)
    BY <1>3, <2>1 DEF Correlated
  <2>3. Xor(F4_mul(a[i], mA["s"][i]), mA["e"][i])
          = Xor(F4_mul(d, Xor(F4_mul(a[i], mC["s"][i]), mC["e"][i])),
                Xor(F4_mul(a[i], mB["s"][i]), mB["e"][i]))
    <3>1. /\ d \in Block /\ a[i] \in Block
          /\ mA["s"][i] \in Block /\ mB["s"][i] \in Block /\ mC["s"][i] \in Block
          /\ mA["e"][i] \in Block /\ mB["e"][i] \in Block /\ mC["e"][i] \in Block
      BY <1>4, <2>1
    <3> DEFINE x == mA["s"][i]
               y == mB["s"][i]
               z == mC["s"][i]
               x2 == mA["e"][i]
               y2 == mB["e"][i]
               z2 == mC["e"][i]
               f == a[i]
    <3> HIDE DEF x, y, z, x2, y2, z2, f
    <3>2. /\ d \in Block /\ f \in Block /\ x \in Block /\ y \in Block /\ z \in Block
          /\ x2 \in Block /\ y2 \in Block /\ z2 \in Block
          /\ Correlated(x, y, z, d) /\ Correlated(x2, y2, z2, d)
      BY <2>2, <3>1 DEF x, y, z, x2, y2, z2, f
    <3>3. Xor(F4_mul(f, x), x2) = Xor(F4_mul(d, Xor(F4_mul(f, z), z2)), Xor(F4_mul(f, y), y2))
      BY <3>2, AffineCorrelated
    <3> QED
      BY <3>3 DEF x, y, z, x2, y2, z2, f
  <2> QED
    BY <1>5, <2>3
<1> QED
  BY <1>6 DEF plus, mul

\* VOLE_QASD's own check, d * Vol + addshare2 = addshare1, succeeds for every size of a
\* block, number of variables, delta, a and noise: the two calls, each encoded on its
\* own, are combined to one VOLE.
THEOREM VerificationSucceeds ==
    ASSUME Ctx = "CoeffCtxGF128_F4"
    PROVE  VoleSpec => []Verified
<1>1. VoleInit => VInv
  <2>1. VoleInit => Ordered
    BY DEF VoleInit, Ordered, CallName
  <2>2. VoleInit => SharesAffine
    BY DEF VoleInit, SharesAffine
  <2> QED
    BY <2>1, <2>2, InitTypeOK, InitHistory DEF VInv, IInv
<1>2. VInv /\ [VoleNext]_voleVars => VInv'
  BY NextTypeOK, NextHistory, NextShares DEF VInv, IInv
<1>3. VInv => Verified
  BY HistoryImpliesCorrelated, SharesVerified DEF VInv, IInv
<1> QED
  BY <1>1, <1>2, <1>3, PTL DEF VoleSpec

-----------------------------------------------------------------------------
(* Vol                                                                     *)

\* What the passes that are done have left of the noise that was to be encoded.
NoiseTransformed == \A k \in CallName : Transformed(passC[k], mC[k], noise[k].c)

SInv == TypeOK /\ Ordered /\ SharesAffine /\ NoiseTransformed

\* No pass is done at the start.
LEMMA InitTransformed ==
    ASSUME Ctx = "CoeffCtxGF128_F4", VoleInit
    PROVE  NoiseTransformed
<1> SUFFICES ASSUME NEW k \in CallName
             PROVE  Transformed(passC[k], mC[k], noise[k].c)
  BY DEF NoiseTransformed
<1>1. passC[k] = 0 /\ mC[k] = noise[k].c
  BY DEF VoleInit
<1>2. noise[k].c \in Coeffs
  BY InitTypeOK DEF TypeOK
<1> DEFINE c == noise[k].c
<1> HIDE DEF c
<1>3. c \in Coeffs => Transformed(0, c, c)
  BY TransformedStart
<1> QED
  BY <1>1, <1>2, <1>3 DEF c

\* A step either encodes one of the vectors by a pass or leaves it as it is.
LEMMA NextTransformed ==
    ASSUME TypeOK, NoiseTransformed, [VoleNext]_voleVars
    PROVE  NoiseTransformed'
<1>1. CASE UNCHANGED <<noise, mC, passC>>
  BY <1>1 DEF NoiseTransformed
<1>2. ASSUME NEW k \in CallName, EncodeC(k)
      PROVE  NoiseTransformed'
  <2>1. /\ mC' = [mC EXCEPT ![k] = Pass(passC[k] + 1, @)]
        /\ passC' = [passC EXCEPT ![k] = @ + 1]
        /\ noise' = noise /\ passC[k] # NumVars
    BY <1>2 DEF EncodeC, EncodedC, inputs
  <2>2. passC \in [CallName -> 0 .. NumVars] /\ mC \in [CallName -> Coeffs]
    BY DEF TypeOK
  <2>3. ASSUME NEW j \in CallName, j # k
        PROVE  Transformed(passC'[j], mC'[j], noise'[j].c)
    BY <2>1, <2>2, <2>3 DEF NoiseTransformed
  <2>4. Transformed(passC'[k], mC'[k], noise'[k].c)
    <3> DEFINE n == passC[k]
               x == mC[k]
               c == noise[k].c
    <3>1. n \in 0 .. NumVars /\ n # NumVars /\ Transformed(n, x, c)
      BY <2>1, <2>2 DEF NoiseTransformed
    <3>2. passC'[k] = n + 1 /\ mC'[k] = Pass(n + 1, x) /\ noise'[k].c = c
      BY <2>1, <2>2
    <3> HIDE DEF n, x, c
    <3> QED
      BY <3>1, <3>2, TransformedPass
  <2> QED
    BY <2>3, <2>4 DEF NoiseTransformed
<1>3. ASSUME NEW k \in CallName, EncodeA(k)
      PROVE  UNCHANGED <<noise, mC, passC>>
  BY <1>3 DEF EncodeA, inputs
<1>4. ASSUME NEW k \in CallName, EncodeB(k)
      PROVE  UNCHANGED <<noise, mC, passC>>
  BY <1>4 DEF EncodeB, inputs, receiverVars
<1>5. ASSUME CombineReceiver
      PROVE  UNCHANGED <<noise, mC, passC>>
  BY <1>5 DEF CombineReceiver, inputs
<1>6. ASSUME CombineSender
      PROVE  UNCHANGED <<noise, mC, passC>>
  BY <1>6 DEF CombineSender, inputs, receiverVars
<1>7. ASSUME UNCHANGED voleVars
      PROVE  UNCHANGED <<noise, mC, passC>>
  BY <1>7 DEF voleVars, inputs, receiverVars
<1> QED
  BY <1>1, <1>2, <1>3, <1>4, <1>5, <1>6, <1>7 DEF VoleNext, Joined

\* The receiver combines what all passes have left of the noise: its values.
LEMMA VolFromNoise ==
    ASSUME SInv
    PROVE  VolIsSyndrome
<1> SUFFICES ASSUME BothCombined, NEW i \in Position
             PROVE  Vol[i] = plus(mul(a[i], Evaluate(noise["s"].c, i)),
                                  Evaluate(noise["e"].c, i))
  BY DEF VolIsSyndrome
<1>1. Vol = Affine(mC["s"], mC["e"]) /\ EncodedC("e")
  BY DEF SInv, BothCombined, SharesAffine
<1>2. \A k \in CallName : EncodedC(k)
  BY <1>1, AllEncoded DEF SInv
<1>3. ASSUME NEW k \in CallName
      PROVE  mC[k][i] = Evaluate(noise[k].c, i)
  <2>1. Transformed(NumVars, mC[k], noise[k].c)
    BY <1>2 DEF SInv, NoiseTransformed, EncodedC
  <2> DEFINE x == mC[k]
             c == noise[k].c
  <2> HIDE DEF x, c
  <2>2. Transformed(NumVars, x, c) => x[i] = Evaluate(c, i)
    BY TransformedEnd
  <2> QED
    BY <2>1, <2>2 DEF x, c
<1>4. mC["s"][i] = Evaluate(noise["s"].c, i) /\ mC["e"][i] = Evaluate(noise["e"].c, i)
  BY <1>3 DEF CallName
<1> QED
  BY <1>1, <1>4 DEF Affine

\* Vol is the syndrome a * s + e of the noise the receiver started from, at every point,
\* for every size of a block and number of variables: what the passes leave in mC, in
\* whatever order the threads run, are the values of the noise.
THEOREM VolOfNoise ==
    ASSUME Ctx = "CoeffCtxGF128_F4"
    PROVE  VoleSpec => []VolIsSyndrome
<1>1. VoleInit => SInv
  <2>1. VoleInit => Ordered /\ SharesAffine
    BY DEF VoleInit, Ordered, CallName, SharesAffine
  <2> QED
    BY <2>1, InitTypeOK, InitTransformed DEF SInv
<1>2. SInv /\ [VoleNext]_voleVars => SInv'
  BY NextTypeOK, NextShares, NextTransformed DEF SInv
<1>3. SInv => VolIsSyndrome
  BY VolFromNoise
<1> QED
  BY <1>1, <1>2, <1>3, PTL DEF VoleSpec
=============================================================================
