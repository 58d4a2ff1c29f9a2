--------------------------- MODULE TernaryDpfProofs ---------------------------
(***************************************************************************)
(* Two parties that expand a ternary DPF share the point function, for any  *)
(* hash functions, domains, points, values, seeds and base OTs: type        *)
(* correctness, the match of messages and receives, the single active path, *)
(* and what the callbacks are given.                                        *)
(***************************************************************************)
EXTENDS TernaryDpf, FiniteSetTheorems, SequenceTheorems, WellFoundedInduction, TLAPS

-----------------------------------------------------------------------------
(* The depth of the tree                                                   *)

\* A set of natural numbers that is not empty has a least element.
LEMMA LeastNatural ==
    ASSUME NEW S \in SUBSET Nat, S # {}
    PROVE  \E i \in S : \A j \in S : i <= j
<1> DEFINE Below(i) == {j \in S : j <= i}
           T == {Below(i) : i \in S}
           R == StrictSubsetOrdering(S)
<1>1. T \subseteq FiniteSubsetsOf(S)
  <2>1. ASSUME NEW i \in S PROVE IsFiniteSet(Below(i))
    BY FS_BoundedSetOfNaturals
  <2>2. \A i \in S : Below(i) \in SUBSET S
    OBVIOUS
  <2> HIDE DEF Below
  <2> QED
    BY <2>1, <2>2 DEF FiniteSubsetsOf
<1>2. T # {}
  OBVIOUS
<1>3. IsWellFoundedOn(R, FiniteSubsetsOf(S))
  BY FS_StrictSubsetOrderingWellFounded
<1>4. PICK t \in T : \A u \in T : ~(<<u, t>> \in R)
  <2> HIDE DEF T, R
  <2> QED
    BY <1>1, <1>2, <1>3, WFMin
<1>5. PICK i \in S : t = Below(i)
  OBVIOUS
<1>6. ASSUME NEW j \in S, ~(i <= j) PROVE FALSE
  <2>1. Below(j) \subseteq Below(i) /\ Below(j) # Below(i)
    <3>1. i \in Below(i) /\ i \notin Below(j)
      BY <1>6
    <3>2. \A k \in S : k <= j => k <= i
      BY <1>6
    <3> QED
      BY <3>1, <3>2
  <2>2. Below(j) \in T /\ Below(i) \in SUBSET S /\ Below(j) \in SUBSET S
    OBVIOUS
  <2>3. <<Below(j), Below(i)>> \in R
    <3> HIDE DEF Below
    <3> QED
      BY <2>1, <2>2 DEF StrictSubsetOrdering
  <2> QED
    BY <1>4, <1>5, <2>2, <2>3
<1> QED
  BY <1>6

\* init() finds a depth whose leaves suffice; it is 0 for a domain of one, the
\* trivial case of expand(), and only for that.
LEMMA DepthType ==
    ASSUME NEW d \in Domains
    PROVE  /\ d \in Nat \ {0}
           /\ log3ceil(d) \in 0 .. MaxDepth
           /\ d = 1 => log3ceil(d) = 0
           /\ d # 1 => log3ceil(d) # 0
<1> DEFINE reach == {i \in 0 .. MaxDepth : 3 ^ i >= d}
<1>1. d \in Int /\ 1 <= d /\ 3 ^ MaxDepth >= d
  BY DpfAssumption
<1>2. reach \in SUBSET Nat /\ reach # {}
  <2>1. MaxDepth \in Nat /\ MaxDepth \in 0 .. MaxDepth
    BY DpfAssumption
  <2> QED
    BY <1>1, <2>1
<1>3. \E i \in reach : \A j \in reach : i <= j
  <2> HIDE DEF reach
  <2> QED
    BY <1>2, LeastNatural
<1>4. log3ceil(d) = CHOOSE i \in reach : \A j \in reach : i <= j
  BY DEF log3ceil
<1>5. log3ceil(d) \in reach /\ \A j \in reach : log3ceil(d) <= j
  <2> HIDE DEF reach
  <2> QED
    BY <1>3, <1>4
<1>6. 3 ^ 0 = 1
  OBVIOUS
<1>7. d = 1 => 0 \in reach
  BY <1>6, DpfAssumption
<1>8. d # 1 => 0 \notin reach
  BY <1>1, <1>6
<1>9. log3ceil(d) \in 0 .. MaxDepth
  BY <1>5
<1>10. d = 1 => log3ceil(d) <= 0
  BY <1>5, <1>7
<1>11. d # 1 => log3ceil(d) # 0
  BY <1>5, <1>8
<1> QED
  BY <1>1, <1>9, <1>10, <1>11

-----------------------------------------------------------------------------
(* Blocks                                                                  *)

\* Xor adds no bits that neither operand may have.
LEMMA XorType ==
    ASSUME NEW x \in Block, NEW y \in Block
    PROVE  Xor(x, y) \in Block
BY DEF Xor, Block

\* A bit of a sum is set if it is set in one of the two terms only.
LEMMA XorBit ==
    ASSUME NEW x, NEW y, NEW b
    PROVE  b \in Xor(x, y) <=> ~(b \in x <=> b \in y)
BY DEF Xor

\* Xor does not depend on the order of its operands.
LEMMA XorComm == ASSUME NEW x, NEW y PROVE Xor(x, y) = Xor(y, x)
BY DEF Xor

\* Nor on how a sum is bracketed.
LEMMA XorAssoc ==
    ASSUME NEW x, NEW y, NEW w
    PROVE  Xor(Xor(x, y), w) = Xor(x, Xor(y, w))
BY DEF Xor

\* A block added to itself is zero, and zero adds nothing.
LEMMA XorZero ==
    ASSUME NEW x
    PROVE  Xor(x, x) = Zero /\ Xor(x, Zero) = x /\ Xor(Zero, x) = x
BY DEF Xor, Zero

\* The parity of a symmetric difference.
LEMMA XorParity ==
    ASSUME NEW A, IsFiniteSet(A), NEW B, IsFiniteSet(B)
    PROVE  Cardinality(Xor(A, B)) % 2 = 1
             <=> ~(Cardinality(A) % 2 = 1 <=> Cardinality(B) % 2 = 1)
<1> DEFINE n == Cardinality(A)
           m == Cardinality(B)
           j == Cardinality(A \cap B)
<1>1. IsFiniteSet(A \ B) /\ Cardinality(A \ B) = n - j
  BY FS_Difference
<1>2. IsFiniteSet(B \ A) /\ Cardinality(B \ A) = m - j
  <2>1. B \cap A = A \cap B
    OBVIOUS
  <2> QED
    BY <2>1, FS_Difference
<1>3. (A \ B) \cap (B \ A) = {}
  OBVIOUS
<1>4. Cardinality(Xor(A, B)) = (n - j) + (m - j) - 0
  <2>1. Cardinality((A \ B) \cap (B \ A)) = 0
    BY <1>3, FS_EmptySet
  <2> QED
    BY <1>1, <1>2, <2>1, FS_Union DEF Xor
<1>5. n \in Nat /\ m \in Nat
  BY FS_CardinalityType
<1>6. j \in Nat
  <2>1. IsFiniteSet(A \cap B)
    BY FS_Subset
  <2> QED
    BY <2>1, FS_CardinalityType
<1> HIDE DEF n, m, j
<1>7. Cardinality(Xor(A, B)) = n + m - 2 * j
  BY <1>4, <1>5, <1>6
<1>8. (n + m - 2 * j) % 2 = (n + m) % 2
  BY <1>5, <1>6
<1>9. (n + m) % 2 = 1 <=> ~(n % 2 = 1 <=> m % 2 = 1)
  BY <1>5
<1> QED
  BY <1>7, <1>8, <1>9 DEF n, m

\* The sum of a family is a block.
LEMMA XorAllType == ASSUME NEW f PROVE XorAll(f) \in Block
BY DEF XorAll, Block

\* Two families that differ in one block at most have sums that differ by what
\* these two blocks differ by.
LEMMA XorAllDiffer ==
    ASSUME NEW S, IsFiniteSet(S), NEW f \in [S -> Block], NEW g \in [S -> Block],
           NEW x \in S, \A y \in S \ {x} : f[y] = g[y]
    PROVE  Xor(XorAll(f), XorAll(g)) = Xor(f[x], g[x])
<1> DEFINE F(b) == {y \in S : b \in f[y]}
           G(b) == {y \in S : b \in g[y]}
<1>1. ASSUME NEW b \in Bits
      PROVE  b \in Xor(XorAll(f), XorAll(g)) <=> b \in Xor(f[x], g[x])
  <2>1. IsFiniteSet(F(b)) /\ IsFiniteSet(G(b))
    <3>1. F(b) \subseteq S /\ G(b) \subseteq S
      OBVIOUS
    <3> QED
      BY <3>1, FS_Subset
  <2>2. (b \in XorAll(f) <=> Cardinality(F(b)) % 2 = 1)
        /\ (b \in XorAll(g) <=> Cardinality(G(b)) % 2 = 1)
    BY DEF XorAll
  <2>3. Cardinality(Xor(F(b), G(b))) % 2 = 1
          <=> ~(b \in XorAll(f) <=> b \in XorAll(g))
    <3> HIDE DEF F, G
    <3> QED
      BY <2>1, <2>2, XorParity
  <2>4. Xor(F(b), G(b)) = IF b \in Xor(f[x], g[x]) THEN {x} ELSE {}
    BY DEF Xor
  <2>5. Cardinality(Xor(F(b), G(b))) % 2 = 1 <=> b \in Xor(f[x], g[x])
    <3>1. CASE b \in Xor(f[x], g[x])
      <4>1. Cardinality({x}) % 2 = 1
        <5>1. Cardinality({x}) = 1
          BY FS_Singleton
        <5> QED
          BY <5>1
      <4>2. Xor(F(b), G(b)) = {x}
        BY <2>4, <3>1
      <4> HIDE DEF F, G
      <4> QED
        BY <3>1, <4>1, <4>2
    <3>2. CASE b \notin Xor(f[x], g[x])
      <4>1. ~(Cardinality({}) % 2 = 1)
        <5>1. Cardinality({}) = 0
          BY FS_EmptySet
        <5> QED
          BY <5>1
      <4>2. Xor(F(b), G(b)) = {}
        BY <2>4, <3>2
      <4> HIDE DEF F, G
      <4> QED
        BY <3>2, <4>1, <4>2
    <3> QED
      BY <3>1, <3>2
  <2> QED
    BY <2>3, <2>5, XorBit
<1>2. Xor(XorAll(f), XorAll(g)) \in SUBSET Bits /\ Xor(f[x], g[x]) \in SUBSET Bits
  <2>1. f[x] \in Block /\ g[x] \in Block
    OBVIOUS
  <2> QED
    BY <2>1, XorType, XorAllType DEF Block
<1> QED
  BY <1>1, <1>2

-----------------------------------------------------------------------------
(* Nodes                                                                   *)

\* A level has finitely many nodes.
LEMMA NodesFinite == ASSUME NEW n \in Nat PROVE IsFiniteSet(Node(n))
<1> DEFINE S == SUBSET ((1 .. n) \X Digit)
           f == [x \in Node(n) |-> {<<i, x[i]>> : i \in 1 .. n}]
<1>1. IsFiniteSet(1 .. n) /\ IsFiniteSet(Digit)
  <2>1. IsFiniteSet(1 .. n)
    BY FS_Interval
  <2>2. IsFiniteSet(0 .. 2)
    <3>1. 0 \in Int /\ 2 \in Int
      OBVIOUS
    <3> QED
      BY <3>1, FS_Interval
  <2> QED
    BY <2>1, <2>2 DEF Digit
<1>2. IsFiniteSet(S)
  BY <1>1, FS_Product, FS_SUBSET
<1>3. f \in Injection(Node(n), S)
  <2>1. f \in [Node(n) -> S]
    BY DEF Node
  <2>2. ASSUME NEW x \in Node(n), NEW y \in Node(n), f[x] = f[y] PROVE x = y
    <3>1. ASSUME NEW i \in 1 .. n PROVE x[i] = y[i]
      <4>1. <<i, x[i]>> \in f[x]
        OBVIOUS
      <4>2. PICK j \in 1 .. n : <<i, x[i]>> = <<j, y[j]>>
        BY <4>1, <2>2
      <4> QED
        BY <4>2
    <3> QED
      BY <3>1 DEF Node
  <2> QED
    BY <2>1, <2>2 DEF Injection, IsInjective
<1> QED
  BY <1>2, <1>3, FS_Injection

-----------------------------------------------------------------------------
(* The inductive invariant                                                 *)

Trivial == mDomain = 1
Ready == [sender |-> "done", recver |-> "done"]

\* The path to the point down to level n.
Prefix(n) == [i \in 1 .. n |-> Point[i]]

\* The inputs are of the types that the program gives them.
Inputs ==
    /\ mDomain \in Domains
    /\ points \in [Party -> Node(mDepth)]
    /\ values \in [Party -> Block]
    /\ mBaseSendOts \in [Party -> [1 .. 2 * MaxDepth -> [{0, 1} -> Block]]]
    /\ mBaseChoice \in [Party -> [1 .. 2 * MaxDepth -> {0, 1}]]

\* With one leaf there is nothing to exchange.
OneLeaf ==
    \A p \in Party :
        /\ stage[p] \in {"trivial", "done"}
        /\ stage[p] = "done" =>
             /\ output[p] = [x \in Leaf |-> values[p]]
             /\ tags[p] = [x \in Leaf |-> RootTag(p)]

\* p is ahead of q by one level, and waits then for q.
Ahead(p, q) ==
    /\ iter[p] = iter[q] + 1
    /\ stage[p] = "transfer" /\ strand[p].sender = "recv" /\ strand[p].recver # "done"
    /\ stage[q] = "sigma"

\* How far the two coroutines of p, and p and q, can be apart.
Apart(p, q) ==
    /\ stage[p] # "trivial"
    /\ iter[p] <= mDepth
    /\ stage[p] # "transfer" => strand[p] = Ready
    /\ stage[p] \in {"diff", "done"} => iter[p] = mDepth
    /\ iter[p] = iter[q] \/ Ahead(p, q) \/ Ahead(q, p)
    /\ iter[p] = iter[q] =>
         /\ strand[p].sender = "done" => strand[q].recver # "send"
         /\ strand[p].recver = "done" => strand[q].sender = "done"
         /\ stage[p] = "diff" => stage[q] # "transfer"
         /\ stage[p] = "done" => stage[q] \in {"diff", "done"}

Control == Apart(0, 1) /\ Apart(1, 0)

\* What p says about a level.
CorrectionOf(p, n) ==
    <<Flip(points[p][n] % 2, mBaseChoice[p][2 * n - 1]),
      Flip(points[p][n] \div 2, mBaseChoice[p][2 * n])>>

KeyOf(p, n, j) ==
    Xor(mBaseSendOts[p][2 * n - 1][Flip(j % 2, CorrectionOf(1 - p, n)[1])],
        mBaseSendOts[p][2 * n][Flip(j \div 2, CorrectionOf(1 - p, n)[2])])

Unmasked(p) == Expand3[KeyOf(p, iter[p], 0)]

\* The r that is in mask.
Drawn(p) == Xor(mask[p][points[p][iter[p]]], Unmasked(p)[points[p][iter[p]]])

TransferOf(p) ==
    LET for(j) == [XorTriple(Expand3[KeyOf(p, iter[p], j)], mask[p])
                     EXCEPT ![Offset(j, points[p][iter[p]])] = Xor(@, Drawn(p))]
    IN  <<for(1), for(2)>>

DiffOf(p) == Xor(values[p], XorAll(leaves[p]))

CorrectionMsg(p) == [kind |-> "correction", what |-> CorrectionOf(p, iter[p])]
TransferMsg(p) == [kind |-> "transfer", what |-> TransferOf(p)]
SigmaMsg(p) == [kind |-> "sigma", what |-> sigma[p]]
DiffMsg(p) == [kind |-> "diff", what |-> DiffOf(p)]

\* What q has sent and p has not received.
CorrectionDue(p, q) ==
    /\ strand[q].recver # "send"
    /\ iter[p] < iter[q] \/ (iter[p] = iter[q] /\ strand[p].sender = "recv")

TransferDue(p, q) ==
    /\ iter[p] = iter[q]
    /\ strand[q].sender = "done" /\ strand[p].recver # "done"

SigmaDue(p, q) ==
    /\ stage[p] \in {"transfer", "sigma"}
    /\ iter[p] < iter[q] \/ (iter[p] = iter[q] /\ stage[q] # "transfer")

DiffDue(p, q) == stage[q] \in {"diff", "done"} /\ stage[p] # "done"

\* What is on its way on the fork for level n.
ForkMail0(n) == IF n = iter[1] /\ TransferDue(0, 1) THEN <<TransferMsg(1)>> ELSE <<>>
ForkMail1(n) == IF n = iter[0] /\ CorrectionDue(1, 0) THEN <<CorrectionMsg(0)>> ELSE <<>>

\* What is on its way on the socket.
SocketMail0 ==
    IF SigmaDue(0, 1)
    THEN IF CorrectionDue(0, 1) THEN <<SigmaMsg(1), CorrectionMsg(1)>>
         ELSE IF DiffDue(0, 1) THEN <<SigmaMsg(1), DiffMsg(1)>> ELSE <<SigmaMsg(1)>>
    ELSE IF CorrectionDue(0, 1) THEN <<CorrectionMsg(1)>>
    ELSE IF DiffDue(0, 1) THEN <<DiffMsg(1)>> ELSE <<>>

SocketMail1 ==
    IF TransferDue(1, 0)
    THEN IF SigmaDue(1, 0) THEN <<TransferMsg(0), SigmaMsg(0)>> ELSE <<TransferMsg(0)>>
    ELSE IF SigmaDue(1, 0)
    THEN IF DiffDue(1, 0) THEN <<SigmaMsg(0), DiffMsg(0)>> ELSE <<SigmaMsg(0)>>
    ELSE IF DiffDue(1, 0) THEN <<DiffMsg(0)>> ELSE <<>>

NetShape == net = [p \in Party |-> [c \in 0 .. MaxDepth |-> net[p][c]]]

Mailed ==
    /\ net[0][0] = SocketMail0
    /\ net[1][0] = SocketMail1
    /\ \A n \in 1 .. MaxDepth : net[0][n] = ForkMail0(n) /\ net[1][n] = ForkMail1(n)

\* mask hides what the peer gets by a block whose control bit is the party.
Masked ==
    \A p \in Party : strand[p].sender = "done" =>
        /\ lsb(Drawn(p)) <=> p = 1
        /\ \A i \in Digit \ {points[p][iter[p]]} : mask[p][i] = Unmasked(p)[i]

Buffered ==
    \A p \in Party : stage[p] = "transfer" /\ strand[p].recver = "done" =>
        recvBuffer[p] = TransferOf(1 - p)

\* A share of the correction word is the sums of the own seeds, plus what the peer has
\* drawn at the digit of the point, under a mask that the two parties have in common.
Summed ==
    \A p \in Party : stage[p] = "sigma" /\ iter[0] = iter[1] =>
        \A i \in Digit :
            sigma[p][i] = Xor(Xor(mask[0][i], mask[1][i]),
                              Xor(z[p][i], IF i = Point[iter[p]] THEN Drawn(1 - p) ELSE Zero))

\* What a party that waits for the other share will make of its level.
SharedWord == XorTriple(sigma[0], sigma[1])
Fixed(p) ==
    [x \in Node(iter[p]) |-> IF parentTags[p][Parent(x, iter[p])]
                             THEN Xor(seeds[p][x], SharedWord[x[iter[p]]]) ELSE seeds[p][x]]

TagsFrom(n, f) == [x \in Node(n) |-> lsb(f[x])]
SeedsFrom(n, f) == [y \in Node(n + 1) |-> Hash[y[n + 1]][f[Parent(y, n + 1)]]]
SumsFrom(n, f) == [i \in Digit |-> XorAll([x \in Node(n) |-> Hash[i][f[x]]])]

Behind(p) == iter[p] < iter[1 - p]
LevelTags(p) == IF Behind(p) THEN TagsFrom(iter[p], Fixed(p)) ELSE parentTags[p]
LevelSeeds(p) == IF Behind(p) THEN SeedsFrom(iter[p], Fixed(p)) ELSE seeds[p]
LevelSums(p) == IF Behind(p) THEN SumsFrom(iter[p], Fixed(p)) ELSE z[p]
Level == IF Behind(0) THEN iter[1] ELSE iter[0]

\* On level n: tags of the parents, seeds and their sums by digit of the two parties.
OnPath(n, t0, t1, s0, s1, z0, z1) ==
    /\ \A x \in Node(n - 1) : (t0[x] # t1[x]) <=> x = Prefix(n - 1)
    /\ \A y \in Node(n) : Parent(y, n) # Prefix(n - 1) => s0[y] = s1[y]
    /\ \A y \in Node(n) : Parent(y, n) = Prefix(n - 1) =>
         Xor(s0[y], s1[y]) = Xor(z0[y[n]], z1[y[n]])

\* On level n once it is corrected.
FixedOnPath(n, f0, f1) ==
    \A x \in Node(n) :
        /\ (lsb(f0[x]) # lsb(f1[x])) <=> x = Prefix(n)
        /\ x # Prefix(n) => f0[x] = f1[x]

Expanding == \A p \in Party : stage[p] \in {"transfer", "sigma"}

Levels ==
    Expanding => OnPath(Level, LevelTags(0), LevelTags(1), LevelSeeds(0), LevelSeeds(1),
                        LevelSums(0), LevelSums(1))

\* The leaves, and those that a party has not made yet.
LeafVals(p) == IF stage[p] = "sigma" THEN [x \in Leaf |-> RoundFn[Fixed(p)[x]]] ELSE leaves[p]
LeafTags(p) == IF stage[p] = "sigma" THEN [x \in Leaf |-> lsb(Fixed(p)[x])] ELSE tags[p]

LeavesOnPath ==
    ~Expanding =>
        \A x \in Leaf :
            /\ (LeafTags(0)[x] # LeafTags(1)[x]) <=> x = Point
            /\ x # Point => LeafVals(0)[x] = LeafVals(1)[x]

Gamma(p) == Xor(Xor(DiffOf(1 - p), XorAll(leaves[p])), values[p])

Outputs ==
    \A p \in Party : stage[p] = "done" =>
        output[p] = [x \in Leaf |-> Xor(MaskedBy(tags[p][x], Gamma(p)), leaves[p][x])]

Tree ==
    /\ Control /\ Mailed /\ Masked /\ Buffered /\ Summed
    /\ Levels /\ LeavesOnPath /\ Outputs

\* Each party has its own of what TypeOK types party by party.
Families ==
    /\ DOMAIN parentTags = Party /\ DOMAIN seeds = Party
    /\ DOMAIN leaves = Party /\ DOMAIN tags = Party /\ DOMAIN output = Party

IInv ==
    /\ Inputs /\ TypeOK /\ NetShape /\ Families
    /\ Trivial => OneLeaf
    /\ ~Trivial => Tree

-----------------------------------------------------------------------------
(* Paths                                                                   *)

\* init() has set the depth; with more than one leaf there is a level to correct.
LEMMA Depth ==
    ASSUME Inputs
    PROVE  mDepth \in 0 .. MaxDepth /\ (Trivial <=> mDepth = 0)
<1>1. mDomain \in Domains
  BY DEF Inputs
<1>2. /\ log3ceil(mDomain) \in 0 .. MaxDepth
      /\ mDomain = 1 => log3ceil(mDomain) = 0
      /\ mDomain # 1 => log3ceil(mDomain) # 0
  BY <1>1, DepthType, Zenon
<1> QED
  BY <1>2 DEF mDepth, Trivial

\* The sum of the two shares is a point.
LEMMA PointType == ASSUME Inputs PROVE Point \in Node(mDepth)
<1>1. ASSUME NEW i \in 1 .. mDepth PROVE (points[0][i] + points[1][i]) % 3 \in Digit
  <2>1. points[0][i] \in 0 .. 2 /\ points[1][i] \in 0 .. 2
    BY DEF Inputs, Node, Party, Digit
  <2> QED
    BY <2>1 DEF Digit
<1> QED
  BY <1>1 DEF Point, Node

\* So is what leads to it.
LEMMA PrefixType ==
    ASSUME Inputs, NEW n \in 0 .. mDepth
    PROVE  Prefix(n) \in Node(n)
<1>1. \A i \in 1 .. n : i \in 1 .. mDepth
  BY Depth
<1> QED
  BY <1>1, PointType DEF Prefix, Node

\* At the last level it is the point.
LEMMA PrefixPoint == Prefix(mDepth) = Point
BY DEF Prefix, Point

\* A node below the root has a parent, one level up.
LEMMA ParentType ==
    ASSUME NEW n \in Nat \ {0}, NEW x \in Node(n)
    PROVE  Parent(x, n) \in Node(n - 1) /\ x[n] \in Digit
BY DEF Parent, Node

\* The path goes on at one child of the node it has reached.
LEMMA PathChild ==
    ASSUME Inputs, NEW n \in 1 .. mDepth, NEW x \in Node(n)
    PROVE  x = Prefix(n) <=> Parent(x, n) = Prefix(n - 1) /\ x[n] = Point[n]
<1>1. ASSUME x = Prefix(n) PROVE Parent(x, n) = Prefix(n - 1) /\ x[n] = Point[n]
  BY <1>1, Depth DEF Prefix, Parent
<1>2. ASSUME Parent(x, n) = Prefix(n - 1), x[n] = Point[n] PROVE x = Prefix(n)
  <2>1. ASSUME NEW i \in 1 .. n PROVE x[i] = Point[i]
    <3>1. CASE i = n
      BY <1>2, <3>1
    <3>2. CASE i # n
      <4>1. i \in 1 .. n - 1
        BY <3>2, Depth
      <4>2. Parent(x, n)[i] = x[i] /\ Prefix(n - 1)[i] = Point[i]
        BY <4>1 DEF Parent, Prefix
      <4> QED
        BY <1>2, <4>2
    <3> QED
      BY <3>1, <3>2
  <2> QED
    BY <2>1 DEF Prefix, Node
<1> QED
  BY <1>1, <1>2

\* A party corrects a level below its parents with control bit.
FixedBy(n, t, s, w) ==
    [x \in Node(n) |-> IF t[Parent(x, n)] THEN Xor(s[x], w[x[n]]) ELSE s[x]]

\* If two blocks add up to a sum of seeds, correcting one of them by that sum, and by r,
\* leaves a difference of r.
LEMMA CorrectedPair ==
    ASSUME NEW s0, NEW s1, NEW u, NEW r, Xor(s0, s1) = u
    PROVE  /\ Xor(Xor(s0, Xor(u, r)), s1) = r
           /\ Xor(s0, Xor(s1, Xor(u, r))) = r
BY DEF Xor

\* A correction word that is the sum of the parties' seeds by digit, plus a block with
\* control bit at the digit of the point, leaves the parties with the same seeds but at
\* the next node of the path, where their control bits differ.
LEMMA CorrectionStaysOnPath ==
    ASSUME Inputs, NEW n \in 1 .. mDepth,
           NEW t0 \in [Node(n - 1) -> BOOLEAN], NEW t1 \in [Node(n - 1) -> BOOLEAN],
           NEW s0, NEW s1, NEW z0, NEW z1, NEW w, NEW r,
           OnPath(n, t0, t1, s0, s1, z0, z1), lsb(r),
           \A i \in Digit : w[i] = Xor(Xor(z0[i], z1[i]), IF i = Point[n] THEN r ELSE Zero)
    PROVE  FixedOnPath(n, FixedBy(n, t0, s0, w), FixedBy(n, t1, s1, w))
<1> DEFINE f0 == FixedBy(n, t0, s0, w)
           f1 == FixedBy(n, t1, s1, w)
<1>1. SUFFICES ASSUME NEW x \in Node(n)
               PROVE  /\ (lsb(f0[x]) # lsb(f1[x])) <=> x = Prefix(n)
                      /\ x # Prefix(n) => f0[x] = f1[x]
  BY DEF FixedOnPath
<1> DEFINE y == Parent(x, n)
           d == x[n]
           b == IF d = Point[n] THEN r ELSE Zero
<1>2. y \in Node(n - 1) /\ d \in Digit
  BY Depth, ParentType
<1>3. x = Prefix(n) <=> y = Prefix(n - 1) /\ d = Point[n]
  BY PathChild
<1>4. /\ f0[x] = IF t0[y] THEN Xor(s0[x], w[d]) ELSE s0[x]
      /\ f1[x] = IF t1[y] THEN Xor(s1[x], w[d]) ELSE s1[x]
  BY DEF FixedBy
<1>5. CASE y # Prefix(n - 1)
  <2>1. t0[y] = t1[y] /\ s0[x] = s1[x]
    BY <1>2, <1>5 DEF OnPath
  <2>2. f0[x] = f1[x]
    BY <1>4, <2>1
  <2> QED
    BY <1>3, <1>5, <2>2
<1>6. CASE y = Prefix(n - 1)
  <2>1. t0[y] # t1[y] /\ t0[y] \in BOOLEAN /\ t1[y] \in BOOLEAN
    BY <1>2, <1>6 DEF OnPath
  <2>2. Xor(s0[x], s1[x]) = Xor(z0[d], z1[d])
    BY <1>6 DEF OnPath
  <2>3. w[d] = Xor(Xor(z0[d], z1[d]), b)
    BY <1>2
  <2>4. Xor(f0[x], f1[x]) = b
    <3> HIDE DEF f0, f1, b, d, y
    <3>1. /\ Xor(Xor(s0[x], w[d]), s1[x]) = b
          /\ Xor(s0[x], Xor(s1[x], w[d])) = b
      BY <2>2, <2>3, CorrectedPair
    <3>2. CASE t0[y]
      BY <1>4, <2>1, <3>1, <3>2
    <3>3. CASE ~t0[y]
      BY <1>4, <2>1, <3>1, <3>3
    <3> QED
      BY <3>2, <3>3
  <2>5. CASE d = Point[n]
    <3>1. 0 \in Xor(f0[x], f1[x])
      BY <2>4, <2>5 DEF lsb
    <3>2. lsb(f0[x]) # lsb(f1[x])
      <4> HIDE DEF f0, f1
      <4> QED
        BY <3>1 DEF lsb, Xor
    <3> QED
      BY <1>3, <1>6, <2>5, <3>2
  <2>6. CASE d # Point[n]
    <3>1. Xor(f0[x], f1[x]) = Zero
      BY <2>4, <2>6
    <3>2. f0[x] = f1[x]
      <4> HIDE DEF f0, f1
      <4> QED
        BY <3>1 DEF Xor, Zero
    <3> QED
      BY <1>3, <2>6, <3>2
  <2> QED
    BY <2>5, <2>6
<1> QED
  BY <1>5, <1>6

\* The children that the parties make of such a level are again on the path: the sums by
\* digit differ by what the children of its one node differ by.
LEMMA ExpansionStaysOnPath ==
    ASSUME Inputs, NEW n \in 1 .. mDepth - 1,
           NEW f0 \in [Node(n) -> Block], NEW f1 \in [Node(n) -> Block],
           FixedOnPath(n, f0, f1)
    PROVE  OnPath(n + 1, TagsFrom(n, f0), TagsFrom(n, f1), SeedsFrom(n, f0), SeedsFrom(n, f1),
                  SumsFrom(n, f0), SumsFrom(n, f1))
<1>1. n \in Nat /\ n + 1 \in Nat \ {0} /\ n + 1 - 1 = n /\ n \in 0 .. mDepth
  BY Depth
<1>2. ASSUME NEW x \in Node(n)
      PROVE  (TagsFrom(n, f0)[x] # TagsFrom(n, f1)[x]) <=> x = Prefix(n)
  BY DEF TagsFrom, FixedOnPath
<1>3. ASSUME NEW y \in Node(n + 1), Parent(y, n + 1) # Prefix(n)
      PROVE  SeedsFrom(n, f0)[y] = SeedsFrom(n, f1)[y]
  <2>1. Parent(y, n + 1) \in Node(n)
    BY <1>1, ParentType
  <2>2. f0[Parent(y, n + 1)] = f1[Parent(y, n + 1)]
    BY <1>3, <2>1 DEF FixedOnPath
  <2> QED
    BY <2>2 DEF SeedsFrom
<1>4. ASSUME NEW y \in Node(n + 1), Parent(y, n + 1) = Prefix(n)
      PROVE  Xor(SeedsFrom(n, f0)[y], SeedsFrom(n, f1)[y])
               = Xor(SumsFrom(n, f0)[y[n + 1]], SumsFrom(n, f1)[y[n + 1]])
  <2> DEFINE i == y[n + 1]
             g0 == [x \in Node(n) |-> Hash[i][f0[x]]]
             g1 == [x \in Node(n) |-> Hash[i][f1[x]]]
  <2>1. i \in Digit /\ Prefix(n) \in Node(n) /\ IsFiniteSet(Node(n))
    BY <1>1, ParentType, PrefixType, NodesFinite
  <2>2. g0 \in [Node(n) -> Block] /\ g1 \in [Node(n) -> Block]
    BY <2>1, DpfAssumption
  <2>3. \A x \in Node(n) \ {Prefix(n)} : g0[x] = g1[x]
    BY DEF FixedOnPath
  <2>4. Xor(XorAll(g0), XorAll(g1)) = Xor(g0[Prefix(n)], g1[Prefix(n)])
    <3> HIDE DEF g0, g1
    <3> QED
      BY <2>1, <2>2, <2>3, XorAllDiffer
  <2>5. SeedsFrom(n, f0)[y] = g0[Prefix(n)] /\ SeedsFrom(n, f1)[y] = g1[Prefix(n)]
    BY <1>4, <2>1 DEF SeedsFrom
  <2>6. SumsFrom(n, f0)[i] = XorAll(g0) /\ SumsFrom(n, f1)[i] = XorAll(g1)
    BY <2>1 DEF SumsFrom
  <2> HIDE DEF g0, g1
  <2> QED
    BY <2>4, <2>5, <2>6
<1> QED
  BY <1>1, <1>2, <1>3, <1>4 DEF OnPath

-----------------------------------------------------------------------------
(* Shares of the correction word                                           *)

\* What SendSigma sends.
BaseRecvOt(p, i) == mBaseSendOts[1 - p][i][mBaseChoice[p][i]]
Share(p) ==
    LET n == iter[p]
        a == points[p][n]
        ka == Expand3[Xor(BaseRecvOt(p, 2 * n - 1), BaseRecvOt(p, 2 * n))]
        own == XorTriple(XorTriple(ka, mask[p]), z[p])
    IN  IF a = 0 THEN own ELSE XorTriple(own, recvBuffer[p][a])

\* A bit that is added twice is gone.
LEMMA FlipTwice ==
    ASSUME NEW u \in {0, 1}, NEW c \in {0, 1}
    PROVE  Flip(u, Flip(u, c)) = c
BY DEF Flip

\* The types of digits, choices and keys.
LEMMA KeyType ==
    ASSUME Inputs, NEW p \in Party, NEW n \in 1 .. mDepth, NEW j \in Digit
    PROVE  /\ points[p][n] \in Digit
           /\ mBaseChoice[p][2 * n - 1] \in {0, 1} /\ mBaseChoice[p][2 * n] \in {0, 1}
           /\ j % 2 \in {0, 1} /\ j \div 2 \in {0, 1}
           /\ CorrectionOf(p, n)[1] \in {0, 1} /\ CorrectionOf(p, n)[2] \in {0, 1}
           /\ KeyOf(p, n, j) \in Block
<1>1. /\ 2 * n - 1 \in 1 .. 2 * MaxDepth /\ 2 * n \in 1 .. 2 * MaxDepth
  BY Depth, DpfAssumption
<1>2. \A q \in Party : /\ points[q][n] \in Digit
                       /\ mBaseChoice[q][2 * n - 1] \in {0, 1}
                       /\ mBaseChoice[q][2 * n] \in {0, 1}
  <2>1. \A q \in Party : \A k \in 1 .. 2 * MaxDepth : mBaseChoice[q][k] \in {0, 1}
    BY DEF Inputs
  <2>2. \A q \in Party : points[q][n] \in Digit
    BY DEF Inputs, Node
  <2> QED
    BY <1>1, <2>1, <2>2
<1>3. \A i \in Digit : i % 2 \in {0, 1} /\ i \div 2 \in {0, 1}
  BY DEF Digit
<1>4. \A u, v \in {0, 1} : Flip(u, v) \in {0, 1}
  BY DEF Flip
<1>5. \A q \in Party : CorrectionOf(q, n)[1] \in {0, 1} /\ CorrectionOf(q, n)[2] \in {0, 1}
  BY <1>2, <1>3, <1>4 DEF CorrectionOf
<1>6. 1 - p \in Party
  BY DEF Party
<1>7. \A u \in {0, 1} : mBaseSendOts[p][2 * n - 1][u] \in Block
                        /\ mBaseSendOts[p][2 * n][u] \in Block
  <2>1. \A k \in 1 .. 2 * MaxDepth : \A u \in {0, 1} : mBaseSendOts[p][k][u] \in Block
    <3>1. mBaseSendOts[p] \in [1 .. 2 * MaxDepth -> [{0, 1} -> Block]]
      BY DEF Inputs
    <3>2. \A k \in 1 .. 2 * MaxDepth : mBaseSendOts[p][k] \in [{0, 1} -> Block]
      BY <3>1
    <3> QED
      BY <3>2
  <2> DEFINE k0 == 2 * n - 1
             k1 == 2 * n
  <2>2. k0 \in 1 .. 2 * MaxDepth /\ k1 \in 1 .. 2 * MaxDepth
    BY <1>1
  <2> HIDE DEF k0, k1
  <2>3. \A u \in {0, 1} : mBaseSendOts[p][k0][u] \in Block /\ mBaseSendOts[p][k1][u] \in Block
    BY <2>1, <2>2
  <2> QED
    BY <2>3 DEF k0, k1
<1>8. KeyOf(p, n, j) \in Block
  <2>1. Flip(j % 2, CorrectionOf(1 - p, n)[1]) \in {0, 1}
        /\ Flip(j \div 2, CorrectionOf(1 - p, n)[2]) \in {0, 1}
    BY <1>3, <1>4, <1>5, <1>6
  <2> QED
    BY <1>7, <2>1, XorType DEF KeyOf
<1> QED
  BY <1>2, <1>3, <1>5, <1>8

\* With its choice bits a party knows one key of each of two pairs: that which the peer
\* uses for the digit that the party has.
LEMMA KeysAgree ==
    ASSUME Inputs, NEW p \in Party, NEW n \in 1 .. mDepth
    PROVE  KeyOf(1 - p, n, points[p][n])
             = Xor(BaseRecvOt(p, 2 * n - 1), BaseRecvOt(p, 2 * n))
<1> DEFINE a == points[p][n]
<1>1. /\ a \in Digit /\ a % 2 \in {0, 1} /\ a \div 2 \in {0, 1}
      /\ mBaseChoice[p][2 * n - 1] \in {0, 1} /\ mBaseChoice[p][2 * n] \in {0, 1}
  <2>1. 0 \in Digit
    BY DEF Digit
  <2>2. a \in Digit
    BY <2>1, KeyType
  <2> HIDE DEF a
  <2> QED
    BY <2>1, <2>2, KeyType
<1>2. 1 - (1 - p) = p
  BY DEF Party
<1>3. /\ CorrectionOf(p, n)[1] = Flip(a % 2, mBaseChoice[p][2 * n - 1])
      /\ CorrectionOf(p, n)[2] = Flip(a \div 2, mBaseChoice[p][2 * n])
  BY DEF CorrectionOf
<1>4. /\ Flip(a % 2, CorrectionOf(p, n)[1]) = mBaseChoice[p][2 * n - 1]
      /\ Flip(a \div 2, CorrectionOf(p, n)[2]) = mBaseChoice[p][2 * n]
  BY <1>1, <1>3, FlipTwice
<1> QED
  BY <1>2, <1>4 DEF KeyOf, BaseRecvOt

\* The digits of the two parties add up to that of the point, in either order.
LEMMA OffsetPoint ==
    ASSUME Inputs, NEW p \in Party, NEW n \in 1 .. mDepth
    PROVE  Offset(points[p][n], points[1 - p][n]) = Point[n] /\ Point[n] \in Digit
<1>1. points[0][n] \in 0 .. 2 /\ points[1][n] \in 0 .. 2
  BY KeyType DEF Party, Digit
<1>2. Point[n] = (points[0][n] + points[1][n]) % 3
  BY DEF Point
<1>3. p = 0 \/ p = 1
  BY DEF Party
<1> QED
  BY <1>1, <1>2, <1>3 DEF Offset, Digit

\* A party whose digit is 0 adds nothing that it received: its key opens to the peer's mask.
LEMMA ShareWithout ==
    ASSUME NEW e, NEW m, NEW v, NEW y, NEW r, Xor(v, e) = r
    PROVE  Xor(Xor(e, m), y) = Xor(Xor(m, v), Xor(y, r))
BY DEF Xor

\* Another digit: what the peer sent for it holds the expansion of the party's key, which cancels.
LEMMA ShareWith ==
    ASSUME NEW e, NEW m, NEW v, NEW y, NEW r
    PROVE  Xor(Xor(Xor(e, m), y), Xor(Xor(e, v), r)) = Xor(Xor(m, v), Xor(y, r))
BY DEF Xor

\* Triples are added digit by digit.
LEMMA TripleBlock ==
    ASSUME NEW u, NEW v, NEW i \in Digit
    PROVE  XorTriple(u, v)[i] = Xor(u[i], v[i])
BY DEF XorTriple

\* A party's share is what Summed says: the expansion of the key cancels that in what
\* the peer has sent, and for digit 0, for which nothing is sent, that in the peer's mask.
LEMMA ShareSums ==
    ASSUME Inputs, NEW p \in Party, iter[p] \in 1 .. mDepth, iter[1 - p] = iter[p],
           TypeOK, Masked, strand[1 - p].sender = "done",
           recvBuffer[p] = TransferOf(1 - p), NEW i \in Digit
    PROVE  Share(p)[i] = Xor(Xor(mask[p][i], mask[1 - p][i]),
                             Xor(z[p][i], IF i = Point[iter[p]] THEN Drawn(1 - p) ELSE Zero))
<1> DEFINE n == iter[p]
           q == 1 - p
           a == points[p][n]
           e == Expand3[KeyOf(q, n, a)]
           r == Drawn(q)
           own == XorTriple(XorTriple(e, mask[p]), z[p])
           b == IF i = Point[n] THEN r ELSE Zero
<1>1. q \in Party /\ a \in Digit /\ points[q][n] \in Digit
  BY KeyType DEF Party
<1>2. Share(p) = IF a = 0 THEN own ELSE XorTriple(own, recvBuffer[p][a])
  BY KeysAgree DEF Share
<1>3. own[i] = Xor(Xor(e[i], mask[p][i]), z[p][i])
  BY TripleBlock
<1>4. Offset(a, points[q][n]) = Point[n] /\ Point[n] \in Digit
  BY OffsetPoint
<1>5. CASE a = 0
  <2>1. e = Unmasked(q)
    BY <1>5 DEF Unmasked
  <2>2. Point[n] = points[q][n]
    <3>1. points[q][n] \in 0 .. 2
      BY <1>1 DEF Digit
    <3> QED
      BY <1>4, <1>5, <3>1 DEF Offset
  <2>3. Xor(mask[q][i], e[i]) = b
    <3>1. CASE i = Point[n]
      BY <2>1, <2>2, <3>1 DEF Drawn
    <3>2. CASE i # Point[n]
      <4>1. mask[q][i] = e[i]
        BY <1>1, <2>1, <2>2, <3>2 DEF Masked
      <4> QED
        BY <3>2, <4>1, XorZero
    <3> QED
      BY <3>1, <3>2
  <2>4. Xor(Xor(e[i], mask[p][i]), z[p][i]) = Xor(Xor(mask[p][i], mask[q][i]), Xor(z[p][i], b))
    <3> HIDE DEF e, b, q
    <3> QED
      BY <2>3, ShareWithout
  <2> QED
    BY <1>2, <1>3, <1>5, <2>4
<1>6. CASE a # 0
  <2> DEFINE for(j) == [XorTriple(Expand3[KeyOf(q, n, j)], mask[q])
                          EXCEPT ![Offset(j, points[q][n])] = Xor(@, r)]
  <2>1. recvBuffer[p][a] = for(a)
    <3>1. TransferOf(q) = <<for(1), for(2)>>
      BY DEF TransferOf
    <3>2. a = 1 \/ a = 2
      BY <1>1, <1>6 DEF Digit
    <3> HIDE DEF for
    <3> QED
      BY <3>1, <3>2
  <2>2. for(a)[i] = Xor(Xor(e[i], mask[q][i]), b)
    <3>1. XorTriple(e, mask[q])[i] = Xor(e[i], mask[q][i])
      BY TripleBlock
    <3>2. for(a) = [XorTriple(e, mask[q]) EXCEPT ![Point[n]] = Xor(@, r)]
      BY <1>4
    <3>3. DOMAIN XorTriple(e, mask[q]) = Digit
      BY DEF XorTriple
    <3> HIDE DEF for, e, r, q
    <3>4. for(a)[i] = IF i = Point[n] THEN Xor(XorTriple(e, mask[q])[i], r)
                                      ELSE XorTriple(e, mask[q])[i]
      BY <3>2, <3>3
    <3> QED
      BY <3>1, <3>4, XorZero
  <2>3. Share(p)[i] = Xor(own[i], for(a)[i])
    <3>1. Share(p) = XorTriple(own, for(a))
      BY <1>2, <1>6, <2>1
    <3> HIDE DEF own, for
    <3> QED
      BY <3>1, TripleBlock
  <2>4. Share(p)[i] = Xor(Xor(mask[p][i], mask[q][i]), Xor(z[p][i], b))
    <3> HIDE DEF own, for, e, b, q
    <3> QED
      BY <1>3, <2>2, <2>3, ShareWith
  <2> QED
    BY <2>4
<1> QED
  BY <1>5, <1>6

\* Two shares add up to the sums of the seeds of both, and at the digit of the point to
\* what both have drawn.
LEMMA ShareAlgebra ==
    ASSUME NEW m, NEW u, NEW v, NEW r0, NEW r1
    PROVE  Xor(Xor(m, Xor(u, r1)), Xor(m, Xor(v, r0))) = Xor(Xor(u, v), Xor(r0, r1))
BY DEF Xor

\* The two shares of a correction word add up to the sums of the seeds, and at the digit of the
\* point to what both draw in its place.
LEMMA WordSums ==
    ASSUME Summed, stage[0] = "sigma", stage[1] = "sigma", iter[0] = iter[1], NEW i \in Digit
    PROVE  SharedWord[i] = Xor(Xor(z[0][i], z[1][i]),
                               IF i = Point[iter[0]] THEN Xor(Drawn(0), Drawn(1)) ELSE Zero)
<1> DEFINE m == Xor(mask[0][i], mask[1][i])
           b(p) == IF i = Point[iter[0]] THEN Drawn(p) ELSE Zero
<1>1. 0 \in Party /\ 1 \in Party /\ 1 - 0 = 1 /\ 1 - 1 = 0
  BY DEF Party
<1>2. sigma[0][i] = Xor(m, Xor(z[0][i], b(1))) /\ sigma[1][i] = Xor(m, Xor(z[1][i], b(0)))
  BY <1>1 DEF Summed
<1>3. SharedWord[i] = Xor(sigma[0][i], sigma[1][i])
  BY TripleBlock DEF SharedWord
<1>4. Xor(b(0), b(1)) = IF i = Point[iter[0]] THEN Xor(Drawn(0), Drawn(1)) ELSE Zero
  BY XorZero
<1> HIDE DEF m, b
<1>5. SharedWord[i] = Xor(Xor(z[0][i], z[1][i]), Xor(b(0), b(1)))
  BY <1>2, <1>3, ShareAlgebra
<1> QED
  BY <1>4, <1>5

-----------------------------------------------------------------------------
(* The beginning                                                           *)

\* The root is the only node of its level.
LEMMA Root == \A x \in Node(0) : x = Prefix(0)
BY DEF Node, Prefix

\* What expand() starts with is typed.
LEMMA InitType == ASSUME Init PROVE Inputs /\ TypeOK /\ NetShape /\ Families
<1>1. Inputs
  <2>1. mDomain \in Domains /\ points \in Points[mDomain]
    BY DEF Init
  <2>2. points \in [Party -> Node(mDepth)]
    BY <2>1, DpfAssumption DEF mDepth
  <2>3. values \in [Party -> Block]
    BY DpfAssumption DEF Init
  <2>4. mBaseSendOts \in [Party -> [1 .. 2 * MaxDepth -> [{0, 1} -> Block]]]
    BY DpfAssumption DEF Init
  <2>5. mBaseChoice \in [Party -> [1 .. 2 * MaxDepth -> {0, 1}]]
    BY DpfAssumption DEF Init
  <2> QED
    BY <2>1, <2>2, <2>3, <2>4, <2>5 DEF Inputs
<1>2. TypeOK
  <2>1. z \in [Party -> Triple]
    BY DpfAssumption DEF Init
  <2>2. ZeroTriple \in Triple
    BY DEF ZeroTriple, Triple, Zero, Block
  <2>3. mask \in [Party -> Triple] /\ sigma \in [Party -> Triple]
    BY <2>2 DEF Init
  <2>4. recvBuffer \in [Party -> Triple \X Triple]
    BY <2>2 DEF Init
  <2>5. iter \in [Party -> 1 .. MaxDepth] /\ \A p \in Party : iter[p] = 1
    BY DpfAssumption DEF Init
  <2>6. stage \in [Party -> {"trivial", "transfer", "sigma", "diff", "done"}]
        /\ \A p \in Party : stage[p] \in {"trivial", "transfer"}
    BY DEF Init
  <2>7. strand \in [Party -> Ports]
    BY DEF Init, Ports
  <2>8. ASSUME NEW p \in Party
        PROVE  parentTags[p] \in [Node(iter[p] - 1) -> BOOLEAN]
               /\ seeds[p] \in [Node(iter[p]) -> Block]
    <3>1. iter[p] - 1 = 0 /\ iter[p] = 1
      BY <2>5
    <3>2. parentTags[p] \in [Node(0) -> BOOLEAN]
      BY DEF Init, RootTag
    <3>3. \A x \in Node(1) : z[p][x[1]] \in Block
      BY <2>1 DEF Node, Triple
    <3>4. seeds[p] \in [Node(1) -> Block]
      BY <3>3 DEF Init
    <3> QED
      BY <3>1, <3>2, <3>4
  <2> QED
    BY <2>1, <2>3, <2>4, <2>5, <2>6, <2>7, <2>8 DEF TypeOK
<1>3. NetShape /\ Families
  BY DEF Init, NetShape, Families
<1> QED
  BY <1>1, <1>2, <1>3

\* With more than one leaf, expand() starts on level 1 below a root whose tag only one party has.
LEMMA InitTree == ASSUME Init, ~Trivial PROVE Tree
<1>1. Inputs /\ mDepth \in 1 .. MaxDepth
  BY InitType, Depth
<1>2. \A p \in Party : iter[p] = 1 /\ stage[p] = "transfer"
                       /\ strand[p] = [sender |-> "recv", recver |-> "send"]
                       /\ 1 - p \in Party
  BY DEF Init, Party, Trivial
<1>3. Control
  BY <1>1, <1>2 DEF Control, Apart, Party
<1>4. Mailed
  <2>1. \A p \in Party : \A c \in 0 .. MaxDepth : net[p][c] = <<>>
    BY DEF Init
  <2>2. \A p, q \in Party : ~CorrectionDue(p, q) /\ ~TransferDue(p, q)
                            /\ ~SigmaDue(p, q) /\ ~DiffDue(p, q)
    BY <1>2 DEF CorrectionDue, TransferDue, SigmaDue, DiffDue
  <2>3. 0 \in Party /\ 1 \in Party /\ 0 \in 0 .. MaxDepth
        /\ \A n \in 1 .. MaxDepth : n \in 0 .. MaxDepth
    BY DpfAssumption DEF Party
  <2> QED
    BY <2>1, <2>2, <2>3 DEF Mailed, SocketMail0, SocketMail1, ForkMail0, ForkMail1
<1>5. Masked /\ Buffered /\ Summed /\ Outputs
  BY <1>2 DEF Masked, Buffered, Summed, Outputs
<1>6. Expanding
  BY <1>2 DEF Expanding
<1>7. Levels
  <2>1. 0 \in Party /\ 1 \in Party /\ iter[0] = 1 /\ iter[1] = 1
    BY <1>2 DEF Party
  <2>2. ~Behind(0) /\ ~Behind(1) /\ Level = 1
    BY <2>1 DEF Behind, Level
  <2>3. ASSUME NEW x \in Node(0) PROVE (parentTags[0][x] # parentTags[1][x]) <=> x = Prefix(0)
    BY <2>1, Root DEF Init, RootTag
  <2>4. ASSUME NEW y \in Node(1)
        PROVE  /\ Parent(y, 1) = Prefix(0)
               /\ Xor(seeds[0][y], seeds[1][y]) = Xor(z[0][y[1]], z[1][y[1]])
    <3>1. Parent(y, 1) \in Node(0)
      BY <2>4 DEF Parent, Node
    <3>2. seeds[0][y] = z[0][y[1]] /\ seeds[1][y] = z[1][y[1]]
      BY <2>1 DEF Init
    <3> QED
      BY <3>1, <3>2, Root
  <2>5. OnPath(1, parentTags[0], parentTags[1], seeds[0], seeds[1], z[0], z[1])
    BY <2>3, <2>4 DEF OnPath
  <2> QED
    BY <2>2, <2>5 DEF Levels, LevelTags, LevelSeeds, LevelSums
<1>8. LeavesOnPath
  BY <1>6 DEF LeavesOnPath
<1> QED
  BY <1>3, <1>4, <1>5, <1>7, <1>8 DEF Tree

\* So the invariant holds at the start.
LEMMA InitIInv == Init => IInv
<1> SUFFICES ASSUME Init PROVE IInv
  OBVIOUS
<1>1. Trivial => OneLeaf
  BY DEF Init, Trivial, OneLeaf
<1> QED
  BY <1>1, InitType, InitTree DEF IInv

-----------------------------------------------------------------------------
(* Steps                                                                   *)

\* The messages for q on channel c become v.
Put(N, q, c, v) == [N EXCEPT ![q][c] = v]

\* One queue changes.
LEMMA QueueChange ==
    ASSUME NetShape, NEW q \in Party, NEW c \in 0 .. MaxDepth, NEW v,
           net' = Put(net, q, c, v)
    PROVE  /\ NetShape'
           /\ \A p \in Party : \A d \in 0 .. MaxDepth :
                net'[p][d] = IF p = q /\ d = c THEN v ELSE net[p][d]
<1>1. DOMAIN net = Party /\ \A p \in Party : net[p] = [d \in 0 .. MaxDepth |-> net[p][d]]
  BY DEF NetShape
<1>2. DOMAIN net' = Party /\ net' = [p \in Party |-> net'[p]]
  BY <1>1 DEF Put
<1>3. \A p \in Party : net'[p] = [d \in 0 .. MaxDepth |-> net'[p][d]]
  BY <1>1 DEF Put
<1>4. net' = [p \in Party |-> [d \in 0 .. MaxDepth |-> net'[p][d]]]
  BY <1>2, <1>3, Zenon
<1>5. \A p \in Party : \A d \in 0 .. MaxDepth :
        net'[p][d] = IF p = q /\ d = c THEN v ELSE net[p][d]
  BY <1>1 DEF Put
<1> QED
  BY <1>4, <1>5 DEF NetShape

\* A queue of each party changes.
LEMMA TwoQueuesChange ==
    ASSUME NetShape, NEW q \in Party, NEW c \in 0 .. MaxDepth, NEW v,
           NEW r \in Party, NEW e \in 0 .. MaxDepth, NEW w, q # r,
           net' = Put(Put(net, q, c, v), r, e, w)
    PROVE  /\ NetShape'
           /\ \A p \in Party : \A d \in 0 .. MaxDepth :
                net'[p][d] = IF p = q /\ d = c THEN v
                             ELSE IF p = r /\ d = e THEN w ELSE net[p][d]
<1>1. DOMAIN net = Party /\ \A p \in Party : net[p] = [d \in 0 .. MaxDepth |-> net[p][d]]
  BY DEF NetShape
<1>2. DOMAIN net' = Party /\ net' = [p \in Party |-> net'[p]]
  BY <1>1 DEF Put
<1>3. \A p \in Party : net'[p] = [d \in 0 .. MaxDepth |-> net'[p][d]]
  BY <1>1 DEF Put
<1>4. net' = [p \in Party |-> [d \in 0 .. MaxDepth |-> net'[p][d]]]
  BY <1>2, <1>3, Zenon
<1>5. \A p \in Party : \A d \in 0 .. MaxDepth :
        net'[p][d] = IF p = q /\ d = c THEN v
                     ELSE IF p = r /\ d = e THEN w ELSE net[p][d]
  BY <1>1 DEF Put
<1> QED
  BY <1>4, <1>5 DEF NetShape

\* A message is put into an empty queue.
LEMMA FirstInQueue == ASSUME NEW x PROVE Append(<<>>, x) = <<x>>
<1> DEFINE a == Append(<<>>, x)
           b == <<x>>
<1>1. <<>> \in Seq({x}) /\ x \in {x} /\ Len(<<>>) = 0
  OBVIOUS
<1>2. a \in Seq({x}) /\ Len(a) = 1 /\ a[1] = x
  BY <1>1, AppendProperties
<1>3. b \in Seq({x}) /\ Len(b) = 1 /\ b[1] = x
  OBVIOUS
<1>4. a = b
  <2> HIDE DEF a, b
  <2> QED
    BY <1>2, <1>3, SeqEqual
<1> QED
  BY <1>4

\* A message is put behind another one.
LEMMA SecondInQueue == ASSUME NEW x, NEW y PROVE Append(<<x>>, y) = <<x, y>>
<1> DEFINE a == Append(<<x>>, y)
           b == <<x, y>>
<1>1. <<x>> \in Seq({x, y}) /\ y \in {x, y} /\ Len(<<x>>) = 1
  OBVIOUS
<1>2. a \in Seq({x, y}) /\ Len(a) = 2 /\ a[1] = x /\ a[2] = y
  BY <1>1, AppendProperties
<1>3. b \in Seq({x, y}) /\ Len(b) = 2 /\ b[1] = x /\ b[2] = y
  OBVIOUS
<1>4. a = b
  <2> HIDE DEF a, b
  <2> QED
    BY <1>2, <1>3, SeqEqual
<1> QED
  BY <1>4

\* What is taken from a queue of one or two messages, and what it leaves.
LEMMA TakeFromQueue ==
    ASSUME NEW x, NEW y
    PROVE  /\ Head(<<x>>) = x /\ Head(<<x, y>>) = x
           /\ Tail(<<x>>) = <<>> /\ Tail(<<x, y>>) = <<y>>
           /\ <<x>> # <<>> /\ <<x, y>> # <<>>
<1>1. Head(<<x>>) = x /\ Head(<<x, y>>) = x
  OBVIOUS
<1>2. Tail(<<x>>) = <<>>
  OBVIOUS
<1>3. Tail(<<x, y>>) = <<y>>
  OBVIOUS
<1>4. <<x>> # <<>> /\ <<x, y>> # <<>>
  OBVIOUS
<1> QED
  BY <1>1, <1>2, <1>3, <1>4

\* The inputs stay as they are.
LEMMA SameInputs ==
    ASSUME Inputs, UNCHANGED inputs
    PROVE  /\ Inputs' /\ mDepth' = mDepth /\ Leaf' = Leaf /\ Point' = Point
           /\ Trivial' = Trivial /\ \A n : Prefix(n)' = Prefix(n)
<1>1. mDepth' = mDepth
  BY DEF inputs, mDepth
<1>2. Leaf' = Leaf
  BY <1>1 DEF Leaf, Index, inputs
<1>3. Point' = Point
  BY <1>1 DEF Point, inputs
<1> QED
  BY <1>1, <1>2, <1>3 DEF inputs, Inputs, Trivial, Prefix

\* What the invariant says of the control of the parties.
LEMMA ControlType ==
    ASSUME IInv, ~Trivial
    PROVE  /\ 0 \in Party /\ 1 \in Party
           /\ mDepth \in 1 .. MaxDepth
           /\ iter[0] \in 1 .. MaxDepth /\ iter[1] \in 1 .. MaxDepth
           /\ \A n \in 1 .. MaxDepth : n \in 0 .. MaxDepth /\ n # 0
           /\ 0 \in 0 .. MaxDepth
           /\ strand[0].sender \in {"recv", "done"} /\ strand[1].sender \in {"recv", "done"}
           /\ strand[0].recver \in {"send", "recv", "done"}
           /\ strand[1].recver \in {"send", "recv", "done"}
           /\ stage[0] # "transfer" => strand[0].sender = "done" /\ strand[0].recver = "done"
           /\ stage[1] # "transfer" => strand[1].sender = "done" /\ strand[1].recver = "done"
           /\ stage[0] \in {"transfer", "sigma", "diff", "done"}
           /\ stage[1] \in {"transfer", "sigma", "diff", "done"}
           /\ Control /\ Mailed /\ NetShape
<1>1. 0 \in Party /\ 1 \in Party
  BY DEF Party
<1>2. Control /\ Mailed /\ NetShape
  BY DEF IInv, Tree
<1>3. iter[0] \in 1 .. MaxDepth /\ iter[1] \in 1 .. MaxDepth
  BY <1>1 DEF IInv, TypeOK
<1>4. mDepth \in 1 .. MaxDepth
  BY Depth, DpfAssumption DEF IInv
<1>5. strand[0] \in Ports /\ strand[1] \in Ports
  BY <1>1 DEF IInv, TypeOK
<1>6. /\ stage[0] \in {"trivial", "transfer", "sigma", "diff", "done"}
      /\ stage[1] \in {"trivial", "transfer", "sigma", "diff", "done"}
  BY <1>1 DEF IInv, TypeOK
<1>7. \A n \in 1 .. MaxDepth : n \in 0 .. MaxDepth /\ n # 0
  BY DpfAssumption
<1>8. 0 \in 0 .. MaxDepth
  BY DpfAssumption
<1>9. stage[0] # "trivial" /\ stage[1] # "trivial"
      /\ (stage[0] # "transfer" => strand[0] = Ready)
      /\ (stage[1] # "transfer" => strand[1] = Ready)
  BY <1>2 DEF Control, Apart
<1>10. strand[0].sender \in {"recv", "done"} /\ strand[1].sender \in {"recv", "done"}
       /\ strand[0].recver \in {"send", "recv", "done"}
       /\ strand[1].recver \in {"send", "recv", "done"}
  BY <1>5 DEF Ports
<1> QED
  BY <1>1, <1>2, <1>3, <1>4, <1>6, <1>7, <1>8, <1>9, <1>10 DEF Ready

\* recver() sends the correction of p's digit.
LEMMA SendCorrectionControl ==
    ASSUME IInv, ~Trivial, NEW p \in Party, SendCorrection(p)
    PROVE  TypeOK' /\ Control'
<1>1. Inputs' /\ mDepth' = mDepth /\ Leaf' = Leaf
  BY SameInputs DEF IInv, SendCorrection
<1>2. TypeOK'
  <2>1. strand' \in [Party -> Ports]
    BY DEF IInv, TypeOK, SendCorrection, Ports
  <2> QED
    BY <1>1, <2>1 DEF IInv, TypeOK, SendCorrection, tree, transferred, result
<1>3. Control'
  BY <1>1 DEF IInv, Tree, TypeOK, Control, Apart, SendCorrection, Ports, Party, Ahead, Ready, tree
<1> QED
  BY <1>2, <1>3

\* The correction a party sends is what its peer is now due.
LEMMA SendCorrectionMail ==
    ASSUME IInv, ~Trivial, NEW p \in Party, SendCorrection(p)
    PROVE  NetShape' /\ Mailed'
<1> DEFINE c == Channel(p, "recver")
<1>1. c = IF p = 0 THEN iter[0] ELSE 0
  BY DEF Channel, Party
<1>2. 1 - p \in Party /\ c \in 0 .. MaxDepth
  BY <1>1, ControlType DEF Party
<1>3. NetShape' /\ \A q \in Party : \A d \in 0 .. MaxDepth :
        net'[q][d] = IF q = 1 - p /\ d = c THEN Append(net[1 - p][c], CorrectionMsg(p))
                                           ELSE net[q][d]
  <2>1. net' = Put(net, 1 - p, c, Append(net[1 - p][c], CorrectionMsg(p)))
    BY DEF SendCorrection, Send, CorrectionMsg, CorrectionOf, Put
  <2>2. NetShape
    BY DEF IInv
  <2> HIDE DEF c
  <2> QED
    BY <1>2, <2>1, <2>2, QueueChange
<1>4. /\ CorrectionMsg(0)' = CorrectionMsg(0) /\ CorrectionMsg(1)' = CorrectionMsg(1)
      /\ TransferMsg(0)' = TransferMsg(0) /\ TransferMsg(1)' = TransferMsg(1)
      /\ SigmaMsg(0)' = SigmaMsg(0) /\ SigmaMsg(1)' = SigmaMsg(1)
      /\ DiffMsg(0)' = DiffMsg(0) /\ DiffMsg(1)' = DiffMsg(1)
  BY DEF SendCorrection, tree, transferred, result, inputs, CorrectionMsg, CorrectionOf,
         TransferMsg, TransferOf, KeyOf, Drawn, Unmasked, SigmaMsg, DiffMsg, DiffOf
<1>5. /\ stage' = stage /\ iter' = iter
      /\ strand'[0].sender = strand[0].sender /\ strand'[1].sender = strand[1].sender
      /\ strand'[0].recver = IF p = 0 THEN "recv" ELSE strand[0].recver
      /\ strand'[1].recver = IF p = 1 THEN "recv" ELSE strand[1].recver
      /\ stage[p] = "transfer" /\ strand[p].recver = "send"
  BY DEF IInv, TypeOK, Ports, SendCorrection, tree, Party
<1> HIDE DEF c
<1>6. CASE p = 0
  <2>1. /\ net'[0][0] = net[0][0] /\ net'[1][0] = net[1][0]
        /\ \A n \in 1 .. MaxDepth :
             /\ net'[0][n] = net[0][n]
             /\ net'[1][n] = IF n = iter[0] THEN Append(net[1][n], CorrectionMsg(0)) ELSE net[1][n]
    BY <1>1, <1>3, <1>6, ControlType
  <2>2. SocketMail0' = SocketMail0
    BY <1>4, <1>5, <1>6, ControlType
       DEF SocketMail0, CorrectionDue, SigmaDue, DiffDue
  <2>3. SocketMail1' = SocketMail1
    BY <1>4, <1>5, <1>6, ControlType
       DEF SocketMail1, TransferDue, SigmaDue, DiffDue, Control, Apart, Ahead
  <2>4. \A n : ForkMail0(n)' = ForkMail0(n)
    BY <1>4, <1>5, <1>6, ControlType
       DEF ForkMail0, TransferDue, Control, Apart, Ahead
  <2>5. \A n : n # iter[0] => ForkMail1(n)' = ForkMail1(n)
    BY <1>4, <1>5, <1>6 DEF ForkMail1
  <2>6. \A n : n = iter[0] => ForkMail1(n) = <<>> /\ ForkMail1(n)' = <<CorrectionMsg(0)>>
    BY <1>4, <1>5, <1>6, ControlType
       DEF ForkMail1, CorrectionDue, Control, Apart, Ahead
  <2> QED
    <3>1. net'[0][0] = SocketMail0' /\ net'[1][0] = SocketMail1'
      BY <2>1, <2>2, <2>3, ControlType DEF Mailed
    <3>2. ASSUME NEW n \in 1 .. MaxDepth PROVE net'[0][n] = ForkMail0(n)'
      BY <2>1, <2>4, ControlType DEF Mailed
    <3>3. ASSUME NEW n \in 1 .. MaxDepth PROVE net'[1][n] = ForkMail1(n)'
      <4>1. net[1][n] = ForkMail1(n)
        BY ControlType DEF Mailed
      <4>2. CASE n = iter[0]
        <5>1. ForkMail1(n) = <<>> /\ ForkMail1(n)' = <<CorrectionMsg(0)>>
          BY <2>6, <4>2
        <5>2. net'[1][n] = Append(<<>>, CorrectionMsg(0))
          BY <2>1, <4>1, <4>2, <5>1
        <5> QED
          BY <5>1, <5>2, FirstInQueue
      <4>3. CASE n # iter[0]
        BY <2>1, <2>5, <4>1, <4>3
      <4> QED
        BY <4>2, <4>3
    <3> QED
      BY <1>3, <3>1, <3>2, <3>3 DEF Mailed
<1>7. CASE p = 1
  <2>1. /\ net'[1][0] = net[1][0] /\ net'[0][0] = Append(net[0][0], CorrectionMsg(1))
        /\ \A n \in 1 .. MaxDepth : net'[0][n] = net[0][n] /\ net'[1][n] = net[1][n]
    <3>1. c = 0 /\ 1 - p = 0
      BY <1>1, <1>7
    <3> QED
      BY <1>3, <1>7, <3>1, ControlType
  <2>2. \/ SocketMail0 = <<>> /\ SocketMail0' = <<CorrectionMsg(1)>>
        \/ SocketMail0 = <<SigmaMsg(1)>> /\ SocketMail0' = <<SigmaMsg(1), CorrectionMsg(1)>>
    BY <1>4, <1>5, <1>7, ControlType
       DEF SocketMail0, CorrectionDue, SigmaDue, DiffDue, Control, Apart, Ahead
  <2>3. SocketMail1' = SocketMail1
    BY <1>4, <1>5, <1>7, ControlType
       DEF SocketMail1, TransferDue, SigmaDue, DiffDue, Control, Apart, Ahead
  <2>4. \A n : ForkMail0(n)' = ForkMail0(n)
    BY <1>4, <1>5, <1>7, ControlType DEF ForkMail0, TransferDue
  <2>5. \A n : ForkMail1(n)' = ForkMail1(n)
    BY <1>4, <1>5, <1>7, ControlType DEF ForkMail1, CorrectionDue
  <2> QED
    <3>1. net'[0][0] = SocketMail0'
      <4>1. net[0][0] = SocketMail0
        BY ControlType DEF Mailed
      <4> QED
        BY <2>1, <2>2, <4>1, FirstInQueue, SecondInQueue
    <3>2. net'[1][0] = SocketMail1'
      BY <2>1, <2>3, ControlType DEF Mailed
    <3>3. ASSUME NEW n \in 1 .. MaxDepth
          PROVE  net'[0][n] = ForkMail0(n)' /\ net'[1][n] = ForkMail1(n)'
      BY <2>1, <2>4, <2>5, ControlType DEF Mailed
    <3> QED
      BY <1>3, <3>1, <3>2, <3>3 DEF Mailed
<1> QED
  BY <1>6, <1>7 DEF Party

\* What a step that leaves the tree alone keeps of the levels.
LEMMA SameTree ==
    ASSUME IInv, ~Trivial, UNCHANGED <<inputs, stage, tree, sigma, result>>
    PROVE  Levels' /\ LeavesOnPath' /\ Outputs' /\ Families'
<1>1. /\ mDepth' = mDepth /\ Leaf' = Leaf /\ Point' = Point
      /\ \A n : Prefix(n)' = Prefix(n)
  BY SameInputs DEF IInv
<1>2. /\ iter' = iter /\ stage' = stage /\ parentTags' = parentTags /\ seeds' = seeds
      /\ z' = z /\ sigma' = sigma /\ leaves' = leaves /\ tags' = tags /\ output' = output
      /\ values' = values
  BY DEF tree, result, inputs
<1>3. Levels' <=> Levels
  BY <1>1, <1>2 DEF Levels, Expanding, OnPath, Level, Behind, LevelTags, LevelSeeds, LevelSums,
         TagsFrom, SeedsFrom, SumsFrom, Fixed, SharedWord, Prefix
<1>4. LeavesOnPath' <=> LeavesOnPath
  BY <1>1, <1>2 DEF LeavesOnPath, Expanding, LeafTags, LeafVals, Fixed, SharedWord
<1>5. Outputs' <=> Outputs
  BY <1>1, <1>2 DEF Outputs, Gamma, DiffOf
<1>6. Families'
  BY <1>2 DEF IInv, Families
<1> QED
  BY <1>3, <1>4, <1>5, <1>6 DEF IInv, Tree

\* Sending a correction keeps the invariant.
LEMMA SendCorrectionStep ==
    ASSUME IInv, ~Trivial, NEW p \in Party, SendCorrection(p)
    PROVE  IInv'
<1>1. Inputs' /\ Trivial' = Trivial /\ mDepth' = mDepth /\ Point' = Point
  BY SameInputs DEF IInv, SendCorrection
<1>2. TypeOK' /\ Control' /\ NetShape' /\ Mailed'
  BY SendCorrectionControl, SendCorrectionMail
<1>3. Levels' /\ LeavesOnPath' /\ Outputs' /\ Families'
  BY SameTree DEF SendCorrection
<1>4. /\ iter' = iter /\ stage' = stage /\ sigma' = sigma /\ mask' = mask /\ z' = z
      /\ recvBuffer' = recvBuffer
      /\ \A q \in Party : strand'[q].sender = strand[q].sender
                          /\ (strand'[q].recver = "done" => strand[q].recver = "done")
  BY DEF IInv, TypeOK, Ports, SendCorrection, tree, transferred
<1>5. /\ \A q : Drawn(q)' = Drawn(q) /\ Unmasked(q)' = Unmasked(q)
      /\ \A q : TransferOf(q)' = TransferOf(q)
      /\ points' = points
  BY <1>4 DEF SendCorrection, inputs, Drawn, Unmasked, TransferOf, KeyOf, CorrectionOf
<1>6. Masked' /\ Buffered' /\ Summed'
  <2>1. Masked /\ Buffered /\ Summed
    BY DEF IInv, Tree
  <2>2. Masked'
    BY <1>4, <1>5, <2>1 DEF Masked
  <2>3. Buffered'
    BY <1>4, <1>5, <2>1 DEF Buffered
  <2>4. Summed'
    BY <1>1, <1>4, <1>5, <2>1 DEF Summed
  <2> QED
    BY <2>2, <2>3, <2>4
<1> QED
  BY <1>1, <1>2, <1>3, <1>6 DEF IInv, Tree

\* What is added twice to a block is gone.
LEMMA XorBack == ASSUME NEW x, NEW y PROVE Xor(Xor(x, y), x) = y
BY DEF Xor

\* When sender() can answer, both parties are on the level, and what it finds is the
\* correction of the peer's digit.
LEMMA CorrectionArrives ==
    ASSUME IInv, ~Trivial, NEW p \in Party,
           stage[p] = "transfer", strand[p].sender = "recv", Arrived(p, Channel(p, "sender"))
    PROVE  /\ iter[0] = iter[1]
           /\ CorrectionDue(p, 1 - p)
           /\ net[p][Channel(p, "sender")] = <<CorrectionMsg(1 - p)>>
           /\ Received(p, Channel(p, "sender")) = CorrectionOf(1 - p, iter[p])
           /\ Head(net[p][Channel(p, "sender")]).kind = "correction"
<1>1. net[p][Channel(p, "sender")] # <<>>
  BY DEF Arrived
<1>2. CASE p = 0
  <2>1. Channel(p, "sender") = 0
    BY <1>2 DEF Channel
  <2>2. SocketMail0 # <<>>
    BY <1>1, <1>2, <2>1, ControlType DEF Mailed
  <2>3. iter[0] = iter[1] /\ CorrectionDue(0, 1) /\ SocketMail0 = <<CorrectionMsg(1)>>
    BY <1>2, <2>2, ControlType
       DEF SocketMail0, CorrectionDue, SigmaDue, DiffDue, Control, Apart, Ahead
  <2>4. net[0][0] = <<CorrectionMsg(1)>>
    BY <2>3, ControlType DEF Mailed
  <2>5. /\ Head(<<CorrectionMsg(1)>>).what = CorrectionOf(1, iter[1])
        /\ Head(<<CorrectionMsg(1)>>).kind = "correction"
    BY TakeFromQueue DEF CorrectionMsg
  <2> QED
    BY <1>2, <2>1, <2>3, <2>4, <2>5 DEF Received
<1>3. CASE p = 1
  <2>1. Channel(p, "sender") = iter[1]
    BY <1>3 DEF Channel
  <2>2. ForkMail1(iter[1]) # <<>> /\ net[1][iter[1]] = ForkMail1(iter[1])
    BY <1>1, <1>3, <2>1, ControlType DEF Mailed
  <2>3. iter[0] = iter[1] /\ CorrectionDue(1, 0) /\ ForkMail1(iter[1]) = <<CorrectionMsg(0)>>
    BY <2>2 DEF ForkMail1
  <2>4. /\ Head(<<CorrectionMsg(0)>>).what = CorrectionOf(0, iter[0])
        /\ Head(<<CorrectionMsg(0)>>).kind = "correction"
    BY TakeFromQueue DEF CorrectionMsg
  <2> QED
    BY <1>3, <2>1, <2>2, <2>3, <2>4 DEF Received
<1> QED
  BY <1>2, <1>3 DEF Party

\* So it is in every step of sender().
LEMMA TransferFinds ==
    ASSUME IInv, ~Trivial, NEW p \in Party, Transfer(p)
    PROVE  /\ iter[0] = iter[1]
           /\ CorrectionDue(p, 1 - p)
           /\ net[p][Channel(p, "sender")] = <<CorrectionMsg(1 - p)>>
           /\ Received(p, Channel(p, "sender")) = CorrectionOf(1 - p, iter[p])
<1>1. stage[p] = "transfer" /\ strand[p].sender = "recv" /\ Arrived(p, Channel(p, "sender"))
  BY Zenon DEF Transfer
<1> QED
  BY <1>1, CorrectionArrives

\* What it draws is in mask as Masked says, and what it sends is what the invariant calls
\* its message.
LEMMA TransferSends ==
    ASSUME IInv, ~Trivial, NEW p \in Party, Transfer(p)
    PROVE  /\ mask' \in [Party -> Triple]
           /\ mask'[1 - p] = mask[1 - p]
           /\ lsb(Drawn(p)') <=> p = 1
           /\ \A i \in Digit \ {points[p][iter[p]]} : mask'[p][i] = Unmasked(p)[i]
           /\ net' = Put(Put(net, p, Channel(p, "sender"), Tail(net[p][Channel(p, "sender")])),
                         1 - p, Channel(p, "sender"),
                         Append(net[1 - p][Channel(p, "sender")], TransferMsg(p)'))
<1> DEFINE n == iter[p]
           a == points[p][n]
           c == Channel(p, "sender")
           e == Unmasked(p)
<1>1. Inputs /\ n \in 1 .. mDepth /\ 0 \in Digit /\ 1 - p \in Party /\ 1 - p # p
  BY ControlType DEF IInv, Control, Apart, Party, Digit
<1>2. a \in Digit /\ KeyOf(p, n, 0) \in Block
  BY <1>1, KeyType
<1>3. e \in Triple
  BY <1>2, DpfAssumption DEF Unmasked
<1>4. Received(p, c) = CorrectionOf(1 - p, n)
  BY TransferFinds
<1>5. PICK drawn \in Masks :
         LET r == IF p = 1 THEN drawn \cup {0} ELSE drawn \ {0}
             own == [e EXCEPT ![a] = Xor(@, r)]
             for(j) == [XorTriple(Expand3[KeyOf(p, n, j)], own)
                          EXCEPT ![Offset(j, a)] = Xor(@, r)]
         IN  /\ mask' = [mask EXCEPT ![p] = own]
             /\ net' = [Consume(p, c) EXCEPT ![1 - p][c] =
                          Append(@, [kind |-> "transfer", what |-> <<for(1), for(2)>>])]
  <2> DEFINE key(j) == Xor(mBaseSendOts[p][2 * n - 1][Flip(j % 2, Received(p, c)[1])],
                           mBaseSendOts[p][2 * n][Flip(j \div 2, Received(p, c)[2])])
  <2>1. \E drawn \in Masks :
         LET r == IF p = 1 THEN drawn \cup {0} ELSE drawn \ {0}
             own == [Expand3[key(0)] EXCEPT ![a] = Xor(@, r)]
             for(j) == [XorTriple(Expand3[key(j)], own)
                          EXCEPT ![Offset(j, a)] = Xor(@, r)]
         IN  /\ mask' = [mask EXCEPT ![p] = own]
             /\ net' = [Consume(p, c) EXCEPT ![1 - p][c] =
                          Append(@, [kind |-> "transfer", what |-> <<for(1), for(2)>>])]
    BY Zenon DEF Transfer
  <2>2. key(0) = KeyOf(p, n, 0) /\ key(1) = KeyOf(p, n, 1) /\ key(2) = KeyOf(p, n, 2)
    BY <1>4 DEF KeyOf
  <2> HIDE DEF key, a, c
  <2> QED
    BY <2>1, <2>2, Zenon DEF Unmasked
<1> DEFINE r == IF p = 1 THEN drawn \cup {0} ELSE drawn \ {0}
           own == [e EXCEPT ![a] = Xor(@, r)]
           for(j) == [XorTriple(Expand3[KeyOf(p, n, j)], own)
                        EXCEPT ![Offset(j, a)] = Xor(@, r)]
           what == <<for(1), for(2)>>
<1>6. r \in Block /\ (lsb(r) <=> p = 1)
  <2>1. drawn \in Block /\ 0 \in Bits
    BY DpfAssumption
  <2> QED
    BY <2>1 DEF Block, lsb
<1>7. own \in Triple /\ own[a] = Xor(e[a], r) /\ \A i \in Digit \ {a} : own[i] = e[i]
  <2>1. Xor(e[a], r) \in Block
    BY <1>2, <1>3, <1>6, XorType DEF Triple
  <2> HIDE DEF e, a, r
  <2> QED
    BY <1>2, <1>3, <2>1 DEF Triple
<1>8. mask' = [mask EXCEPT ![p] = own] /\ mask \in [Party -> Triple]
  BY <1>5 DEF IInv, TypeOK
<1>9. mask' \in [Party -> Triple] /\ mask'[p] = own /\ mask'[1 - p] = mask[1 - p]
  <2> HIDE DEF own
  <2> QED
    BY <1>1, <1>7, <1>8
<1>10. /\ iter'[p] = n /\ points' = points /\ Unmasked(p)' = e
       /\ \A j : KeyOf(p, n, j)' = KeyOf(p, n, j)
  BY DEF Transfer, tree, inputs, Unmasked, KeyOf, CorrectionOf
<1>11. Drawn(p)' = r
  <2>1. Drawn(p)' = Xor(own[a], e[a])
    <3>1. Drawn(p)' = Xor(mask'[p][points'[p][iter'[p]]], Unmasked(p)'[points'[p][iter'[p]]])
      BY DEF Drawn
    <3> HIDE DEF own, e
    <3> QED
      BY <1>9, <1>10, <3>1
  <2> HIDE DEF own, e, r
  <2> QED
    BY <1>7, <2>1, XorBack
<1>12. TransferMsg(p)' = [kind |-> "transfer", what |-> what]
  <2>1. iter' = iter /\ inputs' = inputs
    BY DEF Transfer, tree
  <2>2. TransferOf(p)' =
          << [XorTriple(Expand3[KeyOf(p, n, 1)], mask'[p]) EXCEPT ![Offset(1, a)] = Xor(@, Drawn(p)')],
             [XorTriple(Expand3[KeyOf(p, n, 2)], mask'[p]) EXCEPT ![Offset(2, a)] = Xor(@, Drawn(p)')] >>
    BY <2>1 DEF TransferOf, KeyOf, CorrectionOf, inputs
  <2>3. TransferOf(p)' = what
    BY <1>9, <1>11, <2>2
  <2> HIDE DEF what
  <2> QED
    BY <2>3 DEF TransferMsg
<1>13. net' = Put(Put(net, p, c, Tail(net[p][c])), 1 - p, c,
                  Append(net[1 - p][c], [kind |-> "transfer", what |-> what]))
  <2> DEFINE m == [kind |-> "transfer", what |-> what]
             N == Consume(p, c)
  <2>1. net' = [N EXCEPT ![1 - p][c] = Append(@, m)]
    BY <1>5
  <2>2. N = Put(net, p, c, Tail(net[p][c]))
    BY DEF Consume, Put
  <2>3. N[1 - p] = net[1 - p]
    <3>1. DOMAIN net = Party
      BY ControlType DEF NetShape
    <3> QED
      BY <1>1, <2>2, <3>1 DEF Put
  <2> HIDE DEF m, N, c
  <2>4. net' = Put(N, 1 - p, c, Append(N[1 - p][c], m))
    BY <2>1 DEF Put
  <2> QED
    BY <2>2, <2>3, <2>4 DEF m
<1> QED
  BY <1>6, <1>7, <1>9, <1>11, <1>12, <1>13

\* Beside the mask and the messages, only sender()'s state changes.
LEMMA TransferKeeps ==
    ASSUME NEW p \in Party, Transfer(p)
    PROVE  /\ stage[p] = "transfer" /\ strand[p].sender = "recv"
           /\ strand' = [strand EXCEPT ![p].sender = "done"]
           /\ UNCHANGED <<inputs, stage, tree, recvBuffer, sigma, result>>
<1>1. stage[p] = "transfer" /\ strand[p].sender = "recv"
  BY Zenon DEF Transfer
<1>2. /\ strand' = [strand EXCEPT ![p].sender = "done"]
      /\ UNCHANGED <<inputs, stage, tree, recvBuffer, sigma, result>>
  BY Zenon DEF Transfer
<1> QED
  BY <1>1, <1>2

\* sender() is done then; nothing else of the control changes.
LEMMA TransferControl ==
    ASSUME IInv, ~Trivial, NEW p \in Party, Transfer(p)
    PROVE  TypeOK' /\ Control'
<1>1. Inputs' /\ mDepth' = mDepth /\ Leaf' = Leaf
  BY SameInputs, TransferKeeps DEF IInv
<1>2. TypeOK'
  <2>1. strand' \in [Party -> Ports]
    BY TransferKeeps DEF IInv, TypeOK, Ports
  <2>2. mask' \in [Party -> Triple]
    BY TransferSends
  <2> QED
    BY <1>1, <2>1, <2>2, TransferKeeps DEF IInv, TypeOK, tree, result
<1>3. Control'
  <2>1. CorrectionDue(p, 1 - p) /\ iter[0] = iter[1]
    BY TransferFinds
  <2>2. /\ stage' = stage /\ iter' = iter /\ stage[p] = "transfer" /\ strand[p].sender = "recv"
        /\ strand'[0].sender = IF p = 0 THEN "done" ELSE strand[0].sender
        /\ strand'[1].sender = IF p = 1 THEN "done" ELSE strand[1].sender
        /\ strand'[0].recver = strand[0].recver /\ strand'[1].recver = strand[1].recver
        /\ (stage[0] # "transfer" => strand'[0] = strand[0])
        /\ (stage[1] # "transfer" => strand'[1] = strand[1])
    BY TransferKeeps DEF IInv, TypeOK, Ports, tree, Party
  <2>3. p = 0 \/ p = 1
    BY DEF Party
  <2> QED
    BY <1>1, <2>1, <2>2, <2>3, ControlType DEF Control, Apart, Ahead, CorrectionDue
<1> QED
  BY <1>2, <1>3

\* It has taken the correction and sent its answer.
LEMMA TransferMail ==
    ASSUME IInv, ~Trivial, NEW p \in Party, Transfer(p)
    PROVE  NetShape' /\ Mailed'
<1> DEFINE c == Channel(p, "sender")
<1>1. c = IF p = 0 THEN 0 ELSE iter[1]
  BY DEF Channel, Party
<1>2. p \in Party /\ 1 - p \in Party /\ p # 1 - p /\ c \in 0 .. MaxDepth
  BY <1>1, ControlType DEF Party
<1>3. /\ iter[0] = iter[1]
      /\ net[p][c] = <<CorrectionMsg(1 - p)>>
      /\ strand[1 - p].recver # "send"
  BY TransferFinds, ControlType DEF CorrectionDue
<1>4. NetShape' /\ \A q \in Party : \A d \in 0 .. MaxDepth :
        net'[q][d] = IF q = p /\ d = c THEN <<>>
                     ELSE IF q = 1 - p /\ d = c THEN Append(net[1 - p][c], TransferMsg(p)')
                     ELSE net[q][d]
  <2> DEFINE v == Tail(net[p][c])
             w == Append(net[1 - p][c], TransferMsg(p)')
  <2>1. net' = Put(Put(net, p, c, v), 1 - p, c, w)
    BY TransferSends
  <2>2. NetShape
    BY DEF IInv
  <2>3. v = <<>>
    BY <1>3, TakeFromQueue
  <2> HIDE DEF c, v, w
  <2>4. NetShape' /\ \A q \in Party : \A d \in 0 .. MaxDepth :
          net'[q][d] = IF q = p /\ d = c THEN v
                       ELSE IF q = 1 - p /\ d = c THEN w ELSE net[q][d]
    BY <1>2, <2>1, <2>2, TwoQueuesChange
  <2> QED
    BY <2>3, <2>4 DEF w
<1>5. /\ CorrectionMsg(0)' = CorrectionMsg(0) /\ CorrectionMsg(1)' = CorrectionMsg(1)
      /\ SigmaMsg(0)' = SigmaMsg(0) /\ SigmaMsg(1)' = SigmaMsg(1)
      /\ DiffMsg(0)' = DiffMsg(0) /\ DiffMsg(1)' = DiffMsg(1)
  BY TransferKeeps DEF tree, result, inputs, CorrectionMsg, CorrectionOf, SigmaMsg, DiffMsg, DiffOf
<1>6. TransferMsg(1 - p)' = TransferMsg(1 - p)
  <2>1. mask'[1 - p] = mask[1 - p]
    BY TransferSends
  <2> QED
    BY <2>1, TransferKeeps DEF tree, inputs, CorrectionOf, TransferMsg, TransferOf, KeyOf, Drawn, Unmasked
<1>7. /\ stage' = stage /\ iter' = iter
      /\ strand'[0].recver = strand[0].recver /\ strand'[1].recver = strand[1].recver
      /\ strand'[0].sender = IF p = 0 THEN "done" ELSE strand[0].sender
      /\ strand'[1].sender = IF p = 1 THEN "done" ELSE strand[1].sender
      /\ stage[p] = "transfer" /\ strand[p].sender = "recv"
  BY TransferKeeps DEF IInv, TypeOK, Ports, tree, Party
<1> HIDE DEF c
<1>8. CASE p = 0
  <2>1. /\ net'[0][0] = <<>> /\ net'[1][0] = Append(net[1][0], TransferMsg(0)')
        /\ \A n \in 1 .. MaxDepth : net'[0][n] = net[0][n] /\ net'[1][n] = net[1][n]
    <3>1. c = 0 /\ 1 - p = 1
      BY <1>1, <1>8
    <3> QED
      BY <1>4, <1>8, <3>1, ControlType
  <2>2. SocketMail0' = <<>>
    BY <1>3, <1>7, <1>8, ControlType
       DEF SocketMail0, CorrectionDue, SigmaDue, DiffDue, Control, Apart, Ahead
  <2>3. SocketMail1 = <<>> /\ SocketMail1' = <<TransferMsg(0)'>>
    BY <1>3, <1>7, <1>8, ControlType
       DEF SocketMail1, TransferDue, SigmaDue, DiffDue, Control, Apart, Ahead
  <2>4. TransferMsg(1)' = TransferMsg(1)
    BY <1>6, <1>8
  <2>5. \A n : ForkMail0(n)' = ForkMail0(n)
    BY <1>7, <1>8, <2>4 DEF ForkMail0, TransferDue
  <2>6. \A n : ForkMail1(n)' = ForkMail1(n)
    BY <1>5, <1>7, <1>8 DEF ForkMail1, CorrectionDue
  <2>7. net'[1][0] = SocketMail1'
    <3>1. net[1][0] = <<>>
      BY <2>3, ControlType DEF Mailed
    <3> QED
      BY <2>1, <2>3, <3>1, FirstInQueue
  <2>8. ASSUME NEW n \in 1 .. MaxDepth
        PROVE  net'[0][n] = ForkMail0(n)' /\ net'[1][n] = ForkMail1(n)'
    BY <2>1, <2>5, <2>6, ControlType DEF Mailed
  <2> QED
    BY <1>4, <2>1, <2>2, <2>7, <2>8 DEF Mailed
<1>9. CASE p = 1
  <2>1. /\ net'[0][0] = net[0][0] /\ net'[1][0] = net[1][0]
        /\ \A n \in 1 .. MaxDepth :
             /\ net'[0][n] = IF n = iter[1] THEN Append(net[0][n], TransferMsg(1)') ELSE net[0][n]
             /\ net'[1][n] = IF n = iter[1] THEN <<>> ELSE net[1][n]
    <3>1. c = iter[1] /\ 1 - p = 0
      BY <1>1, <1>9
    <3> QED
      BY <1>4, <1>9, <3>1, ControlType
  <2>2. SocketMail0' = SocketMail0
    BY <1>5, <1>7, <1>9, ControlType DEF SocketMail0, CorrectionDue, SigmaDue, DiffDue
  <2>3. TransferMsg(0)' = TransferMsg(0)
    BY <1>6, <1>9
  <2>4. SocketMail1' = SocketMail1
    BY <1>5, <1>7, <1>9, <2>3, ControlType DEF SocketMail1, TransferDue, SigmaDue, DiffDue
  <2>5. ASSUME NEW n, n # iter[1]
        PROVE  ForkMail0(n)' = ForkMail0(n) /\ ForkMail1(n)' = ForkMail1(n)
    BY <1>3, <1>7, <2>5 DEF ForkMail0, ForkMail1
  <2>6. ASSUME NEW n, n = iter[1]
        PROVE  /\ ForkMail0(n) = <<>> /\ ForkMail0(n)' = <<TransferMsg(1)'>>
               /\ ForkMail1(n)' = <<>>
    <3>1. /\ ~TransferDue(0, 1) /\ TransferDue(0, 1)' /\ ~CorrectionDue(1, 0)'
      BY <1>3, <1>7, <1>9, ControlType DEF TransferDue, CorrectionDue, Control, Apart, Ahead
    <3> QED
      BY <1>7, <2>6, <3>1 DEF ForkMail0, ForkMail1
  <2>7. net'[0][0] = SocketMail0' /\ net'[1][0] = SocketMail1'
    BY <2>1, <2>2, <2>4, ControlType DEF Mailed
  <2>8. ASSUME NEW n \in 1 .. MaxDepth
        PROVE  net'[0][n] = ForkMail0(n)' /\ net'[1][n] = ForkMail1(n)'
    <3>1. net[0][n] = ForkMail0(n) /\ net[1][n] = ForkMail1(n)
      BY ControlType DEF Mailed
    <3>2. CASE n = iter[1]
      <4>1. ForkMail0(n) = <<>> /\ ForkMail0(n)' = <<TransferMsg(1)'>> /\ ForkMail1(n)' = <<>>
        BY <2>6, <3>2
      <4>2. net'[0][n] = Append(net[0][n], TransferMsg(1)') /\ net'[1][n] = <<>>
        BY <2>1, <3>2
      <4>3. Append(<<>>, TransferMsg(1)') = <<TransferMsg(1)'>>
        BY FirstInQueue
      <4> QED
        BY <3>1, <4>1, <4>2, <4>3
    <3>3. CASE n # iter[1]
      BY <2>1, <2>5, <3>1, <3>3
    <3> QED
      BY <3>2, <3>3
  <2> QED
    BY <1>4, <2>7, <2>8 DEF Mailed
<1> QED
  BY <1>8, <1>9 DEF Party

\* Nobody has used the mask yet, and the other party's message is what it was.
LEMMA TransferStep ==
    ASSUME IInv, ~Trivial, NEW p \in Party, Transfer(p)
    PROVE  IInv'
<1> DEFINE q == 1 - p
<1>1. Inputs' /\ Trivial' = Trivial /\ mDepth' = mDepth /\ Point' = Point
  BY SameInputs, TransferKeeps DEF IInv
<1>2. TypeOK' /\ Control' /\ NetShape' /\ Mailed'
  BY TransferControl, TransferMail
<1>3. Levels' /\ LeavesOnPath' /\ Outputs' /\ Families'
  BY SameTree, TransferKeeps
<1>4. /\ iter' = iter /\ stage' = stage /\ points' = points
      /\ strand'[q].sender = strand[q].sender /\ q \in Party /\ 1 - q = p
      /\ strand'[q].recver = strand[q].recver /\ strand'[p].recver = strand[p].recver
      /\ recvBuffer' = recvBuffer
      /\ stage[p] = "transfer" /\ strand[p].sender = "recv"
  BY TransferKeeps DEF IInv, TypeOK, Ports, tree, inputs, Party
<1>5. mask'[q] = mask[q]
  BY TransferSends
<1>6. /\ \A i : Unmasked(i)' = Unmasked(i)
      /\ Drawn(q)' = Drawn(q) /\ TransferOf(q)' = TransferOf(q)
  <2>1. points' = points /\ mBaseSendOts' = mBaseSendOts /\ mBaseChoice' = mBaseChoice
    BY TransferKeeps DEF inputs
  <2>2. \A i : Unmasked(i)' = Unmasked(i)
    BY <1>4, <2>1 DEF Unmasked, KeyOf, CorrectionOf
  <2> HIDE DEF q
  <2>3. Drawn(q)' = Drawn(q)
    BY <1>4, <1>5, <2>1, <2>2 DEF Drawn
  <2>4. TransferOf(q)' = TransferOf(q)
    BY <1>4, <1>5, <2>1, <2>3 DEF TransferOf, KeyOf, CorrectionOf
  <2> QED
    BY <2>2, <2>3, <2>4
<1>7. strand[q].recver # "done" /\ stage[q] # "sigma"
  <2>1. iter[0] = iter[1]
    BY TransferFinds
  <2>2. p = 0 \/ p = 1
    BY DEF Party
  <2> QED
    BY <1>4, <2>1, <2>2, ControlType DEF Control, Apart
<1>8. \A i \in Party : i = p \/ i = q
  BY DEF Party
<1> HIDE DEF q
<1>9. Masked'
  <2>1. /\ lsb(Drawn(p)') <=> p = 1
        /\ \A i \in Digit \ {points[p][iter[p]]} : mask'[p][i] = Unmasked(p)[i]
    BY TransferSends
  <2>2. strand[q].sender = "done" =>
          /\ lsb(Drawn(q)) <=> q = 1
          /\ \A i \in Digit \ {points[q][iter[q]]} : mask[q][i] = Unmasked(q)[i]
    BY <1>4 DEF IInv, Tree, Masked
  <2>3. strand'[q].sender = "done" =>
          /\ lsb(Drawn(q)') <=> q = 1
          /\ \A i \in Digit \ {points'[q][iter'[q]]} : mask'[q][i] = Unmasked(q)'[i]
    BY <1>4, <1>5, <1>6, <2>2
  <2>4. /\ lsb(Drawn(p)') <=> p = 1
        /\ \A i \in Digit \ {points'[p][iter'[p]]} : mask'[p][i] = Unmasked(p)'[i]
    BY <1>4, <1>6, <2>1
  <2> QED
    BY <1>8, <2>3, <2>4 DEF Masked
<1>10. Buffered'
  <2>1. ASSUME stage[p] = "transfer", strand[p].recver = "done"
        PROVE  recvBuffer[p] = TransferOf(q)
    BY <2>1 DEF IInv, Tree, Buffered, q
  <2>2. ASSUME stage'[p] = "transfer", strand'[p].recver = "done"
        PROVE  recvBuffer'[p] = TransferOf(q)'
    BY <1>4, <1>6, <2>1, <2>2
  <2>3. ASSUME NEW i \in Party, stage'[i] = "transfer", strand'[i].recver = "done"
        PROVE  recvBuffer'[i] = TransferOf(1 - i)'
    <3>1. i = p
      BY <1>4, <1>7, <1>8, <2>3
    <3> QED
      BY <2>2, <2>3, <3>1 DEF q
  <2> QED
    BY <2>3 DEF Buffered
<1>11. Summed'
  BY <1>4, <1>7, <1>8 DEF Summed
<1> QED
  BY <1>1, <1>2, <1>3, <1>9, <1>10, <1>11 DEF IInv, Tree

\* When recver() can go on, it finds the message that the peer has made of its correction,
\* and behind it perhaps the peer's share.
LEMMA TransferArrives ==
    ASSUME IInv, ~Trivial, NEW p \in Party,
           stage[p] = "transfer", strand[p].recver = "recv", Arrived(p, Channel(p, "recver"))
    PROVE  /\ iter[0] = iter[1]
           /\ TransferDue(p, 1 - p)
           /\ Received(p, Channel(p, "recver")) = TransferOf(1 - p)
           /\ Head(net[p][Channel(p, "recver")]).kind = "transfer"
           /\ p = 0 => net[0][iter[0]] = <<TransferMsg(1)>>
           /\ p = 1 /\ SigmaDue(1, 0) => net[1][0] = <<TransferMsg(0), SigmaMsg(0)>>
           /\ p = 1 /\ ~SigmaDue(1, 0) => net[1][0] = <<TransferMsg(0)>>
<1>1. net[p][Channel(p, "recver")] # <<>>
  BY DEF Arrived
<1>2. CASE p = 0
  <2>1. Channel(p, "recver") = iter[0]
    BY <1>2 DEF Channel
  <2>2. net[0][iter[0]] = ForkMail0(iter[0]) /\ ForkMail0(iter[0]) # <<>>
    BY <1>1, <1>2, <2>1, ControlType DEF Mailed
  <2>3. TransferDue(0, 1) /\ iter[0] = iter[1] /\ net[0][iter[0]] = <<TransferMsg(1)>>
    BY <2>2 DEF ForkMail0
  <2>4. /\ Head(<<TransferMsg(1)>>).what = TransferOf(1)
        /\ Head(<<TransferMsg(1)>>).kind = "transfer"
    BY TakeFromQueue DEF TransferMsg
  <2> QED
    BY <1>2, <2>1, <2>3, <2>4 DEF Received
<1>3. CASE p = 1
  <2>1. Channel(p, "recver") = 0
    BY <1>3 DEF Channel
  <2>2. net[1][0] = SocketMail1 /\ SocketMail1 # <<>>
    BY <1>1, <1>3, <2>1, ControlType DEF Mailed
  <2>3. TransferDue(1, 0)
    BY <1>1, <1>3, <2>2, ControlType
       DEF SocketMail1, TransferDue, SigmaDue, DiffDue, Control, Apart, Ahead
  <2>4. net[1][0] = IF SigmaDue(1, 0) THEN <<TransferMsg(0), SigmaMsg(0)>> ELSE <<TransferMsg(0)>>
    BY <2>2, <2>3 DEF SocketMail1
  <2>5. /\ Head(<<TransferMsg(0)>>) = TransferMsg(0)
        /\ Head(<<TransferMsg(0), SigmaMsg(0)>>) = TransferMsg(0)
    BY TakeFromQueue
  <2>6. Received(p, 0) = TransferOf(0) /\ Head(net[1][0]).kind = "transfer"
    BY <1>3, <2>4, <2>5 DEF Received, TransferMsg
  <2> QED
    BY <1>3, <2>1, <2>3, <2>4, <2>6 DEF TransferDue
<1> QED
  BY <1>2, <1>3 DEF Party

\* So it is in every step of recver().
LEMMA ReceiveTransferFinds ==
    ASSUME IInv, ~Trivial, NEW p \in Party, ReceiveTransfer(p)
    PROVE  /\ iter[0] = iter[1]
           /\ TransferDue(p, 1 - p)
           /\ Received(p, Channel(p, "recver")) = TransferOf(1 - p)
           /\ p = 0 => net[0][iter[0]] = <<TransferMsg(1)>>
           /\ p = 1 /\ SigmaDue(1, 0) => net[1][0] = <<TransferMsg(0), SigmaMsg(0)>>
           /\ p = 1 /\ ~SigmaDue(1, 0) => net[1][0] = <<TransferMsg(0)>>
<1>1. stage[p] = "transfer" /\ strand[p].recver = "recv" /\ Arrived(p, Channel(p, "recver"))
  BY Zenon DEF ReceiveTransfer
<1> QED
  BY <1>1, TransferArrives

\* Beside the buffer and the messages, only recver()'s state changes.
LEMMA ReceiveTransferKeeps ==
    ASSUME NEW p \in Party, ReceiveTransfer(p)
    PROVE  /\ stage[p] = "transfer" /\ strand[p].recver = "recv"
           /\ strand' = [strand EXCEPT ![p].recver = "done"]
           /\ recvBuffer' = [recvBuffer EXCEPT ![p] = Received(p, Channel(p, "recver"))]
           /\ net' = Put(net, p, Channel(p, "recver"), Tail(net[p][Channel(p, "recver")]))
           /\ UNCHANGED <<inputs, stage, tree, mask, sigma, result>>
BY DEF ReceiveTransfer, Consume, Put

\* A message of sender() is two triples of blocks.
LEMMA TransferType ==
    ASSUME Inputs, TypeOK, NEW p \in Party, iter[p] \in 1 .. mDepth
    PROVE  TransferOf(p) \in Triple \X Triple
<1> DEFINE n == iter[p]
           a == points[p][n]
           r == Drawn(p)
           t(j) == XorTriple(Expand3[KeyOf(p, n, j)], mask[p])
           for(j) == [t(j) EXCEPT ![Offset(j, a)] = Xor(@, r)]
<1>1. mask[p] \in Triple
  BY DEF TypeOK
<1>2. 0 \in Digit /\ 1 \in Digit /\ 2 \in Digit
  BY DEF Digit
<1>3. \A j \in Digit : Expand3[KeyOf(p, n, j)] \in Triple
  BY <1>2, KeyType, DpfAssumption
<1>4. a \in Digit
  BY <1>2, KeyType
<1>5. r \in Block
  <2>1. mask[p][a] \in Block
    BY <1>1, <1>4 DEF Triple
  <2>2. Unmasked(p)[a] \in Block
    <3>1. Unmasked(p) \in Triple
      BY <1>2, <1>3 DEF Unmasked
    <3> HIDE DEF a
    <3> QED
      BY <1>4, <3>1 DEF Triple
  <2> QED
    BY <2>1, <2>2, XorType DEF Drawn
<1>6. ASSUME NEW j \in Digit PROVE t(j) \in Triple
  <2>1. ASSUME NEW i \in Digit PROVE Xor(Expand3[KeyOf(p, n, j)][i], mask[p][i]) \in Block
    <3>1. Expand3[KeyOf(p, n, j)][i] \in Block /\ mask[p][i] \in Block
      BY <1>1, <1>3 DEF Triple
    <3> QED
      BY <3>1, XorType
  <2> QED
    BY <2>1 DEF XorTriple, Triple
<1>7. ASSUME NEW j \in Digit PROVE for(j) \in Triple
  <2>1. t(j) \in [Digit -> Block]
    BY <1>6 DEF Triple
  <2>2. ASSUME NEW x \in Block PROVE Xor(x, r) \in Block
    BY <1>5, XorType
  <2> HIDE DEF t, r, a
  <2> QED
    BY <2>1, <2>2 DEF Triple
<1>8. TransferOf(p) = <<for(1), for(2)>>
  BY DEF TransferOf
<1>9. for(1) \in Triple /\ for(2) \in Triple
  BY <1>2, <1>7
<1> HIDE DEF for
<1> QED
  BY <1>8, <1>9

\* recver() is done then; nothing else of the control changes.
LEMMA ReceiveTransferControl ==
    ASSUME IInv, ~Trivial, NEW p \in Party, ReceiveTransfer(p)
    PROVE  TypeOK' /\ Control'
<1>1. Inputs' /\ mDepth' = mDepth /\ Leaf' = Leaf
  BY SameInputs, ReceiveTransferKeeps DEF IInv
<1>2. TypeOK'
  <2>1. strand' \in [Party -> Ports]
    <3>1. strand' = [strand EXCEPT ![p].recver = "done"] /\ strand \in [Party -> Ports]
      BY ReceiveTransferKeeps DEF IInv, TypeOK
    <3> QED
      BY <3>1 DEF Ports
  <2>2. recvBuffer' \in [Party -> Triple \X Triple]
    <3>1. 1 - p \in Party /\ iter[1 - p] \in 1 .. mDepth
      BY ControlType DEF Control, Apart, Party
    <3>2. Received(p, Channel(p, "recver")) \in Triple \X Triple
      BY <3>1, ReceiveTransferFinds, TransferType DEF IInv
    <3> QED
      BY <3>2, ReceiveTransferKeeps DEF IInv, TypeOK
  <2> QED
    BY <1>1, <2>1, <2>2, ReceiveTransferKeeps DEF IInv, TypeOK, tree, result
<1>3. Control'
  <2>1. TransferDue(p, 1 - p) /\ iter[0] = iter[1]
    BY ReceiveTransferFinds
  <2>2. /\ stage' = stage /\ iter' = iter /\ stage[p] = "transfer" /\ strand[p].recver = "recv"
        /\ strand'[0].recver = IF p = 0 THEN "done" ELSE strand[0].recver
        /\ strand'[1].recver = IF p = 1 THEN "done" ELSE strand[1].recver
        /\ strand'[0].sender = strand[0].sender /\ strand'[1].sender = strand[1].sender
        /\ (stage[0] # "transfer" => strand'[0] = strand[0])
        /\ (stage[1] # "transfer" => strand'[1] = strand[1])
    BY ReceiveTransferKeeps DEF IInv, TypeOK, Ports, tree, Party
  <2>3. p = 0 \/ p = 1
    BY DEF Party
  <2> QED
    BY <1>1, <2>1, <2>2, <2>3, ControlType DEF Control, Apart, Ahead, TransferDue
<1> QED
  BY <1>2, <1>3

\* It has taken the peer's message.
LEMMA ReceiveTransferMail ==
    ASSUME IInv, ~Trivial, NEW p \in Party, ReceiveTransfer(p)
    PROVE  NetShape' /\ Mailed'
<1> DEFINE c == Channel(p, "recver")
<1>1. c = IF p = 0 THEN iter[0] ELSE 0
  BY DEF Channel, Party
<1>2. p \in Party /\ c \in 0 .. MaxDepth
  BY <1>1, ControlType DEF Party
<1>3. /\ iter[0] = iter[1] /\ strand[1 - p].sender = "done"
  BY ReceiveTransferFinds DEF TransferDue
<1>4. NetShape' /\ \A q \in Party : \A d \in 0 .. MaxDepth :
        net'[q][d] = IF q = p /\ d = c THEN Tail(net[p][c]) ELSE net[q][d]
  <2>1. net' = Put(net, p, c, Tail(net[p][c]))
    BY ReceiveTransferKeeps
  <2>2. NetShape
    BY DEF IInv
  <2> HIDE DEF c
  <2> QED
    BY <1>2, <2>1, <2>2, QueueChange
<1>5. /\ CorrectionMsg(0)' = CorrectionMsg(0) /\ CorrectionMsg(1)' = CorrectionMsg(1)
      /\ TransferMsg(0)' = TransferMsg(0) /\ TransferMsg(1)' = TransferMsg(1)
      /\ SigmaMsg(0)' = SigmaMsg(0) /\ SigmaMsg(1)' = SigmaMsg(1)
      /\ DiffMsg(0)' = DiffMsg(0) /\ DiffMsg(1)' = DiffMsg(1)
  BY ReceiveTransferKeeps
     DEF tree, result, inputs, CorrectionMsg, CorrectionOf,
         TransferMsg, TransferOf, KeyOf, Drawn, Unmasked, SigmaMsg, DiffMsg, DiffOf
<1>6. /\ stage' = stage /\ iter' = iter
      /\ strand'[0].sender = strand[0].sender /\ strand'[1].sender = strand[1].sender
      /\ strand'[0].recver = IF p = 0 THEN "done" ELSE strand[0].recver
      /\ strand'[1].recver = IF p = 1 THEN "done" ELSE strand[1].recver
      /\ stage[p] = "transfer" /\ strand[p].recver = "recv"
  BY ReceiveTransferKeeps DEF IInv, TypeOK, Ports, tree, Party
<1> HIDE DEF c
<1>7. CASE p = 0
  <2>1. /\ net'[0][0] = net[0][0] /\ net'[1][0] = net[1][0]
        /\ \A n \in 1 .. MaxDepth :
             /\ net'[0][n] = IF n = iter[0] THEN Tail(net[0][n]) ELSE net[0][n]
             /\ net'[1][n] = net[1][n]
    BY <1>1, <1>4, <1>7, ControlType
  <2>2. SocketMail0' = SocketMail0
    BY <1>5, <1>6, <1>7, ControlType DEF SocketMail0, CorrectionDue, SigmaDue, DiffDue
  <2>3. SocketMail1' = SocketMail1
    BY <1>5, <1>6, <1>7, ControlType DEF SocketMail1, TransferDue, SigmaDue, DiffDue
  <2>4. \A n : n # iter[0] => ForkMail0(n)' = ForkMail0(n)
    BY <1>3, <1>6 DEF ForkMail0
  <2>5. ~TransferDue(0, 1)'
    BY <1>6, <1>7 DEF TransferDue
  <2>6. \A n : ForkMail0(n)' = <<>> \/ n # iter[0]
    BY <2>5 DEF ForkMail0
  <2>7. \A n : ForkMail1(n)' = ForkMail1(n)
    BY <1>5, <1>6, <1>7 DEF ForkMail1, CorrectionDue
  <2>8. net'[0][0] = SocketMail0' /\ net'[1][0] = SocketMail1'
    BY <2>1, <2>2, <2>3, ControlType DEF Mailed
  <2>9. ASSUME NEW n \in 1 .. MaxDepth PROVE net'[0][n] = ForkMail0(n)'
    <3>1. CASE n = iter[0]
      <4>1. net[0][n] = <<TransferMsg(1)>>
        BY <1>7, <3>1, ReceiveTransferFinds
      <4>2. Tail(<<TransferMsg(1)>>) = <<>>
        BY TakeFromQueue
      <4>3. net'[0][n] = Tail(net[0][n])
        BY <2>1, <3>1
      <4> QED
        BY <2>6, <3>1, <4>1, <4>2, <4>3
    <3>2. CASE n # iter[0]
      <4>1. net[0][n] = ForkMail0(n)
        BY ControlType DEF Mailed
      <4>2. net'[0][n] = net[0][n] /\ ForkMail0(n)' = ForkMail0(n)
        BY <2>1, <2>4, <3>2
      <4> QED
        BY <4>1, <4>2
    <3> QED
      BY <3>1, <3>2
  <2>10. ASSUME NEW n \in 1 .. MaxDepth PROVE net'[1][n] = ForkMail1(n)'
    BY <2>1, <2>7, ControlType DEF Mailed
  <2> QED
    BY <1>4, <2>8, <2>9, <2>10 DEF Mailed
<1>8. CASE p = 1
  <2>1. /\ net'[0][0] = net[0][0] /\ net'[1][0] = Tail(net[1][0])
        /\ \A n \in 1 .. MaxDepth : net'[0][n] = net[0][n] /\ net'[1][n] = net[1][n]
    <3>1. c = 0
      BY <1>1, <1>8
    <3> QED
      BY <1>4, <1>8, <3>1, ControlType
  <2>2. SocketMail0' = SocketMail0
    BY <1>5, <1>6, <1>8, ControlType DEF SocketMail0, CorrectionDue, SigmaDue, DiffDue
  <2>3. SigmaDue(1, 0)' = SigmaDue(1, 0)
    BY <1>6 DEF SigmaDue
  <2>4. SocketMail1' = IF SigmaDue(1, 0) THEN <<SigmaMsg(0)>> ELSE <<>>
    BY <1>3, <1>5, <1>6, <1>8, <2>3, ControlType
       DEF SocketMail1, TransferDue, DiffDue, Control, Apart, Ahead
  <2>5. net'[1][0] = SocketMail1'
    <3>1. Tail(<<TransferMsg(0), SigmaMsg(0)>>) = <<SigmaMsg(0)>>
          /\ Tail(<<TransferMsg(0)>>) = <<>>
      BY TakeFromQueue
    <3>2. CASE SigmaDue(1, 0)
      <4>1. net[1][0] = <<TransferMsg(0), SigmaMsg(0)>>
        BY <1>8, <3>2, ReceiveTransferFinds
      <4> QED
        BY <2>1, <2>4, <3>1, <3>2, <4>1
    <3>3. CASE ~SigmaDue(1, 0)
      <4>1. net[1][0] = <<TransferMsg(0)>>
        BY <1>8, <3>3, ReceiveTransferFinds
      <4> QED
        BY <2>1, <2>4, <3>1, <3>3, <4>1
    <3> QED
      BY <3>2, <3>3
  <2>6. \A n : ForkMail0(n)' = ForkMail0(n)
    BY <1>5, <1>6, <1>8 DEF ForkMail0, TransferDue
  <2>7. \A n : ForkMail1(n)' = ForkMail1(n)
    BY <1>5, <1>6, <1>8 DEF ForkMail1, CorrectionDue
  <2>8. net'[0][0] = SocketMail0'
    BY <2>1, <2>2, ControlType DEF Mailed
  <2>9. ASSUME NEW n \in 1 .. MaxDepth
        PROVE  net'[0][n] = ForkMail0(n)' /\ net'[1][n] = ForkMail1(n)'
    BY <2>1, <2>6, <2>7, ControlType DEF Mailed
  <2> QED
    BY <1>4, <2>5, <2>8, <2>9 DEF Mailed
<1> QED
  BY <1>7, <1>8 DEF Party

\* What it has stored is the message of the peer's sender().
LEMMA ReceiveTransferStep ==
    ASSUME IInv, ~Trivial, NEW p \in Party, ReceiveTransfer(p)
    PROVE  IInv'
<1>1. Inputs' /\ Trivial' = Trivial /\ mDepth' = mDepth /\ Point' = Point
  BY SameInputs, ReceiveTransferKeeps DEF IInv
<1>2. TypeOK' /\ Control' /\ NetShape' /\ Mailed'
  BY ReceiveTransferControl, ReceiveTransferMail
<1>3. Levels' /\ LeavesOnPath' /\ Outputs' /\ Families'
  BY SameTree, ReceiveTransferKeeps
<1>4. /\ iter' = iter /\ stage' = stage /\ sigma' = sigma /\ mask' = mask /\ z' = z
      /\ \A q \in Party : strand'[q].sender = strand[q].sender
      /\ \A q \in Party : q # p => strand'[q].recver = strand[q].recver
                                   /\ recvBuffer'[q] = recvBuffer[q]
      /\ recvBuffer'[p] = Received(p, Channel(p, "recver"))
  <2>1. /\ strand' = [strand EXCEPT ![p].recver = "done"] /\ strand \in [Party -> Ports]
        /\ recvBuffer' = [recvBuffer EXCEPT ![p] = Received(p, Channel(p, "recver"))]
        /\ recvBuffer \in [Party -> Triple \X Triple]
    BY ReceiveTransferKeeps DEF IInv, TypeOK
  <2>2. iter' = iter /\ stage' = stage /\ sigma' = sigma /\ mask' = mask /\ z' = z
    BY ReceiveTransferKeeps DEF tree
  <2> QED
    BY <2>1, <2>2 DEF Ports
<1>5. /\ \A q : Drawn(q)' = Drawn(q) /\ Unmasked(q)' = Unmasked(q)
      /\ \A q : TransferOf(q)' = TransferOf(q)
      /\ points' = points
  <2>1. points' = points /\ mBaseSendOts' = mBaseSendOts /\ mBaseChoice' = mBaseChoice
    BY ReceiveTransferKeeps DEF inputs
  <2>2. \A q : Unmasked(q)' = Unmasked(q)
    BY <1>4, <2>1 DEF Unmasked, KeyOf, CorrectionOf
  <2>3. \A q : Drawn(q)' = Drawn(q)
    BY <1>4, <2>1, <2>2 DEF Drawn
  <2>4. ASSUME NEW q PROVE TransferOf(q)' = TransferOf(q)
    <3>1. Drawn(q)' = Drawn(q)
      BY <2>3
    <3> QED
      BY <1>4, <2>1, <3>1 DEF TransferOf, KeyOf, CorrectionOf
  <2> QED
    BY <2>1, <2>2, <2>3, <2>4
<1>6. Masked /\ Buffered /\ Summed
  BY DEF IInv, Tree
<1>7. Masked'
  BY <1>4, <1>5, <1>6 DEF Masked
<1>8. Buffered'
  <2>1. recvBuffer'[p] = TransferOf(1 - p)
    BY <1>4, ReceiveTransferFinds
  <2> QED
    BY <1>4, <1>5, <1>6, <2>1 DEF Buffered
<1>9. Summed'
  BY <1>1, <1>4, <1>5, <1>6 DEF Summed
<1> QED
  BY <1>1, <1>2, <1>3, <1>7, <1>8, <1>9 DEF IInv, Tree

\* Triples are closed under addition.
LEMMA XorTripleType ==
    ASSUME NEW u \in Triple, NEW v \in Triple
    PROVE  XorTriple(u, v) \in Triple
<1>1. \A i \in Digit : Xor(u[i], v[i]) \in Block
  BY XorType DEF Triple
<1> QED
  BY <1>1 DEF XorTriple, Triple

\* What a party computes as its share is a triple.
LEMMA ShareType ==
    ASSUME Inputs, TypeOK, NEW p \in Party, iter[p] \in 1 .. mDepth
    PROVE  Share(p) \in Triple
<1> DEFINE n == iter[p]
           a == points[p][n]
           q == 1 - p
           e == Expand3[KeyOf(q, n, a)]
           own == XorTriple(XorTriple(e, mask[p]), z[p])
<1>1. q \in Party /\ a \in Digit
  <2>1. 0 \in Digit
    BY DEF Digit
  <2> QED
    BY <2>1, KeyType DEF Party
<1>2. Share(p) = IF a = 0 THEN own ELSE XorTriple(own, recvBuffer[p][a])
  BY KeysAgree DEF Share
<1>3. e \in Triple
  <2>1. KeyOf(q, n, a) \in Block
    BY <1>1, KeyType
  <2> HIDE DEF q, a, n
  <2> QED
    BY <2>1, DpfAssumption
<1>4. mask[p] \in Triple /\ z[p] \in Triple
  BY DEF TypeOK
<1>5. own \in Triple
  BY <1>3, <1>4, XorTripleType
<1>6. a # 0 => recvBuffer[p][a] \in Triple
  <2>1. recvBuffer[p] \in Triple \X Triple
    BY DEF TypeOK
  <2>2. recvBuffer[p][1] \in Triple /\ recvBuffer[p][2] \in Triple
    BY <2>1
  <2>3. a = 0 \/ a = 1 \/ a = 2
    BY <1>1 DEF Digit
  <2> HIDE DEF a
  <2> QED
    BY <2>2, <2>3
<1> HIDE DEF own, a
<1> QED
  BY <1>2, <1>5, <1>6, XorTripleType

\* When both coroutines are done the parties are on the same level, and the party has what
\* the peer has sent it.
LEMMA SendSigmaFinds ==
    ASSUME IInv, ~Trivial, NEW p \in Party, SendSigma(p)
    PROVE  /\ 1 - p \in Party /\ iter[p] \in 1 .. mDepth /\ iter[0] = iter[1]
           /\ iter[1 - p] = iter[p]
           /\ stage[p] = "transfer" /\ stage[1 - p] \in {"transfer", "sigma"}
           /\ strand[p].sender = "done" /\ strand[p].recver = "done"
           /\ strand[1 - p].sender = "done"
           /\ recvBuffer[p] = TransferOf(1 - p)
<1>1. stage[p] = "transfer" /\ strand[p].sender = "done" /\ strand[p].recver = "done"
  <2>1. stage[p] = "transfer" /\ BothReady(p)
    BY Zenon DEF SendSigma
  <2> QED
    BY <2>1 DEF BothReady
<1>2. p = 0 \/ p = 1
  BY DEF Party
<1>3. iter[0] = iter[1] /\ iter[p] \in 1 .. mDepth
  BY <1>1, <1>2, ControlType DEF Control, Apart, Ahead
<1>4. stage[1 - p] \in {"transfer", "sigma"} /\ strand[1 - p].sender = "done"
  BY <1>1, <1>2, <1>3, ControlType DEF Control, Apart
<1>5. recvBuffer[p] = TransferOf(1 - p)
  BY <1>1 DEF IInv, Tree, Buffered
<1> QED
  BY <1>1, <1>2, <1>3, <1>4, <1>5, ControlType

\* Beside its share, which it sends, only the party's stage changes.
LEMMA SendSigmaKeeps ==
    ASSUME IInv, ~Trivial, NEW p \in Party, SendSigma(p)
    PROVE  /\ stage' = [stage EXCEPT ![p] = "sigma"]
           /\ sigma' = [sigma EXCEPT ![p] = Share(p)]
           /\ net' = Put(net, 1 - p, 0, Append(net[1 - p][0], SigmaMsg(p)'))
           /\ UNCHANGED <<inputs, strand, tree, transferred, result>>
<1>1. /\ stage' = [stage EXCEPT ![p] = "sigma"]
      /\ UNCHANGED <<inputs, strand, tree, transferred, result>>
  BY DEF SendSigma
<1>2. sigma' = [sigma EXCEPT ![p] = Share(p)]
  BY DEF SendSigma, Share, BaseRecvOt
<1>3. net' = Put(net, 1 - p, 0, Append(net[1 - p][0], [kind |-> "sigma", what |-> Share(p)]))
  BY DEF SendSigma, Share, BaseRecvOt, Send, Put
<1>4. SigmaMsg(p)' = [kind |-> "sigma", what |-> Share(p)]
  <2>1. sigma \in [Party -> Triple]
    BY DEF IInv, TypeOK
  <2>2. sigma'[p] = Share(p)
    BY <1>2, <2>1
  <2> QED
    BY <2>2 DEF SigmaMsg
<1> QED
  BY <1>1, <1>2, <1>3, <1>4

\* A party that has its share of the word waits for the other one's.
LEMMA SendSigmaControl ==
    ASSUME IInv, ~Trivial, NEW p \in Party, SendSigma(p)
    PROVE  TypeOK' /\ Control'
<1>1. Inputs' /\ mDepth' = mDepth /\ Leaf' = Leaf
  BY SameInputs, SendSigmaKeeps DEF IInv
<1>2. TypeOK'
  <2>1. Share(p) \in Triple
    BY SendSigmaFinds, ShareType DEF IInv
  <2>2. sigma' \in [Party -> Triple]
    BY <2>1, SendSigmaKeeps DEF IInv, TypeOK
  <2>3. stage' \in [Party -> {"trivial", "transfer", "sigma", "diff", "done"}]
    BY SendSigmaKeeps DEF IInv, TypeOK
  <2>4. \A q \in Party : stage'[q] \in {"diff", "done"} => stage'[q] = stage[q]
    BY SendSigmaKeeps DEF IInv, TypeOK
  <2> QED
    BY <1>1, <2>2, <2>3, <2>4, SendSigmaKeeps DEF IInv, TypeOK, tree, transferred, result
<1>3. Control'
  <2>1. /\ strand' = strand /\ iter' = iter
        /\ stage'[0] = IF p = 0 THEN "sigma" ELSE stage[0]
        /\ stage'[1] = IF p = 1 THEN "sigma" ELSE stage[1]
    BY SendSigmaKeeps DEF IInv, TypeOK, tree, Party
  <2>2. strand[p] = Ready
    BY DEF SendSigma, BothReady, Ready
  <2>3. p = 0 \/ p = 1
    BY DEF Party
  <2> QED
    BY <1>1, <2>1, <2>2, <2>3, SendSigmaFinds, ControlType DEF Control, Apart, Ahead
<1> QED
  BY <1>2, <1>3

\* The share it sends is what its peer is now due.
LEMMA SendSigmaMail ==
    ASSUME IInv, ~Trivial, NEW p \in Party, SendSigma(p)
    PROVE  NetShape' /\ Mailed'
<1>1. /\ p \in Party /\ 1 - p \in Party /\ iter[0] = iter[1]
      /\ stage[p] = "transfer" /\ stage[1 - p] \in {"transfer", "sigma"}
      /\ strand[p].sender = "done" /\ strand[p].recver = "done"
      /\ strand[1 - p].sender = "done"
  BY SendSigmaFinds
<1>2. NetShape' /\ \A q \in Party : \A d \in 0 .. MaxDepth :
        net'[q][d] = IF q = 1 - p /\ d = 0 THEN Append(net[1 - p][0], SigmaMsg(p)')
                                           ELSE net[q][d]
  <2> DEFINE v == Append(net[1 - p][0], SigmaMsg(p)')
  <2>1. net' = Put(net, 1 - p, 0, v)
    BY SendSigmaKeeps
  <2>2. NetShape /\ 0 \in 0 .. MaxDepth
    BY ControlType
  <2> HIDE DEF v
  <2>3. NetShape' /\ \A q \in Party : \A d \in 0 .. MaxDepth :
          net'[q][d] = IF q = 1 - p /\ d = 0 THEN v ELSE net[q][d]
    BY <1>1, <2>1, <2>2, QueueChange
  <2> QED
    BY <2>3 DEF v
<1>3. /\ CorrectionMsg(0)' = CorrectionMsg(0) /\ CorrectionMsg(1)' = CorrectionMsg(1)
      /\ TransferMsg(0)' = TransferMsg(0) /\ TransferMsg(1)' = TransferMsg(1)
      /\ DiffMsg(0)' = DiffMsg(0) /\ DiffMsg(1)' = DiffMsg(1)
  BY SendSigmaKeeps
     DEF tree, transferred, result, inputs, CorrectionMsg, CorrectionOf,
         TransferMsg, TransferOf, KeyOf, Drawn, Unmasked, DiffMsg, DiffOf
<1>4. SigmaMsg(1 - p)' = SigmaMsg(1 - p)
  <2>1. sigma'[1 - p] = sigma[1 - p]
    <3>1. p # 1 - p
      BY DEF Party
    <3> QED
      BY <1>1, <3>1, SendSigmaKeeps DEF IInv, TypeOK
  <2> QED
    BY <2>1 DEF SigmaMsg
<1>5. /\ strand' = strand /\ iter' = iter
      /\ stage'[0] = IF p = 0 THEN "sigma" ELSE stage[0]
      /\ stage'[1] = IF p = 1 THEN "sigma" ELSE stage[1]
  BY SendSigmaKeeps DEF IInv, TypeOK, tree, Party
<1>6. CASE p = 0
  <2>1. /\ net'[0][0] = net[0][0] /\ net'[1][0] = Append(net[1][0], SigmaMsg(0)')
        /\ \A n \in 1 .. MaxDepth : net'[0][n] = net[0][n] /\ net'[1][n] = net[1][n]
    <3>1. 1 - p = 1
      BY <1>6
    <3> QED
      BY <1>2, <1>6, <3>1, ControlType
  <2>2. SigmaMsg(1)' = SigmaMsg(1)
    BY <1>4, <1>6
  <2>3. SocketMail0' = SocketMail0
    BY <1>1, <1>3, <1>5, <1>6, <2>2 DEF SocketMail0, CorrectionDue, SigmaDue, DiffDue
  <2>4. TransferDue(1, 0)' = TransferDue(1, 0)
    BY <1>5 DEF TransferDue
  <2>5. /\ SocketMail1 = IF TransferDue(1, 0) THEN <<TransferMsg(0)>> ELSE <<>>
        /\ SocketMail1' = IF TransferDue(1, 0) THEN <<TransferMsg(0), SigmaMsg(0)'>>
                                               ELSE <<SigmaMsg(0)'>>
    <3>1. stage[0] = "transfer" /\ stage[1] \in {"transfer", "sigma"}
      BY <1>1, <1>6
    <3>2. /\ ~SigmaDue(1, 0) /\ SigmaDue(1, 0)' /\ ~DiffDue(1, 0) /\ ~DiffDue(1, 0)'
      BY <1>1, <1>5, <1>6, <3>1, ControlType DEF SigmaDue, DiffDue
    <3> QED
      BY <1>3, <2>4, <3>2 DEF SocketMail1
  <2>6. net'[1][0] = SocketMail1'
    <3>1. net[1][0] = SocketMail1
      BY ControlType DEF Mailed
    <3>2. /\ Append(<<>>, SigmaMsg(0)') = <<SigmaMsg(0)'>>
          /\ Append(<<TransferMsg(0)>>, SigmaMsg(0)') = <<TransferMsg(0), SigmaMsg(0)'>>
      BY FirstInQueue, SecondInQueue
    <3> QED
      BY <2>1, <2>5, <3>1, <3>2
  <2>7. \A n : ForkMail0(n)' = ForkMail0(n)
    BY <1>3, <1>5 DEF ForkMail0, TransferDue
  <2>8. \A n : ForkMail1(n)' = ForkMail1(n)
    BY <1>3, <1>5 DEF ForkMail1, CorrectionDue
  <2>9. net'[0][0] = SocketMail0'
    BY <2>1, <2>3, ControlType DEF Mailed
  <2>10. ASSUME NEW n \in 1 .. MaxDepth
         PROVE  net'[0][n] = ForkMail0(n)' /\ net'[1][n] = ForkMail1(n)'
    BY <2>1, <2>7, <2>8, ControlType DEF Mailed
  <2> QED
    BY <1>2, <2>6, <2>9, <2>10 DEF Mailed
<1>7. CASE p = 1
  <2>1. /\ net'[1][0] = net[1][0] /\ net'[0][0] = Append(net[0][0], SigmaMsg(1)')
        /\ \A n \in 1 .. MaxDepth : net'[0][n] = net[0][n] /\ net'[1][n] = net[1][n]
    <3>1. 1 - p = 0
      BY <1>7
    <3> QED
      BY <1>2, <1>7, <3>1, ControlType
  <2>2. SigmaMsg(0)' = SigmaMsg(0)
    BY <1>4, <1>7
  <2>3. SocketMail1' = SocketMail1
    BY <1>1, <1>3, <1>5, <1>7, <2>2 DEF SocketMail1, TransferDue, SigmaDue, DiffDue
  <2>4. SocketMail0 = <<>> /\ SocketMail0' = <<SigmaMsg(1)'>>
    BY <1>1, <1>3, <1>5, <1>7, ControlType DEF SocketMail0, CorrectionDue, SigmaDue, DiffDue
  <2>5. net'[0][0] = SocketMail0'
    <3>1. net[0][0] = <<>>
      BY <2>4, ControlType DEF Mailed
    <3> QED
      BY <2>1, <2>4, <3>1, FirstInQueue
  <2>6. \A n : ForkMail0(n)' = ForkMail0(n)
    BY <1>3, <1>5 DEF ForkMail0, TransferDue
  <2>7. \A n : ForkMail1(n)' = ForkMail1(n)
    BY <1>3, <1>5 DEF ForkMail1, CorrectionDue
  <2>8. net'[1][0] = SocketMail1'
    BY <2>1, <2>3, ControlType DEF Mailed
  <2>9. ASSUME NEW n \in 1 .. MaxDepth
        PROVE  net'[0][n] = ForkMail0(n)' /\ net'[1][n] = ForkMail1(n)'
    BY <2>1, <2>6, <2>7, ControlType DEF Mailed
  <2> QED
    BY <1>2, <2>5, <2>8, <2>9 DEF Mailed
<1> QED
  BY <1>6, <1>7 DEF Party

\* The share is what Summed says of it.
LEMMA SendSigmaStep ==
    ASSUME IInv, ~Trivial, NEW p \in Party, SendSigma(p)
    PROVE  IInv'
<1>1. /\ Inputs' /\ Trivial' = Trivial /\ mDepth' = mDepth /\ Point' = Point
      /\ \A n : Prefix(n)' = Prefix(n)
  BY SameInputs, SendSigmaKeeps DEF IInv
<1>2. TypeOK' /\ Control' /\ NetShape' /\ Mailed'
  BY SendSigmaControl, SendSigmaMail
<1>3. /\ 1 - p \in Party /\ iter[p] \in 1 .. mDepth /\ iter[0] = iter[1] /\ iter[1 - p] = iter[p]
      /\ stage[p] = "transfer" /\ stage[1 - p] \in {"transfer", "sigma"}
      /\ strand[1 - p].sender = "done" /\ recvBuffer[p] = TransferOf(1 - p)
  BY SendSigmaFinds
<1>4. /\ iter' = iter /\ strand' = strand /\ mask' = mask /\ z' = z /\ recvBuffer' = recvBuffer
      /\ parentTags' = parentTags /\ seeds' = seeds
  BY SendSigmaKeeps DEF tree, transferred
<1>5. /\ stage'[p] = "sigma" /\ sigma'[p] = Share(p)
      /\ \A q \in Party \ {p} : stage'[q] = stage[q] /\ sigma'[q] = sigma[q]
  BY SendSigmaKeeps DEF IInv, TypeOK
<1>6. \A q \in Party : q = p \/ q = 1 - p
  BY DEF Party
<1>7. /\ \A q : Drawn(q)' = Drawn(q) /\ Unmasked(q)' = Unmasked(q)
      /\ \A q : TransferOf(q)' = TransferOf(q)
      /\ points' = points
  <2>1. points' = points /\ mBaseSendOts' = mBaseSendOts /\ mBaseChoice' = mBaseChoice
    BY SendSigmaKeeps DEF inputs
  <2>2. \A q : Unmasked(q)' = Unmasked(q)
    BY <1>4, <2>1 DEF Unmasked, KeyOf, CorrectionOf
  <2>3. \A q : Drawn(q)' = Drawn(q)
    BY <1>4, <2>1, <2>2 DEF Drawn
  <2>4. ASSUME NEW q PROVE TransferOf(q)' = TransferOf(q)
    <3>1. Drawn(q)' = Drawn(q)
      BY <2>3
    <3> QED
      BY <1>4, <2>1, <3>1 DEF TransferOf, KeyOf, CorrectionOf
  <2> QED
    BY <2>1, <2>2, <2>3, <2>4
<1>8. Masked /\ Buffered /\ Summed /\ Levels
  BY DEF IInv, Tree
<1>9. Masked'
  BY <1>4, <1>7, <1>8 DEF Masked
<1>10. Buffered'
  <2>1. \A q \in Party : stage'[q] = "transfer" => stage[q] = "transfer"
    BY <1>5
  <2> QED
    BY <1>4, <1>7, <1>8, <2>1 DEF Buffered
<1>11. Summed'
  <2>1. ASSUME NEW i \in Digit
        PROVE  sigma'[p][i] = Xor(Xor(mask[0][i], mask[1][i]),
                                  Xor(z[p][i], IF i = Point[iter[p]] THEN Drawn(1 - p) ELSE Zero))
    <3>1. Share(p)[i] = Xor(Xor(mask[p][i], mask[1 - p][i]),
                            Xor(z[p][i], IF i = Point[iter[p]] THEN Drawn(1 - p) ELSE Zero))
      BY <1>3, <1>8, ShareSums DEF IInv
    <3>2. Xor(mask[p][i], mask[1 - p][i]) = Xor(mask[0][i], mask[1][i])
      BY XorComm DEF Party
    <3> QED
      BY <1>5, <3>1, <3>2
  <2>2. ASSUME NEW q \in Party, q # p, stage'[q] = "sigma", NEW i \in Digit
        PROVE  sigma'[q][i] = Xor(Xor(mask[0][i], mask[1][i]),
                                  Xor(z[q][i], IF i = Point[iter[q]] THEN Drawn(1 - q) ELSE Zero))
    <3>1. stage[q] = "sigma" /\ sigma'[q] = sigma[q]
      BY <1>5, <2>2
    <3> QED
      BY <1>3, <1>8, <3>1 DEF Summed
  <2> QED
    BY <1>1, <1>4, <1>7, <2>1, <2>2 DEF Summed
<1>12. Expanding /\ Expanding'
  BY <1>3, <1>5, <1>6 DEF Expanding
<1>13. Levels'
  <2>1. ~Behind(0) /\ ~Behind(1) /\ ~Behind(0)' /\ ~Behind(1)'
    <3>1. iter[0] \in Int /\ iter[1] \in Int
      BY ControlType
    <3> QED
      BY <1>3, <1>4, <3>1 DEF Behind
  <2>2. OnPath(iter[0], parentTags[0], parentTags[1], seeds[0], seeds[1], z[0], z[1])
    BY <1>8, <1>12, <2>1 DEF Levels, LevelTags, LevelSeeds, LevelSums, Level
  <2>3. OnPath(iter[0], parentTags[0], parentTags[1], seeds[0], seeds[1], z[0], z[1])'
    BY <1>1, <1>4, <2>2 DEF OnPath
  <2> QED
    BY <2>1, <2>3 DEF Levels, LevelTags, LevelSeeds, LevelSums, Level
<1>14. LeavesOnPath'
  BY <1>12 DEF LeavesOnPath
<1>15. Outputs' /\ Families'
  <2>1. Families'
    BY <1>4, SendSigmaKeeps DEF IInv, Families, result
  <2> QED
    BY <1>12, <2>1 DEF Outputs, Expanding
<1> QED
  BY <1>1, <1>2, <1>9, <1>10, <1>11, <1>13, <1>14, <1>15 DEF IInv, Tree

\* A party that waits for the other share finds it on the socket.
LEMMA ShareArrives ==
    ASSUME IInv, ~Trivial, NEW p \in Party, stage[p] = "sigma", Arrived(p, 0)
    PROVE  /\ \/ iter[0] = iter[1] /\ stage[1 - p] # "transfer"
              \/ Ahead(1 - p, p)
           /\ Received(p, 0) = sigma[1 - p] /\ Head(net[p][0]).kind = "sigma"
           /\ p = 0 /\ CorrectionDue(0, 1) => Tail(net[0][0]) = <<CorrectionMsg(1)>>
           /\ p = 0 /\ ~CorrectionDue(0, 1) /\ DiffDue(0, 1) => Tail(net[0][0]) = <<DiffMsg(1)>>
           /\ p = 0 /\ ~CorrectionDue(0, 1) /\ ~DiffDue(0, 1) => Tail(net[0][0]) = <<>>
           /\ p = 1 /\ DiffDue(1, 0) => Tail(net[1][0]) = <<DiffMsg(0)>>
           /\ p = 1 /\ ~DiffDue(1, 0) => Tail(net[1][0]) = <<>>
<1>1. net[p][0] # <<>>
  BY DEF Arrived
<1>2. CASE p = 0
  <2>1. net[0][0] = SocketMail0 /\ SocketMail0 # <<>>
    BY <1>1, <1>2, ControlType DEF Mailed
  <2>2. SigmaDue(0, 1)
    BY <1>2, <2>1, ControlType DEF SocketMail0, CorrectionDue, SigmaDue, DiffDue, Control, Apart, Ahead
  <2>3. net[0][0] = IF CorrectionDue(0, 1) THEN <<SigmaMsg(1), CorrectionMsg(1)>>
                    ELSE IF DiffDue(0, 1) THEN <<SigmaMsg(1), DiffMsg(1)>> ELSE <<SigmaMsg(1)>>
    BY <2>1, <2>2 DEF SocketMail0
  <2>4. /\ Head(<<SigmaMsg(1), CorrectionMsg(1)>>) = SigmaMsg(1)
        /\ Head(<<SigmaMsg(1), DiffMsg(1)>>) = SigmaMsg(1)
        /\ Head(<<SigmaMsg(1)>>) = SigmaMsg(1)
        /\ Tail(<<SigmaMsg(1), CorrectionMsg(1)>>) = <<CorrectionMsg(1)>>
        /\ Tail(<<SigmaMsg(1), DiffMsg(1)>>) = <<DiffMsg(1)>>
        /\ Tail(<<SigmaMsg(1)>>) = <<>>
    BY TakeFromQueue
  <2>5. Head(net[0][0]) = SigmaMsg(1)
    BY <2>3, <2>4
  <2>6. Received(p, 0) = sigma[1] /\ Head(net[p][0]).kind = "sigma"
    BY <1>2, <2>5 DEF Received, SigmaMsg
  <2>7. \/ iter[0] = iter[1] /\ stage[1] # "transfer"
        \/ Ahead(1, 0)
    BY <1>2, <2>2, ControlType DEF SigmaDue, Control, Apart, Ahead
  <2>8. /\ CorrectionDue(0, 1) => Tail(net[0][0]) = <<CorrectionMsg(1)>>
        /\ ~CorrectionDue(0, 1) /\ DiffDue(0, 1) => Tail(net[0][0]) = <<DiffMsg(1)>>
        /\ ~CorrectionDue(0, 1) /\ ~DiffDue(0, 1) => Tail(net[0][0]) = <<>>
    BY <2>3, <2>4
  <2> QED
    BY <1>2, <2>6, <2>7, <2>8
<1>3. CASE p = 1
  <2>1. net[1][0] = SocketMail1 /\ SocketMail1 # <<>>
    BY <1>1, <1>3, ControlType DEF Mailed
  <2>2. SigmaDue(1, 0) /\ ~TransferDue(1, 0)
    BY <1>3, <2>1, ControlType DEF SocketMail1, TransferDue, SigmaDue, DiffDue, Control, Apart, Ahead
  <2>3. net[1][0] = IF DiffDue(1, 0) THEN <<SigmaMsg(0), DiffMsg(0)>> ELSE <<SigmaMsg(0)>>
    BY <2>1, <2>2 DEF SocketMail1
  <2>4. /\ Head(<<SigmaMsg(0), DiffMsg(0)>>) = SigmaMsg(0)
        /\ Head(<<SigmaMsg(0)>>) = SigmaMsg(0)
        /\ Tail(<<SigmaMsg(0), DiffMsg(0)>>) = <<DiffMsg(0)>>
        /\ Tail(<<SigmaMsg(0)>>) = <<>>
    BY TakeFromQueue
  <2>5. Head(net[1][0]) = SigmaMsg(0)
    BY <2>3, <2>4
  <2>6. Received(p, 0) = sigma[0] /\ Head(net[p][0]).kind = "sigma"
    BY <1>3, <2>5 DEF Received, SigmaMsg
  <2>7. \/ iter[0] = iter[1] /\ stage[0] # "transfer"
        \/ Ahead(0, 1)
    BY <1>3, <2>2, ControlType DEF SigmaDue, Control, Apart, Ahead
  <2>8. /\ DiffDue(1, 0) => Tail(net[1][0]) = <<DiffMsg(0)>>
        /\ ~DiffDue(1, 0) => Tail(net[1][0]) = <<>>
    BY <2>3, <2>4
  <2> QED
    BY <1>3, <2>6, <2>7, <2>8
<1> QED
  BY <1>2, <1>3 DEF Party

\* With the other share a party corrects its level as the invariant says.
LEMMA CorrectedIsFixed ==
    ASSUME NEW p \in Party, Received(p, 0) = sigma[1 - p]
    PROVE  Corrected(p) = Fixed(p)
<1>1. XorTriple(sigma[p], sigma[1 - p]) = SharedWord
  <2>1. \A i \in Digit : Xor(sigma[1][i], sigma[0][i]) = Xor(sigma[0][i], sigma[1][i])
    BY XorComm
  <2>2. XorTriple(sigma[1], sigma[0]) = XorTriple(sigma[0], sigma[1])
    BY <2>1 DEF XorTriple
  <2> QED
    BY <2>2 DEF SharedWord, Party
<1>2. XorTriple(sigma[p], Received(p, 0)) = SharedWord
  BY <1>1
<1> QED
  BY <1>2 DEF Corrected, Fixed

\* Its nodes hold blocks then.
LEMMA FixedType ==
    ASSUME IInv, ~Trivial, NEW p \in Party
    PROVE  Fixed(p) \in [Node(iter[p]) -> Block]
<1>1. seeds[p] \in [Node(iter[p]) -> Block]
  BY DEF IInv, TypeOK
<1>2. SharedWord \in Triple
  <2>1. sigma[0] \in Triple /\ sigma[1] \in Triple
    BY DEF IInv, TypeOK, Party
  <2> QED
    BY <2>1, XorTripleType DEF SharedWord
<1>3. iter[p] \in Nat \ {0}
  BY DpfAssumption DEF IInv, TypeOK
<1>4. ASSUME NEW x \in Node(iter[p])
      PROVE  seeds[p][x] \in Block /\ Xor(seeds[p][x], SharedWord[x[iter[p]]]) \in Block
  <2>1. x[iter[p]] \in Digit
    BY <1>3, ParentType
  <2>2. seeds[p][x] \in Block /\ SharedWord[x[iter[p]]] \in Block
    BY <1>1, <1>2, <2>1 DEF Triple
  <2> QED
    BY <2>2, XorType
<1> QED
  BY <1>4 DEF Fixed

\* When both wait for the other share, what they will make of the level is on the path.
LEMMA LevelIsFixed ==
    ASSUME IInv, ~Trivial, stage[0] = "sigma", stage[1] = "sigma", iter[0] = iter[1]
    PROVE  FixedOnPath(iter[0], Fixed(0), Fixed(1))
<1> DEFINE n == iter[0]
           r == Xor(Drawn(0), Drawn(1))
<1>1. Inputs /\ n \in 1 .. mDepth /\ 0 \in Party /\ 1 \in Party
  BY ControlType DEF IInv, Control, Apart
<1>2. parentTags[0] \in [Node(n - 1) -> BOOLEAN] /\ parentTags[1] \in [Node(n - 1) -> BOOLEAN]
  BY <1>1 DEF IInv, TypeOK
<1>3. OnPath(n, parentTags[0], parentTags[1], seeds[0], seeds[1], z[0], z[1])
  <2>1. Levels /\ Expanding
    BY DEF IInv, Tree, Expanding, Party
  <2>2. ~Behind(0) /\ ~Behind(1)
    <3>1. iter[0] \in Int /\ iter[1] \in Int
      BY ControlType
    <3> QED
      BY <3>1 DEF Behind
  <2> QED
    BY <2>1, <2>2 DEF Levels, LevelTags, LevelSeeds, LevelSums, Level
<1>4. lsb(r)
  <2>1. strand[0].sender = "done" /\ strand[1].sender = "done"
    BY ControlType
  <2>2. ~lsb(Drawn(0)) /\ lsb(Drawn(1))
    BY <1>1, <2>1 DEF IInv, Tree, Masked
  <2> QED
    BY <2>2 DEF lsb, Xor
<1>5. \A i \in Digit : SharedWord[i] = Xor(Xor(z[0][i], z[1][i]), IF i = Point[n] THEN r ELSE Zero)
  <2>1. Summed
    BY DEF IInv, Tree
  <2> QED
    BY <2>1, WordSums
<1> HIDE DEF r
<1>6. FixedOnPath(n, FixedBy(n, parentTags[0], seeds[0], SharedWord),
                     FixedBy(n, parentTags[1], seeds[1], SharedWord))
  BY <1>1, <1>2, <1>3, <1>4, <1>5, CorrectionStaysOnPath
<1>7. /\ Fixed(0) = FixedBy(n, parentTags[0], seeds[0], SharedWord)
      /\ Fixed(1) = FixedBy(n, parentTags[1], seeds[1], SharedWord)
  BY DEF Fixed, FixedBy
<1> QED
  BY <1>6, <1>7

\* What a party makes of its level is what the invariant says, whichever comes first.
LEMMA ExpandLevelKeeps ==
    ASSUME IInv, ~Trivial, NEW p \in Party, ExpandLevel(p)
    PROVE  /\ stage[p] = "sigma" /\ Arrived(p, 0) /\ iter[p] < mDepth
           /\ parentTags' = [parentTags EXCEPT ![p] = TagsFrom(iter[p], Fixed(p))]
           /\ seeds' = [seeds EXCEPT ![p] = SeedsFrom(iter[p], Fixed(p))]
           /\ z' = [z EXCEPT ![p] = SumsFrom(iter[p], Fixed(p))]
           /\ net' = Put(net, p, 0, Tail(net[p][0]))
           /\ iter' = [iter EXCEPT ![p] = iter[p] + 1]
           /\ stage' = [stage EXCEPT ![p] = "transfer"]
           /\ strand' = [strand EXCEPT ![p] = [sender |-> "recv", recver |-> "send"]]
           /\ UNCHANGED <<inputs, transferred, sigma, result>>
<1>1. stage[p] = "sigma" /\ Arrived(p, 0) /\ iter[p] < mDepth
  BY Zenon DEF ExpandLevel
<1>2. Corrected(p) = Fixed(p)
  BY <1>1, ShareArrives, CorrectedIsFixed
<1>3. /\ parentTags' = [parentTags EXCEPT ![p] = TagsFrom(iter[p], Corrected(p))]
      /\ seeds' = [seeds EXCEPT ![p] = SeedsFrom(iter[p], Corrected(p))]
      /\ z' = [z EXCEPT ![p] = SumsFrom(iter[p], Corrected(p))]
  BY DEF ExpandLevel, TagsOf, TagsFrom, SeedsFrom, SumsFrom
<1>4. /\ net' = Put(net, p, 0, Tail(net[p][0]))
      /\ iter' = [iter EXCEPT ![p] = iter[p] + 1]
      /\ stage' = [stage EXCEPT ![p] = "transfer"]
      /\ strand' = [strand EXCEPT ![p] = [sender |-> "recv", recver |-> "send"]]
      /\ UNCHANGED <<inputs, transferred, sigma, result>>
  BY DEF ExpandLevel, Consume, Put
<1> QED
  BY <1>1, <1>2, <1>3, <1>4

\* The party is then a level ahead of the other one, or has caught up with it.
LEMMA ExpandLevelSides ==
    ASSUME IInv, ~Trivial, NEW p \in Party, ExpandLevel(p)
    PROVE  /\ \/ iter[0] = iter[1] /\ stage[1 - p] = "sigma"
              \/ Ahead(1 - p, p)
           /\ 1 - p \in Party /\ iter[p] \in 1 .. mDepth - 1
           /\ iter'[p] = iter[p] + 1 /\ iter'[1 - p] = iter[1 - p]
           /\ stage'[p] = "transfer" /\ stage'[1 - p] = stage[1 - p]
           /\ strand'[p].sender = "recv" /\ strand'[p].recver = "send"
           /\ strand'[1 - p] = strand[1 - p]
           /\ parentTags'[p] = TagsFrom(iter[p], Fixed(p)) /\ parentTags'[1 - p] = parentTags[1 - p]
           /\ seeds'[p] = SeedsFrom(iter[p], Fixed(p)) /\ seeds'[1 - p] = seeds[1 - p]
           /\ z'[p] = SumsFrom(iter[p], Fixed(p)) /\ z'[1 - p] = z[1 - p]
<1>1. stage[p] = "sigma" /\ Arrived(p, 0) /\ iter[p] < mDepth
  BY ExpandLevelKeeps
<1>2. 1 - p \in Party /\ 1 - p # p /\ (p = 0 \/ p = 1)
  BY DEF Party
<1>3. iter[p] \in 1 .. MaxDepth /\ mDepth \in 1 .. MaxDepth
  BY <1>2, ControlType
<1>4. \/ iter[0] = iter[1] /\ stage[1 - p] = "sigma"
      \/ Ahead(1 - p, p)
  <2>1. \/ iter[0] = iter[1] /\ stage[1 - p] # "transfer"
        \/ Ahead(1 - p, p)
    BY <1>1, ShareArrives
  <2>2. ASSUME iter[0] = iter[1] PROVE stage[1 - p] \notin {"diff", "done"}
    <3>1. iter[1 - p] = iter[p]
      BY <1>2, <2>2
    <3>2. iter[1 - p] # mDepth
      BY <1>1, <1>3, <3>1
    <3> QED
      BY <1>2, <3>2, ControlType DEF Control, Apart
  <2>3. stage[1 - p] \in {"transfer", "sigma", "diff", "done"}
    BY <1>2, ControlType
  <2> QED
    BY <2>1, <2>2, <2>3
<1>5. /\ iter \in [Party -> 1 .. MaxDepth] /\ strand \in [Party -> Ports]
      /\ DOMAIN stage = Party
  BY DEF IInv, TypeOK
<1>6. DOMAIN parentTags = Party /\ DOMAIN seeds = Party /\ DOMAIN z = Party
  BY DEF IInv, Families, TypeOK
<1> QED
  BY <1>1, <1>2, <1>3, <1>4, <1>5, <1>6, ExpandLevelKeeps

\* Neither party is more than a level ahead.
LEMMA ExpandLevelControl ==
    ASSUME IInv, ~Trivial, NEW p \in Party, ExpandLevel(p)
    PROVE  TypeOK' /\ Control' /\ Families'
<1> DEFINE n == iter[p]
           f == Fixed(p)
<1>1. Inputs' /\ mDepth' = mDepth /\ Leaf' = Leaf
  BY SameInputs, ExpandLevelKeeps DEF IInv
<1>2. n \in 1 .. mDepth - 1 /\ mDepth \in 1 .. MaxDepth
  BY ExpandLevelSides, ControlType
<1>3. f \in [Node(n) -> Block]
  BY FixedType
<1> HIDE DEF f
<1>4. TagsFrom(n, f) \in [Node(n) -> BOOLEAN]
  BY DEF TagsFrom, lsb
<1>5. SeedsFrom(n, f) \in [Node(n + 1) -> Block]
  <2>1. ASSUME NEW y \in Node(n + 1) PROVE Hash[y[n + 1]][f[Parent(y, n + 1)]] \in Block
    <3>1. Parent(y, n + 1) \in Node(n) /\ y[n + 1] \in Digit
      <4> DEFINE m == n + 1
      <4>1. m \in Nat \ {0} /\ m - 1 = n
        BY <1>2
      <4>2. y \in Node(m)
        OBVIOUS
      <4> HIDE DEF n, m
      <4>3. Parent(y, m) \in Node(m - 1) /\ y[m] \in Digit
        BY <4>1, <4>2, ParentType
      <4> QED
        BY <4>1, <4>3 DEF m
    <3> QED
      BY <1>3, <3>1, DpfAssumption
  <2> QED
    BY <2>1 DEF SeedsFrom
<1>6. SumsFrom(n, f) \in Triple
  BY XorAllType DEF SumsFrom, Triple
<1>7. TypeOK'
  <2>1. iter' \in [Party -> 1 .. MaxDepth]
    <3>1. n + 1 \in 1 .. MaxDepth
      BY <1>2, DpfAssumption
    <3> QED
      BY <3>1, ExpandLevelKeeps DEF IInv, TypeOK
  <2>2. stage' \in [Party -> {"trivial", "transfer", "sigma", "diff", "done"}]
    BY ExpandLevelKeeps DEF IInv, TypeOK
  <2>3. strand' \in [Party -> Ports]
    <3>1. /\ strand' = [strand EXCEPT ![p] = [sender |-> "recv", recver |-> "send"]]
          /\ strand \in [Party -> Ports]
      BY ExpandLevelKeeps DEF IInv, TypeOK
    <3> QED
      BY <3>1 DEF Ports
  <2>4. z' \in [Party -> Triple]
    <3>1. z' = [z EXCEPT ![p] = SumsFrom(n, f)]
      BY ExpandLevelKeeps DEF f
    <3>2. z \in [Party -> Triple]
      BY DEF IInv, TypeOK
    <3> QED
      BY <1>6, <3>1, <3>2
  <2>5. mask' \in [Party -> Triple] /\ sigma' \in [Party -> Triple]
        /\ recvBuffer' \in [Party -> Triple \X Triple]
    BY ExpandLevelKeeps DEF IInv, TypeOK, transferred
  <2>6. /\ parentTags'[p] \in [Node(iter'[p] - 1) -> BOOLEAN]
        /\ seeds'[p] \in [Node(iter'[p]) -> Block]
    <3>1. iter'[p] = n + 1 /\ iter'[p] - 1 = n
      BY <1>2, ExpandLevelSides
    <3>2. parentTags'[p] = TagsFrom(n, f) /\ seeds'[p] = SeedsFrom(n, f)
      BY ExpandLevelSides DEF f
    <3> QED
      BY <1>4, <1>5, <3>1, <3>2
  <2>7. /\ parentTags'[1 - p] \in [Node(iter'[1 - p] - 1) -> BOOLEAN]
        /\ seeds'[1 - p] \in [Node(iter'[1 - p]) -> Block]
    BY ExpandLevelSides DEF IInv, TypeOK
  <2>8. \A q \in Party : q = p \/ q = 1 - p
    BY DEF Party
  <2>9. ASSUME NEW q \in Party
        PROVE  /\ stage'[q] \in {"diff", "done"} /\ mDepth' > 0 => leaves'[q] \in [Leaf' -> Block]
               /\ stage'[q] \in {"diff", "done"} => tags'[q] \in [Leaf' -> BOOLEAN]
               /\ stage'[q] = "done" => output'[q] \in [Leaf' -> Block]
    <3>1. stage'[q] \notin {"diff", "done"}
      BY <2>8, ExpandLevelSides DEF Ahead
    <3> QED
      BY <3>1
  <2>10. ASSUME NEW q \in Party
         PROVE  /\ parentTags'[q] \in [Node(iter'[q] - 1) -> BOOLEAN]
                /\ seeds'[q] \in [Node(iter'[q]) -> Block]
    BY <2>6, <2>7, <2>8
  <2> QED
    BY <2>1, <2>2, <2>3, <2>4, <2>5, <2>9, <2>10 DEF TypeOK
<1>8. Control'
  <2>1. p = 0 \/ p = 1
    BY DEF Party
  <2>2. CASE p = 0
    BY <1>1, <1>2, <2>2, ExpandLevelKeeps, ExpandLevelSides, ControlType
       DEF Control, Apart, Ahead, Ready
  <2>3. CASE p = 1
    BY <1>1, <1>2, <2>3, ExpandLevelKeeps, ExpandLevelSides, ControlType
       DEF Control, Apart, Ahead, Ready
  <2> QED
    BY <2>1, <2>2, <2>3
<1>9. Families'
  BY ExpandLevelKeeps DEF IInv, Families, result
<1> QED
  BY <1>7, <1>8, <1>9

\* It has taken the other share; what else is on its way stays.
LEMMA ExpandLevelMail ==
    ASSUME IInv, ~Trivial, NEW p \in Party, ExpandLevel(p)
    PROVE  NetShape' /\ Mailed'
<1>1. stage[p] = "sigma" /\ Arrived(p, 0)
  BY ExpandLevelKeeps
<1>2. NetShape' /\ \A q \in Party : \A d \in 0 .. MaxDepth :
        net'[q][d] = IF q = p /\ d = 0 THEN Tail(net[p][0]) ELSE net[q][d]
  <2>1. net' = Put(net, p, 0, Tail(net[p][0]))
    BY ExpandLevelKeeps
  <2>2. NetShape /\ 0 \in 0 .. MaxDepth
    BY ControlType
  <2> QED
    BY <2>1, <2>2, QueueChange
<1>3. /\ iter'[1 - p] = iter[1 - p] => CorrectionMsg(1 - p)' = CorrectionMsg(1 - p)
      /\ SigmaMsg(0)' = SigmaMsg(0) /\ SigmaMsg(1)' = SigmaMsg(1)
  BY ExpandLevelKeeps DEF result, inputs, CorrectionMsg, CorrectionOf, SigmaMsg
<1>4. CASE p = 0
  <2>1. /\ net'[0][0] = Tail(net[0][0]) /\ net'[1][0] = net[1][0]
        /\ \A n \in 1 .. MaxDepth : net'[0][n] = net[0][n] /\ net'[1][n] = net[1][n]
    BY <1>2, <1>4, ControlType
  <2>2. /\ \/ iter[0] = iter[1] /\ stage[1] = "sigma"
           \/ Ahead(1, 0)
        /\ iter'[0] = iter[0] + 1 /\ iter'[1] = iter[1]
        /\ stage[0] = "sigma" /\ stage'[0] = "transfer" /\ stage'[1] = stage[1]
        /\ strand'[0].sender = "recv" /\ strand'[0].recver = "send" /\ strand'[1] = strand[1]
    BY <1>1, <1>4, ExpandLevelSides
  <2>3. CorrectionMsg(1)' = CorrectionMsg(1)
    BY <1>3, <1>4, <2>2
  <2>4. CorrectionDue(0, 1)' = CorrectionDue(0, 1)
    BY <2>2, ControlType DEF CorrectionDue, Ahead
  <2>5. ~DiffDue(0, 1) /\ ~DiffDue(0, 1)' /\ ~SigmaDue(0, 1)'
    BY <2>2, ControlType DEF DiffDue, SigmaDue, Ahead
  <2>6. SocketMail0' = IF CorrectionDue(0, 1) THEN <<CorrectionMsg(1)>> ELSE <<>>
    BY <2>3, <2>4, <2>5 DEF SocketMail0
  <2>7. net'[0][0] = SocketMail0'
    <3>1. Tail(net[0][0]) = IF CorrectionDue(0, 1) THEN <<CorrectionMsg(1)>> ELSE <<>>
      BY <1>1, <1>4, <2>5, ShareArrives
    <3> QED
      BY <2>1, <2>6, <3>1
  <2>8. /\ ~TransferDue(1, 0) /\ ~TransferDue(1, 0)' /\ ~DiffDue(1, 0) /\ ~DiffDue(1, 0)'
        /\ SigmaDue(1, 0)' = SigmaDue(1, 0)
    BY <2>2, ControlType DEF TransferDue, DiffDue, SigmaDue, Ahead
  <2>9. SocketMail1' = SocketMail1
    BY <1>3, <2>8 DEF SocketMail1
  <2>10. ~TransferDue(0, 1) /\ ~TransferDue(0, 1)' /\ ~CorrectionDue(1, 0) /\ ~CorrectionDue(1, 0)'
    BY <2>2, ControlType DEF TransferDue, CorrectionDue, Ahead
  <2>11. \A n : /\ ForkMail0(n)' = <<>> /\ ForkMail0(n) = <<>>
                /\ ForkMail1(n)' = <<>> /\ ForkMail1(n) = <<>>
    BY <2>10 DEF ForkMail0, ForkMail1
  <2>12. net'[1][0] = SocketMail1'
    BY <2>1, <2>9, ControlType DEF Mailed
  <2>13. ASSUME NEW n \in 1 .. MaxDepth
         PROVE  net'[0][n] = ForkMail0(n)' /\ net'[1][n] = ForkMail1(n)'
    BY <2>1, <2>11, ControlType DEF Mailed
  <2> QED
    BY <1>2, <2>7, <2>12, <2>13 DEF Mailed
<1>5. CASE p = 1
  <2>1. /\ net'[1][0] = Tail(net[1][0]) /\ net'[0][0] = net[0][0]
        /\ \A n \in 1 .. MaxDepth : net'[0][n] = net[0][n] /\ net'[1][n] = net[1][n]
    BY <1>2, <1>5, ControlType
  <2>2. /\ \/ iter[0] = iter[1] /\ stage[0] = "sigma"
           \/ Ahead(0, 1)
        /\ iter'[1] = iter[1] + 1 /\ iter'[0] = iter[0]
        /\ stage[1] = "sigma" /\ stage'[1] = "transfer" /\ stage'[0] = stage[0]
        /\ strand'[1].sender = "recv" /\ strand'[1].recver = "send" /\ strand'[0] = strand[0]
    BY <1>1, <1>5, ExpandLevelSides
  <2>3. CorrectionMsg(0)' = CorrectionMsg(0)
    BY <1>3, <1>5, <2>2
  <2>4. /\ ~DiffDue(1, 0) /\ ~DiffDue(1, 0)' /\ ~SigmaDue(1, 0)' /\ ~TransferDue(1, 0)'
    BY <2>2, ControlType DEF DiffDue, SigmaDue, TransferDue, Ahead
  <2>5. SocketMail1' = <<>>
    BY <2>4 DEF SocketMail1
  <2>6. net'[1][0] = SocketMail1'
    <3>1. Tail(net[1][0]) = <<>>
      BY <1>1, <1>5, <2>4, ShareArrives
    <3> QED
      BY <2>1, <2>5, <3>1
  <2>7. /\ ~CorrectionDue(0, 1) /\ ~CorrectionDue(0, 1)' /\ ~DiffDue(0, 1) /\ ~DiffDue(0, 1)'
        /\ SigmaDue(0, 1)' = SigmaDue(0, 1)
    BY <2>2, ControlType DEF CorrectionDue, DiffDue, SigmaDue, Ahead
  <2>8. SocketMail0' = SocketMail0
    BY <1>3, <2>7 DEF SocketMail0
  <2>9. /\ ~TransferDue(0, 1) /\ ~TransferDue(0, 1)'
        /\ CorrectionDue(1, 0)' = CorrectionDue(1, 0)
    BY <2>2, ControlType DEF TransferDue, CorrectionDue, Ahead
  <2>10. \A n : ForkMail0(n)' = ForkMail0(n)
    BY <2>9 DEF ForkMail0
  <2>11. \A n : ForkMail1(n)' = ForkMail1(n)
    BY <2>2, <2>3, <2>9 DEF ForkMail1
  <2>12. net'[0][0] = SocketMail0'
    BY <2>1, <2>8, ControlType DEF Mailed
  <2>13. ASSUME NEW n \in 1 .. MaxDepth
         PROVE  net'[0][n] = ForkMail0(n)' /\ net'[1][n] = ForkMail1(n)'
    BY <2>1, <2>10, <2>11, ControlType DEF Mailed
  <2> QED
    BY <1>2, <2>6, <2>12, <2>13 DEF Mailed
<1> QED
  BY <1>4, <1>5 DEF Party

\* The next level is on the path as soon as one party has made it, and the other party makes
\* its side of it as the invariant has foreseen.
LEMMA ExpandLevelOnPath ==
    ASSUME IInv, ~Trivial, NEW p \in Party, ExpandLevel(p)
    PROVE  Levels'
<1> DEFINE n == iter[p]
           f(q) == Fixed(q)
<1>1. Expanding /\ Levels
  <2>1. \A q \in Party : q = p \/ q = 1 - p
    BY DEF Party
  <2>2. stage[p] = "sigma" /\ stage[1 - p] \in {"transfer", "sigma"}
    BY ExpandLevelKeeps, ExpandLevelSides DEF Ahead
  <2> QED
    BY <2>1, <2>2 DEF IInv, Tree, Expanding
<1>2. Inputs /\ n \in 1 .. mDepth - 1 /\ \A m : Prefix(m)' = Prefix(m)
  BY SameInputs, ExpandLevelKeeps, ExpandLevelSides DEF IInv
<1>3. sigma' = sigma
  BY ExpandLevelKeeps
<1>4. /\ iter'[p] = n + 1 /\ iter'[1 - p] = iter[1 - p]
      /\ parentTags'[p] = TagsFrom(n, f(p)) /\ parentTags'[1 - p] = parentTags[1 - p]
      /\ seeds'[p] = SeedsFrom(n, f(p)) /\ seeds'[1 - p] = seeds[1 - p]
      /\ z'[p] = SumsFrom(n, f(p)) /\ z'[1 - p] = z[1 - p]
  BY ExpandLevelSides
<1>5. 0 \in Party /\ 1 \in Party /\ iter[0] \in Int /\ iter[1] \in Int
  BY ControlType
<1>6. Fixed(1 - p)' = f(1 - p)
  BY <1>3, <1>4 DEF Fixed, SharedWord
<1>7. p = 0 \/ p = 1
  BY DEF Party
<1>8. CASE iter[0] = iter[1] /\ stage[1 - p] = "sigma"
  <2>1. FixedOnPath(n, f(0), f(1))
    <3>1. stage[p] = "sigma"
      BY ExpandLevelKeeps
    <3>2. stage[0] = "sigma" /\ stage[1] = "sigma"
      BY <1>7, <1>8, <3>1
    <3>3. FixedOnPath(iter[0], Fixed(0), Fixed(1))
      BY <1>8, <3>2, LevelIsFixed
    <3>4. iter[0] = n
      BY <1>7, <1>8
    <3> QED
      BY <3>3, <3>4
  <2>2. f(0) \in [Node(n) -> Block] /\ f(1) \in [Node(n) -> Block]
    <3>1. iter[0] = n /\ iter[1] = n
      BY <1>7, <1>8
    <3> QED
      BY <1>5, <3>1, FixedType
  <2> HIDE DEF f, n
  <2>3. OnPath(n + 1, TagsFrom(n, f(0)), TagsFrom(n, f(1)), SeedsFrom(n, f(0)), SeedsFrom(n, f(1)),
               SumsFrom(n, f(0)), SumsFrom(n, f(1)))
    BY <1>2, <2>1, <2>2, ExpansionStaysOnPath
  <2>4. /\ Level' = n + 1
        /\ LevelTags(0)' = TagsFrom(n, f(0)) /\ LevelTags(1)' = TagsFrom(n, f(1))
        /\ LevelSeeds(0)' = SeedsFrom(n, f(0)) /\ LevelSeeds(1)' = SeedsFrom(n, f(1))
        /\ LevelSums(0)' = SumsFrom(n, f(0)) /\ LevelSums(1)' = SumsFrom(n, f(1))
    <3>1. iter[0] = n /\ iter[1] = n
      BY <1>7, <1>8 DEF n
    <3>2. CASE p = 0
      <4>1. /\ iter'[0] = n + 1 /\ iter'[1] = n
            /\ parentTags'[0] = TagsFrom(n, f(0)) /\ seeds'[0] = SeedsFrom(n, f(0))
            /\ z'[0] = SumsFrom(n, f(0)) /\ Fixed(1)' = f(1)
        BY <1>4, <1>6, <3>1, <3>2
      <4>2. ~Behind(0)' /\ Behind(1)'
        BY <1>5, <3>1, <4>1 DEF Behind
      <4> QED
        BY <4>1, <4>2 DEF Level, LevelTags, LevelSeeds, LevelSums
    <3>3. CASE p = 1
      <4>1. /\ iter'[1] = n + 1 /\ iter'[0] = n
            /\ parentTags'[1] = TagsFrom(n, f(1)) /\ seeds'[1] = SeedsFrom(n, f(1))
            /\ z'[1] = SumsFrom(n, f(1)) /\ Fixed(0)' = f(0)
        BY <1>4, <1>6, <3>1, <3>3
      <4>2. ~Behind(1)' /\ Behind(0)'
        BY <1>5, <3>1, <4>1 DEF Behind
      <4> QED
        BY <4>1, <4>2 DEF Level, LevelTags, LevelSeeds, LevelSums
    <3> QED
      BY <1>7, <3>2, <3>3
  <2>5. OnPath(Level, LevelTags(0), LevelTags(1), LevelSeeds(0), LevelSeeds(1),
               LevelSums(0), LevelSums(1))'
    BY <1>2, <2>3, <2>4 DEF OnPath
  <2> QED
    BY <2>5 DEF Levels
<1>9. CASE Ahead(1 - p, p)
  <2>1. iter[1 - p] = n + 1
    BY <1>9 DEF Ahead
  <2> HIDE DEF n, f
  <2>2. /\ Level' = Level
        /\ LevelTags(0)' = LevelTags(0) /\ LevelTags(1)' = LevelTags(1)
        /\ LevelSeeds(0)' = LevelSeeds(0) /\ LevelSeeds(1)' = LevelSeeds(1)
        /\ LevelSums(0)' = LevelSums(0) /\ LevelSums(1)' = LevelSums(1)
    <3>1. CASE p = 0
      <4>1. /\ iter[0] = n /\ iter[1] = n + 1 /\ iter'[0] = n + 1 /\ iter'[1] = n + 1
            /\ parentTags'[0] = TagsFrom(n, f(0)) /\ parentTags'[1] = parentTags[1]
            /\ seeds'[0] = SeedsFrom(n, f(0)) /\ seeds'[1] = seeds[1]
            /\ z'[0] = SumsFrom(n, f(0)) /\ z'[1] = z[1]
        BY <1>4, <2>1, <3>1 DEF n
      <4>2. Behind(0) /\ ~Behind(1) /\ ~Behind(0)' /\ ~Behind(1)'
        BY <1>5, <4>1 DEF Behind
      <4> QED
        BY <4>1, <4>2 DEF Level, LevelTags, LevelSeeds, LevelSums, f
    <3>2. CASE p = 1
      <4>1. /\ iter[1] = n /\ iter[0] = n + 1 /\ iter'[0] = n + 1 /\ iter'[1] = n + 1
            /\ parentTags'[1] = TagsFrom(n, f(1)) /\ parentTags'[0] = parentTags[0]
            /\ seeds'[1] = SeedsFrom(n, f(1)) /\ seeds'[0] = seeds[0]
            /\ z'[1] = SumsFrom(n, f(1)) /\ z'[0] = z[0]
        BY <1>4, <2>1, <3>2 DEF n
      <4>2. Behind(1) /\ ~Behind(0) /\ ~Behind(0)' /\ ~Behind(1)'
        BY <1>5, <4>1 DEF Behind
      <4> QED
        BY <4>1, <4>2 DEF Level, LevelTags, LevelSeeds, LevelSums, f
    <3> QED
      BY <1>7, <3>1, <3>2
  <2>3. OnPath(Level, LevelTags(0), LevelTags(1), LevelSeeds(0), LevelSeeds(1),
               LevelSums(0), LevelSums(1))
    BY <1>1 DEF Levels
  <2>4. OnPath(Level, LevelTags(0), LevelTags(1), LevelSeeds(0), LevelSeeds(1),
               LevelSums(0), LevelSums(1))'
    BY <1>2, <2>2, <2>3 DEF OnPath
  <2> QED
    BY <2>4 DEF Levels
<1> QED
  BY <1>8, <1>9, ExpandLevelSides

\* Correcting a level and expanding the next one keeps the invariant.
LEMMA ExpandLevelStep ==
    ASSUME IInv, ~Trivial, NEW p \in Party, ExpandLevel(p)
    PROVE  IInv'
<1>1. Inputs' /\ Trivial' = Trivial
  BY SameInputs, ExpandLevelKeeps DEF IInv
<1>2. TypeOK' /\ Control' /\ Families' /\ NetShape' /\ Mailed' /\ Levels'
  BY ExpandLevelControl, ExpandLevelMail, ExpandLevelOnPath
<1>3. /\ stage'[p] = "transfer" /\ strand'[p].sender = "recv" /\ strand'[p].recver = "send"
      /\ strand'[1 - p] = strand[1 - p] /\ stage'[1 - p] = stage[1 - p]
      /\ iter'[1 - p] = iter[1 - p]
      /\ \/ iter[0] = iter[1] /\ iter'[p] = iter[p] + 1 /\ stage[1 - p] = "sigma"
         \/ Ahead(1 - p, p)
  BY ExpandLevelSides
<1>4. \A q \in Party : q = p \/ q = 1 - p
  BY DEF Party
<1>5. Masked'
  <2>1. mask' = mask /\ points' = points /\ mBaseSendOts' = mBaseSendOts /\ mBaseChoice' = mBaseChoice
    BY ExpandLevelKeeps DEF transferred, inputs
  <2>2. Unmasked(1 - p)' = Unmasked(1 - p)
    BY <1>3, <2>1 DEF Unmasked, KeyOf, CorrectionOf
  <2>3. Drawn(1 - p)' = Drawn(1 - p)
    BY <1>3, <2>1, <2>2 DEF Drawn
  <2>4. ASSUME strand'[1 - p].sender = "done"
        PROVE  /\ lsb(Drawn(1 - p)') <=> 1 - p = 1
               /\ \A i \in Digit \ {points'[1 - p][iter'[1 - p]]} :
                    mask'[1 - p][i] = Unmasked(1 - p)'[i]
    <3>1. 1 - p \in Party /\ strand[1 - p].sender = "done"
      BY <1>3, <2>4, ExpandLevelSides
    <3>2. /\ lsb(Drawn(1 - p)) <=> 1 - p = 1
          /\ \A i \in Digit \ {points[1 - p][iter[1 - p]]} : mask[1 - p][i] = Unmasked(1 - p)[i]
      BY <3>1 DEF IInv, Tree, Masked
    <3> QED
      BY <1>3, <2>1, <2>2, <2>3, <3>2
  <2> QED
    BY <1>3, <1>4, <2>4 DEF Masked
<1>6. Buffered'
  <2>1. \A q \in Party : ~(stage'[q] = "transfer" /\ strand'[q].recver = "done")
    BY <1>3, <1>4 DEF Ahead
  <2> QED
    BY <2>1 DEF Buffered
<1>7. Summed'
  <2>1. CASE iter[0] = iter[1] /\ iter'[p] = iter[p] + 1
    <3>1. iter'[0] # iter'[1]
      BY <1>3, <2>1, ControlType DEF Party
    <3> QED
      BY <3>1 DEF Summed
  <2>2. CASE Ahead(1 - p, p)
    <3>1. \A q \in Party : stage'[q] # "sigma"
      BY <1>3, <1>4, <2>2 DEF Ahead
    <3> QED
      BY <3>1 DEF Summed
  <2> QED
    BY <1>3, <2>1, <2>2
<1>8. LeavesOnPath' /\ Outputs'
  <2>1. \A q \in Party : stage'[q] \in {"transfer", "sigma"}
    BY <1>3, <1>4 DEF Ahead
  <2> QED
    BY <2>1 DEF LeavesOnPath, Outputs, Expanding
<1> QED
  BY <1>1, <1>2, <1>5, <1>6, <1>7, <1>8 DEF IInv, Tree

\* A party that makes its leaves finds the other one on the last level too, and makes of
\* them what the invariant says.
LEMMA ExpandLeavesKeeps ==
    ASSUME IInv, ~Trivial, NEW p \in Party, ExpandLeaves(p)
    PROVE  /\ stage[p] = "sigma" /\ Arrived(p, 0) /\ iter[p] = mDepth
           /\ iter[0] = iter[1] /\ stage[1 - p] \in {"sigma", "diff"}
           /\ leaves' = [leaves EXCEPT ![p] = LeafVals(p)]
           /\ tags' = [tags EXCEPT ![p] = LeafTags(p)]
           /\ stage' = [stage EXCEPT ![p] = "diff"]
           /\ net' = Put(Put(net, p, 0, Tail(net[p][0])), 1 - p, 0,
                         Append(net[1 - p][0], DiffMsg(p)'))
           /\ UNCHANGED <<inputs, strand, tree, transferred, sigma, output>>
<1>1. stage[p] = "sigma" /\ Arrived(p, 0) /\ iter[p] = mDepth
  BY Zenon DEF ExpandLeaves
<1>2. p = 0 \/ p = 1
  BY DEF Party
<1>3. iter[0] = iter[1] /\ stage[1 - p] # "transfer"
  <2>1. \/ iter[0] = iter[1] /\ stage[1 - p] # "transfer"
        \/ Ahead(1 - p, p)
    BY <1>1, ShareArrives
  <2>2. ~Ahead(1 - p, p)
    <3>1. iter[0] <= mDepth /\ iter[1] <= mDepth
      BY ControlType DEF Control, Apart
    <3> QED
      BY <1>1, <1>2, <3>1, ControlType DEF Ahead
  <2> QED
    BY <2>1, <2>2
<1>4. stage[1 - p] \in {"sigma", "diff"}
  BY <1>1, <1>2, <1>3, ControlType DEF Control, Apart
<1>5. Corrected(p) = Fixed(p)
  BY <1>1, ShareArrives, CorrectedIsFixed
<1> DEFINE V == [x \in Leaf |-> RoundFn[Corrected(p)[x]]]
           m == [kind |-> "diff", what |-> Xor(values[p], XorAll(V))]
           N == Consume(p, 0)
<1>6. /\ leaves' = [leaves EXCEPT ![p] = V]
      /\ tags' = [tags EXCEPT ![p] = [x \in Leaf |-> lsb(Corrected(p)[x])]]
      /\ net' = [N EXCEPT ![1 - p][0] = Append(@, m)]
      /\ stage' = [stage EXCEPT ![p] = "diff"]
      /\ UNCHANGED <<inputs, strand, tree, transferred, sigma, output>>
  BY Zenon DEF ExpandLeaves
<1>7. LeafVals(p) = V /\ LeafTags(p) = [x \in Leaf |-> lsb(Corrected(p)[x])]
  BY <1>1, <1>5 DEF LeafVals, LeafTags
<1>8. DiffMsg(p)' = m
  <2>1. leaves'[p] = V /\ values' = values
    BY <1>6 DEF IInv, Families, inputs
  <2> HIDE DEF V
  <2> QED
    BY <2>1 DEF DiffMsg, DiffOf
<1>9. net' = Put(Put(net, p, 0, Tail(net[p][0])), 1 - p, 0, Append(net[1 - p][0], m))
  <2>1. N = Put(net, p, 0, Tail(net[p][0]))
    BY DEF Consume, Put
  <2>2. N[1 - p] = net[1 - p]
    <3>1. DOMAIN net = Party /\ 1 - p \in Party /\ 1 - p # p
      BY ControlType DEF NetShape, Party
    <3> QED
      BY <2>1, <3>1 DEF Put
  <2> HIDE DEF m, N
  <2>3. net' = Put(N, 1 - p, 0, Append(N[1 - p][0], m))
    BY <1>6 DEF Put
  <2> QED
    BY <2>1, <2>2, <2>3
<1> HIDE DEF V, m, N
<1> QED
  BY <1>1, <1>3, <1>4, <1>6, <1>7, <1>8, <1>9

\* The same, party by party.
LEMMA ExpandLeavesSides ==
    ASSUME IInv, ~Trivial, NEW p \in Party, ExpandLeaves(p)
    PROVE  /\ 1 - p \in Party /\ 1 - p # p
           /\ leaves'[p] = LeafVals(p) /\ leaves'[1 - p] = leaves[1 - p]
           /\ tags'[p] = LeafTags(p) /\ tags'[1 - p] = tags[1 - p]
           /\ stage'[p] = "diff" /\ stage'[1 - p] = stage[1 - p]
           /\ stage[p] = "sigma" /\ stage[1 - p] \in {"sigma", "diff"}
           /\ iter' = iter /\ strand' = strand /\ sigma' = sigma /\ mask' = mask /\ z' = z
           /\ recvBuffer' = recvBuffer /\ parentTags' = parentTags /\ seeds' = seeds
<1>1. 1 - p \in Party /\ 1 - p # p
  BY DEF Party
<1>2. DOMAIN leaves = Party /\ DOMAIN tags = Party /\ DOMAIN stage = Party
  BY DEF IInv, Families, TypeOK
<1>3. /\ leaves' = [leaves EXCEPT ![p] = LeafVals(p)]
      /\ tags' = [tags EXCEPT ![p] = LeafTags(p)]
      /\ stage' = [stage EXCEPT ![p] = "diff"]
      /\ UNCHANGED <<strand, tree, transferred, sigma>>
  BY ExpandLeavesKeeps
<1>4. stage[p] = "sigma" /\ stage[1 - p] \in {"sigma", "diff"}
  BY ExpandLeavesKeeps
<1> QED
  BY <1>1, <1>2, <1>3, <1>4 DEF tree, transferred

\* The leaves are nodes of the last level.
LEMMA LeavesAreNodes == Leaf \subseteq Node(mDepth)
BY DEF Leaf

\* A party that is through with the last level has leaves and their tags.
LEMMA ExpandLeavesControl ==
    ASSUME IInv, ~Trivial, NEW p \in Party, ExpandLeaves(p)
    PROVE  TypeOK' /\ Control' /\ Families'
<1>1. Inputs' /\ mDepth' = mDepth /\ Leaf' = Leaf
  BY SameInputs, ExpandLeavesKeeps DEF IInv
<1>2. LeafVals(p) \in [Leaf -> Block] /\ LeafTags(p) \in [Leaf -> BOOLEAN]
  <2>1. stage[p] = "sigma" /\ Fixed(p) \in [Node(mDepth) -> Block]
    BY FixedType, ExpandLeavesKeeps
  <2>2. \A x \in Leaf : RoundFn[Fixed(p)[x]] \in Block /\ lsb(Fixed(p)[x]) \in BOOLEAN
    BY <2>1, LeavesAreNodes, DpfAssumption DEF lsb
  <2> QED
    BY <2>1, <2>2 DEF LeafVals, LeafTags
<1>3. TypeOK'
  <2>1. /\ iter' \in [Party -> 1 .. MaxDepth] /\ strand' \in [Party -> Ports]
        /\ {z', mask', sigma'} \subseteq [Party -> Triple]
        /\ recvBuffer' \in [Party -> Triple \X Triple]
    BY ExpandLeavesSides DEF IInv, TypeOK
  <2>2. stage' \in [Party -> {"trivial", "transfer", "sigma", "diff", "done"}]
    BY ExpandLeavesKeeps DEF IInv, TypeOK
  <2>3. ASSUME NEW q \in Party
        PROVE  /\ parentTags'[q] \in [Node(iter'[q] - 1) -> BOOLEAN]
               /\ seeds'[q] \in [Node(iter'[q]) -> Block]
    BY ExpandLeavesSides DEF IInv, TypeOK
  <2>4. \A q \in Party : q = p \/ q = 1 - p
    BY DEF Party
  <2>5. ASSUME NEW q \in Party
        PROVE  /\ stage'[q] \in {"diff", "done"} /\ mDepth' > 0 => leaves'[q] \in [Leaf' -> Block]
               /\ stage'[q] \in {"diff", "done"} => tags'[q] \in [Leaf' -> BOOLEAN]
               /\ stage'[q] = "done" => output'[q] \in [Leaf' -> Block]
    <3>1. CASE q = p
      BY <1>1, <1>2, <3>1, ExpandLeavesSides
    <3>2. CASE q = 1 - p
      <4>1. /\ leaves'[q] = leaves[q] /\ tags'[q] = tags[q] /\ stage'[q] = stage[q]
            /\ output' = output
        BY <3>2, ExpandLeavesSides, ExpandLeavesKeeps
      <4> QED
        BY <1>1, <4>1 DEF IInv, TypeOK
    <3> QED
      BY <2>4, <3>1, <3>2
  <2> QED
    BY <2>1, <2>2, <2>3, <2>5 DEF TypeOK
<1>4. Control'
  <2>1. p = 0 \/ p = 1
    BY DEF Party
  <2>2. iter[p] = mDepth
    BY ExpandLeavesKeeps
  <2>3. CASE p = 0
    BY <1>1, <2>2, <2>3, ExpandLeavesSides, ControlType DEF Control, Apart, Ahead, Ready
  <2>4. CASE p = 1
    BY <1>1, <2>2, <2>4, ExpandLeavesSides, ControlType DEF Control, Apart, Ahead, Ready
  <2> QED
    BY <2>1, <2>3, <2>4
<1>5. Families'
  <2>1. DOMAIN leaves' = Party /\ DOMAIN tags' = Party
    BY ExpandLeavesKeeps DEF IInv, Families
  <2> QED
    BY <2>1, ExpandLeavesKeeps DEF IInv, Families, tree
<1> QED
  BY <1>3, <1>4, <1>5

\* It has taken the other share and sent what its leaves lack of its value.
LEMMA ExpandLeavesMail ==
    ASSUME IInv, ~Trivial, NEW p \in Party, ExpandLeaves(p)
    PROVE  NetShape' /\ Mailed'
<1>1. stage[p] = "sigma" /\ Arrived(p, 0) /\ iter[0] = iter[1]
  BY ExpandLeavesKeeps
<1>2. NetShape' /\ \A q \in Party : \A d \in 0 .. MaxDepth :
        net'[q][d] = IF q = p /\ d = 0 THEN Tail(net[p][0])
                     ELSE IF q = 1 - p /\ d = 0 THEN Append(net[1 - p][0], DiffMsg(p)')
                     ELSE net[q][d]
  <2> DEFINE v == Tail(net[p][0])
             w == Append(net[1 - p][0], DiffMsg(p)')
  <2>1. net' = Put(Put(net, p, 0, v), 1 - p, 0, w)
    BY ExpandLeavesKeeps
  <2>2. NetShape /\ 0 \in 0 .. MaxDepth /\ 1 - p \in Party /\ p # 1 - p
    BY ControlType, ExpandLeavesSides
  <2> HIDE DEF v, w
  <2>3. NetShape' /\ \A q \in Party : \A d \in 0 .. MaxDepth :
          net'[q][d] = IF q = p /\ d = 0 THEN v
                       ELSE IF q = 1 - p /\ d = 0 THEN w ELSE net[q][d]
    BY <2>1, <2>2, TwoQueuesChange
  <2> QED
    BY <2>3 DEF v, w
<1>3. SigmaMsg(0)' = SigmaMsg(0) /\ SigmaMsg(1)' = SigmaMsg(1)
  BY ExpandLeavesSides DEF SigmaMsg
<1>4. DiffMsg(1 - p)' = DiffMsg(1 - p)
  <2>1. leaves'[1 - p] = leaves[1 - p] /\ values' = values
    BY ExpandLeavesSides, ExpandLeavesKeeps DEF inputs
  <2> QED
    BY <2>1 DEF DiffMsg, DiffOf
<1>5. iter' = iter /\ strand' = strand
  BY ExpandLeavesSides
<1>6. /\ strand[0].sender = "done" /\ strand[0].recver = "done"
      /\ strand[1].sender = "done" /\ strand[1].recver = "done"
  <2>1. stage[0] # "transfer" /\ stage[1] # "transfer"
    BY ExpandLeavesSides DEF Party
  <2> QED
    BY <2>1, ControlType
<1>7. /\ ~TransferDue(0, 1) /\ ~TransferDue(0, 1)' /\ ~TransferDue(1, 0) /\ ~TransferDue(1, 0)'
      /\ ~CorrectionDue(0, 1) /\ ~CorrectionDue(0, 1)'
      /\ ~CorrectionDue(1, 0) /\ ~CorrectionDue(1, 0)'
  BY <1>1, <1>5, <1>6, ControlType DEF TransferDue, CorrectionDue
<1>8. \A n : /\ ForkMail0(n)' = <<>> /\ ForkMail0(n) = <<>>
             /\ ForkMail1(n)' = <<>> /\ ForkMail1(n) = <<>>
  BY <1>7 DEF ForkMail0, ForkMail1
<1>9. CASE p = 0
  <2>1. 1 - p = 1
    BY <1>9
  <2>2. /\ net'[0][0] = Tail(net[0][0]) /\ net'[1][0] = Append(net[1][0], DiffMsg(0)')
        /\ \A n \in 1 .. MaxDepth : net'[0][n] = net[0][n] /\ net'[1][n] = net[1][n]
    BY <1>2, <1>9, <2>1, ControlType
  <2>3. /\ stage[0] = "sigma" /\ stage[1] \in {"sigma", "diff"}
        /\ stage'[0] = "diff" /\ stage'[1] = stage[1]
    BY <1>9, <2>1, ExpandLeavesSides
  <2>4. /\ ~SigmaDue(0, 1)' /\ DiffDue(0, 1)' = DiffDue(0, 1)
        /\ SigmaDue(1, 0)' = SigmaDue(1, 0) /\ ~DiffDue(1, 0) /\ DiffDue(1, 0)'
    BY <1>1, <1>5, <2>3, ControlType DEF SigmaDue, DiffDue
  <2>5. DiffMsg(1)' = DiffMsg(1)
    BY <1>4, <2>1
  <2>6. SocketMail0' = IF DiffDue(0, 1) THEN <<DiffMsg(1)>> ELSE <<>>
    BY <1>7, <2>4, <2>5 DEF SocketMail0
  <2>7. net'[0][0] = SocketMail0'
    <3>1. Tail(net[0][0]) = IF DiffDue(0, 1) THEN <<DiffMsg(1)>> ELSE <<>>
      BY <1>1, <1>7, <1>9, ShareArrives
    <3> QED
      BY <2>2, <2>6, <3>1
  <2>8. /\ SocketMail1 = IF SigmaDue(1, 0) THEN <<SigmaMsg(0)>> ELSE <<>>
        /\ SocketMail1' = IF SigmaDue(1, 0) THEN <<SigmaMsg(0), DiffMsg(0)'>> ELSE <<DiffMsg(0)'>>
    BY <1>3, <1>7, <2>4 DEF SocketMail1
  <2>9. net'[1][0] = SocketMail1'
    <3>1. net[1][0] = SocketMail1
      BY ControlType DEF Mailed
    <3>2. /\ Append(<<>>, DiffMsg(0)') = <<DiffMsg(0)'>>
          /\ Append(<<SigmaMsg(0)>>, DiffMsg(0)') = <<SigmaMsg(0), DiffMsg(0)'>>
      BY FirstInQueue, SecondInQueue
    <3> QED
      BY <2>2, <2>8, <3>1, <3>2
  <2>10. ASSUME NEW n \in 1 .. MaxDepth
         PROVE  net'[0][n] = ForkMail0(n)' /\ net'[1][n] = ForkMail1(n)'
    BY <1>8, <2>2, ControlType DEF Mailed
  <2> QED
    BY <1>2, <2>7, <2>9, <2>10 DEF Mailed
<1>10. CASE p = 1
  <2>1. 1 - p = 0
    BY <1>10
  <2>2. /\ net'[1][0] = Tail(net[1][0]) /\ net'[0][0] = Append(net[0][0], DiffMsg(1)')
        /\ \A n \in 1 .. MaxDepth : net'[0][n] = net[0][n] /\ net'[1][n] = net[1][n]
    BY <1>2, <1>10, <2>1, ControlType
  <2>3. /\ stage[1] = "sigma" /\ stage[0] \in {"sigma", "diff"}
        /\ stage'[1] = "diff" /\ stage'[0] = stage[0]
    BY <1>10, <2>1, ExpandLeavesSides
  <2>4. /\ ~SigmaDue(1, 0)' /\ DiffDue(1, 0)' = DiffDue(1, 0)
        /\ SigmaDue(0, 1)' = SigmaDue(0, 1) /\ ~DiffDue(0, 1) /\ DiffDue(0, 1)'
    BY <1>1, <1>5, <2>3, ControlType DEF SigmaDue, DiffDue
  <2>5. DiffMsg(0)' = DiffMsg(0)
    BY <1>4, <2>1
  <2>6. SocketMail1' = IF DiffDue(1, 0) THEN <<DiffMsg(0)>> ELSE <<>>
    BY <1>7, <2>4, <2>5 DEF SocketMail1
  <2>7. net'[1][0] = SocketMail1'
    <3>1. Tail(net[1][0]) = IF DiffDue(1, 0) THEN <<DiffMsg(0)>> ELSE <<>>
      BY <1>1, <1>10, ShareArrives
    <3> QED
      BY <2>2, <2>6, <3>1
  <2>8. /\ SocketMail0 = IF SigmaDue(0, 1) THEN <<SigmaMsg(1)>> ELSE <<>>
        /\ SocketMail0' = IF SigmaDue(0, 1) THEN <<SigmaMsg(1), DiffMsg(1)'>> ELSE <<DiffMsg(1)'>>
    BY <1>3, <1>7, <2>4 DEF SocketMail0
  <2>9. net'[0][0] = SocketMail0'
    <3>1. net[0][0] = SocketMail0
      BY ControlType DEF Mailed
    <3>2. /\ Append(<<>>, DiffMsg(1)') = <<DiffMsg(1)'>>
          /\ Append(<<SigmaMsg(1)>>, DiffMsg(1)') = <<SigmaMsg(1), DiffMsg(1)'>>
      BY FirstInQueue, SecondInQueue
    <3> QED
      BY <2>2, <2>8, <3>1, <3>2
  <2>10. ASSUME NEW n \in 1 .. MaxDepth
         PROVE  net'[0][n] = ForkMail0(n)' /\ net'[1][n] = ForkMail1(n)'
    BY <1>8, <2>2, ControlType DEF Mailed
  <2> QED
    BY <1>2, <2>7, <2>9, <2>10 DEF Mailed
<1> QED
  BY <1>9, <1>10 DEF Party

\* The leaves, also those that the other party has not made yet, are on the path.
LEMMA ExpandLeavesOnPath ==
    ASSUME IInv, ~Trivial, NEW p \in Party, ExpandLeaves(p)
    PROVE  LeavesOnPath'
<1>1. /\ mDepth' = mDepth /\ Leaf' = Leaf /\ Point' = Point
  BY SameInputs, ExpandLeavesKeeps DEF IInv
<1>2. /\ stage[p] = "sigma" /\ stage[1 - p] \in {"sigma", "diff"}
      /\ iter[0] = mDepth /\ iter[1] = mDepth /\ (p = 0 \/ p = 1)
  BY ExpandLeavesKeeps DEF Party
<1>3. \A x \in Leaf : /\ (LeafTags(0)[x] # LeafTags(1)[x]) <=> x = Point
                      /\ x # Point => LeafVals(0)[x] = LeafVals(1)[x]
  <2>1. CASE stage[1 - p] = "sigma"
    <3>1. stage[0] = "sigma" /\ stage[1] = "sigma"
      BY <1>2, <2>1
    <3>2. FixedOnPath(mDepth, Fixed(0), Fixed(1))
      BY <1>2, <3>1, LevelIsFixed
    <3>3. ASSUME NEW x \in Leaf
          PROVE  /\ (lsb(Fixed(0)[x]) # lsb(Fixed(1)[x])) <=> x = Point
                 /\ x # Point => Fixed(0)[x] = Fixed(1)[x]
      <4>1. x \in Node(mDepth) /\ Prefix(mDepth) = Point
        BY LeavesAreNodes, PrefixPoint
      <4> QED
        BY <3>2, <4>1 DEF FixedOnPath
    <3>4. ASSUME NEW x \in Leaf
          PROVE  /\ LeafTags(0)[x] = lsb(Fixed(0)[x]) /\ LeafTags(1)[x] = lsb(Fixed(1)[x])
                 /\ LeafVals(0)[x] = RoundFn[Fixed(0)[x]]
                 /\ LeafVals(1)[x] = RoundFn[Fixed(1)[x]]
      BY <3>1 DEF LeafTags, LeafVals
    <3> QED
      BY <3>3, <3>4
  <2>2. CASE stage[1 - p] = "diff"
    <3>1. ~Expanding /\ LeavesOnPath
      BY <2>2, ExpandLeavesSides DEF Expanding, IInv, Tree
    <3> QED
      BY <3>1 DEF LeavesOnPath
  <2> QED
    BY <1>2, <2>1, <2>2
<1>4. Fixed(1 - p)' = Fixed(1 - p)
  BY ExpandLeavesSides DEF Fixed, SharedWord
<1>5. LeafVals(p)' = LeafVals(p) /\ LeafTags(p)' = LeafTags(p)
  <2>1. stage'[p] = "diff" /\ leaves'[p] = LeafVals(p) /\ tags'[p] = LeafTags(p)
    BY ExpandLeavesSides
  <2>2. LeafVals(p)' = leaves'[p] /\ LeafTags(p)' = tags'[p]
    BY <2>1 DEF LeafVals, LeafTags
  <2> QED
    BY <2>1, <2>2
<1>6. LeafVals(1 - p)' = LeafVals(1 - p) /\ LeafTags(1 - p)' = LeafTags(1 - p)
  <2>1. /\ stage'[1 - p] = stage[1 - p] /\ leaves'[1 - p] = leaves[1 - p]
        /\ tags'[1 - p] = tags[1 - p]
    BY ExpandLeavesSides
  <2> QED
    BY <1>1, <1>4, <2>1 DEF LeafVals, LeafTags
<1>7. /\ LeafVals(0)' = LeafVals(0) /\ LeafVals(1)' = LeafVals(1)
      /\ LeafTags(0)' = LeafTags(0) /\ LeafTags(1)' = LeafTags(1)
  BY <1>2, <1>5, <1>6
<1> QED
  BY <1>1, <1>3, <1>7 DEF LeavesOnPath

\* Making the leaves and sending the difference keeps the invariant.
LEMMA ExpandLeavesStep ==
    ASSUME IInv, ~Trivial, NEW p \in Party, ExpandLeaves(p)
    PROVE  IInv'
<1>1. Inputs' /\ Trivial' = Trivial /\ Point' = Point
  BY SameInputs, ExpandLeavesKeeps DEF IInv
<1>2. TypeOK' /\ Control' /\ Families' /\ NetShape' /\ Mailed' /\ LeavesOnPath'
  BY ExpandLeavesControl, ExpandLeavesMail, ExpandLeavesOnPath
<1>3. /\ 1 - p \in Party /\ stage'[p] = "diff" /\ stage'[1 - p] = stage[1 - p]
      /\ stage[1 - p] \in {"sigma", "diff"}
      /\ iter' = iter /\ strand' = strand /\ sigma' = sigma /\ mask' = mask /\ z' = z
  BY ExpandLeavesSides
<1>4. \A q \in Party : q = p \/ q = 1 - p
  BY DEF Party
<1>5. /\ \A q : Drawn(q)' = Drawn(q) /\ Unmasked(q)' = Unmasked(q)
      /\ points' = points
  <2>1. points' = points /\ mBaseSendOts' = mBaseSendOts /\ mBaseChoice' = mBaseChoice
    BY ExpandLeavesKeeps DEF inputs
  <2>2. \A q : Unmasked(q)' = Unmasked(q)
    BY <1>3, <2>1 DEF Unmasked, KeyOf, CorrectionOf
  <2> QED
    BY <1>3, <2>1, <2>2 DEF Drawn
<1>6. Masked /\ Summed
  BY DEF IInv, Tree
<1>7. Masked'
  BY <1>3, <1>5, <1>6 DEF Masked
<1>8. Buffered'
  <2>1. \A q \in Party : stage'[q] # "transfer"
    BY <1>3, <1>4
  <2> QED
    BY <2>1 DEF Buffered
<1>9. Summed'
  <2>1. \A q \in Party : stage'[q] = "sigma" => stage[q] = "sigma"
    BY <1>3, <1>4
  <2> QED
    BY <1>1, <1>3, <1>5, <1>6, <2>1 DEF Summed
<1>10. Levels' /\ Outputs'
  <2>1. ~Expanding'
    BY <1>3 DEF Expanding
  <2>2. \A q \in Party : stage'[q] # "done"
    BY <1>3, <1>4
  <2> QED
    BY <2>1, <2>2 DEF Levels, Outputs
<1> QED
  BY <1>1, <1>2, <1>7, <1>8, <1>9, <1>10 DEF IInv, Tree

\* A party that waits for the difference finds it on the socket, and nothing else.
LEMMA DiffArrives ==
    ASSUME IInv, ~Trivial, NEW p \in Party, stage[p] = "diff", Arrived(p, 0)
    PROVE  /\ stage[1 - p] \in {"diff", "done"} /\ 1 - p \in Party
           /\ strand[0].sender = "done" /\ strand[0].recver = "done"
           /\ strand[1].sender = "done" /\ strand[1].recver = "done"
           /\ iter[0] = iter[1]
           /\ Received(p, 0) = DiffOf(1 - p) /\ Head(net[p][0]).kind = "diff"
           /\ Tail(net[p][0]) = <<>>
<1>1. stage[p] = "diff" /\ net[p][0] # <<>>
  BY DEF Arrived
<1>3. CASE p = 0
  <2>1. net[0][0] = SocketMail0 /\ SocketMail0 # <<>>
    BY <1>1, <1>3, ControlType DEF Mailed
  <2>2. ~SigmaDue(0, 1) /\ ~CorrectionDue(0, 1)
    BY <1>1, <1>3, ControlType DEF SigmaDue, CorrectionDue, Control, Apart, Ahead
  <2>3. DiffDue(0, 1) /\ net[0][0] = <<DiffMsg(1)>>
    BY <2>1, <2>2 DEF SocketMail0
  <2>4. Head(<<DiffMsg(1)>>) = DiffMsg(1) /\ Tail(<<DiffMsg(1)>>) = <<>>
    BY TakeFromQueue
  <2>5. Received(p, 0) = DiffOf(1) /\ Tail(net[0][0]) = <<>> /\ Head(net[0][0]).kind = "diff"
    BY <1>3, <2>3, <2>4 DEF Received, DiffMsg
  <2>6. stage[1] \in {"diff", "done"}
    BY <2>3 DEF DiffDue
  <2>7. iter[0] = iter[1]
    BY <1>1, <1>3, <2>6, ControlType DEF Control, Apart
  <2> QED
    BY <1>1, <1>3, <2>5, <2>6, <2>7, ControlType
<1>4. CASE p = 1
  <2>1. net[1][0] = SocketMail1 /\ SocketMail1 # <<>>
    BY <1>1, <1>4, ControlType DEF Mailed
  <2>2. ~SigmaDue(1, 0) /\ ~TransferDue(1, 0)
    BY <1>1, <1>4, ControlType DEF SigmaDue, TransferDue, Control, Apart, Ahead
  <2>3. DiffDue(1, 0) /\ net[1][0] = <<DiffMsg(0)>>
    BY <2>1, <2>2 DEF SocketMail1
  <2>4. Head(<<DiffMsg(0)>>) = DiffMsg(0) /\ Tail(<<DiffMsg(0)>>) = <<>>
    BY TakeFromQueue
  <2>5. Received(p, 0) = DiffOf(0) /\ Tail(net[1][0]) = <<>> /\ Head(net[1][0]).kind = "diff"
    BY <1>4, <2>3, <2>4 DEF Received, DiffMsg
  <2>6. stage[0] \in {"diff", "done"}
    BY <2>3 DEF DiffDue
  <2>7. iter[0] = iter[1]
    BY <1>1, <1>4, <2>6, ControlType DEF Control, Apart
  <2> QED
    BY <1>1, <1>4, <2>5, <2>6, <2>7, ControlType
<1> QED
  BY <1>3, <1>4 DEF Party

\* So it does when it makes its output.
LEMMA OutputFinds ==
    ASSUME IInv, ~Trivial, NEW p \in Party, Output(p)
    PROVE  /\ stage[p] = "diff" /\ stage[1 - p] \in {"diff", "done"} /\ 1 - p \in Party
           /\ strand[0].sender = "done" /\ strand[0].recver = "done"
           /\ strand[1].sender = "done" /\ strand[1].recver = "done"
           /\ iter[0] = iter[1]
           /\ Received(p, 0) = DiffOf(1 - p)
           /\ Tail(net[p][0]) = <<>>
<1>1. stage[p] = "diff" /\ Arrived(p, 0)
  BY Zenon DEF Output
<1> QED
  BY <1>1, DiffArrives

\* Beside its output only the stage of the party and its socket change.
LEMMA OutputKeeps ==
    ASSUME IInv, ~Trivial, NEW p \in Party, Output(p)
    PROVE  /\ output' = [output EXCEPT ![p] =
                [x \in Leaf |-> Xor(MaskedBy(tags[p][x], Gamma(p)), leaves[p][x])]]
           /\ net' = Put(net, p, 0, Tail(net[p][0]))
           /\ stage' = [stage EXCEPT ![p] = "done"]
           /\ UNCHANGED <<inputs, strand, tree, transferred, sigma, leaves, tags>>
<1>1. Gamma(p) = Xor(Xor(Received(p, 0), XorAll(leaves[p])), values[p])
  BY OutputFinds DEF Gamma
<1>2. /\ output' = [output EXCEPT ![p] =
           [x \in Leaf |-> Xor(MaskedBy(tags[p][x],
                                        Xor(Xor(Received(p, 0), XorAll(leaves[p])), values[p])),
                               leaves[p][x])]]
      /\ net' = Consume(p, 0)
      /\ stage' = [stage EXCEPT ![p] = "done"]
      /\ UNCHANGED <<inputs, strand, tree, transferred, sigma, leaves, tags>>
  BY Zenon DEF Output
<1>3. Consume(p, 0) = Put(net, p, 0, Tail(net[p][0]))
  BY DEF Consume, Put
<1> QED
  BY <1>1, <1>2, <1>3

\* A party that has the other difference is done, with an output for each leaf.
LEMMA OutputControl ==
    ASSUME IInv, ~Trivial, NEW p \in Party, Output(p)
    PROVE  TypeOK' /\ Control' /\ Families'
<1>1. Inputs' /\ mDepth' = mDepth /\ Leaf' = Leaf
  BY SameInputs, OutputKeeps DEF IInv
<1>2. ASSUME NEW x \in Leaf
      PROVE  Xor(MaskedBy(tags[p][x], Gamma(p)), leaves[p][x]) \in Block
  <2>1. leaves[p][x] \in Block
    BY OutputFinds, ControlType DEF IInv, TypeOK
  <2>2. Gamma(p) \in Block
    <3>1. values[p] \in Block /\ values[1 - p] \in Block
      BY OutputFinds DEF IInv, Inputs
    <3> QED
      BY <3>1, XorType, XorAllType DEF Gamma, DiffOf
  <2>3. MaskedBy(tags[p][x], Gamma(p)) \in Block
    BY <2>2 DEF MaskedBy, Zero, Block
  <2> QED
    BY <2>1, <2>3, XorType
<1>3. TypeOK'
  <2>1. stage' \in [Party -> {"trivial", "transfer", "sigma", "diff", "done"}]
    BY OutputKeeps DEF IInv, TypeOK
  <2>2. /\ iter' = iter /\ strand' = strand /\ z' = z /\ mask' = mask /\ sigma' = sigma
        /\ recvBuffer' = recvBuffer /\ parentTags' = parentTags /\ seeds' = seeds
        /\ leaves' = leaves /\ tags' = tags
    BY OutputKeeps DEF tree, transferred
  <2>3. ASSUME NEW q \in Party
        PROVE  /\ stage'[q] \in {"diff", "done"} => stage[q] \in {"diff", "done"}
               /\ stage'[q] = "done" => output'[q] \in [Leaf -> Block]
    <3>1. CASE q = p
      <4>1. stage[p] = "diff"
        BY OutputFinds
      <4>2. output'[p] = [x \in Leaf |-> Xor(MaskedBy(tags[p][x], Gamma(p)), leaves[p][x])]
        BY OutputKeeps DEF IInv, Families
      <4> QED
        BY <1>2, <3>1, <4>1, <4>2
    <3>2. CASE q # p
      <4>1. stage'[q] = stage[q] /\ output'[q] = output[q]
        BY <3>2, OutputKeeps DEF IInv, TypeOK, Families
      <4> QED
        BY <4>1 DEF IInv, TypeOK
    <3> QED
      BY <3>1, <3>2
  <2> QED
    BY <1>1, <2>1, <2>2, <2>3 DEF IInv, TypeOK
<1>4. Control'
  <2>1. /\ iter' = iter /\ strand' = strand
        /\ stage'[0] = IF p = 0 THEN "done" ELSE stage[0]
        /\ stage'[1] = IF p = 1 THEN "done" ELSE stage[1]
    BY OutputKeeps DEF IInv, TypeOK, tree, Party
  <2>2. p = 0 \/ p = 1
    BY DEF Party
  <2>3. CASE p = 0
    BY <1>1, <2>1, <2>3, OutputFinds, ControlType DEF Control, Apart, Ahead, Ready
  <2>4. CASE p = 1
    BY <1>1, <2>1, <2>4, OutputFinds, ControlType DEF Control, Apart, Ahead, Ready
  <2> QED
    BY <2>2, <2>3, <2>4
<1>5. Families'
  BY OutputKeeps DEF IInv, Families, tree
<1> QED
  BY <1>3, <1>4, <1>5

\* It takes its last message, and its peer is due what it was.
LEMMA OutputMail ==
    ASSUME IInv, ~Trivial, NEW p \in Party, Output(p)
    PROVE  NetShape' /\ Mailed'
<1>1. NetShape' /\ \A q \in Party : \A d \in 0 .. MaxDepth :
        net'[q][d] = IF q = p /\ d = 0 THEN <<>> ELSE net[q][d]
  <2>1. net' = Put(net, p, 0, <<>>)
    BY OutputKeeps, OutputFinds
  <2>2. NetShape /\ 0 \in 0 .. MaxDepth
    BY ControlType
  <2> QED
    BY <2>1, <2>2, QueueChange
<1>2. /\ SigmaMsg(0)' = SigmaMsg(0) /\ SigmaMsg(1)' = SigmaMsg(1)
      /\ DiffMsg(0)' = DiffMsg(0) /\ DiffMsg(1)' = DiffMsg(1)
  BY OutputKeeps DEF SigmaMsg, DiffMsg, DiffOf, inputs
<1>3. /\ iter' = iter /\ strand' = strand /\ iter[0] = iter[1]
      /\ strand[0].sender = "done" /\ strand[0].recver = "done"
      /\ strand[1].sender = "done" /\ strand[1].recver = "done"
      /\ stage'[0] = IF p = 0 THEN "done" ELSE stage[0]
      /\ stage'[1] = IF p = 1 THEN "done" ELSE stage[1]
      /\ stage[p] = "diff" /\ stage[1 - p] \in {"diff", "done"}
  BY OutputKeeps, OutputFinds DEF IInv, TypeOK, tree, Party
<1>4. /\ ~TransferDue(0, 1) /\ ~TransferDue(0, 1)' /\ ~TransferDue(1, 0) /\ ~TransferDue(1, 0)'
      /\ ~CorrectionDue(0, 1) /\ ~CorrectionDue(0, 1)'
      /\ ~CorrectionDue(1, 0) /\ ~CorrectionDue(1, 0)'
  BY <1>3, ControlType DEF TransferDue, CorrectionDue
<1>5. \A n : /\ ForkMail0(n)' = <<>> /\ ForkMail0(n) = <<>>
             /\ ForkMail1(n)' = <<>> /\ ForkMail1(n) = <<>>
  BY <1>4 DEF ForkMail0, ForkMail1
<1>6. /\ ~SigmaDue(0, 1) /\ ~SigmaDue(0, 1)' /\ ~SigmaDue(1, 0) /\ ~SigmaDue(1, 0)'
  BY <1>3 DEF SigmaDue, Party
<1>7. /\ p = 0 => ~DiffDue(0, 1)' /\ DiffDue(1, 0)' = DiffDue(1, 0)
      /\ p = 1 => ~DiffDue(1, 0)' /\ DiffDue(0, 1)' = DiffDue(0, 1)
  BY <1>3 DEF DiffDue
<1>8. CASE p = 0
  <2>1. /\ net'[0][0] = <<>> /\ net'[1][0] = net[1][0]
        /\ \A n \in 1 .. MaxDepth : net'[0][n] = net[0][n] /\ net'[1][n] = net[1][n]
    BY <1>1, <1>8, ControlType
  <2>2. SocketMail0' = <<>> /\ SocketMail1' = SocketMail1
    BY <1>2, <1>4, <1>6, <1>7, <1>8 DEF SocketMail0, SocketMail1
  <2>3. net'[0][0] = SocketMail0' /\ net'[1][0] = SocketMail1'
    BY <2>1, <2>2, ControlType DEF Mailed
  <2>4. ASSUME NEW n \in 1 .. MaxDepth
        PROVE  net'[0][n] = ForkMail0(n)' /\ net'[1][n] = ForkMail1(n)'
    BY <1>5, <2>1, ControlType DEF Mailed
  <2> QED
    BY <1>1, <2>3, <2>4 DEF Mailed
<1>9. CASE p = 1
  <2>1. /\ net'[1][0] = <<>> /\ net'[0][0] = net[0][0]
        /\ \A n \in 1 .. MaxDepth : net'[0][n] = net[0][n] /\ net'[1][n] = net[1][n]
    BY <1>1, <1>9, ControlType
  <2>2. SocketMail1' = <<>> /\ SocketMail0' = SocketMail0
    BY <1>2, <1>4, <1>6, <1>7, <1>9 DEF SocketMail0, SocketMail1
  <2>3. net'[0][0] = SocketMail0' /\ net'[1][0] = SocketMail1'
    BY <2>1, <2>2, ControlType DEF Mailed
  <2>4. ASSUME NEW n \in 1 .. MaxDepth
        PROVE  net'[0][n] = ForkMail0(n)' /\ net'[1][n] = ForkMail1(n)'
    BY <1>5, <2>1, ControlType DEF Mailed
  <2> QED
    BY <1>1, <2>3, <2>4 DEF Mailed
<1> QED
  BY <1>8, <1>9 DEF Party

\* Adding the correction of the leaves keeps the invariant.
LEMMA OutputStep ==
    ASSUME IInv, ~Trivial, NEW p \in Party, Output(p)
    PROVE  IInv'
<1>1. Inputs' /\ Trivial' = Trivial /\ Point' = Point /\ Leaf' = Leaf
  BY SameInputs, OutputKeeps DEF IInv
<1>2. TypeOK' /\ Control' /\ Families' /\ NetShape' /\ Mailed'
  BY OutputControl, OutputMail
<1>3. /\ stage'[p] = "done" /\ stage[p] = "diff" /\ stage[1 - p] \in {"diff", "done"}
      /\ \A q \in Party \ {p} : stage'[q] = stage[q] /\ output'[q] = output[q]
      /\ output'[p] = [x \in Leaf |-> Xor(MaskedBy(tags[p][x], Gamma(p)), leaves[p][x])]
  BY OutputKeeps, OutputFinds DEF IInv, TypeOK, Families
<1>4. /\ iter' = iter /\ strand' = strand /\ sigma' = sigma /\ mask' = mask /\ z' = z
      /\ leaves' = leaves /\ tags' = tags /\ values' = values
  BY OutputKeeps DEF tree, transferred, inputs
<1>5. \A q \in Party : q = p \/ q = 1 - p
  BY DEF Party
<1>6. /\ \A q : Drawn(q)' = Drawn(q) /\ Unmasked(q)' = Unmasked(q)
      /\ points' = points
  <2>1. points' = points /\ mBaseSendOts' = mBaseSendOts /\ mBaseChoice' = mBaseChoice
    BY OutputKeeps DEF inputs
  <2>2. \A q : Unmasked(q)' = Unmasked(q)
    BY <1>4, <2>1 DEF Unmasked, KeyOf, CorrectionOf
  <2> QED
    BY <1>4, <2>1, <2>2 DEF Drawn
<1>7. Masked /\ LeavesOnPath /\ Outputs
  BY DEF IInv, Tree
<1>8. Masked'
  BY <1>4, <1>6, <1>7 DEF Masked
<1>9. \A q \in Party : stage[q] \in {"diff", "done"} /\ stage'[q] \in {"diff", "done"}
  BY <1>3, <1>5
<1>10. Buffered' /\ Summed' /\ Levels'
  <2>1. ~Expanding'
    BY <1>9 DEF Expanding
  <2> QED
    BY <1>9, <2>1 DEF Buffered, Summed, Levels
<1>11. LeavesOnPath'
  <2>1. ~Expanding /\ 0 \in Party /\ 1 \in Party
    BY <1>9 DEF Expanding, Party
  <2>2. /\ LeafVals(0)' = LeafVals(0) /\ LeafVals(1)' = LeafVals(1)
        /\ LeafTags(0)' = LeafTags(0) /\ LeafTags(1)' = LeafTags(1)
    BY <1>4, <1>9, <2>1 DEF LeafVals, LeafTags
  <2> QED
    BY <1>1, <1>7, <2>1, <2>2 DEF LeavesOnPath
<1>12. Outputs'
  <2>1. \A q : Gamma(q)' = Gamma(q)
    BY <1>4 DEF Gamma, DiffOf
  <2>2. ASSUME NEW q \in Party, stage'[q] = "done"
        PROVE  output'[q] = [x \in Leaf |-> Xor(MaskedBy(tags[q][x], Gamma(q)), leaves[q][x])]
    <3>1. CASE q = p
      BY <1>3, <3>1
    <3>2. CASE q # p
      BY <1>3, <1>7, <2>2, <3>2 DEF Outputs
    <3> QED
      BY <3>1, <3>2
  <2>3. ASSUME NEW q \in Party, stage'[q] = "done"
        PROVE  output'[q] = [x \in Leaf' |-> Xor(MaskedBy(tags'[q][x], Gamma(q)'), leaves'[q][x])]
    BY <1>1, <1>4, <2>1, <2>2, <2>3
  <2> QED
    BY <2>3 DEF Outputs, MaskedBy
<1> QED
  BY <1>1, <1>2, <1>8, <1>10, <1>11, <1>12 DEF IInv, Tree

\* With one leaf a party is done at once.
LEMMA ExpandTriviallyStep ==
    ASSUME IInv, Trivial, NEW p \in Party, ExpandTrivially(p)
    PROVE  IInv'
<1>1. /\ Inputs' /\ Trivial' = Trivial /\ mDepth' = mDepth /\ Leaf' = Leaf /\ mDepth = 0
      /\ values' = values
  BY SameInputs, Depth DEF IInv, ExpandTrivially, inputs
<1>2. /\ output' = [output EXCEPT ![p] = [x \in Leaf |-> values[p]]]
      /\ tags' = [tags EXCEPT ![p] = [x \in Leaf |-> RootTag(p)]]
      /\ stage' = [stage EXCEPT ![p] = "done"]
      /\ UNCHANGED <<strand, tree, transferred, sigma, leaves, net>>
  BY DEF ExpandTrivially
<1>3. /\ output'[p] = [x \in Leaf |-> values[p]] /\ tags'[p] = [x \in Leaf |-> RootTag(p)]
      /\ \A q \in Party \ {p} : output'[q] = output[q] /\ tags'[q] = tags[q] /\ stage'[q] = stage[q]
      /\ stage'[p] = "done"
      /\ DOMAIN output' = Party /\ DOMAIN tags' = Party
  BY <1>2 DEF IInv, Families, TypeOK
<1>4. values[p] \in Block /\ RootTag(p) \in BOOLEAN
  BY DEF IInv, Inputs, RootTag
<1>5. TypeOK'
  <2>1. stage' \in [Party -> {"trivial", "transfer", "sigma", "diff", "done"}]
    BY <1>2 DEF IInv, TypeOK
  <2>2. /\ iter' = iter /\ strand' = strand /\ z' = z /\ mask' = mask /\ sigma' = sigma
        /\ recvBuffer' = recvBuffer /\ parentTags' = parentTags /\ seeds' = seeds
    BY <1>2 DEF tree, transferred
  <2>3. ASSUME NEW q \in Party
        PROVE  /\ stage'[q] \in {"diff", "done"} => tags'[q] \in [Leaf -> BOOLEAN]
               /\ stage'[q] = "done" => output'[q] \in [Leaf -> Block]
    <3>1. CASE q = p
      BY <1>3, <1>4, <3>1
    <3>2. CASE q # p
      BY <1>3, <3>2 DEF IInv, TypeOK
    <3> QED
      BY <3>1, <3>2
  <2> QED
    BY <1>1, <2>1, <2>2, <2>3 DEF IInv, TypeOK
<1>6. NetShape' /\ Families'
  BY <1>2, <1>3 DEF IInv, NetShape, Families, tree
<1>7. OneLeaf'
  <2>1. OneLeaf
    BY DEF IInv
  <2>2. ASSUME NEW q \in Party
        PROVE  /\ stage'[q] \in {"trivial", "done"}
               /\ stage'[q] = "done" =>
                    output'[q] = [x \in Leaf |-> values[q]] /\ tags'[q] = [x \in Leaf |-> RootTag(q)]
    <3>1. CASE q = p
      BY <1>3, <3>1
    <3>2. CASE q # p
      BY <1>3, <2>1, <3>2 DEF OneLeaf
    <3> QED
      BY <3>1, <3>2
  <2> QED
    BY <1>1, <2>2 DEF OneLeaf, RootTag
<1> QED
  BY <1>1, <1>5, <1>6, <1>7 DEF IInv

\* A step that changes nothing.
LEMMA StutterStep == ASSUME IInv, UNCHANGED vars PROVE IInv'
<1>1. /\ UNCHANGED <<inputs, stage, tree, sigma, result>>
      /\ strand' = strand /\ mask' = mask /\ recvBuffer' = recvBuffer /\ net' = net
  BY DEF vars, transferred
<1>2. /\ Inputs' /\ mDepth' = mDepth /\ Leaf' = Leaf /\ Point' = Point /\ Trivial' = Trivial
  BY <1>1, SameInputs DEF IInv
<1>3. /\ iter' = iter /\ stage' = stage /\ parentTags' = parentTags /\ seeds' = seeds
      /\ z' = z /\ sigma' = sigma /\ leaves' = leaves /\ tags' = tags /\ output' = output
      /\ values' = values /\ points' = points
      /\ mBaseSendOts' = mBaseSendOts /\ mBaseChoice' = mBaseChoice
  BY <1>1 DEF tree, result, inputs
<1>4. TypeOK' /\ NetShape' /\ Families'
  BY <1>1, <1>2, <1>3 DEF IInv, TypeOK, NetShape, Families
<1>5. ASSUME Trivial PROVE OneLeaf'
  BY <1>2, <1>3, <1>5 DEF IInv, OneLeaf, RootTag
<1>6. ASSUME ~Trivial PROVE Tree'
  <2>1. Levels' /\ LeavesOnPath' /\ Outputs'
    BY <1>1, <1>6, SameTree
  <2>2. Control'
    BY <1>1, <1>2, <1>3, <1>6 DEF IInv, Tree, Control, Apart, Ahead, Ready
  <2>3. /\ \A q : Unmasked(q)' = Unmasked(q) /\ Drawn(q)' = Drawn(q)
        /\ \A q : TransferOf(q)' = TransferOf(q)
    <3>1. \A q : Unmasked(q)' = Unmasked(q)
      BY <1>3 DEF Unmasked, KeyOf, CorrectionOf
    <3>2. \A q : Drawn(q)' = Drawn(q)
      BY <1>1, <1>3, <3>1 DEF Drawn
    <3>3. ASSUME NEW q PROVE TransferOf(q)' = TransferOf(q)
      <4>1. Drawn(q)' = Drawn(q)
        BY <3>2
      <4> QED
        BY <1>1, <1>3, <4>1 DEF TransferOf, KeyOf, CorrectionOf
    <3> QED
      BY <3>1, <3>2, <3>3
  <2>4. Masked'
    BY <1>1, <1>3, <1>6, <2>3 DEF IInv, Tree, Masked
  <2>5. Buffered'
    BY <1>1, <1>3, <1>6, <2>3 DEF IInv, Tree, Buffered
  <2>6. Summed'
    BY <1>1, <1>2, <1>3, <1>6, <2>3 DEF IInv, Tree, Summed
  <2>7. Mailed'
    <3>1. /\ CorrectionMsg(0)' = CorrectionMsg(0) /\ CorrectionMsg(1)' = CorrectionMsg(1)
          /\ SigmaMsg(0)' = SigmaMsg(0) /\ SigmaMsg(1)' = SigmaMsg(1)
          /\ DiffMsg(0)' = DiffMsg(0) /\ DiffMsg(1)' = DiffMsg(1)
      BY <1>3 DEF CorrectionMsg, CorrectionOf, SigmaMsg, DiffMsg, DiffOf
    <3>2. TransferMsg(0)' = TransferMsg(0) /\ TransferMsg(1)' = TransferMsg(1)
      BY <2>3 DEF TransferMsg
    <3>3. \A n : ForkMail0(n)' = ForkMail0(n) /\ ForkMail1(n)' = ForkMail1(n)
      BY <1>1, <1>3, <3>1, <3>2 DEF ForkMail0, ForkMail1, TransferDue, CorrectionDue
    <3>4. SocketMail0' = SocketMail0 /\ SocketMail1' = SocketMail1
      BY <1>1, <1>3, <3>1, <3>2
         DEF SocketMail0, SocketMail1, CorrectionDue, TransferDue, SigmaDue, DiffDue
    <3> QED
      BY <1>1, <1>6, <3>3, <3>4 DEF IInv, Tree, Mailed
  <2> QED
    BY <2>1, <2>2, <2>4, <2>5, <2>6, <2>7 DEF Tree
<1> QED
  BY <1>2, <1>4, <1>5, <1>6 DEF IInv

\* No step breaks the invariant.
LEMMA NextIInv == IInv /\ [Next]_vars => IInv'
<1> SUFFICES ASSUME IInv, [Next]_vars PROVE IInv'
  OBVIOUS
<1>1. CASE UNCHANGED vars
  BY <1>1, StutterStep
<1>2. CASE Joined
  BY <1>2, StutterStep DEF Joined
<1>3. ASSUME NEW p \in Party, Step(p) PROVE IInv'
  <2>1. CASE Trivial
    <3>1. stage[p] \in {"trivial", "done"}
      BY <2>1 DEF IInv, OneLeaf
    <3>2. ExpandTrivially(p)
      <4>1. ~SendCorrection(p)
        BY <3>1, Zenon DEF SendCorrection
      <4>2. ~Transfer(p)
        BY <3>1, Zenon DEF Transfer
      <4>3. ~ReceiveTransfer(p) /\ ~SendSigma(p)
        BY <3>1, Zenon DEF ReceiveTransfer, SendSigma
      <4>4. ~ExpandLevel(p) /\ ~ExpandLeaves(p) /\ ~Output(p)
        BY <3>1, Zenon DEF ExpandLevel, ExpandLeaves, Output
      <4> QED
        BY <1>3, <4>1, <4>2, <4>3, <4>4 DEF Step
    <3> QED
      BY <2>1, <3>2, ExpandTriviallyStep
  <2>2. CASE ~Trivial
    <3>1. ~ExpandTrivially(p)
      <4>1. stage[p] # "trivial"
        BY <2>2, ControlType DEF Party
      <4> QED
        BY <4>1 DEF ExpandTrivially
    <3> QED
      BY <1>3, <2>2, <3>1, SendCorrectionStep, TransferStep, ReceiveTransferStep, SendSigmaStep,
         ExpandLevelStep, ExpandLeavesStep, OutputStep DEF Step
  <2> QED
    BY <2>1, <2>2
<1> QED
  BY <1>1, <1>2, <1>3 DEF Next

\* It holds in every state of every behaviour.
LEMMA Invariance == Spec => []IInv
BY InitIInv, NextIInv, PTL DEF Spec

-----------------------------------------------------------------------------
(* What the invariant says                                                 *)

\* Messages carry no kind that the code looks at, but every receive finds what it expects.
LEMMA IInvMatched == IInv => Matched
<1> SUFFICES ASSUME IInv, NEW p \in Party
             PROVE  /\ stage[p] = "transfer" /\ strand[p].sender = "recv"
                         /\ Arrived(p, Channel(p, "sender")) =>
                           Head(net[p][Channel(p, "sender")]).kind = "correction"
                    /\ stage[p] = "transfer" /\ strand[p].recver = "recv"
                         /\ Arrived(p, Channel(p, "recver")) =>
                           Head(net[p][Channel(p, "recver")]).kind = "transfer"
                    /\ stage[p] = "sigma" /\ Arrived(p, 0) => Head(net[p][0]).kind = "sigma"
                    /\ stage[p] = "diff" /\ Arrived(p, 0) => Head(net[p][0]).kind = "diff"
  BY DEF Matched
<1>1. CASE Trivial
  BY <1>1 DEF IInv, OneLeaf
<1>2. CASE ~Trivial
  BY <1>2, CorrectionArrives, TransferArrives, ShareArrives, DiffArrives
<1> QED
  BY <1>1, <1>2

\* On a level on which both are, what they hold is on the path.
LEMMA IInvOneActivePath == IInv => OneActivePath
<1> DEFINE n == iter[0]
           Active(x) == \A i \in 1 .. n - 1 : x[i] = Point[i]
<1> SUFFICES ASSUME IInv, iter[0] = iter[1], \A p \in Party : stage[p] \in {"transfer", "sigma"}
             PROVE  /\ \A x \in Node(n - 1) : (parentTags[0][x] # parentTags[1][x]) <=> Active(x)
                    /\ \A y \in Node(n) : ~Active(y) => seeds[0][y] = seeds[1][y]
  BY DEF OneActivePath
<1>1. ~Trivial
  BY DEF IInv, OneLeaf, Party
<1>2. n \in Nat \ {0} /\ iter[1] \in Nat
  BY <1>1, ControlType
<1>3. OnPath(n, parentTags[0], parentTags[1], seeds[0], seeds[1], z[0], z[1])
  <2>1. Levels /\ Expanding
    BY <1>1 DEF IInv, Tree, Expanding
  <2>2. ~Behind(0) /\ ~Behind(1)
    BY <1>2 DEF Behind
  <2> QED
    BY <2>1, <2>2 DEF Levels, LevelTags, LevelSeeds, LevelSums, Level
<1>4. ASSUME NEW x \in Node(n - 1) PROVE x = Prefix(n - 1) <=> Active(x)
  BY DEF Node, Prefix
<1>5. ASSUME NEW y \in Node(n), ~Active(y) PROVE Parent(y, n) # Prefix(n - 1)
  BY <1>5 DEF Parent, Prefix
<1> HIDE DEF Active
<1> QED
  BY <1>3, <1>4, <1>5 DEF OnPath

\* The two corrections of the leaves are the same block, and at the point it makes up for
\* what the leaves of the two parties differ by.
LEMMA GammaAlgebra ==
    ASSUME NEW v0, NEW v1, NEW s0, NEW s1, NEW l0, NEW l1, Xor(s0, s1) = Xor(l0, l1)
    PROVE  /\ Xor(Xor(Xor(Xor(v1, s1), s0), v0), Xor(l0, l1)) = Xor(v0, v1)
           /\ Xor(Xor(Xor(v0, s0), s1), v1) = Xor(Xor(Xor(v1, s1), s0), v0)
<1>1. Xor(Xor(Xor(Xor(v1, s1), s0), v0), Xor(s0, s1)) = Xor(v0, v1)
  BY DEF Xor
<1>2. Xor(Xor(Xor(v0, s0), s1), v1) = Xor(Xor(Xor(v1, s1), s0), v0)
  BY DEF Xor
<1> QED
  BY <1>1, <1>2

\* The two corrections of the leaves are always the same block.
LEMMA SameGamma ==
    ASSUME NEW v0, NEW v1, NEW s0, NEW s1
    PROVE  Xor(Xor(Xor(v0, s0), s1), v1) = Xor(Xor(Xor(v1, s1), s0), v0)
BY DEF Xor

\* Where the control bits differ, exactly one party adds the correction.
LEMMA OneCorrects ==
    ASSUME NEW g, NEW l0, NEW l1, NEW t0 \in BOOLEAN, NEW t1 \in BOOLEAN
    PROVE  t0 # t1 => Xor(Xor(MaskedBy(t0, g), l0), Xor(MaskedBy(t1, g), l1)) = Xor(g, Xor(l0, l1))
<1>1. CASE t0
  BY <1>1 DEF MaskedBy, Xor, Zero
<1>2. CASE ~t0
  BY <1>2 DEF MaskedBy, Xor, Zero
<1> QED
  BY <1>1, <1>2

\* When both are done their outputs share the value at the point.
LEMMA IInvSharesPoint == IInv => SharesPoint
<1> SUFFICES ASSUME IInv, BothDone, NEW x \in Leaf
             PROVE  /\ Xor(output[0][x], output[1][x])
                         = IF x = Point THEN Xor(values[0], values[1]) ELSE Zero
                    /\ (tags[0][x] # tags[1][x]) <=> x = Point
  BY DEF SharesPoint
<1>1. 0 \in Party /\ 1 \in Party /\ stage[0] = "done" /\ stage[1] = "done"
  BY DEF BothDone, Party
<1>2. CASE Trivial
  <2>1. mDepth = 0
    BY <1>2, Depth DEF IInv
  <2>2. x = Point
    <3>1. x \in Node(0) /\ Point \in Node(0)
      BY <2>1, LeavesAreNodes, PointType DEF IInv
    <3> QED
      BY <3>1, Root
  <2>3. /\ output[0][x] = values[0] /\ output[1][x] = values[1]
        /\ tags[0][x] = RootTag(0) /\ tags[1][x] = RootTag(1)
    <3>1. OneLeaf
      BY <1>2 DEF IInv
    <3>2. /\ output[0] = [y \in Leaf |-> values[0]] /\ tags[0] = [y \in Leaf |-> RootTag(0)]
          /\ output[1] = [y \in Leaf |-> values[1]] /\ tags[1] = [y \in Leaf |-> RootTag(1)]
      BY <1>1, <3>1, Zenon DEF OneLeaf
    <3> QED
      BY <3>2
  <2> QED
    BY <2>2, <2>3 DEF RootTag
<1>3. CASE ~Trivial
  <2> DEFINE g == Xor(Xor(Xor(values[1], XorAll(leaves[1])), XorAll(leaves[0])), values[0])
  <2>1. /\ leaves[0] \in [Leaf -> Block] /\ leaves[1] \in [Leaf -> Block]
        /\ tags[0] \in [Leaf -> BOOLEAN] /\ tags[1] \in [Leaf -> BOOLEAN]
    BY <1>1, <1>3, ControlType DEF IInv, TypeOK
  <2>2. /\ output[0][x] = Xor(MaskedBy(tags[0][x], Gamma(0)), leaves[0][x])
        /\ output[1][x] = Xor(MaskedBy(tags[1][x], Gamma(1)), leaves[1][x])
    BY <1>1, <1>3 DEF IInv, Tree, Outputs
  <2>3. Gamma(0) = g /\ Gamma(1) = g
    <3>1. Gamma(0) = g
      BY DEF Gamma, DiffOf
    <3>2. Gamma(1) = Xor(Xor(Xor(values[0], XorAll(leaves[0])), XorAll(leaves[1])), values[1])
      BY DEF Gamma, DiffOf
    <3> QED
      BY <3>1, <3>2, SameGamma
  <2>4. \A y \in Leaf : /\ (tags[0][y] # tags[1][y]) <=> y = Point
                        /\ y # Point => leaves[0][y] = leaves[1][y]
    <3>1. LeavesOnPath /\ ~Expanding
      BY <1>1, <1>3 DEF IInv, Tree, Expanding
    <3> QED
      BY <1>1, <3>1 DEF LeavesOnPath, LeafTags, LeafVals
  <2>5. tags[0][x] \in BOOLEAN /\ tags[1][x] \in BOOLEAN
    BY <2>1
  <2>6. CASE x = Point
    <3>1. Xor(XorAll(leaves[0]), XorAll(leaves[1])) = Xor(leaves[0][x], leaves[1][x])
      <4>1. IsFiniteSet(Leaf)
        <5>1. IsFiniteSet(Node(mDepth))
          BY Depth, NodesFinite DEF IInv
        <5> QED
          BY <5>1, LeavesAreNodes, FS_Subset
      <4>2. \A y \in Leaf \ {x} : leaves[0][y] = leaves[1][y]
        BY <2>4, <2>6
      <4> QED
        BY <2>1, <4>1, <4>2, XorAllDiffer
    <3>2. Xor(g, Xor(leaves[0][x], leaves[1][x])) = Xor(values[0], values[1])
      BY <3>1, GammaAlgebra
    <3>3. tags[0][x] # tags[1][x]
      BY <2>4, <2>6
    <3> HIDE DEF g
    <3>4. Xor(output[0][x], output[1][x]) = Xor(g, Xor(leaves[0][x], leaves[1][x]))
      BY <2>2, <2>3, <2>5, <3>3, OneCorrects
    <3> QED
      BY <2>6, <3>2, <3>3, <3>4
  <2>7. CASE x # Point
    <3>1. tags[0][x] = tags[1][x] /\ leaves[0][x] = leaves[1][x]
      BY <2>4, <2>7
    <3> HIDE DEF g
    <3>2. output[0][x] = output[1][x]
      BY <2>2, <2>3, <3>1, Zenon
    <3>3. Xor(output[0][x], output[1][x]) = Zero
      BY <3>2 DEF Xor, Zero
    <3> QED
      BY <2>7, <3>1, <3>3
  <2> QED
    BY <2>6, <2>7
<1> QED
  BY <1>2, <1>3

-----------------------------------------------------------------------------
(* Theorems                                                                *)

\* The state of the two parties is typed: a party that has a level has its control bits and
\* seeds, one that is past the last level has its leaves.
THEOREM TypeCorrect == Spec => []TypeOK
<1>1. IInv => TypeOK
  BY DEF IInv
<1> QED
  BY <1>1, Invariance, PTL

\* What a coroutine receives is always the message that it expects: the correction words,
\* shares and differences of the two parties share a socket and its forks without being
\* mistaken for each other.
THEOREM NothingIsMistaken == Spec => []Matched
BY IInvMatched, Invariance, PTL

\* On every level the control bits of the parties differ at one node, that on the way to the
\* point, and below other nodes they hold the same seeds.
THEOREM PathStaysSingle == Spec => []OneActivePath
BY IInvOneActivePath, Invariance, PTL

\* The outputs share the point function.
THEOREM PointIsShared == Spec => []SharesPoint
BY IInvSharesPoint, Invariance, PTL
=============================================================================
