--------------------------- MODULE ExtensionFieldOle ---------------------------
(***************************************************************************)
(* Extension_Field_OLE(depth, block_length, c) and the dpf() it calls: two  *)
(* parties turn sparse polynomials into shares of the product of the sums   *)
(* of a[k] * s[k].  For each pair of polynomials a DPF shares the product   *)
(* of every two of their terms, each party adds up what it gets, and        *)
(* transforms and weighs the sums at the end.                               *)
(* Extension_Field_OLE(depth, block_length) is the same with two            *)
(* polynomials, s and e, of which the second has the factor one.            *)
(*                                                                         *)
(* A polynomial has one term in each block of 3^(depth - block_length)      *)
(* positions: the high digits of a position are its block.  What a DPF puts *)
(* out is what TernaryDpf shows of it: shares of a point function.          *)
(***************************************************************************)
EXTENDS FoleageFft

CONSTANTS
    BlockLength,    \* block_length: digits of a block's number
    NumPolys,       \* c: polynomials of a party
    Polys,          \* the polynomials that the PRNG may give the two parties
    Factors,        \* the public polynomials a, by their values
    Outputs         \* what the DPF of party 0 may put out

Party == {0, 1}
High == NumVars - BlockLength + 1 .. NumVars
Block3 == [High -> 0 .. 2]
Domain == [Vars \ High -> 0 .. 2]
Tree == Block3 \X Block3
Term == [at : Domain, coeff : Block]
Index == 0 .. NumPolys - 1
Cross == 0 .. NumPolys * NumPolys - 1

ASSUME OleAssumption ==
    /\ BlockLength \in 1 .. NumVars - 1
    /\ NumPolys \in Nat \ {0}
    /\ Polys \subseteq [Party -> [Index -> [Block3 -> Term]]]
    /\ Factors \subseteq [Index -> Coeffs]
    /\ Outputs \subseteq [Tree -> [Domain -> Block]]

VARIABLES
    poly,       \* per party: the points and coefficients of its polynomials
    factor,     \* a
    s,          \* per party: s0, s1, transformed in place
    cross,      \* per party: cross_termA, cross_termB, transformed in place
    running,    \* the call of dpf() that is running, NumPolys * NumPolys after the last one
    output,     \* per party: what the DPF has put out
    thread,     \* per party: what its thread does
    additive,   \* per party: additive0, additive1
    ole         \* per party: ole0, ole1

oleInputs == <<poly, factor>>
oleVars == <<oleInputs, s, cross, running, output, thread, additive, ole>>

Nothing == <<>>

\* F3x32 addition, digit by digit.
Sum(x, y) == [k \in DOMAIN x |-> (x[k] + y[k]) % 3]

Restricted(i, K) == [k \in K |-> i[k]]

\* A polynomial with all its coefficients.
Dense(p, k) ==
    [i \in Position |->
        LET term == poly[p][k][Restricted(i, High)]
        IN  IF Restricted(i, Vars \ High) = term.at THEN term.coeff ELSE Zero]

OleInit ==
    /\ poly \in Polys
    /\ factor \in Factors
    /\ s = [p \in Party |-> [k \in Index |-> Dense(p, k)]]
    /\ cross = [p \in Party |-> [j \in Cross |-> ZeroCoeffs]]
    /\ running = 0
    /\ output = [p \in Party |-> Nothing]
    /\ thread = [p \in Party |-> "expand"]
    /\ additive = [p \in Party |-> ZeroCoeffs]
    /\ ole = [p \in Party |-> ZeroCoeffs]

-----------------------------------------------------------------------------
(* dpf()                                                                   *)

\* The polynomials that the call is for.
First == running \div NumPolys
Second == running % NumPolys

\* The point and the value of a tree: the parties share the point digit by digit, and
\* generate_additive_sharing shares the product of the coefficients.
PointOf(x) == Sum(poly[0][First][x[1]].at, poly[1][Second][x[2]].at)
ValueOf(x) == F4_mul(poly[0][First][x[1]].coeff, poly[1][Second][x[2]].coeff)

\* The threads of both parties expand: their outputs share the point function.
Expand ==
    /\ thread = [p \in Party |-> "expand"]
    /\ running < NumPolys * NumPolys
    /\ \E first \in Outputs :
          output' = [p \in Party |->
              IF p = 0 THEN first
              ELSE [x \in Tree |-> [y \in Domain |->
                        Xor(first[x][y], IF y = PointOf(x) THEN ValueOf(x) ELSE Zero)]]]
    /\ thread' = [p \in Party |-> "add"]
    /\ UNCHANGED <<oleInputs, s, cross, running, additive, ole>>

\* A block's number, its lowest digit first.
Number(x) ==
    LET upTo[k \in NumVars - BlockLength .. NumVars] ==
            IF k = NumVars - BlockLength THEN 0
            ELSE upTo[k - 1] + x[k] * 3 ^ (k - NumVars + BlockLength - 1)
    IN  upTo[NumVars]

\* As if the numbers of the blocks were added, and not their digits.
BlockOfCarried(x) ==
    CHOOSE b \in Block3 : Number(b) = (Number(x[1]) + Number(x[2])) % (3 ^ BlockLength)

\* The block to which a tree's output is added.
BlockOf(x) == Sum(x[1], x[2])

\* A thread adds the outputs of all trees to its cross term.
Add(p) ==
    /\ thread[p] = "add"
    /\ LET sums == [b \in Block3 |-> {x \in Tree : BlockOf(x) = b}]
       IN  cross' = [cross EXCEPT ![p][running] = [i \in Position |->
               Xor(@[i], XorAll([x \in sums[Restricted(i, High)] |->
                                    output[p][x][Restricted(i, Vars \ High)]]))]]
    /\ thread' = [thread EXCEPT ![p] = "added"]
    /\ UNCHANGED <<oleInputs, s, running, output, additive, ole>>

\* Both threads are joined: the next pair of polynomials, or the two threads that
\* transform and combine.
Join ==
    /\ thread = [p \in Party |-> "added"]
    /\ running' = running + 1
    /\ output' = [p \in Party |-> Nothing]
    /\ thread' = [p \in Party |-> IF running + 1 < NumPolys * NumPolys THEN "expand" ELSE "transform"]
    /\ UNCHANGED <<oleInputs, s, cross, additive, ole>>

-----------------------------------------------------------------------------
(* The end of Extension_Field_OLE                                          *)

foleageFft(x) ==
    LET after[k \in 0 .. NumVars] == IF k = 0 THEN x ELSE Pass(k, after[k - 1])
    IN  after[NumVars]

\* A thread transforms its cross terms and its polynomials, in place.
Transform(p) ==
    /\ thread[p] = "transform"
    /\ cross' = [cross EXCEPT ![p] = [j \in Cross |-> foleageFft(@[j])]]
    /\ s' = [s EXCEPT ![p] = [k \in Index |-> foleageFft(@[k])]]
    /\ thread' = [thread EXCEPT ![p] = "combine"]
    /\ UNCHANGED <<oleInputs, running, output, additive, ole>>

\* As if the factor of a cross term were the square of the first polynomial's.
a_crossSquared(j, i) == F4_mul(factor[j \div NumPolys][i], factor[j \div NumPolys][i])

\* a_cross
a_cross(j, i) == F4_mul(factor[j \div NumPolys][i], factor[j % NumPolys][i])

Combine(p) ==
    /\ thread[p] = "combine"
    /\ additive' = [additive EXCEPT ![p] = [i \in Position |->
           XorAll([j \in Cross |-> F4_mul(a_cross(j, i), cross[p][j][i])])]]
    /\ ole' = [ole EXCEPT ![p] = [i \in Position |->
           XorAll([k \in Index |-> F4_mul(factor[k][i], s[p][k][i])])]]
    /\ thread' = [thread EXCEPT ![p] = "combined"]
    /\ UNCHANGED <<oleInputs, s, cross, running, output>>

Combined == thread = [p \in Party |-> "combined"]

OleDone == Combined /\ UNCHANGED oleVars

OleNext ==
    \/ Expand
    \/ \E p \in Party : Add(p) \/ Transform(p) \/ Combine(p)
    \/ Join
    \/ OleDone

OleSpec == OleInit /\ [][OleNext]_oleVars

-----------------------------------------------------------------------------
(* Properties                                                              *)

\* The product of two polynomials whose exponents are added digit by digit.
Product(f, g) ==
    LET Support(h) == {i \in Position : h[i] # Zero}
    IN  [i \in Position |->
            XorAll([x \in {y \in Support(f) \X Support(g) : Sum(y[1], y[2]) = i} |->
                       F4_mul(f[x[1]], g[x[2]])])]

Untransformed == \A p \in Party : thread[p] \notin {"combine", "combined"}

\* Each call of dpf() leaves the parties with shares of the product of its two
\* polynomials: a product of terms goes to the block that is the sum of theirs, whatever
\* their points add up to within it.
CrossTermsShared ==
    \A j \in Cross :
        j < running /\ Untransformed =>
            LET product == Product(Dense(0, j \div NumPolys), Dense(1, j % NumPolys))
            IN  \A i \in Position : Xor(cross[0][j][i], cross[1][j][i]) = product[i]

\* What the program compares at the end: the parties' shares add up to the product of
\* their values, although each has transformed shares of all cross terms on its own, and
\* the comparison finds it in every instance.
OleHolds ==
    Combined => \A i \in Position :
        Xor(additive[0][i], additive[1][i]) = F4_mul(ole[0][i], ole[1][i])
=============================================================================
