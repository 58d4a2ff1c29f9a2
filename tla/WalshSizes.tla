----------------------------- MODULE WalshSizes -----------------------------
(***************************************************************************)
(* The sizes a silent Walsh VOLE instance derives from a request:          *)
(* configure(), the PPRF's own configure() and validateExpandFormat(), and *)
(* the length the Walsh encoding rounds the noisy vector to.               *)
(***************************************************************************)
EXTENDS Naturals

CONSTANT NumPartitions      \* mNumPartitions, 64 in both parties

ASSUME NumPartitionsAssumption == NumPartitions \in Nat \ {0}

\* mSizePer: integer division, the remainder is dropped.
SizePer(req) == req \div NumPartitions

\* As if an odd number of leaves were accepted.
ConfigurableOdd(req) == SizePer(req) >= 2

\* RegularPprf{Sender,Receiver}::configure throws on an odd domain and on one
\* below 2.
Configurable(req) == SizePer(req) % 2 = 0 /\ SizePer(req) >= 2

\* validateExpandFormat: the noisy vector is exactly the trees' leaves.
FitsTrees(req, domain) == req = domain * NumPartitions

-----------------------------------------------------------------------------
(* The largest number of variables considered: 3 * 3^(2 * MaxNumVar) is the *)
(* largest power of three below TLC's 2^31.                                 *)
MaxNumVar == 9

\* As if the logarithm were rounded up.
NumVarUp(size) ==
    CHOOSE k \in 0 .. MaxNumVar + 1 : size <= 3^k /\ (k = 0 \/ 3^(k - 1) < size)

\* round(log2(size) / log2(3)), in integers: k is the nearest integer to
\* log3(size) exactly when 3^(k - 1/2) <= size < 3^(k + 1/2).
NumVar(size) ==
    CHOOSE k \in 0 .. MaxNumVar :
        /\ 3^(2 * k) <= 3 * size * size
        /\ size * size < 3 * 3^(2 * k)

\* The length of mA, mB and mC while they are encoded.
NumSize(size) == 3^NumVar(size)

\* The encoding makes the vectors longer: it reads memory that resize() has
\* not initialised.
Grows(size) == NumSize(size) > size

\* VOLE_QASD pads an odd number of correlations to a multiple of 64.
Padded(n) == IF n % 2 = 1 THEN n + (64 - (n % 64)) ELSE n
=============================================================================
