------------------------- MODULE MCSilentWalshVole -------------------------
(***************************************************************************)
(* The sequences of calls SilentWalshVole is checked with.  768 = 64 * 12  *)
(* is 3^6 as VOLE_QASD pads it.                                            *)
(***************************************************************************)
EXTENDS SilentWalshVoleSync

Made(type, req, n, pregen) ==
    [type |-> type, req |-> req, n |-> n, pregen |-> pregen,
     mal |-> FALSE, debug |-> FALSE, block |-> FALSE, lossy |-> FALSE]
Auto(n) == Made("auto", 0, n, FALSE)
With(type, req, n) == Made(type, req, n, FALSE)
Pregenerated(type, n) == Made(type, n, n, TRUE)
Checked(c) == [c EXCEPT !.mal = TRUE, !.debug = TRUE, !.block = TRUE]
Malicious(c) == [c EXCEPT !.mal = TRUE]
Lossy(c) == [c EXCEPT !.lossy = TRUE]

\* Every way to reach a first and a second call.
CallKinds ==
    {Auto(768), With("BaseExtend", 768, 700), With("Base", 768, 768),
     Pregenerated("BaseExtend", 768), Pregenerated("Base", 768)}

\* Requests the code refuses: a tree with an odd number of leaves, a length that
\* is not a multiple of the trees, more than was configured.
Refused ==
    {Auto(448), With("BaseExtend", 448, 448), Auto(140), With("BaseExtend", 768, 896)}

\* Any two calls, or a call and a request that is refused, one of which is the malicious
\* mode for a coefficient type without it, over a connection that may be lost.
LossyPlans ==
    {<<Lossy(c), d>> : c, d \in CallKinds}
    \cup {<<Lossy(Auto(768)), c>> : c \in Refused \cup {Malicious(k) : k \in CallKinds}}

\* The calls of VOLE_QASD, for the lengths whose trees have an even number of
\* leaves: 3^4, 3^5, 3^6 and 3^9.
QasdPlan(k) == <<Auto(Padded(3^k)), Auto(Padded(3^k))>>
QasdPlans == {QasdPlan(k) : k \in {4, 5, 6, 9}}

\* The same, and two calls of any kind with the checks of mDebug and of the
\* malicious mode.
CheckedPlans ==
    QasdPlans \cup {<<Checked(Auto(768)), Checked(c)>> : c \in CallKinds}

CallPlans == LossyPlans \cup CheckedPlans

\* The lengths --QA_VOLE is documented for, from 3^4 to the largest whose encoding
\* TLC can compute.
BenchmarkPlans == {QasdPlan(k) : k \in 4 .. MaxNumVar}
=============================================================================
