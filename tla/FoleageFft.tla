------------------------------ MODULE FoleageFft ------------------------------
(***************************************************************************)
(* foleageFft and inv_foleageFft: the multivariate transform over F4 of     *)
(* 3^NumVars blocks, in place.                                              *)
(*                                                                         *)
(* A position is the function of its ternary digits: digit k has weight     *)
(* 3^(k-1).  The call for k variables first transforms its three thirds,    *)
(* then joins them with a loop over num_coeffs = 3^(k-1) positions, so the  *)
(* loops at one depth of the recursion, which touch different thirds, join  *)
(* all positions that differ in digit k: one pass, and the passes are done  *)
(* for k = 1, 2, ..., NumVars in both directions.                           *)
(***************************************************************************)
EXTENDS BlockF4

CONSTANT NumVars

ASSUME NumVarsAssumption == NumVars \in Nat \ {0}

Vars == 1 .. NumVars
Position == [Vars -> 0 .. 2]
Coeffs == [Position -> Block]
ZeroCoeffs == [i \in Position |-> Zero]

\* As if the forward transform stored the values the way the inverse does.
ButterflySwapped(L, M, R) ==
    LET mult == TimesOmega(Xor(M, R))
    IN  [z \in 0 .. 2 |-> IF z = 0 THEN Xor(Xor(L, M), R)
                          ELSE IF z = 1 THEN Xor(Xor(L, M), mult)
                          ELSE Xor(Xor(L, R), mult)]

\* L, M and R after the loop body, as they are stored: the inverse stores the
\* values of the second and the third point the other way round.
Butterfly(L, M, R) ==
    LET mult == TimesOmega(Xor(M, R))
    IN  [z \in 0 .. 2 |-> IF z = 0 THEN Xor(Xor(L, M), R)
                          ELSE IF z = 1 THEN Xor(Xor(L, R), mult)
                          ELSE Xor(Xor(L, M), mult)]

\* As if the inverse stored them as the forward transform does.
inv_ButterflyUnswapped(L, M, R) == Butterfly(L, M, R)

inv_Butterfly(L, M, R) ==
    LET mult == TimesOmega(Xor(M, R))
    IN  [z \in 0 .. 2 |-> IF z = 0 THEN Xor(Xor(L, M), R)
                          ELSE IF z = 1 THEN Xor(Xor(L, M), mult)
                          ELSE Xor(Xor(L, R), mult)]

\* The loops of the calls for k variables.
Pass(k, c) ==
    [i \in Position |->
        Butterfly(c[[i EXCEPT ![k] = 0]], c[[i EXCEPT ![k] = 1]],
                  c[[i EXCEPT ![k] = 2]])[i[k]]]

inv_Pass(k, c) ==
    [i \in Position |->
        inv_Butterfly(c[[i EXCEPT ![k] = 0]], c[[i EXCEPT ![k] = 1]],
                      c[[i EXCEPT ![k] = 2]])[i[k]]]

-----------------------------------------------------------------------------
(* Reference definitions                                                   *)

OmegaPower(n, x) ==
    IF n = 0 THEN x ELSE IF n = 1 THEN TimesOmega(x) ELSE TimesOmega(TimesOmega(x))

\* The sum of the products of the digits of two positions, modulo 3.
Exponent(i, e) ==
    LET At(n) == {k \in Vars : (i[k] * e[k]) % 3 = n}
    IN  (Cardinality(At(1)) + 2 * Cardinality(At(2))) % 3

\* The value of the polynomial with coefficients c at the point whose k-th coordinate
\* is omega to the k-th digit of i.
Evaluate(c, i) == XorAll([e \in Position |-> OmegaPower(Exponent(i, e), c[e])])
=============================================================================
