-------------------------------- MODULE QaCode --------------------------------
(***************************************************************************)
(* QA_encode_test_PCS: the quasi-abelian code of rate 1/2.  The codeword is *)
(* the message next to its product with a polynomial given by its values:   *)
(* transform the message in place, multiply the values and transform back.  *)
(***************************************************************************)
EXTENDS PublicVector

CONSTANT Messages   \* the messages drawn from the PRNG

ASSUME MessagesAssumption == Messages \subseteq Coeffs

VARIABLES
    message,        \* the message before anything is done to it
    msg,            \* msg, transformed in place
    coded,          \* the first half of codeword
    systematic,     \* the second half of codeword
    stage,          \* the call that is running
    pass            \* the passes it has done

codeVars == <<message, msg, a, coded, systematic, stage, pass>>

CodeInit ==
    /\ message \in Messages
    /\ msg = message
    /\ a \in Values
    /\ coded = ZeroCoeffs
    /\ systematic = ZeroCoeffs
    /\ stage = "copy"
    /\ pass = 0

\* ctx.copy(msg, codeword + n)
Copy ==
    /\ stage = "copy"
    /\ systematic' = msg
    /\ stage' = "forward"
    /\ UNCHANGED <<message, msg, a, coded, pass>>

\* foleageFft(msg)
Forward ==
    /\ stage = "forward"
    /\ pass < NumVars
    /\ msg' = Pass(pass + 1, msg)
    /\ pass' = pass + 1
    /\ UNCHANGED <<message, a, coded, systematic, stage>>

\* ctx.mul of every value
Multiply ==
    /\ stage = "forward"
    /\ pass = NumVars
    /\ coded' = [i \in Position |-> F4_mul(a[i], msg[i])]
    /\ stage' = "inverse"
    /\ pass' = 0
    /\ UNCHANGED <<message, msg, a, systematic>>

\* inv_foleageFft(codeword)
Backward ==
    /\ stage = "inverse"
    /\ pass < NumVars
    /\ coded' = inv_Pass(pass + 1, coded)
    /\ pass' = pass + 1
    /\ UNCHANGED <<message, msg, a, systematic, stage>>

Encoded == stage = "inverse" /\ pass = NumVars

CodeDone == Encoded /\ UNCHANGED codeVars

CodeNext == Copy \/ Forward \/ Multiply \/ Backward \/ CodeDone

CodeSpec == CodeInit /\ [][CodeNext]_codeVars

-----------------------------------------------------------------------------
(* Reference definitions.                                                  *)

\* alpha * x: alpha^2 is alpha + 1.
TimesAlpha(x) ==
    interleave(even_bit_extraction(x), Xor(odd_bit_extraction(x), even_bit_extraction(x)))

\* The product of two blocks before reduction, bit by bit.
BitProduct(b, d) ==
    LET term == {<<b[1] + d[1], d[2]>>}
    IN  IF b[2] = "l" THEN term ELSE TimesAlpha(term)

BlockProduct(x, y) == XorAll([p \in x \X y |-> BitProduct(p[1], p[2])])

\* q with its coefficient of x^e replaced: x^Degree is 1 + alpha(x^3 + x).
Removed(q, e) ==
    LET top == {b \in q : b[1] = e}
        At(f) == {<<e - Degree + f, b[2]>> : b \in top}
    IN  Xor(Xor(q \ top, At(0)), TimesAlpha(Xor(At(1), At(3))))

\* p with all coefficients of x^Degree and above replaced, the highest one first.
Lowered(p) ==
    LET low[n \in 0 .. Degree - 1] ==
            IF n = 0 THEN p ELSE Removed(low[n - 1], 2 * Degree - 1 - n)
    IN  low[Degree - 1]

-----------------------------------------------------------------------------
(* Properties                                                              *)

\* foleageFft evaluates the message at all points whose coordinates are cube
\* roots of unity: digit 1 of a position stands for omega and digit 2 for its square.
ForwardEvaluates ==
    stage = "inverse" => \A i \in Position : msg[i] = Evaluate(message, i)

\* Two passes of F4_reduce leave nothing to reduce: each value is the product
\* in F4[x] / (x^Degree + alpha(x^3 + x) + 1).
ProductsReduced ==
    stage = "inverse" /\ pass = 0 =>
        \A i \in Position : coded[i] = Lowered(BlockProduct(a[i], msg[i]))

\* The halves of the code word belong together: the coded half is the product of the
\* half that keeps the message, although the message has been transformed in place, and
\* the polynomial with the values a.  The inverse transform has undone the forward one on
\* the product, although its passes run in the same order.
CodedIsProduct ==
    Encoded =>
        \A i \in Position :
            Evaluate(coded, i)
                = F4_mul(a[i], Evaluate(systematic, i))
=============================================================================
