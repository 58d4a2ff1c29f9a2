----------------------------- MODULE MCTransforms -----------------------------
(***************************************************************************)
(* The three functions that use the transform, with the messages, noise,   *)
(* deltas, terms and shares TLC runs them with.  A behaviour is that of    *)
(* one of them, the one that main() has been asked for; the variables of   *)
(* the others stay as they could begin.                                    *)
(***************************************************************************)
EXTENDS QaCode, QasdVole, ExtensionFieldOle

CONSTANT Functions      \* those that are run

VARIABLE function

Any(S) == CHOOSE x \in S : TRUE

CodeIdle == message = Any(Messages)
VoleIdle == d = Any(Deltas) /\ noise = [k \in CallName |-> Any(Noise)]
OleIdle == poly = Any(Polys) /\ factor = Any(Factors)

Init ==
    /\ function \in Functions
    /\ function # "QA_encode_test_PCS" => CodeIdle
    /\ function # "VOLE_QASD" => VoleIdle
    /\ function # "Extension_Field_OLE" => OleIdle
    /\ function = "Extension_Field_OLE" => a = Any(Values)
    /\ CodeInit /\ VoleInit /\ OleInit

Next ==
    /\ UNCHANGED function
    /\ \/ function = "QA_encode_test_PCS" /\ CodeNext /\ UNCHANGED <<voleVars, oleVars>>
       \/ function = "VOLE_QASD" /\ VoleNext /\ UNCHANGED <<codeVars, oleVars>>
       \/ function = "Extension_Field_OLE" /\ OleNext /\ UNCHANGED <<codeVars, voleVars>>

Spec == Init /\ [][Next]_<<function, codeVars, voleVars, oleVars>>

-----------------------------------------------------------------------------
(* Blocks: elements of F4, and blocks whose products overflow twice.       *)

One == interleave({0}, {})
Alpha == interleave({}, {0})
Mixed == interleave({0, 2, Degree - 1}, {1, Degree - 1})
Top == interleave({0, Degree - 1}, {Degree - 1})
Upper == interleave({Degree - 1}, {Degree - 2})

\* A vector that is zero but at one position, the same everywhere, or different at
\* positions that differ in the first or the last digit.
At(i, x) == [j \in Position |-> IF j = i THEN x ELSE Zero]
Constant(x) == [i \in Position |-> x]
Varied(x) ==
    [i \in Position |-> IF i[1] = 0 THEN x ELSE IF i[1] = i[NumVars] THEN TimesOmega(x)
                        ELSE TimesAlpha(x)]

Low == [k \in Vars |-> 0]
Middle == [k \in Vars |-> IF k = 1 THEN 1 ELSE 2]
Last == [k \in Vars |-> 2]

-----------------------------------------------------------------------------
(* QA_encode_test_PCS and VOLE_QASD                                        *)

\* Messages with up to two entries that are not zero.
SparseMessages ==
    {At(i, x) : i \in Position, x \in {One, Alpha, Top, Upper}}
    \cup {[At(i, x) EXCEPT ![j] = Alpha] :
             i \in {Low, Middle}, j \in Position, x \in {One, Top, Upper}}

SomeValues == {Constant(Mixed), Varied(Top), At(Last, Upper)}

SomeDeltas == {Alpha, Mixed, Upper}

\* Noise at one or two positions, next to shares of the sender that are constant,
\* different, or zero.
SomeNoise ==
    {[b |-> Constant(Top), c |-> At(Last, Mixed)],
     [b |-> Varied(Mixed), c |-> [At(Low, Top) EXCEPT ![Middle] = Alpha]],
     [b |-> ZeroCoeffs, c |-> At(Middle, Top)]}

-----------------------------------------------------------------------------
(* Extension_Field_OLE                                                     *)

Coefficient == <<One, Top, Upper, Zero, TimesOmega(Top)>>

\* Coefficient and point of a term by its block and two numbers: at one point, at all,
\* and at points that differ with the block.
SomeTerm(b, m, n) ==
    [at |-> [k \in Vars \ High |-> (m * Number(b) + n) % 3],
     coeff |-> Coefficient[1 + ((Number(b) * n + m) % 5)]]

SomePolys ==
    {[p \in Party |-> [k \in Index |-> [b \in Block3 |-> SomeTerm(b, m + k, p + m)]]] :
        m \in 0 .. 1}

\* Two public polynomials, and the factors of Extension_Field_OLE(depth, block_length).
SomeFactors ==
    LET first == [i \in Position |-> IF i[1] = 0 THEN Top ELSE TimesOmega(Upper)]
    IN  {[k \in Index |-> IF k = 0 THEN first ELSE [i \in Position |-> second[i[1]]]] :
            second \in {[z \in 0 .. 2 |-> One], [z \in 0 .. 2 |-> Coefficient[z + 2]]}}

\* Shares that are zero, and shares that are all different.
SomeOutputs ==
    {[x \in Tree |-> [y \in Domain |-> Zero]],
     [x \in Tree |-> [y \in Domain |->
        Coefficient[1 + ((Number(x[1]) + 2 * Number(x[2]) + y[CHOOSE k \in DOMAIN y : TRUE]) % 5)]]]}
=============================================================================
