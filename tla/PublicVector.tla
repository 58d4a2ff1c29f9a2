----------------------------- MODULE PublicVector -----------------------------
(***************************************************************************)
(* The vector a of QA_encode_test_PCS and VOLE_QASD: one block for each    *)
(* position, drawn from the PRNG at the start, known to both parties and   *)
(* never written again.  It is a polynomial given by its values.           *)
(***************************************************************************)
EXTENDS FoleageFft

CONSTANT Values     \* what may be drawn

ASSUME ValuesAssumption == Values \subseteq Coeffs

VARIABLE a          \* a
=============================================================================
