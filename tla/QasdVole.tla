------------------------------- MODULE QasdVole -------------------------------
(***************************************************************************)
(* The values VOLE_QASD computes from the noisy vectors that its two calls  *)
(* of silentReceive and silentSend have expanded (SilentWalshVole models    *)
(* how): each party encodes its own vectors by the transform, in place, and *)
(* combines the two calls with the coefficients a to one VOLE.  The calls   *)
(* are named after the vector their mC is returned in, s and e.             *)
(***************************************************************************)
EXTENDS PublicVector, CoeffCtx

CONSTANTS
    Deltas,         \* the values of d drawn from the PRNG
    Noise           \* the noisy mB and mC of a call, on the entries VOLE_QASD reads

ASSUME InputsAssumption ==
    /\ Deltas \subseteq Block
    /\ Noise \subseteq [b : Coeffs, c : Coeffs]

CallName == {"s", "e"}

VARIABLES
    d,              \* d
    noise,          \* per call: the noisy vectors the sender and the receiver started from
    mA, mB, mC,     \* per call: the vectors that are encoded in place
    passA,          \* per call: the passes of foleageFft(mA) that are done
    passB,          \* of foleageFft(mB)
    passC,          \* of foleageFft(mC)
    Vol,            \* Vol
    addshare1,      \* addshare1, of the receiver
    addshare2,      \* addshare2, of the sender
    combined        \* the parties whose last loop is done

inputs == <<d, a, noise>>
receiverVars == <<mA, mC, passA, passC, Vol, addshare1>>
senderVars == <<mB, passB, addshare2>>
voleVars == <<inputs, receiverVars, senderVars, combined>>

VoleInit ==
    /\ d \in Deltas
    /\ a \in Values
    /\ noise \in [CallName -> Noise]
    /\ mA = [k \in CallName |->
               [i \in Position |-> plus(noise[k].b[i], mul(noise[k].c[i], d))]]
    /\ mB = [k \in CallName |-> noise[k].b]
    /\ mC = [k \in CallName |-> noise[k].c]
    /\ passA = [k \in CallName |-> 0]
    /\ passB = [k \in CallName |-> 0]
    /\ passC = [k \in CallName |-> 0]
    /\ Vol = ZeroCoeffs
    /\ addshare1 = ZeroCoeffs
    /\ addshare2 = ZeroCoeffs
    /\ combined = {}

EncodedA(k) == passA[k] = NumVars
EncodedB(k) == passB[k] = NumVars
EncodedC(k) == passC[k] = NumVars

\* The receiver encodes mA before mC, and both before its second call.
EncodeA(k) ==
    /\ ~EncodedA(k)
    /\ k = "e" => EncodedC("s")
    /\ mA' = [mA EXCEPT ![k] = Pass(passA[k] + 1, @)]
    /\ passA' = [passA EXCEPT ![k] = @ + 1]
    /\ UNCHANGED <<inputs, mC, passC, Vol, addshare1, senderVars, combined>>

\* As if the receiver left mC as it is.
EncodeCNot(k) ==
    /\ EncodedA(k)
    /\ ~EncodedC(k)
    /\ passC' = [passC EXCEPT ![k] = @ + 1]
    /\ UNCHANGED <<inputs, mA, mC, passA, Vol, addshare1, senderVars, combined>>

EncodeC(k) ==
    /\ EncodedA(k)
    /\ ~EncodedC(k)
    /\ mC' = [mC EXCEPT ![k] = Pass(passC[k] + 1, @)]
    /\ passC' = [passC EXCEPT ![k] = @ + 1]
    /\ UNCHANGED <<inputs, mA, passA, Vol, addshare1, senderVars, combined>>

EncodeB(k) ==
    /\ ~EncodedB(k)
    /\ k = "e" => EncodedB("s")
    /\ mB' = [mB EXCEPT ![k] = Pass(passB[k] + 1, @)]
    /\ passB' = [passB EXCEPT ![k] = @ + 1]
    /\ UNCHANGED <<inputs, receiverVars, addshare2, combined>>

\* As if a were multiplied with the vector of the second call.
AffineSwapped(x, y) == [i \in Position |-> plus(mul(a[i], y[i]), x[i])]

\* ctx.mul by a and ctx.plus, entry by entry.
Affine(x, y) == [i \in Position |-> plus(mul(a[i], x[i]), y[i])]

\* As if the receiver took both vectors of the first call for its share.
CombineReceiverSameCall ==
    /\ EncodedC("e")
    /\ "receiver" \notin combined
    /\ Vol' = Affine(mC["s"], mC["e"])
    /\ addshare1' = Affine(mA["s"], mA["s"])
    /\ combined' = combined \cup {"receiver"}
    /\ UNCHANGED <<inputs, mA, mC, passA, passC, senderVars>>

CombineReceiver ==
    /\ EncodedC("e")
    /\ "receiver" \notin combined
    /\ Vol' = Affine(mC["s"], mC["e"])
    /\ addshare1' = Affine(mA["s"], mA["e"])
    /\ combined' = combined \cup {"receiver"}
    /\ UNCHANGED <<inputs, mA, mC, passA, passC, senderVars>>

CombineSender ==
    /\ EncodedB("e")
    /\ "sender" \notin combined
    /\ addshare2' = Affine(mB["s"], mB["e"])
    /\ combined' = combined \cup {"sender"}
    /\ UNCHANGED <<inputs, receiverVars, mB, passB>>

\* Both threads are joined.
BothCombined == combined = {"sender", "receiver"}

Joined == BothCombined /\ UNCHANGED voleVars

VoleNext ==
    \/ \E k \in CallName : EncodeA(k) \/ EncodeB(k) \/ EncodeC(k)
    \/ CombineReceiver
    \/ CombineSender
    \/ Joined

VoleSpec == VoleInit /\ [][VoleNext]_voleVars

-----------------------------------------------------------------------------
(* Properties                                                              *)

TypeOK ==
    /\ d \in Block
    /\ a \in Coeffs
    /\ noise \in [CallName -> [b : Coeffs, c : Coeffs]]
    /\ {mA, mB, mC} \subseteq [CallName -> Coeffs]
    /\ {passA, passB, passC} \subseteq [CallName -> 0 .. NumVars]
    /\ {Vol, addshare1, addshare2} \subseteq Coeffs
    /\ combined \subseteq {"sender", "receiver"}

\* mA = mB + mC * delta still holds of the vectors a call returns after the
\* receiver has transformed its two and the sender its one, each on its own:
\* the transform commutes with the multiplication by delta.
EncodingCorrelated ==
    \A k \in CallName :
        EncodedA(k) /\ EncodedB(k) /\ EncodedC(k) =>
            \A i \in Position : mA[k][i] = plus(mB[k][i], mul(mC[k][i], d))

\* What VOLE_QASD verifies at its end: d * Vol + addshare2 = addshare1.
Verified ==
    BothCombined =>
        \A i \in Position : addshare1[i] = plus(mul(d, Vol[i]), addshare2[i])

\* Vol is the syndrome a * s + e of the noise at the points of the transform:
\* what the receiver ends up with is the code's, whatever the sender did.
VolIsSyndrome ==
    BothCombined =>
        \A i \in Position :
            Vol[i] = plus(mul(a[i], Evaluate(noise["s"].c, i)), Evaluate(noise["e"].c, i))
=============================================================================
