-------------------------- MODULE VoleFunctionality --------------------------
(***************************************************************************)
(* What a silent VOLE promises the callers of silentSend and silentReceive *)
(* on one socket pair: the k-th call returns at both parties the halves of *)
(* one correlation, no two calls return the same one, neither party is     *)
(* ever more than a call ahead, and a party that has thrown returns        *)
(* nothing more.                                                           *)
(***************************************************************************)
EXTENDS Naturals, Sequences

CONSTANTS Party, Correlations

VARIABLES
    got,        \* per party: the correlations returned to the caller
    stopped     \* per party: a call has thrown

Init ==
    /\ got = [p \in Party |-> <<>>]
    /\ stopped = [p \in Party |-> FALSE]

Return(p, q, c) ==
    /\ ~stopped[p]
    /\ Len(got[p]) <= Len(got[q])
    /\ IF Len(got[p]) < Len(got[q])
       THEN c = got[q][Len(got[p]) + 1]
       ELSE \A k \in DOMAIN got[p] : c # got[p][k]
    /\ got' = [got EXCEPT ![p] = Append(@, c)]
    /\ UNCHANGED stopped

Stop(p) ==
    /\ stopped' = [stopped EXCEPT ![p] = TRUE]
    /\ UNCHANGED got

Next ==
    \/ \E p \in Party : \E q \in Party \ {p}, c \in Correlations : Return(p, q, c)
    \/ \E p \in Party : Stop(p)

Spec == Init /\ [][Next]_<<got, stopped>>
=============================================================================
