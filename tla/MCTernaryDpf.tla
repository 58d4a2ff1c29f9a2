----------------------------- MODULE MCTernaryDpf -----------------------------
(***************************************************************************)
(* Blocks of four bits, fixed hash functions that are not linear, one       *)
(* sample of what is drawn from the PRNGs, and points that pair any two     *)
(* digits on each level.                                                    *)
(***************************************************************************)
EXTENDS TernaryDpf

\* One, all and some of the leaves of a level.
SomeDomains == {1, 3, 5, 20}

FourBits == 0 .. 3

\* The sixteen blocks by number.
Sample == [n \in 0 .. 15 |-> {i \in FourBits : (n \div 2 ^ i) % 2 = 1}]
Number(b) == CHOOSE n \in 0 .. 15 : Sample[n] = b

\* n -> n(2n + 5) permutes the numbers below sixteen.
SomeHash ==
    [i \in Digit |-> [b \in Block |->
        LET n == Number(b) + 3 * i + 1 IN Xor(b, Sample[(n * (2 * n + 5)) % 16])]]
SomeRoundFn == [b \in Block |-> LET n == Number(b) IN Sample[(n * (6 * n + 7) + 9) % 16]]
SomeExpand3 ==
    [b \in Block |-> [i \in Digit |->
        LET n == Number(b) + 5 * i IN Xor(b, Sample[(n * (4 * n + 3)) % 16])]]

\* All points of party 0, and three of party 1 that pair any two digits on
\* each level.
SomePoints ==
    [d \in Domains |->
        {[p \in Party |-> IF p = 0 THEN x ELSE [i \in 1 .. log3ceil(d) |-> (i + k) % 3]] :
            x \in Node(log3ceil(d)), k \in Digit}]
SomeValues == {[p \in Party |-> Sample[6 + p]]}
SomeSeeds == {[p \in Party |-> [i \in Digit |-> Sample[(9 * p + 5 * i + 2) % 16]]]}
SomeMasks == {Sample[10]}

SomeBaseOts ==
    {[p \in Party |-> [i \in 1 .. 2 * MaxDepth |->
        [b \in {0, 1} |-> Sample[(7 * i + 5 * b + 11 * p) % 16]]]]}

\* Choice bits that are equal, alternate, and pair up.
SomeChoices ==
    LET Tape(k) == [i \in 1 .. 2 * MaxDepth |->
                      CASE k = 0 -> 0 [] k = 1 -> i % 2 [] k = 2 -> (i \div 2) % 2]
    IN  {[p \in Party |-> Tape(IF p = 0 THEN k ELSE 2 - k)] : k \in 0 .. 2}
=============================================================================
