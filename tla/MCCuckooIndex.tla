--------------------------- MODULE MCCuckooIndex ---------------------------
(***************************************************************************)
(* The tables the cuckoo index is checked with: few bins, so that items    *)
(* throw each other out, and hashes that share their bins.                 *)
(***************************************************************************)
EXTENDS CuckooIndex

CONSTANTS t1, t2

Both == {t1, t2}

\* Hashes by item; words beyond the number of bins test the moduli.
Spread == [i \in Item |-> <<i, i + 2, 2 * i>>]
Crowded == [i \in Item |-> <<i % 2, 0, 5>>]
Equal == [i \in Item |-> <<7, 7, 7>>]

Of(numHashes, numBins, stash, n, hashes, calls) ==
    [numHashes |-> numHashes, numBins |-> numBins, stash |-> stash, n |-> n,
     hashes |-> hashes, calls |-> calls]

SpanOf(start, size) == [start |-> start, size |-> size]

\* One thread, with a batch of more than its lanes and more than a block.
Alone(spans) == [t \in Threads |-> IF t = t1 THEN spans ELSE <<>>]

\* Two threads, as in CuckooIndex_parallel_Test_Impl.
Shared(m, n) == [t \in Threads |-> IF t = t1 THEN <<SpanOf(0, m)>> ELSE <<SpanOf(m, n - m)>>]

SomeTables ==
    {Of(h, 6, s, 6, hashes, Alone(<<SpanOf(0, 6)>>)) :
        h \in {2, 3}, s \in {0, 2}, hashes \in {Spread, Crowded, Equal}}
    \cup {Of(3, 5, 2, 6, hashes, Alone(<<SpanOf(2, 4), SpanOf(0, 2), SpanOf(0, 1)>>)) :
            hashes \in {Spread, Crowded, Equal}}
    \cup {Of(3, 3, s, 8, Equal, Alone(<<SpanOf(0, 3), SpanOf(3, 5)>>)) : s \in {1, 5}}
    \cup {Of(3, 7, 0, 7, hashes, Shared(5, 7)) : hashes \in {Spread, Crowded}}
    \cup {Of(2, 4, 0, 4, hashes, Shared(2, 4)) : hashes \in {Spread, Crowded, Equal}}
    \cup {Of(h, 3, 2, 4, hashes, Shared(2, 4)) :
            h \in {2, 3}, hashes \in {Crowded, Equal}}

StashedTables == {Of(2, 3, 2, 4, Equal, Shared(2, 4))}
=============================================================================
