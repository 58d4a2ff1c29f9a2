----------------------------- MODULE CuckooRow -----------------------------
(***************************************************************************)
(* The bins a hashed item may go to: buildRow, and buildRow32, which does  *)
(* 32 items at once with vector compares and masks.  A hash is what is     *)
(* read of it: one word for each hash function.  mods[j] divides by        *)
(* numBins - j.                                                            *)
(***************************************************************************)
EXTENDS Integers, SequencesExt

\* As if the second location were left where the modulus put it.
TwoDistinctUnmoved(r0, r1) == <<r0, r1>>

\* The first two locations of a row of three: the second, drawn from one bin
\* fewer, skips the first.
TwoDistinct(r0, r1) == <<r0, IF r1 >= r0 THEN r1 + 1 ELSE r1>>

\* buildRow with three hash functions: the third location, drawn from two bins
\* fewer, skips the smaller and then the larger of the first two.
Row3(hash, numBins) ==
    LET two == TwoDistinct(hash[1] % numBins, hash[2] % (numBins - 1))
        low == IF two[1] < two[2] THEN two[1] ELSE two[2]
        high == IF two[1] < two[2] THEN two[2] ELSE two[1]
        raised == LET r == hash[3] % (numBins - 2)
                  IN  IF r >= low THEN r + 1 ELSE r
    IN  Append(two, IF raised >= high THEN raised + 1 ELSE raised)

-----------------------------------------------------------------------------
(* buildRow32: a compare returns 0 or -1 in each lane, its complement is    *)
(* taken by exclusive or with AllOneBlock, and a mask is subtracted.        *)

cmpgt(x, y) == IF x > y THEN -1 ELSE 0
cmpeq(x, y) == IF x = y THEN -1 ELSE 0
Not(mask) == -1 - mask

\* x where the mask is set, else y: ((x ^ y) & mask) ^ y.
Blend(mask, x, y) == IF mask = -1 THEN x ELSE y

\* One of the 32 lanes.  In contrast to buildRow, max is compared with b before b
\* is raised, and min is the other one of the two.
LaneRow(hash, numBins) ==
    LET a == hash[1] % numBins
        b == hash[2] % (numBins - 1)
        c == hash[3] % (numBins - 2)
        mask == cmpgt(a, b)
        max == Blend(mask, a, b)
        min == Blend(mask, b, a)
        raise == cmpeq(max, b)
        high == max - raise
        once == c - Not(cmpgt(min, c))
    IN  <<a, b - raise, once - Not(cmpgt(high, once))>>

-----------------------------------------------------------------------------
(* buildRow with another number of hash functions: each location skips the *)
(* ones before it and is inserted in order.                                *)

\* The location with number col among the bins that are not in the ascending row.
Skip(col, row) == FoldLeft(LAMBDA c, r : IF r <= c THEN c + 1 ELSE c, col, row)

Insert(col, row) ==
    SelectSeq(row, LAMBDA r : r < col) \o <<col>> \o SelectSeq(row, LAMBDA r : r >= col)

RowSorted(hash, numBins, weight) ==
    LET row[j \in 0 .. weight] ==
            IF j = 0 THEN <<>>
            ELSE Insert(Skip(hash[j] % (numBins - j + 1), row[j - 1]), row[j - 1])
    IN  row[weight]

buildRow(hash, numBins, weight) ==
    IF weight = 3 THEN Row3(hash, numBins) ELSE RowSorted(hash, numBins, weight)

buildRow32(hash, numBins, weight) ==
    IF weight = 3 THEN LaneRow(hash, numBins) ELSE buildRow(hash, numBins, weight)
=============================================================================
