------------------------- MODULE CuckooIndexProofs -------------------------
(***************************************************************************)
(* Theorems about the cuckoo hash table with three hash functions, for any *)
(* number of threads, any tables and any sizes.                            *)
(***************************************************************************)
EXTENDS CuckooIndex, SequenceTheorems, TLAPS

-----------------------------------------------------------------------------
(* Rows of three locations                                                 *)

HashOf3 == [1 .. 3 -> Nat]

LEMMA AppendToPair ==
    ASSUME NEW x \in Int, NEW y \in Int, NEW z \in Int
    PROVE  Append(<<x, y>>, z) = <<x, y, z>>
  <1> DEFINE pair == <<x, y>>
             triple == <<x, y, z>>
  <1>1. pair \in Seq(Int) /\ Len(pair) = 2 /\ pair[1] = x /\ pair[2] = y
    OBVIOUS
  <1>2. triple \in Seq(Int) /\ Len(triple) = 3
    OBVIOUS
  <1>3. triple[1] = x /\ triple[2] = y /\ triple[3] = z
    OBVIOUS
  <1> HIDE DEF pair, triple
  <1>4. Append(pair, z) \in Seq(Int) /\ Len(Append(pair, z)) = 3
    BY <1>1, AppendProperties DEF pair
  <1>5. \A i \in 1 .. 3 : Append(pair, z)[i] = triple[i]
    BY <1>1, <1>3, AppendProperties DEF pair, triple
  <1> QED BY <1>2, <1>4, <1>5, SeqEqual DEF pair, triple

\* The three locations drawn from three remainders.
Second(a, b) == IF b >= a THEN b + 1 ELSE b
Raised(a, b, c) ==
    LET low == IF a < Second(a, b) THEN a ELSE Second(a, b)
    IN  IF c >= low THEN c + 1 ELSE c
Third(a, b, c) ==
    LET high == IF a < Second(a, b) THEN Second(a, b) ELSE a
    IN  IF Raised(a, b, c) >= high THEN Raised(a, b, c) + 1 ELSE Raised(a, b, c)

LEMMA ThreeDistinct ==
    ASSUME NEW n \in Nat, n >= 3,
           NEW a \in 0 .. n - 1, NEW b \in 0 .. n - 2, NEW c \in 0 .. n - 3
    PROVE  /\ Second(a, b) \in 0 .. n - 1 /\ Third(a, b, c) \in 0 .. n - 1
           /\ a # Second(a, b) /\ a # Third(a, b, c) /\ Second(a, b) # Third(a, b, c)
  BY DEF Second, Third, Raised

LEMMA Remainders ==
    ASSUME NEW hash \in HashOf3, NEW n \in Nat, n >= 3
    PROVE  /\ hash[1] % n \in 0 .. n - 1
           /\ hash[2] % (n - 1) \in 0 .. n - 2
           /\ hash[3] % (n - 2) \in 0 .. n - 3
  BY DEF HashOf3

LEMMA Row3Is ==
    ASSUME NEW hash \in HashOf3, NEW n \in Nat, n >= 3,
           NEW a, a = hash[1] % n, NEW b, b = hash[2] % (n - 1),
           NEW c, c = hash[3] % (n - 2)
    PROVE  Row3(hash, n) = <<a, Second(a, b), Third(a, b, c)>>
  <1>1. a \in 0 .. n - 1 /\ b \in 0 .. n - 2 /\ c \in 0 .. n - 3
    BY Remainders
  <1> DEFINE two == TwoDistinct(a, b)
             low == IF two[1] < two[2] THEN two[1] ELSE two[2]
             high == IF two[1] < two[2] THEN two[2] ELSE two[1]
             raised == IF c >= low THEN c + 1 ELSE c
             last == IF raised >= high THEN raised + 1 ELSE raised
  <1>2. Row3(hash, n) = Append(two, last)
    BY DEF Row3
  <1>3. two = <<a, Second(a, b)>>
    BY DEF TwoDistinct, Second
  <1>4. two[1] = a /\ two[2] = Second(a, b)
    BY <1>3
  <1> HIDE DEF two
  <1>5. last = Third(a, b, c)
    BY <1>4 DEF Third, Raised
  <1>6. Append(<<a, Second(a, b)>>, Third(a, b, c)) = <<a, Second(a, b), Third(a, b, c)>>
    <2>1. a \in Int /\ Second(a, b) \in Int /\ Third(a, b, c) \in Int
      BY <1>1, ThreeDistinct
    <2> QED BY <2>1, AppendToPair
  <1> HIDE DEF last
  <1> QED BY <1>2, <1>3, <1>5, <1>6

\* The lanes of buildRow32 draw the same bins as buildRow.
LEMMA LaneRowIs ==
    ASSUME NEW hash \in HashOf3, NEW n \in Nat, n >= 3,
           NEW a, a = hash[1] % n, NEW b, b = hash[2] % (n - 1),
           NEW c, c = hash[3] % (n - 2)
    PROVE  LaneRow(hash, n) = <<a, Second(a, b), Third(a, b, c)>>
  <1>1. a \in 0 .. n - 1 /\ b \in 0 .. n - 2 /\ c \in 0 .. n - 3
    BY Remainders
  <1> DEFINE mask == cmpgt(a, b)
             max == Blend(mask, a, b)
             min == Blend(mask, b, a)
             raise == cmpeq(max, b)
             high == max - raise
             once == c - Not(cmpgt(min, c))
             last == once - Not(cmpgt(high, once))
  <1>2. LaneRow(hash, n) = <<a, b - raise, last>>
    BY DEF LaneRow
  <1>3. b - raise = Second(a, b)
    BY <1>1 DEF cmpgt, cmpeq, Blend, Second
  <1>4. high = IF a < Second(a, b) THEN Second(a, b) ELSE a
    BY <1>1 DEF cmpgt, cmpeq, Blend, Second
  <1>5. once = Raised(a, b, c)
    BY <1>1 DEF cmpgt, Blend, Not, Second, Raised
  <1>6. Raised(a, b, c) \in Int /\ high \in Int
    BY <1>1 DEF Raised, Second, cmpgt, cmpeq, Blend
  <1> HIDE DEF high, once
  <1>7. last = Third(a, b, c)
    BY <1>4, <1>5, <1>6 DEF cmpgt, Not, Third
  <1> HIDE DEF raise, last
  <1> QED BY <1>2, <1>3, <1>7

\* Whatever the hashes of a table are, an item has three distinct bins of the table, and
\* the vector function draws the same.
LEMMA RowOfTable ==
    ASSUME NEW tbl \in Table, tbl.numHashes = 3, NEW i \in Item
    PROVE  LET row == buildRow(tbl.hashes[i], tbl.numBins, tbl.numHashes)
           IN  /\ row = buildRow32(tbl.hashes[i], tbl.numBins, tbl.numHashes)
               /\ DOMAIN row = 1 .. 3
               /\ \A h \in 1 .. 3 : row[h] \in 0 .. tbl.numBins - 1
               /\ \A h, g \in 1 .. 3 : h # g => row[h] # row[g]
  <1> DEFINE hash == tbl.hashes[i]
             n == tbl.numBins
  <1>1. hash \in HashOf3 /\ n \in Nat /\ n >= 3
    BY ConstantsAssumption DEF Table, HashOf3
  <1> HIDE DEF hash, n
  <1> DEFINE a == hash[1] % n
             b == hash[2] % (n - 1)
             c == hash[3] % (n - 2)
             row == <<a, Second(a, b), Third(a, b, c)>>
  <1>2. a \in 0 .. n - 1 /\ b \in 0 .. n - 2 /\ c \in 0 .. n - 3
    BY <1>1, Remainders
  <1>3. Row3(hash, n) = row
    BY <1>1, Row3Is
  <1>4. LaneRow(hash, n) = row
    BY <1>1, LaneRowIs
  <1>5. buildRow(hash, n, tbl.numHashes) = row /\ buildRow32(hash, n, tbl.numHashes) = row
    BY <1>3, <1>4 DEF buildRow, buildRow32
  <1> HIDE DEF a, b, c
  <1>6. /\ DOMAIN row = 1 .. 3
        /\ row[1] = a /\ row[2] = Second(a, b) /\ row[3] = Third(a, b, c)
    OBVIOUS
  <1>7. /\ a \in 0 .. n - 1 /\ Second(a, b) \in 0 .. n - 1 /\ Third(a, b, c) \in 0 .. n - 1
        /\ a # Second(a, b) /\ a # Third(a, b, c) /\ Second(a, b) # Third(a, b, c)
    BY <1>1, <1>2, ThreeDistinct
  <1> HIDE DEF row
  <1>8. \A h \in 1 .. 3 : row[h] \in 0 .. n - 1
    BY <1>6, <1>7
  <1>9. \A h, g \in 1 .. 3 : h # g => row[h] # row[g]
    BY <1>6, <1>7
  <1> QED BY <1>5, <1>6, <1>8, <1>9 DEF hash, n

-----------------------------------------------------------------------------
(* What the theorems assume of the tables                                  *)

\* Three hash functions: the batched loop and the vector function are for these.
ThreeHashes == \A t \in Tables : t.numHashes = 3

\* Two spans that a thread inserts into a table start at the same item, and the later one is
\* refused, or have no item in common.
SpansApart ==
    \A t \in Tables : \A p \in Threads :
        \A k, j \in DOMAIN t.calls[p] :
            LET c == t.calls[p][k]
                d == t.calls[p][j]
            IN  \/ c.start = d.start
                \/ c.start + c.size <= d.start
                \/ d.start + d.size <= c.start

LEMMA TableIsChosen == Spec => [](table \in Tables)
  <1>1. Init => table \in Tables
    BY DEF Init
  <1>2. table \in Tables /\ [Next]_vars => (table \in Tables)'
    BY DEF Next, Step, Call, Block, EndCall, Done, Swap, Refill, Retry, GiveUp, Lanes, Rest,
           InsertOne, Scan, Put, Joined, vars
  <1> QED BY <1>1, <1>2, PTL DEF Spec

\* The bins of an item are in the table and distinct, and both functions agree on them.
THEOREM RowsAreDistinct ==
    ASSUME ThreeHashes
    PROVE  Spec => []RowsDistinct
  <1>1. table \in Tables => RowsDistinct
    BY ConstantsAssumption, RowOfTable DEF ThreeHashes, RowsDistinct, RowOf
  <1> QED BY <1>1, TableIsChosen, PTL

-----------------------------------------------------------------------------
(* Threads and bins                                                        *)

Refilling(t) == pc[t] = "refill" \/ (pc[t] \in {"scan", "put"} /\ looping[t])
Finishing(t) == pc[t] \in {"lanes", "one"} \/ (pc[t] \in {"scan", "put"} /\ ~looping[t])

\* Where a thread is in its call and block: the lanes find an item whenever they take one.
Progress(t) ==
    /\ pc[t] \notin {"call", "done", "refused"} =>
         /\ call[t] \in 1 .. Len(table.calls[t])
         /\ CurrentCall(t).start + CurrentCall(t).size <= table.n
    /\ pc[t] \in {"swap", "refill", "lanes", "one", "scan", "put"} =>
         block[t] < CurrentCall(t).size
    /\ pc[t] \in {"swap", "refill"} => looping[t]
    /\ pc[t] \in {"lanes", "one"} => ~looping[t]
    /\ pc[t] = "swap" =>
         /\ lane[t] < BatchSize
         /\ next[t] < BlockLength(t) - BatchSize
    /\ Refilling(t) =>
         /\ lane[t] < BatchSize
         /\ next[t] < BlockLength(t) - BatchSize + lane[t]
    /\ Finishing(t) => next[t] <= BlockLength(t) \/ next[t] <= BatchSize

\* What the hands of a thread hold: all lanes have an item before they exchange it, and
\* none is left over at the end of a block.
Hands(t) ==
    /\ pc[t] \in {"call", "block", "done", "refused"} =>
         \A l \in Lane : hand[t][l].idx = Null
    /\ pc[t] = "swap" =>
         \A l \in Lane : lane[t] <= l /\ l < BatchSize => hand[t][l].idx # Null
    /\ Refilling(t) => \A l \in Lane : l < lane[t] => hand[t][l].idx # Null
    /\ pc[t] = "swap" \/ Refilling(t) => hand[t][BatchSize].idx = Null
    /\ Finishing(t) => \A l \in Lane : l < lane[t] => hand[t][l].idx = Null
    /\ pc[t] = "lanes" \/ (Finishing(t) /\ lane[t] < BatchSize) =>
         hand[t][BatchSize].idx = Null
    /\ pc[t] \in {"one", "scan", "put"} => hand[t][lane[t]].idx # Null
    /\ \A l \in Lane : hand[t][l].idx # Null => hand[t][l].hash # 255

\* The slots that a thread has looked at are taken.
Looked(t) ==
    /\ pc[t] = "scan" => slot[t] <= table.stash
    /\ pc[t] = "put" => slot[t] < table.stash
    /\ pc[t] \in {"scan", "put"} => \A j \in Slot : j < slot[t] => mStash[j] # Empty

\* An item is in a bin only at the location that the bin's hash number names.
Placed ==
    \A b \in BinIndex : mBins[b].idx # Null =>
        mBins[b].hash # 255 /\ Location(mBins[b].idx, mBins[b].hash) = b

NoHole == \A k \in Slot : mStash[k] # Empty => \A j \in 0 .. k : mStash[j] # Empty

Sound ==
    /\ TypeOK
    /\ table.numHashes = 3
    /\ \A t \in Threads : Progress(t) /\ Hands(t) /\ Looked(t)
    /\ Placed
    /\ NoHole

LEMMA Constants ==
    /\ MaxBins \in Nat /\ MaxStash \in Nat /\ MaxItems \in Nat /\ ReinsertLimit \in Nat
    /\ BatchSize \in Nat /\ BatchSize >= 1 /\ BlockSize \in Nat /\ BatchSize <= BlockSize
    /\ Null \notin Item
  BY ConstantsAssumption DEF Null, Item

LEMMA LocationInTable ==
    ASSUME TypeOK, table.numHashes = 3, NEW i \in Item, NEW h \in HashIndex
    PROVE  Location(i, h) \in BinIndex
  <1>1. table \in Table
    BY ConstantsAssumption DEF TypeOK
  <1>2. RowOf(i)[h + 1] \in 0 .. table.numBins - 1
    BY <1>1, RowOfTable DEF RowOf, HashIndex
  <1>3. table.numBins \in 1 .. MaxBins
    BY <1>1 DEF Table
  <1> QED BY <1>2, <1>3, Constants DEF Location, BinIndex

\* What a thread that is in a call inserts.
LEMMA CallInTable ==
    ASSUME Sound, NEW t \in Threads, pc[t] \notin {"call", "done", "refused"}
    PROVE  /\ CurrentCall(t).start \in Nat /\ CurrentCall(t).size \in Nat
           /\ CurrentCall(t).start + CurrentCall(t).size <= table.n
           /\ table.n \in 0 .. MaxItems
           /\ block[t] \in Nat /\ next[t] \in Nat
           /\ BlockLength(t) \in Int /\ BlockLength(t) <= BlockSize
           /\ BlockLength(t) <= CurrentCall(t).size - block[t]
           /\ BlockLength(t) = BlockSize \/ BlockLength(t) = CurrentCall(t).size - block[t]
  <1>1. table \in Table
    BY ConstantsAssumption DEF Sound, TypeOK
  <1>2. table.calls[t] \in Seq(Span) /\ table.n \in 0 .. MaxItems
    BY <1>1 DEF Table
  <1>3. call[t] \in 1 .. Len(table.calls[t])
    BY DEF Sound, Progress
  <1>4. CurrentCall(t) \in Span
    BY <1>2, <1>3 DEF CurrentCall
  <1>5. CurrentCall(t).start \in Nat /\ CurrentCall(t).size \in Nat
    BY <1>4 DEF Span
  <1>6. CurrentCall(t).start + CurrentCall(t).size <= table.n
    BY DEF Sound, Progress
  <1>7. block[t] \in Nat /\ next[t] \in Nat
    BY DEF Sound, TypeOK
  <1> QED BY <1>2, <1>5, <1>6, <1>7, Constants DEF BlockLength

LEMMA BlockItemInTable ==
    ASSUME Sound, NEW t \in Threads, pc[t] \notin {"call", "done", "refused"},
           NEW k \in Nat, k < BlockLength(t)
    PROVE  BlockItem(t, k) \in Item /\ Fresh(BlockItem(t, k)) \in Hand
  <1>1. BlockItem(t, k) \in Item
    BY CallInTable, Constants DEF BlockItem, Item
  <1> QED BY <1>1, Constants DEF Fresh, Hand, HashIndex

\* What a thread holds in the lane it is at.
LEMMA HeldInTable ==
    ASSUME Sound, NEW t \in Threads
    PROVE  /\ lane[t] \in Lane
           /\ hand[t] \in [Lane -> Hand]
           /\ hand[t][lane[t]].idx \in Item \cup {Null}
           /\ hand[t][lane[t]].hash \in HashIndex \cup {255}
           /\ hand[t][lane[t]].tries \in 0 .. ReinsertLimit
           /\ hand[t][lane[t]].idx # Null => hand[t][lane[t]].hash \in HashIndex
           /\ EntryOf(hand[t][lane[t]]) \in Entry
  <1>1. lane[t] \in Lane /\ hand[t] \in [Lane -> Hand]
    BY DEF Sound, TypeOK
  <1>2. hand[t][lane[t]] \in Hand
    BY <1>1
  <1>3. hand[t][lane[t]].idx # Null => hand[t][lane[t]].hash # 255
    BY <1>1 DEF Sound, Hands
  <1> QED BY <1>1, <1>2, <1>3 DEF Hand, Entry, EntryOf

\* A lane that exchanges its item with a bin.
LEMMA ExchangeKeepsPlaces ==
    ASSUME Sound, NEW t \in Threads, hand[t][lane[t]].idx # Null
    PROVE  /\ Bin(t) \in BinIndex
           /\ Exchanged(t) \in [BinIndex -> Entry]
           /\ Evicted(t) \in Hand
           /\ Evicted(t).idx # Null => Evicted(t).hash \in HashIndex
           /\ \A b \in BinIndex : Exchanged(t)[b].idx # Null =>
                  /\ Exchanged(t)[b].hash # 255
                  /\ Location(Exchanged(t)[b].idx, Exchanged(t)[b].hash) = b
  <1> DEFINE held == hand[t][lane[t]]
  <1>1. held.idx \in Item /\ held.hash \in HashIndex /\ held.tries \in 0 .. ReinsertLimit
    BY HeldInTable
  <1>2. Bin(t) \in BinIndex
    BY <1>1, LocationInTable DEF Bin, Sound
  <1>3. mBins \in [BinIndex -> Entry] /\ mBins[Bin(t)] \in Entry
    BY <1>2 DEF Sound, TypeOK
  <1>4. mBins[Bin(t)].idx # Null => mBins[Bin(t)].hash \in HashIndex
    BY <1>2, <1>3 DEF Sound, Placed, Entry
  <1>5. EntryOf(held) \in Entry
    BY HeldInTable
  <1>6. Exchanged(t) \in [BinIndex -> Entry]
    BY <1>3, <1>5 DEF Exchanged
  <1>7. Evicted(t) \in Hand
    BY <1>1, <1>3 DEF Evicted, Hand, Entry
  <1>8. Evicted(t).idx # Null => Evicted(t).hash \in HashIndex
    BY <1>4 DEF Evicted
  <1>9. ASSUME NEW b \in BinIndex, Exchanged(t)[b].idx # Null
        PROVE  /\ Exchanged(t)[b].hash # 255
               /\ Location(Exchanged(t)[b].idx, Exchanged(t)[b].hash) = b
    <2>1. CASE b = Bin(t)
      <3>1. Exchanged(t)[b] = EntryOf(held)
        BY <2>1, <1>3 DEF Exchanged
      <3> QED BY <3>1, <2>1, <1>1 DEF EntryOf, Bin, HashIndex
    <2>2. CASE b # Bin(t)
      <3>1. Exchanged(t)[b] = mBins[b]
        BY <2>2, <1>3 DEF Exchanged
      <3> QED BY <3>1, <1>9 DEF Sound, Placed
    <2> QED BY <2>1, <2>2
  <1> QED BY <1>2, <1>6, <1>7, <1>8, <1>9

LEMMA MovedOnInTable ==
    ASSUME table.numHashes = 3, NEW h \in Hand, h.tries # ReinsertLimit, h.hash \in HashIndex
    PROVE  /\ MovedOn(h) \in Hand /\ MovedOn(h).idx = h.idx
           /\ MovedOn(h).hash \in HashIndex
  <1>1. h.tries + 1 \in 0 .. ReinsertLimit /\ (1 + h.hash) % 3 \in HashIndex
    BY Constants DEF Hand, HashIndex
  <1> QED BY <1>1 DEF MovedOn, Hand

LEMMA TakeInTable ==
    ASSUME Sound, NEW t \in Threads, Refilling(t), Take(t)
    PROVE  /\ hand' = [hand EXCEPT ![t][lane[t]] = Fresh(BlockItem(t, next[t]))]
           /\ Fresh(BlockItem(t, next[t])) \in Hand
           /\ hand' \in [Threads -> [Lane -> Hand]]
           /\ next' = [next EXCEPT ![t] = @ + 1] /\ next' \in [Threads -> Nat]
           /\ lane[t] < BatchSize
  <1>1. pc[t] \notin {"call", "done", "refused"}
    BY DEF Refilling
  <1>2. lane[t] < BatchSize /\ next[t] < BlockLength(t)
    BY <1>1, CallInTable, HeldInTable, Constants DEF Sound, Progress, Lane
  <1>3. next[t] \in Nat
    BY DEF Sound, TypeOK
  <1>4. Fresh(BlockItem(t, next[t])) \in Hand
    BY <1>1, <1>2, <1>3, BlockItemInTable
  <1>5. hand' = [hand EXCEPT ![t][lane[t]] = Fresh(BlockItem(t, next[t]))]
    BY DEF Take
  <1>6. hand' \in [Threads -> [Lane -> Hand]]
    BY <1>4, <1>5, HeldInTable DEF Sound, TypeOK
  <1> QED BY <1>2, <1>4, <1>5, <1>6 DEF Take, Sound, TypeOK

\* Where a thread goes after a lane of the loop.
LEMMA NextLaneInTable ==
    ASSUME Sound, NEW t \in Threads, NEW n, NextLane(t, n), lane[t] < BatchSize
    PROVE  /\ pc' \in [Threads -> PC] /\ lane' \in [Threads -> Lane]
           /\ looping' \in [Threads -> BOOLEAN]
  <1>1. lane[t] \in Lane /\ lane[t] + 1 \in Lane /\ 0 \in Lane
    BY HeldInTable, Constants DEF Lane
  <1>2. pc \in [Threads -> PC] /\ lane \in [Threads -> Lane] /\ looping \in [Threads -> BOOLEAN]
    BY DEF Sound, TypeOK
  <1>3. Loops(t, n) \in BOOLEAN
    BY DEF Loops
  <1>4. CASE lane[t] + 1 < BatchSize
    BY <1>1, <1>2, <1>4 DEF NextLane, Goto, PC
  <1>5. CASE ~(lane[t] + 1 < BatchSize)
    <2>1. /\ lane' = [lane EXCEPT ![t] = 0]
          /\ looping' = [looping EXCEPT ![t] = Loops(t, n)]
          /\ pc' = [pc EXCEPT ![t] = IF Loops(t, n) THEN "swap" ELSE "lanes"]
      BY <1>5 DEF NextLane, Goto
    <2>2. (IF Loops(t, n) THEN "swap" ELSE "lanes") \in PC
      BY DEF PC
    <2> QED BY <1>1, <1>2, <1>3, <2>1, <2>2
  <1> QED BY <1>4, <1>5

LEMMA StepTypes ==
    ASSUME Sound, NEW t \in Threads, Step(t)
    PROVE  TypeOK'
  <1> USE Constants
  <1>0. TypeOK
    BY DEF Sound
  <1>1. CASE Call(t)
    <2>1. CASE Accepts(CurrentCall(t))
      <3>1. table \in Table /\ call[t] \in 1 .. Len(table.calls[t])
        BY <1>0, <1>1, ConstantsAssumption DEF TypeOK, Call, Table
      <3>2. CurrentCall(t) \in Span /\ table.n \in 0 .. MaxItems
        BY <3>1 DEF CurrentCall, Table
      <3>3. ASSUME NEW i \in 0 .. CurrentCall(t).size - 1
            PROVE  CurrentCall(t).start + i \in Item
        <4>1. /\ CurrentCall(t).start \in Nat /\ CurrentCall(t).size \in Nat
              /\ CurrentCall(t).start + CurrentCall(t).size <= table.n
          BY <2>1, <3>2 DEF Accepts, Span
        <4> QED BY <3>2, <4>1 DEF Item
      <3>4. mVals' = mVals \cup {CurrentCall(t).start + i :
                                 i \in 0 .. CurrentCall(t).size - 1}
        BY <1>1, <2>1 DEF Call
      <3>5. mVals' \subseteq Item
        BY <1>0, <3>3, <3>4 DEF TypeOK
      <3>6. pc' = [pc EXCEPT ![t] = "block"] /\ block' = [block EXCEPT ![t] = 0]
        BY <1>1, <2>1 DEF Call, Goto
      <3>7. pc' \in [Threads -> PC] /\ block' \in [Threads -> Nat]
        BY <1>0, <3>6 DEF TypeOK, PC
      <3> QED BY <1>0, <1>1, <3>5, <3>7 DEF TypeOK, Call
    <2>2. CASE ~Accepts(CurrentCall(t))
      BY <1>0, <1>1, <2>2 DEF TypeOK, Call, Goto, PC
    <2> QED BY <2>1, <2>2
  <1>2. CASE Block(t)
    <2> DEFINE new == [l \in Lane |-> IF l < BatchSize /\ l < BlockLength(t)
                                      THEN Fresh(BlockItem(t, l)) ELSE NoHand]
    <2>1. pc[t] \notin {"call", "done", "refused"}
      BY <1>2 DEF Block
    <2>2. new \in [Lane -> Hand]
      <3>1. \A l \in Lane : l < BlockLength(t) => Fresh(BlockItem(t, l)) \in Hand
        BY <2>1, BlockItemInTable DEF Lane
      <3>2. NoHand \in Hand
        BY DEF NoHand, Hand
      <3> QED BY <3>1, <3>2
    <2> HIDE DEF new
    <2>3. hand' \in [Threads -> [Lane -> Hand]]
      BY <1>0, <1>2, <2>2 DEF Block, TypeOK, new
    <2>4. Loops(t, BatchSize) \in BOOLEAN
      BY DEF Loops
    <2>5. looping' \in [Threads -> BOOLEAN]
      BY <1>0, <1>2, <2>4 DEF Block, TypeOK
    <2>6. (IF Loops(t, BatchSize) THEN "swap" ELSE "lanes") \in PC
      BY DEF PC
    <2>7. pc' \in [Threads -> PC]
      BY <1>0, <1>2, <2>6 DEF Block, Goto, TypeOK
    <2>8. 0 \in Lane
      BY DEF Lane
    <2> QED BY <1>0, <1>2, <2>3, <2>5, <2>7, <2>8 DEF Block, TypeOK
  <1>3. CASE EndCall(t)
    BY <1>0, <1>3 DEF EndCall, TypeOK, Goto, PC
  <1>4. CASE Done(t)
    <2>1. pc' \in [Threads -> PC]
      BY <1>0, <1>4 DEF Done, TypeOK, Goto, PC
    <2> QED BY <1>0, <1>4, <2>1 DEF Done, TypeOK
  <1>5. CASE Swap(t)
    <2>1. lane[t] \in Lane /\ lane[t] < BatchSize /\ hand[t][lane[t]].idx # Null
      <3>1. pc[t] = "swap" /\ Progress(t) /\ Hands(t)
        BY <1>5 DEF Swap, Sound
      <3>2. lane[t] \in Lane /\ lane[t] < BatchSize
        BY <3>1, HeldInTable DEF Progress
      <3>3. lane[t] <= lane[t]
        BY <3>2 DEF Lane
      <3> QED BY <3>1, <3>2, <3>3 DEF Hands
    <2>2. Exchanged(t) \in [BinIndex -> Entry] /\ Evicted(t) \in Hand
      BY <2>1, ExchangeKeepsPlaces
    <2>3. (lane[t] + 1) % BatchSize \in Lane
      BY <2>1 DEF Lane
    <2>4. hand' \in [Threads -> [Lane -> Hand]]
      BY <1>0, <1>5, <2>1, <2>2 DEF Swap, TypeOK
    <2>5. lane' \in [Threads -> Lane]
      BY <1>0, <1>5, <2>3 DEF Swap, TypeOK
    <2>6. pc' \in [Threads -> PC]
      BY <1>0, <1>5 DEF Swap, TypeOK, Goto, PC
    <2> QED BY <1>0, <1>5, <2>2, <2>4, <2>5, <2>6 DEF Swap, TypeOK
  <1>6. CASE Refill(t)
    <2>1. Refilling(t) /\ Take(t)
      BY <1>6 DEF Refill, Refilling
    <2>2. hand' \in [Threads -> [Lane -> Hand]] /\ next' \in [Threads -> Nat] /\ lane[t] < BatchSize
      BY <2>1, TakeInTable
    <2>3. NextLane(t, next[t] + 1)
      BY <2>1 DEF Take
    <2>4. /\ pc' \in [Threads -> PC] /\ lane' \in [Threads -> Lane]
          /\ looping' \in [Threads -> BOOLEAN]
      BY <2>2, <2>3, NextLaneInTable
    <2> QED BY <1>0, <1>6, <2>2, <2>4 DEF Refill, TypeOK
  <1>7. CASE Retry(t)
    <2>1. Refilling(t) /\ NextLane(t, next[t]) /\ lane[t] < BatchSize /\ lane[t] \in Lane
      BY <1>7, HeldInTable DEF Retry, Refilling, Sound, Progress
    <2>2. /\ pc' \in [Threads -> PC] /\ lane' \in [Threads -> Lane]
          /\ looping' \in [Threads -> BOOLEAN]
      BY <2>1, NextLaneInTable
    <2>3. MovedOn(hand[t][lane[t]]) \in Hand
      BY <1>7, HeldInTable, MovedOnInTable DEF Retry, Sound
    <2>4. hand' \in [Threads -> [Lane -> Hand]]
      BY <1>0, <1>7, <2>1, <2>3 DEF Retry, TypeOK
    <2> QED BY <1>0, <1>7, <2>2, <2>4 DEF Retry, TypeOK
  <1>8. CASE GiveUp(t)
    BY <1>0, <1>8 DEF GiveUp, TypeOK, Goto, PC
  <1>9. CASE Lanes(t)
    <2>1. lane[t] + 1 \in Lane
      BY <1>9, HeldInTable DEF Lanes, Lane
    <2> QED BY <1>0, <1>9, <2>1 DEF Lanes, TypeOK, Goto, PC
  <1>10. CASE Rest(t)
    <2>1. BatchSize \in Lane /\ pc[t] \notin {"call", "done", "refused"}
      BY <1>10 DEF Lane, Rest
    <2>2. CASE next[t] < BlockLength(t)
      <3>1. Fresh(BlockItem(t, next[t])) \in Hand
        BY <1>0, <2>1, <2>2, BlockItemInTable DEF TypeOK
      <3>2. /\ hand' = [hand EXCEPT ![t][BatchSize] = Fresh(BlockItem(t, next[t]))]
            /\ next' = [next EXCEPT ![t] = @ + 1]
            /\ pc' = [pc EXCEPT ![t] = "one"]
            /\ block' = block
        BY <1>10, <2>2 DEF Rest, Goto
      <3>3. hand' \in [Threads -> [Lane -> Hand]]
        BY <1>0, <2>1, <3>1, <3>2 DEF TypeOK
      <3>4. pc' \in [Threads -> PC] /\ next' \in [Threads -> Nat]
        BY <1>0, <3>2 DEF TypeOK, PC
      <3> QED BY <1>0, <1>10, <3>2, <3>3, <3>4 DEF Rest, TypeOK
    <2>3. CASE ~(next[t] < BlockLength(t))
      <3>1. pc' = [pc EXCEPT ![t] = "block"] /\ block' = [block EXCEPT ![t] = @ + BlockSize]
        BY <1>10, <2>3 DEF Rest, Goto
      <3>2. pc' \in [Threads -> PC] /\ block' \in [Threads -> Nat]
        BY <1>0, <3>1 DEF TypeOK, PC
      <3> QED BY <1>0, <1>10, <2>3, <3>2 DEF Rest, TypeOK
    <2> QED BY <2>2, <2>3
  <1>11. CASE InsertOne(t)
    <2> DEFINE out == Evicted(t)
               new == IF out.idx # Null /\ out.tries # ReinsertLimit THEN MovedOn(out) ELSE out
               step == IF out.idx = Null THEN "lanes"
                       ELSE IF out.tries # ReinsertLimit THEN "one" ELSE "scan"
    <2>1. hand[t][lane[t]].idx # Null /\ lane[t] \in Lane
      BY <1>11, HeldInTable DEF InsertOne, Sound, Hands
    <2>2. /\ Exchanged(t) \in [BinIndex -> Entry] /\ out \in Hand
          /\ out.idx # Null => out.hash \in HashIndex
      BY <2>1, ExchangeKeepsPlaces
    <2>3. new \in Hand
      BY <2>2, MovedOnInTable DEF Sound
    <2>4. /\ mBins' = Exchanged(t)
          /\ hand' = [hand EXCEPT ![t][lane[t]] = new]
          /\ pc' = [pc EXCEPT ![t] = step]
          /\ slot' = [slot EXCEPT ![t] = 0]
      BY <1>11 DEF InsertOne, Goto
    <2>5. step \in PC
      BY DEF PC
    <2> HIDE DEF new, step
    <2>6. hand' \in [Threads -> [Lane -> Hand]] /\ pc' \in [Threads -> PC]
      BY <1>0, <2>1, <2>3, <2>4, <2>5 DEF TypeOK
    <2> QED BY <1>0, <1>11, <2>2, <2>4, <2>6 DEF InsertOne, TypeOK
  <1>12. CASE Scan(t)
    <2>1. table \in Table
      BY <1>0, ConstantsAssumption DEF TypeOK
    <2>2. table.stash \in 0 .. MaxStash
      BY <2>1 DEF Table
    <2>3. slot[t] \in 0 .. MaxStash /\ slot[t] <= table.stash
      BY <1>0, <1>12 DEF TypeOK, Scan, Sound, Looked
    <2>4. slot' \in [Threads -> 0 .. MaxStash]
      <3>1. slot' = slot \/ (slot[t] # table.stash /\ slot' = [slot EXCEPT ![t] = @ + 1])
        BY <1>12 DEF Scan
      <3>2. slot[t] # table.stash => slot[t] + 1 \in 0 .. MaxStash
        BY <2>2, <2>3
      <3> QED BY <1>0, <3>1, <3>2 DEF TypeOK
    <2>5. pc' \in [Threads -> PC]
      BY <1>0, <1>12 DEF TypeOK, Scan, Goto, PC
    <2> QED BY <1>0, <1>12, <2>4, <2>5 DEF Scan, TypeOK
  <1>13. CASE Put(t)
    <2>1. lane[t] \in Lane /\ EntryOf(hand[t][lane[t]]) \in Entry
      BY HeldInTable
    <2>2. mStash' \in [Slot -> Entry]
      BY <1>0, <1>13, <2>1 DEF Put, TypeOK
    <2>3. CASE looping[t]
      <3>1. Refilling(t) /\ Take(t)
        BY <1>13, <2>3 DEF Put, Refilling
      <3>2. hand' \in [Threads -> [Lane -> Hand]] /\ next' \in [Threads -> Nat] /\ lane[t] < BatchSize
        BY <3>1, TakeInTable
      <3>3. NextLane(t, next[t] + 1)
        BY <3>1 DEF Take
      <3>4. /\ pc' \in [Threads -> PC] /\ lane' \in [Threads -> Lane]
            /\ looping' \in [Threads -> BOOLEAN]
        BY <3>2, <3>3, NextLaneInTable
      <3> QED BY <1>0, <1>13, <2>2, <3>2, <3>4 DEF Put, TypeOK
    <2>4. CASE ~looping[t]
      <3>1. NoHand \in Hand
        BY DEF NoHand, Hand
      <3>2. hand' = [hand EXCEPT ![t][lane[t]] = NoHand] /\ pc' = [pc EXCEPT ![t] = "lanes"]
        BY <1>13, <2>4 DEF Put, Goto
      <3>3. hand' \in [Threads -> [Lane -> Hand]] /\ pc' \in [Threads -> PC]
        BY <1>0, <2>1, <3>1, <3>2 DEF TypeOK, PC
      <3> QED BY <1>0, <1>13, <2>2, <2>4, <3>3 DEF Put, TypeOK
    <2> QED BY <2>3, <2>4
  <1> QED BY <1>1, <1>2, <1>3, <1>4, <1>5, <1>6, <1>7, <1>8, <1>9, <1>10, <1>11, <1>12, <1>13
          DEF Step

\* The variables of a thread, and how many of each there are.
LEMMA Domains ==
    ASSUME TypeOK
    PROVE  /\ pc \in [Threads -> PC] /\ call \in [Threads -> Nat \ {0}]
           /\ block \in [Threads -> Nat] /\ hand \in [Threads -> [Lane -> Hand]]
           /\ lane \in [Threads -> Lane] /\ next \in [Threads -> Nat]
           /\ slot \in [Threads -> 0 .. MaxStash] /\ looping \in [Threads -> BOOLEAN]
           /\ mBins \in [BinIndex -> Entry] /\ mStash \in [Slot -> Entry]
  BY DEF TypeOK

\* After the last lane comes the first.
LEMMA AfterLane ==
    ASSUME NEW l \in 0 .. BatchSize - 1
    PROVE  (l + 1) % BatchSize = IF l + 1 = BatchSize THEN 0 ELSE l + 1
  <1> USE Constants
  <1>1. CASE l + 1 = BatchSize
    BY <1>1
  <1>2. CASE l + 1 # BatchSize
    <2>1. l + 1 \in 0 .. BatchSize - 1
      BY <1>2
    <2> QED BY <1>2, <2>1
  <1> QED BY <1>1, <1>2

LEMMA NextLaneProgress ==
    ASSUME Sound, NEW t \in Threads, Refilling(t), NEW n \in Nat, NextLane(t, n),
           n < BlockLength(t) - BatchSize + lane[t] + 1, next'[t] = n,
           UNCHANGED <<table, call, block>>
    PROVE  Progress(t)'
  <1>1. pc[t] \notin {"call", "done", "refused"}
    BY DEF Refilling
  <1>2. BlockLength(t) \in Int
    BY <1>1, CallInTable
  <1>3. BlockLength(t)' = BlockLength(t) /\ CurrentCall(t)' = CurrentCall(t)
    BY DEF BlockLength, CurrentCall
  <1>4. lane[t] \in 0 .. BatchSize - 1 /\ looping[t]
    BY HeldInTable, Constants DEF Sound, Progress, Refilling, Lane
  <1>5. /\ call[t] \in 1 .. Len(table.calls[t])
        /\ CurrentCall(t).start + CurrentCall(t).size <= table.n
        /\ block[t] < CurrentCall(t).size
    BY <1>1 DEF Sound, Progress, Refilling
  <1>6. TypeOK
    BY DEF Sound
  <1>7. CASE lane[t] + 1 < BatchSize
    <2>1. lane'[t] = lane[t] + 1 /\ pc'[t] = "refill" /\ looping'[t]
      BY <1>4, <1>6, <1>7, Domains DEF NextLane, Goto
    <2> QED BY <2>1, <1>2, <1>3, <1>4, <1>5, <1>7, Constants
            DEF Progress, Refilling, Finishing, CurrentCall
  <1>8. CASE ~(lane[t] + 1 < BatchSize)
    <2>1. /\ lane'[t] = 0 /\ looping'[t] = Loops(t, n)
          /\ pc'[t] = IF Loops(t, n) THEN "swap" ELSE "lanes"
      BY <1>6, <1>8, Domains DEF NextLane, Goto
    <2>2. lane[t] + 1 = BatchSize
      BY <1>4, <1>8, Constants
    <2>3. CASE Loops(t, n)
      <3>1. n < BlockLength(t) - BatchSize
        BY <2>3 DEF Loops
      <3> QED BY <2>1, <2>3, <3>1, <1>2, <1>3, <1>5, Constants
              DEF Progress, Refilling, Finishing, CurrentCall
    <2>4. CASE ~Loops(t, n)
      <3>1. n <= BlockLength(t)
        BY <2>2, <1>2, <1>4, Constants
      <3> QED BY <2>1, <2>4, <3>1, <1>2, <1>3, <1>5, Constants
              DEF Progress, Refilling, Finishing, CurrentCall
    <2> QED BY <2>3, <2>4
  <1> QED BY <1>7, <1>8

LEMMA NextLaneHands ==
    ASSUME Sound, NEW t \in Threads, Refilling(t), NEW n, NextLane(t, n),
           NEW h \in Hand, h.idx # Null, h.hash # 255,
           hand' = [hand EXCEPT ![t][lane[t]] = h]
    PROVE  Hands(t)'
  <1>1. TypeOK /\ Hands(t)
    BY DEF Sound
  <1>2. lane[t] \in 0 .. BatchSize - 1 /\ lane[t] \in Lane /\ BatchSize \in Lane
    BY HeldInTable, Constants DEF Sound, Progress, Lane
  <1>3. \A l \in Lane : hand'[t][l] = IF l = lane[t] THEN h ELSE hand[t][l]
    BY <1>1, <1>2, Domains
  <1>4. hand'[t][BatchSize].idx = Null
    BY <1>1, <1>2, <1>3 DEF Hands
  <1>5. \A l \in Lane : l <= lane[t] => hand'[t][l].idx # Null
    BY <1>1, <1>2, <1>3 DEF Hands, Lane
  <1>6. \A l \in Lane : hand'[t][l].idx # Null => hand'[t][l].hash # 255
    BY <1>1, <1>3 DEF Hands
  <1>7. CASE lane[t] + 1 < BatchSize
    <2>1. lane'[t] = lane[t] + 1 /\ pc'[t] = "refill"
      BY <1>1, <1>2, <1>7, Domains DEF NextLane, Goto
    <2>2. \A l \in Lane : l < lane'[t] => hand'[t][l].idx # Null
      BY <1>2, <1>5, <2>1 DEF Lane
    <2> QED BY <1>4, <1>6, <2>1, <2>2 DEF Hands, Refilling, Finishing
  <1>8. CASE ~(lane[t] + 1 < BatchSize)
    <2>1. lane'[t] = 0 /\ pc'[t] \in {"swap", "lanes"}
      BY <1>1, <1>8, Domains DEF NextLane, Goto
    <2>2. \A l \in Lane : l < BatchSize => hand'[t][l].idx # Null
      BY <1>2, <1>5, <1>8, Constants DEF Lane
    <2> QED BY <1>4, <1>6, <2>1, <2>2, Constants DEF Hands, Refilling, Finishing, Lane
  <1> QED BY <1>7, <1>8

LEMMA StepProgress ==
    ASSUME Sound, NEW t \in Threads, Step(t)
    PROVE  Progress(t)'
  <1>0. TypeOK /\ Progress(t)
    BY DEF Sound
  <1>a. /\ table' = table
        /\ call' = call /\ block' = block =>
             CurrentCall(t)' = CurrentCall(t) /\ BlockLength(t)' = BlockLength(t)
    BY DEF Step, Call, Block, EndCall, Done, Swap, Refill, Retry, GiveUp, Lanes, Rest,
           InsertOne, Scan, Put, CurrentCall, BlockLength
  <1>b. pc[t] \notin {"call", "done", "refused"} =>
          BlockLength(t) \in Int /\ block[t] \in Nat /\ next[t] \in Nat
    BY CallInTable
  <1>c. lane[t] \in Lane /\ next[t] \in Nat
    BY <1>0, Domains
  <1> USE DEF Progress, Refilling, Finishing
  <1>1. CASE Call(t)
    <2>1. CASE Accepts(CurrentCall(t))
      <3>1. pc'[t] = "block" /\ call' = call
        BY <1>0, <1>1, <2>1, Domains DEF Call, Goto
      <3>2. call[t] \in 1 .. Len(table.calls[t])
        <4>1. table \in Table
          BY <1>0, ConstantsAssumption DEF TypeOK
        <4>2. table.calls[t] \in Seq(Span)
          BY <4>1 DEF Table
        <4>3. call[t] \in Nat \ {0} /\ call[t] <= Len(table.calls[t])
          BY <1>0, <1>1, Domains DEF Call
        <4> QED BY <4>2, <4>3
      <3>3. CurrentCall(t)' = CurrentCall(t)
        BY <1>a, <3>1 DEF CurrentCall
      <3> QED BY <1>a, <2>1, <3>1, <3>2, <3>3 DEF Accepts
    <2>2. CASE ~Accepts(CurrentCall(t))
      <3>1. pc'[t] = "refused"
        BY <1>0, <1>1, <2>2, Domains DEF Call, Goto
      <3> QED BY <3>1
    <2> QED BY <2>1, <2>2
  <1>2. CASE Block(t)
    <2>1. /\ pc'[t] = IF Loops(t, BatchSize) THEN "swap" ELSE "lanes"
          /\ next'[t] = BatchSize /\ lane'[t] = 0 /\ looping'[t] = Loops(t, BatchSize)
          /\ call' = call /\ block' = block
          /\ pc[t] = "block" /\ block[t] < CurrentCall(t).size
      BY <1>0, <1>2, Domains DEF Block, Goto
    <2>2. Loops(t, BatchSize) => BatchSize < BlockLength(t) - BatchSize
      BY DEF Loops
    <2> QED BY <1>0, <1>a, <1>b, <2>1, <2>2, Constants
  <1>3. CASE EndCall(t)
    <2>1. pc'[t] = "call"
      BY <1>0, <1>3, Domains DEF EndCall, Goto
    <2> QED BY <2>1
  <1>4. CASE Done(t)
    <2>1. pc'[t] = "done"
      BY <1>0, <1>4, Domains DEF Done, Goto
    <2> QED BY <2>1
  <1>5. CASE Swap(t)
    <2>1. /\ pc'[t] = IF lane[t] + 1 = BatchSize THEN "refill" ELSE "swap"
          /\ lane'[t] = (lane[t] + 1) % BatchSize
          /\ looping' = looping /\ next' = next /\ call' = call /\ block' = block
          /\ pc[t] = "swap"
      BY <1>0, <1>5, Domains DEF Swap, Goto
    <2>2. lane[t] \in 0 .. BatchSize - 1
      BY <1>0, <1>c, <2>1, Constants DEF Lane
    <2>3. lane'[t] = IF lane[t] + 1 = BatchSize THEN 0 ELSE lane[t] + 1
      BY <2>1, <2>2, AfterLane
    <2> HIDE DEF Refilling, Finishing
    <2>4. looping[t] /\ next[t] < BlockLength(t) - BatchSize
      BY <1>0, <2>1
    <2>5. ~Finishing(t)' /\ lane'[t] \in 0 .. BatchSize - 1
      BY <2>1, <2>2, <2>3, <2>4, Constants DEF Finishing
    <2>6. Refilling(t)' => lane'[t] = 0
      BY <2>1, <2>3 DEF Refilling
    <2> QED BY <1>0, <1>a, <1>b, <2>1, <2>4, <2>5, <2>6, Constants
  <1>6. CASE Refill(t)
    <2>1. Refilling(t) /\ Take(t) /\ UNCHANGED <<table, call, block>>
      BY <1>6 DEF Refill
    <2>2. NextLane(t, next[t] + 1) /\ next'[t] = next[t] + 1 /\ next[t] + 1 \in Nat
      BY <1>0, <1>c, <2>1, Domains DEF Take
    <2>3. next[t] + 1 < BlockLength(t) - BatchSize + lane[t] + 1
      BY <1>0, <1>b, <1>c, <2>1, Constants DEF Lane
    <2> QED BY <2>1, <2>2, <2>3, NextLaneProgress
  <1>7. CASE Retry(t)
    <2>1. Refilling(t) /\ NextLane(t, next[t]) /\ UNCHANGED <<table, call, block>>
      BY <1>7 DEF Retry
    <2>2. next'[t] = next[t]
      BY <1>7 DEF Retry
    <2>3. next[t] < BlockLength(t) - BatchSize + lane[t] + 1
      BY <1>0, <1>b, <1>c, <2>1, Constants DEF Lane
    <2> QED BY <1>c, <2>1, <2>2, <2>3, NextLaneProgress
  <1>8. CASE GiveUp(t)
    <2>1. /\ pc'[t] = "scan" /\ pc[t] = "refill"
          /\ UNCHANGED <<table, call, block, lane, next, looping>>
      BY <1>0, <1>8, Domains DEF GiveUp, Goto
    <2> QED BY <1>0, <1>a, <2>1
  <1>9. CASE Lanes(t)
    <2>1. /\ pc'[t] \in {"lanes", "one"} /\ pc[t] = "lanes"
          /\ UNCHANGED <<table, call, block, next, looping>>
      BY <1>0, <1>9, Domains DEF Lanes, Goto
    <2> QED BY <1>0, <1>a, <2>1
  <1>10. CASE Rest(t)
    <2>1. pc[t] = "lanes" /\ UNCHANGED <<table, call, looping>>
      BY <1>10 DEF Rest
    <2>2. CASE next[t] < BlockLength(t)
      <3>1. pc'[t] = "one" /\ block' = block /\ next'[t] = next[t] + 1
        BY <1>0, <1>10, <2>2, Domains DEF Rest, Goto
      <3>2. next[t] + 1 <= BlockLength(t)
        BY <1>b, <2>1, <2>2
      <3> QED BY <1>0, <1>a, <2>1, <3>1, <3>2
    <2>3. CASE ~(next[t] < BlockLength(t))
      <3>1. pc'[t] = "block"
        BY <1>0, <1>10, <2>3, Domains DEF Rest, Goto
      <3> QED BY <1>0, <1>a, <2>1, <3>1 DEF CurrentCall
    <2> QED BY <2>2, <2>3
  <1>11. CASE InsertOne(t)
    <2>1. /\ pc'[t] \in {"lanes", "one", "scan"} /\ pc[t] = "one"
          /\ UNCHANGED <<table, call, block, lane, next, looping>>
      BY <1>0, <1>11, Domains DEF InsertOne, Goto
    <2> QED BY <1>0, <1>a, <2>1
  <1>12. CASE Scan(t)
    <2>1. /\ pc'[t] \in {"failed", "scan", "put"} /\ pc[t] = "scan"
          /\ UNCHANGED <<table, call, block, lane, next, looping>>
      BY <1>0, <1>12, Domains DEF Scan, Goto
    <2> QED BY <1>0, <1>a, <2>1
  <1>13. CASE Put(t)
    <2>1. CASE looping[t]
      <3>1. Refilling(t) /\ Take(t) /\ UNCHANGED <<table, call, block>>
        BY <1>13, <2>1 DEF Put
      <3>2. NextLane(t, next[t] + 1) /\ next'[t] = next[t] + 1 /\ next[t] + 1 \in Nat
        BY <1>0, <1>c, <3>1, Domains DEF Take
      <3>3. next[t] + 1 < BlockLength(t) - BatchSize + lane[t] + 1
        BY <1>0, <1>b, <1>c, <3>1, Constants DEF Lane
      <3> QED BY <3>1, <3>2, <3>3, NextLaneProgress
    <2>2. CASE ~looping[t]
      <3>1. /\ pc'[t] = "lanes" /\ pc[t] = "put"
            /\ UNCHANGED <<table, call, block, lane, next, looping>>
        BY <1>0, <1>13, <2>2, Domains DEF Put, Goto
      <3> QED BY <1>0, <1>a, <2>2, <3>1
    <2> QED BY <2>1, <2>2
  <1> QED BY <1>1, <1>2, <1>3, <1>4, <1>5, <1>6, <1>7, <1>8, <1>9, <1>10, <1>11, <1>12, <1>13
          DEF Step

\* What a lane takes is an item of the block.
LEMMA TakeIsItem ==
    ASSUME Sound, NEW t \in Threads, Refilling(t)
    PROVE  Fresh(BlockItem(t, next[t])).idx # Null /\ Fresh(BlockItem(t, next[t])).hash # 255
  <1>1. pc[t] \notin {"call", "done", "refused"}
    BY DEF Refilling
  <1>2. next[t] < BlockLength(t) /\ next[t] \in Nat
    BY <1>1, CallInTable, HeldInTable, Constants DEF Sound, Progress, Lane
  <1>3. BlockItem(t, next[t]) \in Item
    BY <1>1, <1>2, BlockItemInTable
  <1>4. BlockItem(t, next[t]) # Null
    BY <1>3, Constants
  <1> QED BY <1>4 DEF Fresh

LEMMA StepHands ==
    ASSUME Sound, NEW t \in Threads, Step(t)
    PROVE  Hands(t)'
  <1>0. TypeOK /\ Hands(t) /\ Progress(t)
    BY DEF Sound
  <1>a. lane[t] \in Lane /\ BatchSize \in Lane /\ NoHand.idx = Null
    BY <1>0, Domains, Constants DEF Lane, NoHand
  <1>b. \A l \in Lane : l < BatchSize \/ l = BatchSize
    BY Constants DEF Lane
  <1> USE DEF Hands, Refilling, Finishing
  <1>1. CASE Call(t)
    <2>1. pc'[t] \in {"block", "refused"} /\ pc[t] = "call" /\ hand' = hand
      BY <1>0, <1>1, Domains DEF Call, Goto
    <2> QED BY <1>0, <2>1
  <1>2. CASE Block(t)
    <2>1. /\ pc'[t] = IF Loops(t, BatchSize) THEN "swap" ELSE "lanes"
          /\ pc[t] = "block" /\ lane'[t] = 0
      BY <1>0, <1>2, Domains DEF Block, Goto
    <2>2. \A l \in Lane :
            hand'[t][l] = IF l < BatchSize /\ l < BlockLength(t)
                          THEN Fresh(BlockItem(t, l)) ELSE NoHand
      BY <1>0, <1>2, Domains DEF Block
    <2>3. \A l \in Lane : l < BlockLength(t) =>
            Fresh(BlockItem(t, l)).idx # Null /\ Fresh(BlockItem(t, l)).hash # 255
      <3>1. \A l \in Lane : l < BlockLength(t) => BlockItem(t, l) \in Item
        BY <2>1, BlockItemInTable DEF Lane
      <3>2. \A l \in Lane : l < BlockLength(t) => BlockItem(t, l) # Null
        BY <3>1, Constants
      <3> QED BY <3>2 DEF Fresh
    <2>4. \A l \in Lane : hand'[t][l].idx # Null => hand'[t][l].hash # 255
      BY <1>a, <2>2, <2>3
    <2>5. hand'[t][BatchSize].idx = Null
      BY <1>a, <2>2, Constants
    <2>6. Loops(t, BatchSize) => \A l \in Lane : l < BatchSize => hand'[t][l].idx # Null
      <3>1. Loops(t, BatchSize) => BlockLength(t) > BatchSize
        BY DEF Loops
      <3>2. BlockLength(t) \in Int
        BY <2>1, CallInTable
      <3> QED BY <2>2, <2>3, <3>1, <3>2, Constants DEF Lane
    <2> QED BY <2>1, <2>4, <2>5, <2>6, Constants DEF Lane
  <1>3. CASE EndCall(t)
    <2>1. pc'[t] = "call" /\ pc[t] = "block" /\ hand' = hand
      BY <1>0, <1>3, Domains DEF EndCall, Goto
    <2> QED BY <1>0, <2>1
  <1>4. CASE Done(t)
    <2>1. pc'[t] = "done" /\ pc[t] = "call" /\ hand' = hand
      BY <1>0, <1>4, Domains DEF Done, Goto
    <2> QED BY <1>0, <2>1
  <1>5. CASE Swap(t)
    <2>a. /\ pc'[t] = IF lane[t] + 1 = BatchSize THEN "refill" ELSE "swap"
          /\ lane'[t] = (lane[t] + 1) % BatchSize
          /\ pc[t] = "swap"
      BY <1>0, <1>5, Domains DEF Swap, Goto
    <2>1. lane[t] \in 0 .. BatchSize - 1
      BY <1>0, <1>a, <2>a, Constants DEF Progress, Lane
    <2>2. lane'[t] = IF lane[t] + 1 = BatchSize THEN 0 ELSE lane[t] + 1
      BY <2>a, <2>1, AfterLane
    <2>3. \A l \in Lane : hand'[t][l] = IF l = lane[t] THEN Evicted(t) ELSE hand[t][l]
      BY <1>0, <1>5, <1>a, Domains DEF Swap
    <2>4. hand[t][lane[t]].idx # Null
      BY <1>0, <1>a, <2>a, <2>1 DEF Lane
    <2>5. Evicted(t).idx # Null => Evicted(t).hash # 255
      BY <2>4, ExchangeKeepsPlaces DEF HashIndex
    <2>6. \A l \in Lane : hand'[t][l].idx # Null => hand'[t][l].hash # 255
      BY <1>0, <2>3, <2>5
    <2>7. hand'[t][BatchSize].idx = Null
      BY <1>0, <1>a, <2>a, <2>1, <2>3, Constants
    <2>8. \A l \in Lane : lane[t] < l /\ l < BatchSize => hand'[t][l].idx # Null
      BY <1>0, <2>a, <2>1, <2>3 DEF Lane
    <2>9. CASE lane[t] + 1 = BatchSize
      <3>1. \A l \in Lane : ~(l < lane'[t])
        BY <2>2, <2>9 DEF Lane
      <3> QED BY <2>a, <2>1, <2>6, <2>7, <2>9, <3>1
    <2>10. CASE lane[t] + 1 # BatchSize
      <3>1. \A l \in Lane : lane'[t] <= l => lane[t] < l
        BY <2>1, <2>2, <2>10 DEF Lane
      <3> QED BY <2>a, <2>1, <2>6, <2>7, <2>8, <2>10, <3>1
    <2> QED BY <2>9, <2>10
  <1>6. CASE Refill(t)
    <2>1. Refilling(t) /\ Take(t)
      BY <1>6 DEF Refill
    <2>2. NextLane(t, next[t] + 1)
      BY <2>1 DEF Take
    <2> DEFINE h == Fresh(BlockItem(t, next[t]))
    <2>3. /\ hand' = [hand EXCEPT ![t][lane[t]] = h] /\ h \in Hand
          /\ h.idx # Null /\ h.hash # 255
      BY <2>1, TakeInTable, TakeIsItem
    <2> HIDE DEF h, Hands, Refilling, Finishing
    <2> QED BY <2>1, <2>2, <2>3, NextLaneHands
  <1>7. CASE Retry(t)
    <2>1. Refilling(t) /\ NextLane(t, next[t])
      BY <1>7 DEF Retry
    <2> DEFINE h == MovedOn(hand[t][lane[t]])
    <2>2. hand' = [hand EXCEPT ![t][lane[t]] = h]
      BY <1>0, <1>7, <1>a, Domains DEF Retry
    <2>3. h \in Hand /\ h.idx # Null /\ h.hash # 255
      BY <1>7, HeldInTable, MovedOnInTable DEF Retry, Sound, HashIndex
    <2> HIDE DEF h, Hands, Refilling, Finishing
    <2> QED BY <2>1, <2>2, <2>3, NextLaneHands
  <1>8. CASE GiveUp(t)
    <2>1. /\ pc'[t] = "scan" /\ pc[t] = "refill" /\ hand[t][lane[t]].idx # Null
          /\ UNCHANGED <<hand, lane, looping>>
      BY <1>0, <1>8, Domains DEF GiveUp, Goto
    <2>2. looping[t] /\ lane[t] < BatchSize
      BY <1>0, <2>1 DEF Progress
    <2> QED BY <1>0, <2>1, <2>2
  <1>9. CASE Lanes(t)
    <2>1. pc[t] = "lanes" /\ lane[t] < BatchSize /\ hand' = hand /\ looping' = looping
      BY <1>9 DEF Lanes
    <2>2. ~looping[t]
      BY <1>0, <2>1 DEF Progress
    <2>3. CASE hand[t][lane[t]].idx = Null
      <3>1. pc'[t] = "lanes" /\ lane'[t] = lane[t] + 1
        BY <1>0, <1>9, <2>3, <2>1, Domains DEF Lanes, Goto
      <3>2. \A l \in Lane : l < lane'[t] => l < lane[t] \/ l = lane[t]
        BY <1>a, <3>1 DEF Lane
      <3> QED BY <1>0, <2>1, <2>3, <3>1, <3>2
    <2>4. CASE hand[t][lane[t]].idx # Null
      <3>1. pc'[t] = "one" /\ lane' = lane
        BY <1>0, <1>9, <2>4, Domains DEF Lanes, Goto
      <3> QED BY <1>0, <2>1, <2>4, <3>1
    <2> QED BY <2>3, <2>4
  <1>10. CASE Rest(t)
    <2>1. pc[t] = "lanes" /\ lane[t] = BatchSize /\ lane' = lane /\ looping' = looping
      BY <1>10 DEF Rest
    <2>2. CASE next[t] < BlockLength(t)
      <3> DEFINE h == Fresh(BlockItem(t, next[t]))
      <3>1. h.idx # Null /\ h.hash # 255
        <4>1. BlockItem(t, next[t]) \in Item
          BY <1>0, <2>1, <2>2, BlockItemInTable, Domains
        <4> QED BY <4>1, Constants DEF Fresh
      <3>2. \A l \in Lane : hand'[t][l] = IF l = BatchSize THEN h ELSE hand[t][l]
        BY <1>0, <1>10, <1>a, <2>2, Domains DEF Rest
      <3>3. pc'[t] = "one"
        BY <1>0, <1>10, <2>2, Domains DEF Rest, Goto
      <3> HIDE DEF h
      <3>4. \A l \in Lane : l < lane'[t] => hand'[t][l].idx = Null
        BY <1>0, <2>1, <3>2, Constants DEF Lane
      <3> QED BY <1>0, <1>a, <2>1, <3>1, <3>2, <3>3, <3>4, Constants
    <2>3. CASE ~(next[t] < BlockLength(t))
      <3>1. pc'[t] = "block" /\ hand' = hand
        BY <1>0, <1>10, <2>3, Domains DEF Rest, Goto
      <3> QED BY <1>0, <1>b, <2>1, <3>1
    <2> QED BY <2>2, <2>3
  <1>11. CASE InsertOne(t)
    <2> DEFINE out == Evicted(t)
               new == IF out.idx # Null /\ out.tries # ReinsertLimit THEN MovedOn(out) ELSE out
    <2>1. pc[t] = "one" /\ lane' = lane /\ looping' = looping
      BY <1>11 DEF InsertOne
    <2>2. hand[t][lane[t]].idx # Null
      BY <1>0, <2>1
    <2>3. out \in Hand /\ (out.idx # Null => out.hash \in HashIndex)
      BY <2>2, ExchangeKeepsPlaces
    <2>4. new.idx = out.idx /\ (new.idx # Null => new.hash # 255)
      <3>1. CASE out.idx # Null /\ out.tries # ReinsertLimit
        BY <2>3, <3>1, MovedOnInTable DEF Sound, HashIndex
      <3>2. CASE ~(out.idx # Null /\ out.tries # ReinsertLimit)
        BY <2>3, <3>2 DEF HashIndex
      <3> QED BY <3>1, <3>2
    <2>5. \A l \in Lane : hand'[t][l] = IF l = lane[t] THEN new ELSE hand[t][l]
      BY <1>0, <1>11, <1>a, Domains DEF InsertOne
    <2>6. /\ pc'[t] \in {"lanes", "one", "scan"}
          /\ pc'[t] = "lanes" <=> out.idx = Null
      BY <1>0, <1>11, Domains DEF InsertOne, Goto
    <2> HIDE DEF out, new
    <2>7. \A l \in Lane : l < lane'[t] => hand'[t][l].idx = Null
      BY <1>0, <1>a, <2>1, <2>5 DEF Lane
    <2>8. lane[t] < BatchSize => hand'[t][BatchSize].idx = Null
      BY <1>0, <1>a, <2>1, <2>5, Constants
    <2>9. ~looping'[t]
      BY <1>0, <2>1 DEF Progress
    <2> QED BY <1>0, <1>a, <1>b, <2>1, <2>4, <2>5, <2>6, <2>7, <2>8, <2>9
  <1>12. CASE Scan(t)
    <2>1. /\ pc'[t] \in {"failed", "scan", "put"} /\ pc[t] = "scan"
          /\ UNCHANGED <<hand, lane, looping>>
      BY <1>0, <1>12, Domains DEF Scan, Goto
    <2> QED BY <1>0, <2>1
  <1>13. CASE Put(t)
    <2>1. CASE looping[t]
      <3>1. Refilling(t) /\ Take(t)
        BY <1>13, <2>1 DEF Put
      <3>2. NextLane(t, next[t] + 1)
        BY <3>1 DEF Take
      <3> DEFINE h == Fresh(BlockItem(t, next[t]))
      <3>3. /\ hand' = [hand EXCEPT ![t][lane[t]] = h] /\ h \in Hand
            /\ h.idx # Null /\ h.hash # 255
        BY <3>1, TakeInTable, TakeIsItem
      <3> HIDE DEF h, Hands, Refilling, Finishing
      <3> QED BY <3>1, <3>2, <3>3, NextLaneHands
    <2>2. CASE ~looping[t]
      <3>1. /\ pc'[t] = "lanes" /\ pc[t] = "put" /\ lane' = lane
            /\ looping' = looping
        BY <1>0, <1>13, <2>2, Domains DEF Put, Goto
      <3>2. \A l \in Lane : hand'[t][l] = IF l = lane[t] THEN NoHand ELSE hand[t][l]
        BY <1>0, <1>13, <1>a, <2>2, Domains DEF Put
      <3>3. \A l \in Lane : l < lane'[t] => hand'[t][l].idx = Null
        BY <1>0, <1>a, <2>2, <3>1, <3>2 DEF Lane
      <3>4. hand'[t][BatchSize].idx = Null
        BY <1>0, <1>a, <1>b, <2>2, <3>1, <3>2
      <3> QED BY <1>0, <1>a, <2>2, <3>1, <3>2, <3>3, <3>4
    <2> QED BY <2>1, <2>2
  <1> QED BY <1>1, <1>2, <1>3, <1>4, <1>5, <1>6, <1>7, <1>8, <1>9, <1>10, <1>11, <1>12, <1>13
          DEF Step

\* A slot of the stash that is taken stays taken, and the first that is not is filled.
LEMMA StepStash ==
    ASSUME Sound, NEW t \in Threads, Step(t)
    PROVE  /\ \A k \in Slot : mStash[k] # Empty => mStash'[k] # Empty
           /\ NoHole'
  <1>1. CASE Put(t)
    <2>1. pc[t] = "put" /\ hand[t][lane[t]].idx # Null
      BY <1>1 DEF Put, Sound, Hands
    <2>2. slot[t] \in 0 .. MaxStash /\ \A j \in Slot : j < slot[t] => mStash[j] # Empty
      BY <2>1, Domains DEF Sound, Looked
    <2>3. EntryOf(hand[t][lane[t]]) # Empty
      BY <2>1 DEF EntryOf, Empty
    <2>4. \A k \in Slot : mStash'[k] = IF k = slot[t] THEN EntryOf(hand[t][lane[t]]) ELSE mStash[k]
      BY <1>1, Domains DEF Put, Sound
    <2>5. \A k \in Slot : mStash[k] # Empty => mStash'[k] # Empty
      BY <2>3, <2>4
    <2>6. ASSUME NEW k \in Slot, mStash'[k] # Empty, NEW j \in 0 .. k
          PROVE  mStash'[j] # Empty
      <3>1. j \in Slot
        BY Constants DEF Slot
      <3>2. CASE k = slot[t]
        BY <2>2, <2>3, <2>4, <3>1, <3>2
      <3>3. CASE k # slot[t]
        <4>1. mStash[k] # Empty
          BY <2>4, <2>6, <3>3
        <4>2. mStash[j] # Empty
          BY <4>1 DEF Sound, NoHole
        <4> QED BY <2>5, <3>1, <4>2
      <3> QED BY <3>2, <3>3
    <2> QED BY <2>5, <2>6 DEF NoHole
  <1>2. CASE ~Put(t)
    <2>1. mStash' = mStash
      BY <1>2 DEF Step, Call, Block, EndCall, Done, Swap, Refill, Retry, GiveUp, Lanes, Rest,
                  InsertOne, Scan
    <2> QED BY <2>1 DEF Sound, NoHole
  <1> QED BY <1>1, <1>2

LEMMA StepPlaced ==
    ASSUME Sound, NEW t \in Threads, Step(t)
    PROVE  Placed'
  <1>1. table' = table
    BY DEF Step, Call, Block, EndCall, Done, Swap, Refill, Retry, GiveUp, Lanes, Rest,
           InsertOne, Scan, Put
  <1>2. CASE Swap(t) \/ InsertOne(t)
    <2>1. mBins' = Exchanged(t)
      BY <1>2 DEF Swap, InsertOne
    <2>2. hand[t][lane[t]].idx # Null
      <3>1. lane[t] \in Lane /\ lane[t] <= lane[t]
        BY HeldInTable DEF Lane
      <3> QED BY <1>2, <3>1 DEF Swap, InsertOne, Sound, Hands, Progress
    <2>3. \A b \in BinIndex : mBins'[b].idx # Null =>
            mBins'[b].hash # 255 /\ Location(mBins'[b].idx, mBins'[b].hash) = b
      BY <2>1, <2>2, ExchangeKeepsPlaces
    <2> QED BY <1>1, <2>3 DEF Placed, Location, RowOf
  <1>3. CASE ~(Swap(t) \/ InsertOne(t))
    <2>1. mBins' = mBins
      BY <1>3 DEF Step, Call, Block, EndCall, Done, Refill, Retry, GiveUp, Lanes, Rest,
                  Scan, Put
    <2> QED BY <1>1, <2>1 DEF Sound, Placed, Location, RowOf
  <1> QED BY <1>2, <1>3

LEMMA StepLooked ==
    ASSUME Sound, NEW t \in Threads, Step(t)
    PROVE  Looked(t)'
  <1>0. TypeOK /\ Looked(t) /\ table.stash \in 0 .. MaxStash
    BY ConstantsAssumption DEF Sound, TypeOK, Table
  <1>1. slot[t] \in 0 .. MaxStash
    BY <1>0, Domains
  <1>2. table' = table
    BY DEF Step, Call, Block, EndCall, Done, Swap, Refill, Retry, GiveUp, Lanes, Rest,
           InsertOne, Scan, Put
  <1>3. CASE GiveUp(t) \/ InsertOne(t)
    <2>1. slot'[t] = 0 /\ pc'[t] # "put"
      BY <1>0, <1>3, Domains DEF GiveUp, InsertOne, Goto
    <2>2. \A j \in Slot : ~(j < 0)
      BY Constants DEF Slot
    <2> QED BY <1>0, <1>2, <2>1, <2>2 DEF Looked
  <1>4. CASE Scan(t)
    <2>1. pc[t] = "scan" /\ mStash' = mStash
      BY <1>4 DEF Scan
    <2>2. slot[t] <= table.stash /\ \A j \in Slot : j < slot[t] => mStash[j] # Empty
      BY <1>0, <2>1 DEF Looked
    <2>3. CASE slot[t] = table.stash
      <3>1. pc'[t] = "failed"
        BY <1>0, <1>4, <2>3, Domains DEF Scan, Goto
      <3> QED BY <3>1 DEF Looked
    <2>4. CASE slot[t] # table.stash /\ mStash[slot[t]] # Empty
      <3>1. slot'[t] = slot[t] + 1 /\ pc'[t] = "scan"
        BY <1>0, <1>4, <2>1, <2>4, Domains DEF Scan
      <3>2. \A j \in Slot : j < slot[t] + 1 => mStash[j] # Empty
        BY <1>1, <2>2, <2>4, Constants DEF Slot
      <3>3. slot[t] + 1 <= table.stash
        BY <1>0, <1>1, <2>2, <2>4
      <3> QED BY <1>2, <2>1, <3>1, <3>2, <3>3 DEF Looked
    <2>5. CASE slot[t] # table.stash /\ mStash[slot[t]] = Empty
      <3>1. slot' = slot /\ pc'[t] = "put"
        BY <1>0, <1>4, <2>5, Domains DEF Scan, Goto
      <3>2. slot[t] < table.stash
        BY <1>0, <1>1, <2>2, <2>5
      <3> QED BY <1>2, <2>1, <2>2, <3>1, <3>2 DEF Looked
    <2> QED BY <2>3, <2>4, <2>5
  <1>5. CASE ~(GiveUp(t) \/ InsertOne(t) \/ Scan(t))
    <2>1. pc'[t] \notin {"scan", "put"}
      BY <1>0, <1>5, Domains DEF Step, Call, Block, EndCall, Done, Swap, Refill, Retry, Lanes,
                                 Rest, Put, Take, NextLane, Goto
    <2> QED BY <2>1 DEF Looked
  <1> QED BY <1>3, <1>4, <1>5

\* A thread leaves the variables of the others alone.
LEMMA OthersKept ==
    ASSUME Sound, NEW t \in Threads, Step(t), NEW u \in Threads, u # t
    PROVE  Progress(u)' /\ Hands(u)' /\ Looked(u)'
  <1>1. TypeOK /\ Progress(u) /\ Hands(u) /\ Looked(u)
    BY DEF Sound
  <1>2. /\ table' = table
        /\ pc'[u] = pc[u] /\ call'[u] = call[u] /\ block'[u] = block[u]
        /\ hand'[u] = hand[u] /\ lane'[u] = lane[u] /\ next'[u] = next[u]
        /\ slot'[u] = slot[u] /\ looping'[u] = looping[u]
    BY <1>1, Domains DEF Step, Call, Block, EndCall, Done, Swap, Refill, Retry, GiveUp, Lanes,
                         Rest, InsertOne, Scan, Put, Take, NextLane, Goto
  <1>3. Progress(u)'
    BY <1>1, <1>2 DEF Progress, Refilling, Finishing, CurrentCall, BlockLength
  <1>4. Hands(u)'
    BY <1>1, <1>2 DEF Hands, Refilling, Finishing
  <1>5. Looked(u)'
    BY <1>1, <1>2, StepStash DEF Looked
  <1> QED BY <1>3, <1>4, <1>5

LEMMA StaysSound == ASSUME ThreeHashes PROVE Spec => []Sound
  <1>1. Init => Sound
    <2> SUFFICES ASSUME Init PROVE Sound
      OBVIOUS
    <2>1. table \in Tables /\ table.numHashes = 3
      BY DEF Init, ThreeHashes
    <2>2. Empty \in Entry /\ NoHand \in Hand /\ NoHand.idx = Null /\ 0 \in Lane
      BY Constants DEF Empty, Entry, NoHand, Hand, Lane
    <2>3. TypeOK
      BY <2>1, <2>2, Constants DEF Init, TypeOK, PC
    <2>4. \A t \in Threads : Progress(t) /\ Looked(t)
      BY DEF Init, Progress, Looked, Refilling, Finishing
    <2>5. \A t \in Threads : Hands(t)
      BY <2>2 DEF Init, Hands, Refilling, Finishing
    <2>6. Placed /\ NoHole
      BY DEF Init, Placed, NoHole, Empty
    <2> QED BY <2>1, <2>3, <2>4, <2>5, <2>6 DEF Sound
  <1>2. Sound /\ [Next]_vars => Sound'
    <2>1. ASSUME Sound, NEW t \in Threads, Step(t)
          PROVE  Sound'
      <3>1. TypeOK'
        BY <2>1, StepTypes
      <3>2. table'.numHashes = 3
        BY <2>1 DEF Sound, Step, Call, Block, EndCall, Done, Swap, Refill, Retry, GiveUp, Lanes,
                    Rest, InsertOne, Scan, Put
      <3>3. Progress(t)' /\ Hands(t)' /\ Looked(t)'
        BY <2>1, StepProgress, StepHands, StepLooked
      <3>4. \A u \in Threads : u # t => Progress(u)' /\ Hands(u)' /\ Looked(u)'
        BY <2>1, OthersKept
      <3>5. Placed' /\ NoHole'
        BY <2>1, StepPlaced, StepStash
      <3> QED BY <3>1, <3>2, <3>3, <3>4, <3>5 DEF Sound
    <2>2. ASSUME Sound, UNCHANGED vars
          PROVE  Sound'
      BY <2>2 DEF Sound, TypeOK, Progress, Hands, Looked, Placed, NoHole, Refilling, Finishing,
                  CurrentCall, BlockLength, Location, RowOf, vars
    <2> QED BY <2>1, <2>2 DEF Next, Joined
  <1> QED BY <1>1, <1>2, PTL DEF Spec

\* Every variable of the table and of its threads stays in its type: no lane goes past its
\* batch, no slot past the stash, no eviction is counted past the limit.
THEOREM TypeCorrect ==
    ASSUME ThreeHashes
    PROVE  Spec => []TypeOK
  <1>1. Sound => TypeOK
    BY DEF Sound
  <1> QED BY <1>1, StaysSound, PTL

\* However threads throw each other's items out, and wherever they are with it, an item that
\* is in a bin or in the stash is found: the bin is one of its three, and the stash is filled
\* from its first slot without a hole.
THEOREM ItemsAreFound ==
    ASSUME ThreeHashes
    PROVE  Spec => []FoundWherePlaced
  <1>1. ASSUME Sound, NEW i \in Item, InBin(i) \/ InStash(i)
        PROVE  Find(i)
    <2>1. CASE InBin(i)
      <3>1. PICK b \in BinIndex : mBins[b].idx = i
        BY <2>1 DEF InBin
      <3>2. mBins[b].idx # Null /\ mBins[b] \in Entry
        BY <1>1, <3>1, Constants, Domains DEF Sound
      <3>3. mBins[b].hash \in 0 .. 2 /\ Location(i, mBins[b].hash) = b
        BY <1>1, <3>1, <3>2 DEF Sound, Placed, Entry, HashIndex
      <3> QED BY <1>1, <3>1, <3>3 DEF Find, Sound
    <2>2. CASE InStash(i)
      <3>1. PICK k \in Slot : mStash[k].idx = i
        BY <2>2 DEF InStash
      <3>2. mStash[k] # Empty
        BY <3>1, Constants DEF Empty
      <3> QED BY <1>1, <3>1, <3>2 DEF Find, Sound, NoHole
    <2> QED BY <1>1, <2>1, <2>2
  <1>2. Sound => FoundWherePlaced
    BY <1>1 DEF FoundWherePlaced
  <1> QED BY <1>2, StaysSound, PTL

-----------------------------------------------------------------------------
(* Every item is in one place                                              *)

\* The places an item may be in: a bin, a slot of the stash, a hand of a thread, or left
\* for a thread to take.
BinPlace(b) == <<"bin", b, 0>>
StashPlace(k) == <<"stash", k, 0>>
HandPlace(t, l) == <<"hand", t, l>>
LeftPlace(t, i) == <<"left", t, i>>
Place ==
    ({"bin"} \X BinIndex \X {0}) \cup ({"stash"} \X Slot \X {0})
    \cup ({"hand"} \X Threads \X Lane) \cup ({"left"} \X Threads \X Item)

\* What is in each place.
Held ==
    [p \in Place |->
        IF p[1] = "bin" THEN mBins[p[2]].idx
        ELSE IF p[1] = "stash" THEN mStash[p[2]].idx
        ELSE IF p[1] = "hand" THEN hand[p[2]][p[3]].idx
        ELSE IF p[3] \in Pending(p[2]) THEN p[3] ELSE Null]

\* No item is in two places.
Single(H) == \A p, q \in Place : p # q /\ H[p] = H[q] => H[p] = Null

Occurs(H, i) == \E p \in Place : H[p] = i

\* An item that has been inserted belongs to a call that has been accepted.
Called(i) ==
    \E u \in Threads : \E k \in DOMAIN table.calls[u] :
        LET c == table.calls[u][k]
        IN  c.start \in mVals /\ i \in c.start .. c.start + c.size - 1

\* Everything in a place has been inserted, and everything inserted is in a place.
Filed ==
    /\ Single(Held)
    /\ \A p \in Place : Held[p] \in mVals \cup {Null}
    /\ StashOfOne => \A i \in mVals : Occurs(Held, i)

\* A thread that inserts alone finds the slot as it has seen it.
SlotFree ==
    (\A u, v \in Inserting : u = v) =>
        \A t \in Threads : pc[t] = "put" => mStash[slot[t]] = Empty

Kept == Filed /\ SlotFree /\ \A i \in mVals : Called(i)

LEMMA Places ==
    /\ \A b \in BinIndex : BinPlace(b) \in Place
    /\ \A k \in Slot : StashPlace(k) \in Place
    /\ \A t \in Threads, l \in Lane : HandPlace(t, l) \in Place
    /\ \A t \in Threads, i \in Item : LeftPlace(t, i) \in Place
    /\ \A p \in Place :
         \/ \E b \in BinIndex : p = BinPlace(b)
         \/ \E k \in Slot : p = StashPlace(k)
         \/ \E t \in Threads, l \in Lane : p = HandPlace(t, l)
         \/ \E t \in Threads, i \in Item : p = LeftPlace(t, i)
  BY DEF Place, BinPlace, StashPlace, HandPlace, LeftPlace

LEMMA HeldNow ==
    /\ \A b \in BinIndex : Held[BinPlace(b)] = mBins[b].idx
    /\ \A k \in Slot : Held[StashPlace(k)] = mStash[k].idx
    /\ \A t \in Threads, l \in Lane : Held[HandPlace(t, l)] = hand[t][l].idx
    /\ \A t \in Threads, i \in Item :
         Held[LeftPlace(t, i)] = IF i \in Pending(t) THEN i ELSE Null
  BY Places DEF Held, BinPlace, StashPlace, HandPlace, LeftPlace

LEMMA HeldNext ==
    /\ \A b \in BinIndex : Held'[BinPlace(b)] = mBins'[b].idx
    /\ \A k \in Slot : Held'[StashPlace(k)] = mStash'[k].idx
    /\ \A t \in Threads, l \in Lane : Held'[HandPlace(t, l)] = hand'[t][l].idx
    /\ \A t \in Threads, i \in Item :
         Held'[LeftPlace(t, i)] = IF i \in Pending(t)' THEN i ELSE Null
  BY Places DEF Held, BinPlace, StashPlace, HandPlace, LeftPlace

\* G is H with two places exchanged, with what is in a place dropped, and with the places
\* exchanged in pairs.
Swapped(H, G, p, q) ==
    /\ p \in Place /\ q \in Place
    /\ G[p] = H[q] /\ G[q] = H[p]
    /\ \A r \in Place : r # p /\ r # q => G[r] = H[r]

Dropped(H, G, p) == G[p] = Null /\ \A r \in Place : r # p => G[r] = H[r]

Paired(H, G, f) ==
    f \in [Place -> Place] /\ \A p \in Place : f[f[p]] = p /\ G[p] = H[f[p]]

LEMMA SwappedKeeps ==
    ASSUME NEW H, NEW G, NEW p, NEW q, Swapped(H, G, p, q), Single(H)
    PROVE  Single(G) /\ \A i : Occurs(H, i) <=> Occurs(G, i)
  <1>1. Single(G)
    BY DEF Single, Swapped
  <1>2. \A i : Occurs(H, i) <=> Occurs(G, i)
    BY DEF Occurs, Swapped
  <1> QED BY <1>1, <1>2

LEMMA DroppedKeeps ==
    ASSUME NEW H, NEW G, NEW p \in Place, Dropped(H, G, p), Single(H)
    PROVE  Single(G) /\ \A i : i # Null /\ Occurs(G, i) => Occurs(H, i)
  BY DEF Single, Occurs, Dropped

LEMMA PairedKeeps ==
    ASSUME NEW H, NEW G, NEW f, Paired(H, G, f), Single(H)
    PROVE  Single(G) /\ \A i : Occurs(H, i) <=> Occurs(G, i)
  BY DEF Single, Occurs, Paired

LEMMA FiledStays ==
    ASSUME Filed, UNCHANGED <<table, mVals>>, TypeOK, Single(Held'),
           \A i : i # Null /\ Occurs(Held', i) => Occurs(Held, i),
           StashOfOne => \A i : Occurs(Held, i) => Occurs(Held', i)
    PROVE  Filed'
  <1>1. ASSUME NEW p \in Place PROVE Held'[p] \in mVals \cup {Null}
    <2>1. CASE Held'[p] # Null
      <3>1. PICK q \in Place : Held[q] = Held'[p]
        BY <2>1 DEF Occurs
      <3> QED BY <3>1 DEF Filed
    <2>2. CASE Held'[p] = Null
      BY <2>2
    <2> QED BY <2>1, <2>2
  <1>2. StashOfOne' => \A i \in mVals : Occurs(Held', i)
    BY DEF Filed, StashOfOne, Inserting
  <1> QED BY <1>1, <1>2 DEF Filed, StashOfOne, Inserting, Single, Occurs

\* A step leaves what the other threads hold and have left.
LEMMA OthersHold ==
    ASSUME Sound, NEW t \in Threads, Step(t), NEW u \in Threads, u # t
    PROVE  Pending(u)' = Pending(u) /\ hand'[u] = hand[u]
  <1>1. TypeOK
    BY DEF Sound
  <1>2. /\ table' = table /\ pc'[u] = pc[u] /\ call'[u] = call[u] /\ block'[u] = block[u]
        /\ hand'[u] = hand[u] /\ next'[u] = next[u]
    BY <1>1, Domains DEF Step, Call, Block, EndCall, Done, Swap, Refill, Retry, GiveUp, Lanes,
                         Rest, InsertOne, Scan, Put, Take, NextLane, Goto
  <1> QED BY <1>2 DEF Pending, CurrentCall

\* A step that moves nothing in a place of thread t but those of p and q moves nothing else.
LEMMA OnlyThese ==
    ASSUME Sound, NEW t \in Threads, Step(t), NEW r \in Place,
           \A b \in BinIndex : r = BinPlace(b) => mBins'[b].idx = mBins[b].idx,
           \A k \in Slot : r = StashPlace(k) => mStash'[k].idx = mStash[k].idx,
           \A l \in Lane : r = HandPlace(t, l) => hand'[t][l].idx = hand[t][l].idx,
           \A i \in Item : r = LeftPlace(t, i) => (i \in Pending(t)' <=> i \in Pending(t))
    PROVE  Held'[r] = Held[r]
  <1>1. CASE \E b \in BinIndex : r = BinPlace(b)
    BY <1>1, HeldNow, HeldNext
  <1>2. CASE \E k \in Slot : r = StashPlace(k)
    BY <1>2, HeldNow, HeldNext
  <1>3. CASE \E u \in Threads, l \in Lane : r = HandPlace(u, l)
    <2>1. PICK u \in Threads, l \in Lane : r = HandPlace(u, l)
      BY <1>3
    <2>2. CASE u = t
      BY <2>1, <2>2, HeldNow, HeldNext
    <2>3. CASE u # t
      BY <2>1, <2>3, HeldNow, HeldNext, OthersHold
    <2> QED BY <2>2, <2>3
  <1>4. CASE \E u \in Threads, i \in Item : r = LeftPlace(u, i)
    <2>1. PICK u \in Threads, i \in Item : r = LeftPlace(u, i)
      BY <1>4
    <2>2. i \in Pending(u)' <=> i \in Pending(u)
      BY <2>1, OthersHold
    <2> QED BY <2>1, <2>2, HeldNow, HeldNext
  <1> QED BY <1>1, <1>2, <1>3, <1>4, Places

\* The exchange of a hand with a bin.
LEMMA SwapFiled ==
    ASSUME Sound, Filed, NEW t \in Threads, Swap(t) \/ InsertOne(t)
    PROVE  Filed'
  <1> DEFINE p == BinPlace(Bin(t))
             q == HandPlace(t, lane[t])
  <1>1. TypeOK /\ Step(t)
    BY DEF Sound, Step
  <1>2. hand[t][lane[t]].idx # Null /\ lane[t] \in Lane
    <2>1. lane[t] \in Lane /\ lane[t] <= lane[t]
      BY HeldInTable DEF Lane
    <2> QED BY <2>1 DEF Swap, InsertOne, Sound, Hands, Progress
  <1>3. Bin(t) \in BinIndex
    BY <1>2, ExchangeKeepsPlaces
  <1>4. \A b \in BinIndex : mBins'[b] = IF b = Bin(t) THEN EntryOf(hand[t][lane[t]]) ELSE mBins[b]
    BY <1>1, Domains DEF Swap, InsertOne, Exchanged
  <1>5. mStash' = mStash /\ mVals' = mVals /\ table' = table
    BY DEF Swap, InsertOne
  <1>6. /\ hand'[t][lane[t]].idx = Evicted(t).idx
        /\ \A l \in Lane : l # lane[t] => hand'[t][l] = hand[t][l]
    <2>1. CASE Swap(t)
      BY <1>1, <1>2, <2>1, Domains DEF Swap
    <2>2. CASE InsertOne(t)
      <3> DEFINE out == Evicted(t)
                 new == IF out.idx # Null /\ out.tries # ReinsertLimit THEN MovedOn(out) ELSE out
      <3>1. hand' = [hand EXCEPT ![t][lane[t]] = new]
        BY <2>2 DEF InsertOne
      <3>2. out \in Hand /\ (out.idx # Null => out.hash \in HashIndex)
        BY <1>2, ExchangeKeepsPlaces
      <3>3. new.idx = out.idx
        BY <3>2, MovedOnInTable DEF Sound
      <3> HIDE DEF new
      <3> QED BY <1>1, <1>2, <3>1, <3>3, Domains
    <2> QED BY <2>1, <2>2
  <1>7. Pending(t)' = Pending(t)
    <2>1. /\ pc[t] \in {"swap", "one"} /\ pc'[t] \in {"swap", "refill", "lanes", "one", "scan"}
          /\ UNCHANGED <<table, call, block, next>>
      BY <1>1, Domains DEF Swap, InsertOne, Goto
    <2> QED BY <2>1 DEF Pending, CurrentCall
  <1>8. p \in Place /\ q \in Place
    BY <1>2, <1>3, Places
  <1>9. Held'[p] = Held[q] /\ Held'[q] = Held[p]
    BY <1>2, <1>3, <1>4, <1>6, HeldNow, HeldNext DEF EntryOf, Evicted
  <1>10. \A r \in Place : r # p /\ r # q => Held'[r] = Held[r]
    BY <1>1, <1>4, <1>5, <1>6, <1>7, OnlyThese
  <1> HIDE DEF p, q
  <1>11. Single(Held)
    BY DEF Filed
  <1>12. Single(Held') /\ \A i : Occurs(Held, i) <=> Occurs(Held', i)
    <2>1. Swapped(Held, Held', p, q)
      BY <1>8, <1>9, <1>10 DEF Swapped
    <2> QED BY <2>1, <1>11, SwappedKeeps
  <1> QED BY <1>1, <1>5, <1>12, FiledStays

\* An item that is taken is no longer left.
LEMMA TakeLeaves ==
    ASSUME Sound, NEW t \in Threads, pc[t] \in {"refill", "lanes", "put"},
           next[t] < BlockLength(t), pc'[t] \notin {"call", "block", "done", "refused"},
           table' = table, call'[t] = call[t], block'[t] = block[t], next'[t] = next[t] + 1
    PROVE  /\ BlockItem(t, next[t]) \in Item
           /\ BlockItem(t, next[t]) \in Pending(t)
           /\ \A i \in Item : i \in Pending(t)' <=> i \in Pending(t) /\ i # BlockItem(t, next[t])
  <1> DEFINE c == CurrentCall(t)
             j == c.start + block[t] + next[t]
  <1>1. /\ c.start \in Nat /\ c.size \in Nat /\ block[t] \in Nat /\ next[t] \in Nat
        /\ BlockLength(t) \in Int /\ BlockLength(t) <= c.size - block[t]
    BY CallInTable
  <1>2. Pending(t) = j .. c.start + c.size - 1
    BY <1>1 DEF Pending
  <1>3. Pending(t)' = j + 1 .. c.start + c.size - 1
    <2>1. CurrentCall(t)' = c
      BY DEF CurrentCall
    <2>2. Pending(t)' = c.start + (block[t] + (next[t] + 1)) .. c.start + c.size - 1
      BY <2>1 DEF Pending
    <2>3. c.start + (block[t] + (next[t] + 1)) = j + 1
      BY <1>1
    <2> QED BY <2>2, <2>3
  <1>4. j \in Nat /\ j < c.start + c.size
    BY <1>1
  <1>5. BlockItem(t, next[t]) = j
    BY DEF BlockItem
  <1>6. BlockItem(t, next[t]) \in Item
    BY <1>1, BlockItemInTable
  <1> HIDE DEF j
  <1>7. \A i \in Item : i \in Int
    BY Constants DEF Item
  <1> QED BY <1>1, <1>2, <1>3, <1>4, <1>5, <1>6, <1>7

LEMMA TakeFiled ==
    ASSUME Sound, Filed, NEW t \in Threads, Step(t), pc[t] \in {"refill", "lanes"},
           next[t] < BlockLength(t), hand[t][lane[t]].idx = Null,
           hand' = [hand EXCEPT ![t][lane[t]] = Fresh(BlockItem(t, next[t]))],
           pc'[t] \notin {"call", "block", "done", "refused"},
           UNCHANGED <<table, mVals, mBins, mStash, call, block>>, next'[t] = next[t] + 1
    PROVE  Filed'
  <1> DEFINE j == BlockItem(t, next[t])
             p == HandPlace(t, lane[t])
             q == LeftPlace(t, j)
  <1>1. /\ j \in Item /\ j \in Pending(t)
        /\ \A i \in Item : i \in Pending(t)' <=> i \in Pending(t) /\ i # j
    BY TakeLeaves
  <1>2. TypeOK /\ lane[t] \in Lane
    BY HeldInTable DEF Sound
  <1>3. /\ hand'[t][lane[t]].idx = j
        /\ \A l \in Lane : l # lane[t] => hand'[t][l] = hand[t][l]
    BY <1>2, Domains DEF Fresh
  <1> HIDE DEF j
  <1>4. p \in Place /\ q \in Place
    BY <1>1, <1>2, Places
  <1>5. Held'[p] = Held[q] /\ Held'[q] = Held[p]
    BY <1>1, <1>2, <1>3, HeldNow, HeldNext
  <1>6. \A r \in Place : r # p /\ r # q => Held'[r] = Held[r]
    BY <1>1, <1>3, OnlyThese
  <1> HIDE DEF p, q
  <1>7. Swapped(Held, Held', p, q)
    BY <1>4, <1>5, <1>6 DEF Swapped
  <1>8. Single(Held)
    BY DEF Filed
  <1>9. Single(Held') /\ \A i : Occurs(Held, i) <=> Occurs(Held', i)
    BY <1>7, <1>8, SwappedKeeps
  <1> QED BY <1>2, <1>9, FiledStays

\* A hand that goes to the stash, and what was in the slot is dropped.
LEMMA PutFiled ==
    ASSUME Sound, Filed, SlotFree, NEW t \in Threads, Put(t)
    PROVE  Filed'
  <1> DEFINE j == BlockItem(t, next[t])
             s == StashPlace(slot[t])
             p == HandPlace(t, lane[t])
             q == LeftPlace(t, j)
             H1 == [r \in Place |-> IF r = s THEN Null ELSE Held[r]]
             H2 == [r \in Place |-> IF r = s THEN Held[p] ELSE IF r = p THEN Null ELSE Held[r]]
  <1>1. TypeOK /\ Step(t) /\ pc[t] = "put" /\ lane[t] \in Lane
    BY HeldInTable DEF Sound, Step, Put
  <1>2. slot[t] \in Slot
    <2>1. table.stash \in 0 .. MaxStash
      BY <1>1, ConstantsAssumption DEF TypeOK, Table
    <2>2. slot[t] \in 0 .. MaxStash /\ slot[t] < table.stash
      BY <1>1, Domains DEF Sound, Looked
    <2> QED BY <2>1, <2>2, Constants DEF Slot
  <1>3. s \in Place /\ p \in Place /\ s # p
    BY <1>1, <1>2, Places DEF StashPlace, HandPlace
  <1>4. \A k \in Slot : mStash'[k] = IF k = slot[t] THEN EntryOf(hand[t][lane[t]]) ELSE mStash[k]
    BY <1>1, Domains DEF Put
  <1>5. mBins' = mBins /\ mVals' = mVals /\ table' = table /\ call' = call /\ block' = block
    BY DEF Put
  <1>6. Held[p] = hand[t][lane[t]].idx /\ Held[s] = mStash[slot[t]].idx
    BY <1>1, <1>2, HeldNow
  <1>7. Single(Held)
    BY DEF Filed
  <1> HIDE DEF s, p, q, j
  <1>8. Single(H1) /\ \A i : i # Null /\ Occurs(H1, i) => Occurs(Held, i)
    <2>1. Dropped(Held, H1, s)
      BY <1>3 DEF Dropped
    <2> HIDE DEF H1
    <2> QED BY <1>3, <1>7, <2>1, DroppedKeeps
  <1>9. StashOfOne => \A i : Occurs(Held, i) => Occurs(H1, i)
    <2>1. StashOfOne => \A u, v \in Inserting : u = v
      <3>1. table.stash # 0
        BY <1>1, <1>2, ConstantsAssumption, Domains DEF Sound, Looked, TypeOK, Table, Slot
      <3> QED BY <3>1 DEF StashOfOne
    <2>2. StashOfOne => Held[s] = Null
      BY <1>1, <1>6, <2>1 DEF SlotFree, Empty
    <2>3. StashOfOne => \A r \in Place : H1[r] = Held[r]
      BY <2>2
    <2> QED BY <2>3 DEF Occurs
  <1>10. Single(H2) /\ \A i : Occurs(H1, i) <=> Occurs(H2, i)
    <2>1. Swapped(H1, H2, s, p)
      BY <1>3 DEF Swapped
    <2> HIDE DEF H1, H2
    <2> QED BY <1>8, <2>1, SwappedKeeps
  <1>11. CASE ~looping[t]
    <2>1. /\ pc'[t] = "lanes" /\ next' = next
          /\ \A l \in Lane : hand'[t][l] = IF l = lane[t] THEN NoHand ELSE hand[t][l]
      BY <1>1, <1>11, Domains DEF Put, Goto
    <2>2. Pending(t)' = Pending(t)
      BY <1>1, <1>5, <2>1 DEF Pending, CurrentCall
    <2>3. Held'[s] = H2[s] /\ Held'[p] = H2[p]
      <3>1. Held'[s] = hand[t][lane[t]].idx
        BY <1>2, <1>4, HeldNext DEF s, EntryOf
      <3>2. Held'[p] = Null
        BY <1>1, <2>1, HeldNext DEF p, NoHand
      <3> QED BY <1>3, <1>6, <3>1, <3>2
    <2>4. \A r \in Place : r # s /\ r # p => Held'[r] = Held[r]
      BY <1>1, <1>4, <1>5, <2>1, <2>2, OnlyThese DEF s, p
    <2>5. \A r \in Place : Held'[r] = H2[r]
      BY <2>3, <2>4
    <2>6. Single(Held') /\ \A i : Occurs(H2, i) <=> Occurs(Held', i)
      BY <1>10, <2>5 DEF Single, Occurs
    <2> QED BY <1>1, <1>5, <1>8, <1>9, <1>10, <2>6, FiledStays
  <1>12. CASE looping[t]
    <2>1. Refilling(t) /\ Take(t)
      BY <1>1, <1>12 DEF Put, Refilling
    <2>2. next'[t] = next[t] + 1 /\ pc'[t] \notin {"call", "block", "done", "refused"}
      BY <1>1, <2>1, Domains DEF Take, NextLane, Goto
    <2>3. next[t] < BlockLength(t)
      BY <1>1, <2>1, CallInTable, Constants DEF Sound, Progress, Lane
    <2>4. /\ j \in Item /\ j \in Pending(t)
          /\ \A i \in Item : i \in Pending(t)' <=> i \in Pending(t) /\ i # j
      BY <1>1, <1>5, <2>2, <2>3, TakeLeaves DEF j
    <2>5. \A l \in Lane : hand'[t][l] = IF l = lane[t] THEN Fresh(j) ELSE hand[t][l]
      BY <1>1, <2>1, Domains DEF Take, j
    <2>6. q \in Place /\ q # s /\ q # p
      BY <2>4, Places DEF q, s, p, StashPlace, HandPlace, LeftPlace
    <2>7. Held[q] = j /\ Held'[q] = Null /\ Held'[p] = j
      BY <1>1, <2>4, <2>5, HeldNow, HeldNext DEF q, p, Fresh
    <2>8. Held'[s] = Held[p]
      BY <1>2, <1>4, <1>6, HeldNext DEF s, EntryOf
    <2>9. \A r \in Place : r # s /\ r # p /\ r # q => Held'[r] = Held[r]
      BY <1>1, <1>4, <1>5, <2>4, <2>5, OnlyThese DEF s, p, q
    <2>10. Swapped(H2, Held', p, q)
      BY <1>3, <2>6, <2>7, <2>8, <2>9 DEF Swapped
    <2> HIDE DEF H2
    <2>11. Single(Held') /\ \A i : Occurs(H2, i) <=> Occurs(Held', i)
      BY <1>10, <2>10, SwappedKeeps
    <2> QED BY <1>1, <1>5, <1>8, <1>9, <1>10, <2>11, FiledStays
  <1> QED BY <1>11, <1>12

\* The first items of a block go to the lanes.
LEMMA BlockFiled ==
    ASSUME Sound, Filed, NEW t \in Threads, Block(t)
    PROVE  Filed'
  <1> DEFINE c == CurrentCall(t)
             base == c.start + block[t]
             end == c.start + c.size
             m == IF BatchSize < BlockLength(t) THEN BatchSize ELSE BlockLength(t)
             f == [r \in Place |->
                    IF r[1] = "hand" /\ r[2] = t /\ r[3] < m THEN LeftPlace(t, base + r[3])
                    ELSE IF r[1] = "left" /\ r[2] = t /\ base <= r[3] /\ r[3] < base + m
                         THEN HandPlace(t, r[3] - base)
                    ELSE r]
  <1>1. TypeOK /\ Step(t) /\ pc[t] = "block" /\ block[t] < c.size
    BY DEF Sound, Step, Block
  <1>2. /\ c.start \in Nat /\ c.size \in Nat /\ block[t] \in Nat /\ end <= table.n
        /\ table.n \in 0 .. MaxItems
        /\ BlockLength(t) \in Int /\ BlockLength(t) <= c.size - block[t]
        /\ BlockLength(t) = BlockSize \/ BlockLength(t) = c.size - block[t]
    BY <1>1, CallInTable
  <1>3. /\ m \in 0 .. BatchSize /\ base \in Nat /\ base + m <= end
        /\ m = BatchSize \/ base + m = end
    BY <1>1, <1>2, Constants
  <1>4. Pending(t) = base .. end - 1
    BY <1>1, <1>2 DEF Pending
  <1>5. Pending(t)' = base + BatchSize .. end - 1
    <2>1. /\ pc'[t] \in {"swap", "lanes"} /\ next'[t] = BatchSize
          /\ UNCHANGED <<table, call, block>>
      BY <1>1, Domains DEF Block, Goto
    <2>2. CurrentCall(t)' = c
      BY <2>1 DEF CurrentCall
    <2>3. Pending(t)' = c.start + (block[t] + BatchSize) .. c.start + c.size - 1
      BY <2>1, <2>2 DEF Pending
    <2>4. c.start + (block[t] + BatchSize) = base + BatchSize /\ c.start + c.size - 1 = end - 1
      BY <1>2, Constants
    <2> QED BY <2>3, <2>4
  <1>6. \A l \in Lane : hand'[t][l].idx = IF l < m THEN base + l ELSE Null
    <2>1. \A l \in Lane :
            hand'[t][l] = IF l < BatchSize /\ l < BlockLength(t)
                          THEN Fresh(BlockItem(t, l)) ELSE NoHand
      BY <1>1, Domains DEF Block
    <2>2. \A l \in Lane : l < BatchSize /\ l < BlockLength(t) <=> l < m
      BY <1>2, Constants DEF Lane
    <2>3. \A l \in Lane : BlockItem(t, l) = base + l
      BY DEF BlockItem
    <2>4. \A i : Fresh(i).idx = i
      BY DEF Fresh
    <2>5. NoHand.idx = Null
      BY DEF NoHand
    <2> HIDE DEF m, base
    <2> QED BY <2>1, <2>2, <2>3, <2>4, <2>5
  <1>7. \A l \in Lane : hand[t][l].idx = Null
    BY <1>1 DEF Sound, Hands
  <1>8. \A i \in Item : i \in Pending(t)' <=> i \in Pending(t) /\ ~(base <= i /\ i < base + m)
    <2>1. \A i \in Item : i \in Int
      BY Constants DEF Item
    <2> HIDE DEF base, end, m
    <2> QED BY <1>3, <1>4, <1>5, <2>1, Constants
  <1>9. UNCHANGED <<table, mVals, mBins, mStash>>
    BY <1>1 DEF Block
  <1> HIDE DEF m, base
  <1>10. \A l \in Lane : l \in Nat
    BY DEF Lane
  <1>11. \A l \in Lane : l < m => base + l \in Item /\ base + l \in Pending(t)
    <2> TAKE l \in Lane
    <2> HAVE l < m
    <2>1. l \in Nat /\ end \in Int /\ base + l < end /\ base + l \in Nat /\ base <= base + l
      BY <1>2, <1>3, <1>10
    <2>2. base + l \in Item
      BY <1>2, <2>1, Constants DEF Item
    <2> HIDE DEF end
    <2>3. base + l \in base .. end - 1
      BY <1>2, <1>3, <2>1
    <2> QED BY <1>4, <2>2, <2>3
  <1>12. \A i \in Item : base <= i /\ i < base + m => i - base \in Lane /\ i - base < m
    BY <1>3, Constants DEF Item, Lane
  <1>13. /\ \A l \in Lane : f[HandPlace(t, l)] = IF l < m THEN LeftPlace(t, base + l) ELSE HandPlace(t, l)
         /\ \A i \in Item : f[LeftPlace(t, i)] =
                IF base <= i /\ i < base + m THEN HandPlace(t, i - base) ELSE LeftPlace(t, i)
         /\ \A u \in Threads, l \in Lane : u # t => f[HandPlace(u, l)] = HandPlace(u, l)
         /\ \A u \in Threads, i \in Item : u # t => f[LeftPlace(u, i)] = LeftPlace(u, i)
         /\ \A b \in BinIndex : f[BinPlace(b)] = BinPlace(b)
         /\ \A k \in Slot : f[StashPlace(k)] = StashPlace(k)
    BY Places DEF HandPlace, LeftPlace, BinPlace, StashPlace
  <1>14. DOMAIN f = Place /\ f = [r \in Place |-> f[r]]
    OBVIOUS
  <1> HIDE DEF f
  <1>15. \A r \in Place : f[r] \in Place /\ f[f[r]] = r /\ Held'[r] = Held[f[r]]
    <2> TAKE r \in Place
    <2>1. CASE \E b \in BinIndex : r = BinPlace(b)
      BY <1>9, <1>13, <2>1, HeldNow, HeldNext
    <2>2. CASE \E k \in Slot : r = StashPlace(k)
      BY <1>9, <1>13, <2>2, HeldNow, HeldNext
    <2>3. CASE \E u \in Threads, l \in Lane : r = HandPlace(u, l)
      <3>1. PICK u \in Threads, l \in Lane : r = HandPlace(u, l)
        BY <2>3
      <3>2. CASE u # t
        BY <1>1, <1>13, <3>1, <3>2, HeldNow, HeldNext, OthersHold
      <3>3. CASE u = t /\ ~(l < m)
        BY <1>6, <1>7, <1>13, <3>1, <3>3, HeldNow, HeldNext
      <3>4. CASE u = t /\ l < m
        <4>1. f[r] = LeftPlace(t, base + l) /\ base + l \in Item /\ base + l \in Pending(t)
          BY <1>11, <1>13, <3>1, <3>4
        <4>2. base <= base + l /\ base + l < base + m /\ (base + l) - base = l
          BY <1>3, <1>10, <3>4
        <4>3. f[f[r]] = r
          BY <1>13, <3>1, <3>4, <4>1, <4>2
        <4>4. Held'[r] = base + l /\ Held[f[r]] = base + l
          BY <1>6, <3>1, <3>4, <4>1, HeldNow, HeldNext
        <4> QED BY <4>1, <4>3, <4>4, Places
      <3> QED BY <3>2, <3>3, <3>4
    <2>4. CASE \E u \in Threads, i \in Item : r = LeftPlace(u, i)
      <3>1. PICK u \in Threads, i \in Item : r = LeftPlace(u, i)
        BY <2>4
      <3>2. CASE u # t
        BY <1>1, <1>13, <3>1, <3>2, HeldNow, HeldNext, OthersHold
      <3>3. CASE u = t /\ ~(base <= i /\ i < base + m)
        BY <1>8, <1>13, <3>1, <3>3, HeldNow, HeldNext
      <3>4. CASE u = t /\ base <= i /\ i < base + m
        <4>1. f[r] = HandPlace(t, i - base) /\ i - base \in Lane /\ i - base < m
          BY <1>12, <1>13, <3>1, <3>4
        <4>2. i \in Int /\ base + (i - base) = i
          BY <1>3, Constants DEF Item
        <4>3. f[f[r]] = r
          BY <1>13, <3>1, <3>4, <4>1, <4>2
        <4>4. Held'[r] = Null /\ Held[f[r]] = Null
          BY <1>7, <1>8, <3>1, <3>4, <4>1, HeldNow, HeldNext
        <4> QED BY <4>1, <4>3, <4>4, Places
      <3> QED BY <3>2, <3>3, <3>4
    <2> QED BY <2>1, <2>2, <2>3, <2>4, Places
  <1>16. Paired(Held, Held', f)
    BY <1>14, <1>15 DEF Paired
  <1>17. Single(Held)
    BY DEF Filed
  <1>18. Single(Held') /\ \A i : Occurs(Held, i) <=> Occurs(Held', i)
    BY <1>16, <1>17, PairedKeeps
  <1> QED BY <1>1, <1>9, <1>18, FiledStays

\* The items of a call that is accepted are new.
LEMMA CallIsNew ==
    ASSUME Sound, Kept, SpansApart, NEW t \in Threads, Call(t), Accepts(CurrentCall(t))
    PROVE  LET c == CurrentCall(t)
           IN  /\ c.start \in Nat /\ c.size \in Nat /\ c.size > 0 /\ c.start + c.size <= MaxItems
               /\ call[t] \in DOMAIN table.calls[t]
               /\ \A i \in c.start .. c.start + c.size - 1 : i \notin mVals
  <1> DEFINE c == CurrentCall(t)
  <1>1. table \in Table /\ table \in Tables /\ call[t] \in Nat \ {0}
    BY ConstantsAssumption, Domains DEF Sound, TypeOK
  <1>2. table.calls \in [Threads -> Seq(Span)] /\ table.n \in 0 .. MaxItems
    BY <1>1 DEF Table
  <1>3. call[t] \in DOMAIN table.calls[t]
    BY <1>1, <1>2 DEF Call
  <1>4. c \in Span
    BY <1>2, <1>3 DEF CurrentCall
  <1>5. c.start \in Nat /\ c.size \in Nat /\ c.size > 0
    BY <1>4 DEF Span
  <1>6. c.start + c.size <= MaxItems
    BY <1>2, <1>5, Constants DEF Accepts
  <1>7. ASSUME NEW i \in c.start .. c.start + c.size - 1, i \in mVals
        PROVE  FALSE
    <2>1. PICK u \in Threads : \E k \in DOMAIN table.calls[u] :
            LET d == table.calls[u][k]
            IN  d.start \in mVals /\ i \in d.start .. d.start + d.size - 1
      BY <1>7 DEF Kept, Called
    <2>2. PICK k \in DOMAIN table.calls[u] :
            LET d == table.calls[u][k]
            IN  d.start \in mVals /\ i \in d.start .. d.start + d.size - 1
      BY <2>1
    <2> DEFINE d == table.calls[u][k]
    <2>3. d \in Span
      BY <1>2, <2>2
    <2>4. d.start \in Nat /\ d.size \in Nat
      BY <2>3 DEF Span
    <2>5. \/ c.start = d.start
          \/ c.start + c.size <= d.start
          \/ d.start + d.size <= c.start
      <3>1. CASE u = t
        BY <1>1, <1>3, <3>1 DEF SpansApart, CurrentCall
      <3>2. CASE u # t
        BY <1>1, <1>3, <3>2, ThreadsApart DEF CurrentCall
      <3> QED BY <3>1, <3>2
    <2>6. c.start # d.start
      BY <2>2 DEF Accepts
    <2>7. i \in d.start .. d.start + d.size - 1
      BY <2>2
    <2> HIDE DEF c, d
    <2> QED BY <1>5, <1>7, <2>4, <2>5, <2>6, <2>7
  <1> QED BY <1>3, <1>5, <1>6, <1>7

\* A call that is accepted leaves its items to be taken.
LEMMA CallFiled ==
    ASSUME Sound, Kept, SpansApart, NEW t \in Threads, Call(t)
    PROVE  Filed'
  <1> DEFINE c == CurrentCall(t)
             new == c.start .. c.start + c.size - 1
  <1>1. TypeOK /\ Step(t) /\ Pending(t) = {} /\ Filed
    BY DEF Sound, Step, Call, Pending, Kept
  <1>2. UNCHANGED <<table, mBins, mStash, call, hand>>
    BY DEF Call
  <1>3. CASE ~Accepts(c)
    <2>1. mVals' = mVals /\ pc'[t] = "refused"
      BY <1>1, <1>3, Domains DEF Call, Goto
    <2>2. Pending(t)' = {}
      BY <2>1 DEF Pending
    <2>3. \A r \in Place : Held'[r] = Held[r]
      BY <1>1, <1>2, <2>2, OnlyThese
    <2>4. Single(Held') /\ \A i : Occurs(Held, i) <=> Occurs(Held', i)
      BY <1>1, <2>3 DEF Single, Occurs, Filed
    <2> QED BY <1>1, <1>2, <2>1, <2>4, FiledStays
  <1>4. CASE Accepts(c)
    <2>1. /\ c.start \in Nat /\ c.size \in Nat /\ c.size > 0 /\ c.start + c.size <= MaxItems
          /\ \A i \in new : i \notin mVals
      BY <1>4, CallIsNew
    <2>2. new \subseteq Item
      BY <2>1, Constants DEF Item
    <2>3. mVals' = mVals \cup new
      <3>1. mVals' = mVals \cup {c.start + i : i \in 0 .. c.size - 1}
        BY <1>4 DEF Call
      <3>2. ASSUME NEW i \in new PROVE i - c.start \in 0 .. c.size - 1 /\ i = c.start + (i - c.start)
        BY <2>1
      <3>3. new \subseteq {c.start + i : i \in 0 .. c.size - 1}
        BY <3>2
      <3>4. ASSUME NEW i \in 0 .. c.size - 1 PROVE c.start + i \in new
        BY <2>1
      <3> HIDE DEF new, c
      <3> QED BY <3>1, <3>3, <3>4
    <2>4. Pending(t)' = new
      <3>1. pc'[t] = "block" /\ block'[t] = 0
        BY <1>1, <1>4, Domains DEF Call, Goto
      <3>2. CurrentCall(t)' = c
        BY <1>2 DEF CurrentCall
      <3>3. Pending(t)' = c.start + (0 + 0) .. c.start + c.size - 1
        BY <3>1, <3>2 DEF Pending
      <3> QED BY <2>1, <3>3
    <2> HIDE DEF c, new
    <2>5. \A i \in new : LeftPlace(t, i) \in Place /\ Held'[LeftPlace(t, i)] = i
      BY <2>2, <2>4, Places, HeldNext
    <2>6. \A i \in new : i # Null /\ Held[LeftPlace(t, i)] = Null
      BY <1>1, <2>2, HeldNow, Constants
    <2>7. ASSUME NEW r \in Place, \A i \in new : r # LeftPlace(t, i)
          PROVE  Held'[r] = Held[r]
      BY <1>1, <1>2, <2>4, <2>7, OnlyThese
    <2>8. ASSUME NEW r \in Place, NEW i \in new, Held'[r] = i
          PROVE  r = LeftPlace(t, i)
      <3>1. CASE \E k \in new : r = LeftPlace(t, k)
        BY <2>5, <2>8, <3>1
      <3>2. CASE \A k \in new : r # LeftPlace(t, k)
        <4>1. Held[r] = i
          BY <2>7, <2>8, <3>2
        <4>2. Held[r] \in mVals \cup {Null}
          BY <1>1 DEF Filed
        <4> QED BY <2>1, <2>6, <4>1, <4>2
      <3> QED BY <3>1, <3>2
    <2>9. ASSUME NEW r \in Place PROVE Held'[r] \in new \/ Held'[r] = Held[r]
      BY <2>5, <2>7
    <2>10. Single(Held')
      <3>1. Single(Held)
        BY <1>1 DEF Filed
      <3>2. SUFFICES ASSUME NEW p \in Place, NEW q \in Place, p # q, Held'[p] = Held'[q]
                     PROVE  Held'[p] = Null
        BY DEF Single
      <3>3. CASE Held'[p] \in new
        BY <2>8, <3>2, <3>3
      <3>4. CASE Held'[p] \notin new
        BY <2>9, <3>1, <3>2, <3>4 DEF Single
      <3> QED BY <3>3, <3>4
    <2>11. \A r \in Place : Held'[r] \in mVals' \cup {Null}
      BY <1>1, <2>3, <2>9 DEF Filed
    <2>12. ASSUME NEW i \in mVals', StashOfOne PROVE Occurs(Held', i)
      <3>1. CASE i \in new
        BY <2>5, <3>1 DEF Occurs
      <3>2. CASE i \notin new
        <4>1. i \in mVals
          BY <2>3, <2>12, <3>2
        <4>2. PICK r \in Place : Held[r] = i
          BY <1>1, <2>12, <4>1 DEF Filed, Occurs
        <4>3. i # Null
          BY <1>1, <4>1, Constants DEF TypeOK
        <4>4. \A k \in new : r # LeftPlace(t, k)
          BY <2>6, <4>2, <4>3
        <4> QED BY <2>7, <4>2, <4>4 DEF Occurs
      <3> QED BY <3>1, <3>2
    <2> QED BY <1>2, <2>10, <2>11, <2>12 DEF Filed, StashOfOne, Inserting, Single, Occurs
  <1> QED BY <1>3, <1>4

\* The other steps move nothing.
LEMMA StillFiled ==
    ASSUME Sound, Filed, NEW t \in Threads, Step(t), UNCHANGED <<mVals, mBins, mStash>>,
           \A l \in Lane : hand'[t][l].idx = hand[t][l].idx, Pending(t)' = Pending(t)
    PROVE  Filed'
  <1>1. TypeOK /\ table' = table
    BY DEF Sound, Step, Call, Block, EndCall, Done, Swap, Refill, Retry, GiveUp, Lanes, Rest,
           InsertOne, Scan, Put
  <1>2. \A r \in Place : Held'[r] = Held[r]
    BY OnlyThese
  <1>3. Single(Held') /\ \A i : Occurs(Held, i) <=> Occurs(Held', i)
    BY <1>2 DEF Single, Occurs, Filed
  <1> QED BY <1>1, <1>3, FiledStays

LEMMA StepFiled ==
    ASSUME Sound, Kept, SpansApart, NEW t \in Threads, Step(t)
    PROVE  Filed'
  <1>0. TypeOK /\ Filed /\ SlotFree
    BY DEF Sound, Kept
  <1>1. CASE Call(t)
    BY <1>1, CallFiled
  <1>2. CASE Block(t)
    BY <1>0, <1>2, BlockFiled
  <1>3. CASE EndCall(t)
    <2>1. /\ pc[t] = "block" /\ pc'[t] = "call" /\ block[t] >= CurrentCall(t).size
          /\ UNCHANGED <<mVals, mBins, mStash, hand>>
      BY <1>0, <1>3, Domains DEF EndCall, Goto
    <2>2. Pending(t) = {}
      BY <2>1, CallInTable DEF Pending
    <2>3. Pending(t)' = {}
      BY <2>1 DEF Pending
    <2> QED BY <1>0, <2>1, <2>2, <2>3, StillFiled
  <1>4. CASE Done(t)
    <2>1. /\ pc[t] = "call" /\ pc'[t] = "done"
          /\ UNCHANGED <<mVals, mBins, mStash, hand>>
      BY <1>0, <1>4, Domains DEF Done, Goto
    <2>2. Pending(t)' = Pending(t)
      BY <2>1 DEF Pending
    <2> QED BY <1>0, <2>1, <2>2, StillFiled
  <1>5. CASE Swap(t) \/ InsertOne(t)
    BY <1>0, <1>5, SwapFiled
  <1>6. CASE Refill(t)
    <2>1. Refilling(t) /\ Take(t) /\ pc[t] = "refill" /\ hand[t][lane[t]].idx = Null
          /\ UNCHANGED <<table, mVals, mBins, mStash, call, block>>
      BY <1>6 DEF Refill, Refilling
    <2>2. /\ next'[t] = next[t] + 1 /\ pc'[t] \notin {"call", "block", "done", "refused"}
          /\ hand' = [hand EXCEPT ![t][lane[t]] = Fresh(BlockItem(t, next[t]))]
      BY <1>0, <2>1, Domains DEF Take, NextLane, Goto
    <2>3. next[t] < BlockLength(t)
      BY <2>1, CallInTable, HeldInTable, Constants DEF Sound, Progress, Lane
    <2> QED BY <1>0, <2>1, <2>2, <2>3, TakeFiled
  <1>7. CASE Retry(t)
    <2>1. /\ pc[t] = "refill" /\ pc'[t] \in {"refill", "swap", "lanes"}
          /\ UNCHANGED <<table, mVals, mBins, mStash, call, block, next>>
      BY <1>0, <1>7, Domains DEF Retry, NextLane, Goto
    <2>2. Pending(t)' = Pending(t)
      BY <2>1 DEF Pending, CurrentCall
    <2>3. \A l \in Lane : hand'[t][l].idx = hand[t][l].idx
      <3>1. MovedOn(hand[t][lane[t]]).idx = hand[t][lane[t]].idx
        BY <1>7, HeldInTable, MovedOnInTable DEF Retry, Sound
      <3>2. \A l \in Lane : hand'[t][l] =
              IF l = lane[t] THEN MovedOn(hand[t][l]) ELSE hand[t][l]
        BY <1>0, <1>7, HeldInTable, Domains DEF Retry
      <3> QED BY <3>1, <3>2
    <2> QED BY <1>0, <2>1, <2>2, <2>3, StillFiled
  <1>8. CASE GiveUp(t) \/ Lanes(t) \/ Scan(t)
    <2>1. /\ pc[t] \in {"refill", "lanes", "scan"}
          /\ pc'[t] \in {"scan", "lanes", "one", "failed", "put"}
          /\ UNCHANGED <<table, mVals, mBins, mStash, call, block, next, hand>>
      BY <1>0, <1>8, Domains DEF GiveUp, Lanes, Scan, Goto
    <2>2. Pending(t)' = Pending(t)
      BY <2>1 DEF Pending, CurrentCall
    <2> QED BY <1>0, <2>1, <2>2, StillFiled
  <1>9. CASE Rest(t)
    <2>1. /\ pc[t] = "lanes" /\ lane[t] = BatchSize
          /\ UNCHANGED <<table, mVals, mBins, mStash, call>>
      BY <1>9 DEF Rest
    <2>2. CASE next[t] < BlockLength(t)
      <3>1. /\ next'[t] = next[t] + 1 /\ pc'[t] = "one" /\ block' = block
            /\ hand' = [hand EXCEPT ![t][lane[t]] = Fresh(BlockItem(t, next[t]))]
        BY <1>0, <1>9, <2>1, <2>2, Domains DEF Rest, Goto
      <3>2. hand[t][lane[t]].idx = Null
        BY <2>1 DEF Sound, Hands
      <3> QED BY <1>0, <2>1, <2>2, <3>1, <3>2, TakeFiled
    <2>3. CASE ~(next[t] < BlockLength(t))
      <3> DEFINE c == CurrentCall(t)
      <3>1. /\ pc'[t] = "block" /\ block'[t] = block[t] + BlockSize
            /\ UNCHANGED <<hand, next>>
        BY <1>0, <1>9, <2>3, Domains DEF Rest, Goto
      <3>2. /\ c.start \in Nat /\ c.size \in Nat /\ block[t] \in Nat /\ next[t] \in Nat
            /\ BlockLength(t) \in Int
            /\ BlockLength(t) = BlockSize \/ BlockLength(t) = c.size - block[t]
            /\ BlockLength(t) <= BlockSize /\ BlockLength(t) <= c.size - block[t]
        BY <2>1, CallInTable
      <3>3. next[t] <= BlockLength(t) \/ next[t] <= BatchSize
        BY <2>1 DEF Sound, Progress, Finishing
      <3>4. next[t] = BlockSize \/ (block[t] + next[t] >= c.size /\ block[t] + BlockSize >= c.size)
        BY <2>3, <3>2, <3>3, Constants
      <3>5. CurrentCall(t)' = c
        BY <2>1 DEF CurrentCall
      <3>6. /\ Pending(t) = c.start + (block[t] + next[t]) .. c.start + c.size - 1
            /\ Pending(t)' = c.start + (block[t] + BlockSize + 0) .. c.start + c.size - 1
        BY <2>1, <3>1, <3>5 DEF Pending
      <3> HIDE DEF c
      <3>7. Pending(t)' = Pending(t)
        <4>1. CASE next[t] = BlockSize
          BY <3>2, <3>6, <4>1, Constants
        <4>2. CASE block[t] + next[t] >= c.size /\ block[t] + BlockSize >= c.size
          BY <3>2, <3>6, <4>2, Constants
        <4> QED BY <3>4, <4>1, <4>2
      <3> QED BY <1>0, <2>1, <3>1, <3>7, StillFiled
    <2> QED BY <2>2, <2>3
  <1>10. CASE Put(t)
    BY <1>0, <1>10, PutFiled
  <1> QED BY <1>1, <1>2, <1>3, <1>4, <1>5, <1>6, <1>7, <1>8, <1>9, <1>10 DEF Step

LEMMA StepSlotFree ==
    ASSUME Sound, SlotFree, NEW t \in Threads, Step(t)
    PROVE  SlotFree'
  <1>1. TypeOK /\ table' = table
    BY DEF Sound, Step, Call, Block, EndCall, Done, Swap, Refill, Retry, GiveUp, Lanes, Rest,
           InsertOne, Scan, Put
  <1>2. SUFFICES ASSUME \A u, v \in Inserting : u = v, NEW u \in Threads, pc'[u] = "put"
                 PROVE  mStash'[slot'[u]] = Empty
    BY <1>1 DEF SlotFree, Inserting
  <1>3. CASE u = t
    <2>1. Scan(t)
      BY <1>1, <1>2, <1>3, Domains DEF Step, Call, Block, EndCall, Done, Swap, Refill, Retry,
                                       GiveUp, Lanes, Rest, InsertOne, Put, Take, NextLane, Goto
    <2>2. slot[t] # table.stash /\ mStash[slot[t]] = Empty
      BY <1>1, <1>2, <1>3, <2>1, Domains DEF Scan, Goto
    <2> QED BY <1>1, <1>2, <1>3, <2>1, <2>2 DEF Scan
  <1>4. CASE u # t
    <2>1. pc[u] = "put" /\ slot'[u] = slot[u]
      BY <1>1, <1>2, <1>4, Domains DEF Step, Call, Block, EndCall, Done, Swap, Refill, Retry,
                                       GiveUp, Lanes, Rest, InsertOne, Scan, Put, Take, NextLane, Goto
    <2>2. u \in Inserting /\ mStash[slot[u]] = Empty
      <3>1. call[u] \in 1 .. Len(table.calls[u])
        BY <2>1 DEF Sound, Progress
      <3> QED BY <1>2, <2>1, <3>1 DEF Inserting, SlotFree
    <2>3. pc[t] \in {"call", "done", "refused"}
      <3>1. SUFFICES ASSUME pc[t] \notin {"call", "done", "refused"} PROVE FALSE
        OBVIOUS
      <3>2. call[t] \in 1 .. Len(table.calls[t])
        BY <3>1 DEF Sound, Progress
      <3> QED BY <1>2, <1>4, <2>2, <3>2 DEF Inserting
    <2>4. mStash' = mStash
      BY <2>3 DEF Step, Call, Block, EndCall, Done, Swap, Refill, Retry, GiveUp, Lanes, Rest,
                  InsertOne, Scan, Put
    <2> QED BY <2>1, <2>2, <2>4
  <1> QED BY <1>3, <1>4

LEMMA StepCalled ==
    ASSUME Sound, Kept, SpansApart, NEW t \in Threads, Step(t)
    PROVE  (\A i \in mVals : Called(i))'
  <1>1. table' = table
    BY DEF Step, Call, Block, EndCall, Done, Swap, Refill, Retry, GiveUp, Lanes, Rest,
           InsertOne, Scan, Put
  <1>2. CASE mVals' = mVals
    BY <1>1, <1>2 DEF Kept, Called
  <1>3. CASE mVals' # mVals
    <2> DEFINE c == CurrentCall(t)
    <2>1. Call(t) /\ Accepts(c) /\ mVals' = mVals \cup {c.start + i : i \in 0 .. c.size - 1}
      BY <1>3 DEF Step, Call, Block, EndCall, Done, Swap, Refill, Retry, GiveUp, Lanes, Rest,
                  InsertOne, Scan, Put
    <2>2. c.start \in Nat /\ c.size \in Nat /\ c.size > 0 /\ call[t] \in DOMAIN table.calls[t]
      BY <2>1, CallIsNew
    <2>3. c.start \in mVals'
      <3>1. 0 \in 0 .. c.size - 1 /\ c.start + 0 = c.start
        BY <2>2
      <3> HIDE DEF c
      <3> QED BY <2>1, <3>1
    <2>4. ASSUME NEW i \in mVals' PROVE Called(i)'
      <3>1. CASE i \in mVals
        BY <1>1, <2>1, <3>1 DEF Kept, Called
      <3>2. CASE i \notin mVals
        <4>1. PICK k \in 0 .. c.size - 1 : i = c.start + k
          BY <2>1, <2>4, <3>2
        <4>2. i \in c.start .. c.start + c.size - 1
          BY <2>2, <4>1
        <4>3. c = table.calls[t][call[t]]
          BY DEF CurrentCall
        <4> HIDE DEF c
        <4> QED BY <1>1, <2>2, <2>3, <4>2, <4>3 DEF Called
      <3> QED BY <3>1, <3>2
    <2> QED BY <2>4
  <1> QED BY <1>2, <1>3

LEMMA StaysKept == ASSUME ThreeHashes, SpansApart PROVE Spec => []Kept
  <1>1. Init => Kept
    <2> SUFFICES ASSUME Init PROVE Kept
      OBVIOUS
    <2>1. \A t \in Threads : Pending(t) = {}
      BY DEF Init, Pending
    <2>2. \A r \in Place : Held[r] = Null
      <3>1. /\ \A b \in BinIndex : mBins[b].idx = Null
            /\ \A k \in Slot : mStash[k].idx = Null
            /\ \A t \in Threads, l \in Lane : hand[t][l].idx = Null
        BY DEF Init, Empty, NoHand
      <3> QED BY <2>1, <3>1, HeldNow, Places
    <2>3. mVals = {} /\ \A t \in Threads : pc[t] = "call"
      BY DEF Init
    <2> QED BY <2>2, <2>3 DEF Kept, Filed, Single, SlotFree
  <1>2. Sound /\ Kept /\ [Next]_vars => Kept'
    <2>1. ASSUME Sound, Kept, NEW t \in Threads, Step(t)
          PROVE  Kept'
      BY <2>1, StepFiled, StepSlotFree, StepCalled DEF Kept
    <2>2. ASSUME Sound, Kept, UNCHANGED vars
          PROVE  Kept'
      <3>1. /\ Held' = Held /\ SlotFree' /\ \A i \in mVals : Called(i)'
        BY <2>2 DEF Held, Pending, CurrentCall, SlotFree, Inserting, Called, Kept, vars
      <3> QED BY <2>2, <3>1 DEF Kept, Filed, StashOfOne, Inserting, vars
    <2> QED BY <2>1, <2>2 DEF Next, Joined
  <1> QED BY <1>1, <1>2, StaysSound, PTL DEF Spec

\* However the threads throw each other's items out, no item is in two bins, or in a bin and
\* with a thread or in the stash; and of a table that has no stash, or that one thread fills,
\* no item is lost.
THEOREM ItemsAreKept ==
    ASSUME ThreeHashes, SpansApart
    PROVE  Spec => []ItemsKept
  <1>1. ASSUME TypeOK, Filed PROVE NothingTwice
    <2>1. \A p, q \in Place : p # q /\ Held[p] = Held[q] => Held[p] = Null
      BY <1>1 DEF Filed, Single
    <2>2. \A b, c \in BinIndex : b # c => BinPlace(b) # BinPlace(c)
      BY DEF BinPlace
    <2>3. \A t, u \in Threads, l, m \in Lane :
            <<t, l>> # <<u, m>> => HandPlace(t, l) # HandPlace(u, m)
      BY DEF HandPlace
    <2>4. \A t \in Threads, l \in Lane :
            /\ \A b \in BinIndex : BinPlace(b) # HandPlace(t, l)
            /\ \A k \in Slot : StashPlace(k) # HandPlace(t, l)
      BY DEF BinPlace, StashPlace, HandPlace
    <2>5. \A b, c \in BinIndex : b # c /\ mBins[b].idx = mBins[c].idx => mBins[b].idx = Null
      BY <2>1, <2>2, Places, HeldNow
    <2>6. \A t, u \in Threads, l, m \in Lane :
            <<t, l>> # <<u, m>> /\ hand[t][l].idx = hand[u][m].idx => hand[t][l].idx = Null
      BY <2>1, <2>3, Places, HeldNow
    <2>7. \A t \in Threads, l \in Lane : hand[t][l].idx # Null =>
            ~InBin(hand[t][l].idx) /\ ~InStash(hand[t][l].idx)
      <3>1. ASSUME NEW t \in Threads, NEW l \in Lane, NEW b \in BinIndex,
                   mBins[b].idx = hand[t][l].idx
            PROVE  hand[t][l].idx = Null
        BY <2>1, <2>4, <3>1, Places, HeldNow
      <3>2. ASSUME NEW t \in Threads, NEW l \in Lane, NEW k \in Slot,
                   mStash[k].idx = hand[t][l].idx
            PROVE  hand[t][l].idx = Null
        BY <2>1, <2>4, <3>2, Places, HeldNow
      <3> QED BY <3>1, <3>2 DEF InBin, InStash
    <2>8. \A i \in Item : InStash(i) => ~InBin(i)
      <3>1. ASSUME NEW b \in BinIndex, NEW k \in Slot, mBins[b].idx = mStash[k].idx
            PROVE  mBins[b].idx = Null
        <4>1. BinPlace(b) # StashPlace(k)
          BY DEF BinPlace, StashPlace
        <4> QED BY <2>1, <3>1, <4>1, Places, HeldNow
      <3> QED BY <3>1, Constants DEF InBin, InStash
    <2> QED BY <2>5, <2>6, <2>7, <2>8 DEF NothingTwice
  <1>2. ASSUME TypeOK, Filed, StashOfOne, NEW i \in mVals PROVE Somewhere(i)
    <2>1. PICK p \in Place : Held[p] = i
      BY <1>2 DEF Filed, Occurs
    <2>2. i # Null
      BY <1>2, Constants DEF TypeOK
    <2>3. CASE \E b \in BinIndex : p = BinPlace(b)
      BY <2>1, <2>3, HeldNow DEF Somewhere, InBin
    <2>4. CASE \E k \in Slot : p = StashPlace(k)
      BY <2>1, <2>4, HeldNow DEF Somewhere, InStash
    <2>5. CASE \E t \in Threads, l \in Lane : p = HandPlace(t, l)
      BY <2>1, <2>5, HeldNow DEF Somewhere, InHand
    <2>6. CASE \E t \in Threads, j \in Item : p = LeftPlace(t, j)
      BY <2>1, <2>2, <2>6, HeldNow DEF Somewhere
    <2> QED BY <2>3, <2>4, <2>5, <2>6, Places
  <1>3. Sound /\ Kept => ItemsKept
    BY <1>1, <1>2 DEF Sound, Kept, ItemsKept
  <1> QED BY <1>3, StaysSound, StaysKept, PTL
=============================================================================
