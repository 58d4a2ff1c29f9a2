---------------------------- MODULE CuckooIndex ----------------------------
(***************************************************************************)
(* The cuckoo hash table of cryptoTools, to which several threads may      *)
(* insert at once.  It stores the indices of items; an item is inserted by *)
(* exchanging it with what is in one of its bins, and what comes out is    *)
(* inserted again, at its next bin.  An item that has come out too often   *)
(* goes to the stash.                                                      *)
(*                                                                         *)
(* The exchange of a bin and the load of a slot of the stash are the only  *)
(* accesses to memory that threads share and the only atomic steps; what a *)
(* thread does in between with its own variables, and with the items it    *)
(* inserts itself, belongs to the step before.                             *)
(***************************************************************************)
EXTENDS CuckooRow, FiniteSets

CONSTANTS
    Threads,
    Tables,         \* the tables and the calls to insert() that may be chosen
    MaxBins,        \* bound on numBins()
    MaxStash,       \* bound on mStashSize
    MaxItems,       \* bound on mN
    BatchSize,      \* CUCKOO_BATCH_SIZE
    BlockSize,      \* the items of one probeInsert: 32
    ReinsertLimit   \* mReinsertLimit

Item == 0 .. MaxItems - 1
Null == MaxItems                    \* nullIdx
BinIndex == 0 .. MaxBins - 1
Slot == 0 .. MaxStash - 1
HashIndex == 0 .. 2

\* insert(span, startIdx) of at least one item.
Span == [start : Nat, size : Nat \ {0}]

Table ==
    {t \in [numHashes : 1 .. 3, numBins : 1 .. MaxBins, stash : 0 .. MaxStash,
            n : 0 .. MaxItems, hashes : [Item -> [1 .. 3 -> Nat]],
            calls : [Threads -> Seq(Span)]] :
        t.numHashes <= t.numBins}

ASSUME ConstantsAssumption ==
    /\ {MaxBins, MaxStash, MaxItems, ReinsertLimit} \subseteq Nat
    /\ BatchSize \in Nat \ {0} /\ BlockSize \in Nat /\ BatchSize <= BlockSize
    /\ Tables \subseteq Table

\* No two threads insert the same item, as in CuckooIndex_parallel_Test_Impl: insert()
\* neither looks at nor writes mVals and mLocations atomically.
ASSUME ThreadsApart ==
    \A t \in Tables : \A p, q \in Threads : p # q =>
        \A k \in DOMAIN t.calls[p], j \in DOMAIN t.calls[q] :
            LET c == t.calls[p][k]
                d == t.calls[q][j]
            IN  c.start + c.size <= d.start \/ d.start + d.size <= c.start

VARIABLES
    table,      \* mParams, the hashes of the items and the calls of each thread
    mVals,      \* the items whose hash has been stored
    mBins,
    mStash,
    pc,         \* per thread: the step it is at
    call,       \* per thread: the current or next call
    block,      \* per thread: the items of the call before the current block
    hand,       \* per thread and lane: inputIdxs, curHashIdxs and tryCounts
    lane,       \* per thread: the lane it is at; BatchSize: none of them
    next,       \* per thread: the items of the block that are in a lane or done
    slot,       \* per thread: the slot of the stash it looks at
    looping     \* per thread: in the loop over batches, not in insertOne

vars == <<table, mVals, mBins, mStash, pc, call, block, hand, lane, next, slot,
          looping>>

Lane == 0 .. BatchSize

\* A bin holds an index and the number of the hash that led there; an empty bin,
\* all ones, reads as nullIdx and 255.
Entry == [idx : Item \cup {Null}, hash : HashIndex \cup {255}]
Empty == [idx |-> Null, hash |-> 255]
Hand == [idx : Item \cup {Null}, hash : HashIndex \cup {255}, tries : 0 .. ReinsertLimit]
NoHand == [idx |-> Null, hash |-> 255, tries |-> 0]
Fresh(i) == [idx |-> i, hash |-> 0, tries |-> 0]

PC == {"call", "block", "swap", "refill", "lanes", "one", "scan", "put", "done",
       "refused", "failed"}

-----------------------------------------------------------------------------
CurrentCall(t) == table.calls[t][call[t]]
BlockLength(t) ==
    LET left == CurrentCall(t).size - block[t]
    IN  IF left < BlockSize THEN left ELSE BlockSize
BlockItem(t, i) == CurrentCall(t).start + block[t] + i

\* getHash(): mLocations, written by computeLocations before the items of a block
\* are inserted.  The writes are plain, and another thread gets to know of the item by a
\* relaxed exchange of a bin: that it reads what has been written is the order that x86
\* gives, not one that the code asks for.
RowOf(i) == buildRow(table.hashes[i], table.numBins, table.numHashes)
Location(i, h) == RowOf(i)[h + 1]

Init ==
    /\ table \in Tables
    /\ mVals = {}
    /\ mBins = [b \in BinIndex |-> Empty]
    /\ mStash = [k \in Slot |-> Empty]
    /\ pc = [t \in Threads |-> "call"]
    /\ call = [t \in Threads |-> 1]
    /\ block = [t \in Threads |-> 0]
    /\ hand = [t \in Threads |-> [l \in Lane |-> NoHand]]
    /\ lane = [t \in Threads |-> 0]
    /\ next = [t \in Threads |-> 0]
    /\ slot = [t \in Threads |-> 0]
    /\ looping = [t \in Threads |-> FALSE]

\* The steps of a thread assign its own variables and what they share.
Goto(t, step) == pc' = [pc EXCEPT ![t] = step]

-----------------------------------------------------------------------------
(* insert()                                                                *)

\* The span fits, and its first item has not been inserted.  The look and the copy of the
\* items are one step because no other thread looks at or writes these items.
Accepts(c) == c.start + c.size <= table.n /\ c.start \notin mVals

Call(t) ==
    /\ pc[t] = "call"
    /\ call[t] <= Len(table.calls[t])
    /\ IF Accepts(CurrentCall(t))
       THEN /\ mVals' = mVals \cup {CurrentCall(t).start + i :
                                    i \in 0 .. CurrentCall(t).size - 1}
            /\ block' = [block EXCEPT ![t] = 0]
            /\ Goto(t, "block")
       ELSE /\ Goto(t, "refused")
            /\ UNCHANGED <<mVals, block>>
    /\ UNCHANGED <<table, mBins, mStash, call, hand, lane, next, slot, looping>>

\* Whether the loop over batches goes on, with n items of the block taken.
Loops(t, n) ==
    /\ table.numHashes = 3
    /\ BlockLength(t) > BatchSize
    /\ n < BlockLength(t) - BatchSize

\* probeInsert of the next block: its first items go to the lanes.
Block(t) ==
    /\ pc[t] = "block"
    /\ block[t] < CurrentCall(t).size
    /\ hand' = [hand EXCEPT ![t] =
                  [l \in Lane |-> IF l < BatchSize /\ l < BlockLength(t)
                                  THEN Fresh(BlockItem(t, l)) ELSE NoHand]]
    /\ next' = [next EXCEPT ![t] = BatchSize]
    /\ lane' = [lane EXCEPT ![t] = 0]
    /\ looping' = [looping EXCEPT ![t] = Loops(t, BatchSize)]
    /\ Goto(t, IF Loops(t, BatchSize) THEN "swap" ELSE "lanes")
    /\ UNCHANGED <<table, mVals, mBins, mStash, call, block, slot>>

EndCall(t) ==
    /\ pc[t] = "block"
    /\ block[t] >= CurrentCall(t).size
    /\ call' = [call EXCEPT ![t] = @ + 1]
    /\ Goto(t, "call")
    /\ UNCHANGED <<table, mVals, mBins, mStash, block, hand, lane, next, slot, looping>>

Done(t) ==
    /\ pc[t] = "call"
    /\ call[t] > Len(table.calls[t])
    /\ Goto(t, "done")
    /\ UNCHANGED <<table, mVals, mBins, mStash, call, block, hand, lane, next, slot,
                   looping>>

-----------------------------------------------------------------------------
(* Bin::swap of a lane's item with what is in its bin.                     *)

Bin(t) == Location(hand[t][lane[t]].idx, hand[t][lane[t]].hash)
EntryOf(h) == [idx |-> h.idx, hash |-> h.hash]
Exchanged(t) == [mBins EXCEPT ![Bin(t)] = EntryOf(hand[t][lane[t]])]

\* As if the bin were stored to, and not exchanged.
EvictedNothing(t) == [hand[t][lane[t]] EXCEPT !.idx = Null]

\* The lane after the exchange.
Evicted(t) ==
    [idx |-> mBins[Bin(t)].idx, hash |-> mBins[Bin(t)].hash,
     tries |-> hand[t][lane[t]].tries]

\* As if the evictions were not counted.
MovedOnUncounted(h) == [h EXCEPT !.hash = (1 + @) % table.numHashes]

\* As if an eviction were counted twice, past a limit that is compared with !=.
MovedOnCountedTwice(h) == [h EXCEPT !.hash = (1 + @) % table.numHashes, !.tries = @ + 2]

\* An item that has come out is sent to its next bin.
MovedOn(h) == [h EXCEPT !.hash = (1 + @) % table.numHashes, !.tries = @ + 1]

-----------------------------------------------------------------------------
(* The loop over batches of probeInsert.                                   *)

\* Every lane exchanges its item; the addresses do not depend on each other.
Swap(t) ==
    /\ pc[t] = "swap"
    /\ mBins' = Exchanged(t)
    /\ hand' = [hand EXCEPT ![t][lane[t]] = Evicted(t)]
    /\ lane' = [lane EXCEPT ![t] = (@ + 1) % BatchSize]
    /\ Goto(t, IF lane[t] + 1 = BatchSize THEN "refill" ELSE "swap")
    /\ UNCHANGED <<table, mVals, mStash, call, block, next, slot, looping>>

\* On to the next lane, or to the next round once n items have been taken.
NextLane(t, n) ==
    IF lane[t] + 1 < BatchSize
    THEN /\ lane' = [lane EXCEPT ![t] = @ + 1]
         /\ Goto(t, "refill")
         /\ UNCHANGED looping
    ELSE /\ lane' = [lane EXCEPT ![t] = 0]
         /\ looping' = [looping EXCEPT ![t] = Loops(t, n)]
         /\ Goto(t, IF Loops(t, n) THEN "swap" ELSE "lanes")

\* The lane takes the next item of the block.
Take(t) ==
    /\ hand' = [hand EXCEPT ![t][lane[t]] = Fresh(BlockItem(t, next[t]))]
    /\ next' = [next EXCEPT ![t] = @ + 1]
    /\ NextLane(t, next[t] + 1)

Refill(t) ==
    /\ pc[t] = "refill"
    /\ hand[t][lane[t]].idx = Null
    /\ Take(t)
    /\ UNCHANGED <<table, mVals, mBins, mStash, call, block, slot>>

Retry(t) ==
    /\ pc[t] = "refill"
    /\ hand[t][lane[t]].idx # Null
    /\ hand[t][lane[t]].tries # ReinsertLimit
    /\ hand' = [hand EXCEPT ![t][lane[t]] = MovedOn(@)]
    /\ NextLane(t, next[t])
    /\ UNCHANGED <<table, mVals, mBins, mStash, call, block, next, slot>>

GiveUp(t) ==
    /\ pc[t] = "refill"
    /\ hand[t][lane[t]].idx # Null
    /\ hand[t][lane[t]].tries = ReinsertLimit
    /\ slot' = [slot EXCEPT ![t] = 0]
    /\ Goto(t, "scan")
    /\ UNCHANGED <<table, mVals, mBins, mStash, call, block, hand, lane, next, looping>>

-----------------------------------------------------------------------------
(* The items left in the lanes, then the rest of the block, one by one.    *)

Lanes(t) ==
    /\ pc[t] = "lanes"
    /\ lane[t] < BatchSize
    /\ IF hand[t][lane[t]].idx = Null
       THEN /\ lane' = [lane EXCEPT ![t] = @ + 1]
            /\ UNCHANGED pc
       ELSE /\ Goto(t, "one")
            /\ UNCHANGED lane
    /\ UNCHANGED <<table, mVals, mBins, mStash, call, block, hand, next, slot, looping>>

Rest(t) ==
    /\ pc[t] = "lanes"
    /\ lane[t] = BatchSize
    /\ IF next[t] < BlockLength(t)
       THEN /\ hand' = [hand EXCEPT ![t][BatchSize] = Fresh(BlockItem(t, next[t]))]
            /\ next' = [next EXCEPT ![t] = @ + 1]
            /\ Goto(t, "one")
            /\ UNCHANGED block
       ELSE /\ block' = [block EXCEPT ![t] = @ + BlockSize]
            /\ Goto(t, "block")
            /\ UNCHANGED <<hand, next>>
    /\ UNCHANGED <<table, mVals, mBins, mStash, call, lane, slot, looping>>

\* One round of insertOne.
InsertOne(t) ==
    /\ pc[t] = "one"
    /\ mBins' = Exchanged(t)
    /\ LET out == Evicted(t) IN
         /\ hand' = [hand EXCEPT ![t][lane[t]] =
                       IF out.idx # Null /\ out.tries # ReinsertLimit
                       THEN MovedOn(out) ELSE out]
         /\ Goto(t, IF out.idx = Null THEN "lanes"
                    ELSE IF out.tries # ReinsertLimit THEN "one" ELSE "scan")
    /\ slot' = [slot EXCEPT ![t] = 0]
    /\ UNCHANGED <<table, mVals, mStash, call, block, lane, next, looping>>

-----------------------------------------------------------------------------
(* The stash: the first slot that is empty, and then the exchange.         *)

Scan(t) ==
    /\ pc[t] = "scan"
    /\ IF slot[t] = table.stash
       THEN /\ Goto(t, "failed")
            /\ UNCHANGED slot
       ELSE IF mStash[slot[t]] # Empty
            THEN /\ slot' = [slot EXCEPT ![t] = @ + 1]
                 /\ UNCHANGED pc
            ELSE /\ Goto(t, "put")
                 /\ UNCHANGED slot
    /\ UNCHANGED <<table, mVals, mBins, mStash, call, block, hand, lane, next, looping>>

\* What was in the slot is dropped: the lane takes another item, or insertOne
\* returns.
Put(t) ==
    /\ pc[t] = "put"
    /\ mStash' = [mStash EXCEPT ![slot[t]] = EntryOf(hand[t][lane[t]])]
    /\ IF looping[t] THEN Take(t)
       ELSE /\ hand' = [hand EXCEPT ![t][lane[t]] = NoHand]
            /\ Goto(t, "lanes")
            /\ UNCHANGED <<next, lane, looping>>
    /\ UNCHANGED <<table, mVals, mBins, call, block, slot>>

-----------------------------------------------------------------------------
Step(t) ==
    \/ Call(t)
    \/ Block(t)
    \/ EndCall(t)
    \/ Done(t)
    \/ Swap(t)
    \/ Refill(t)
    \/ Retry(t)
    \/ GiveUp(t)
    \/ Lanes(t)
    \/ Rest(t)
    \/ InsertOne(t)
    \/ Scan(t)
    \/ Put(t)

Ended(t) == pc[t] \in {"done", "refused", "failed"}

\* The threads are joined.
Joined ==
    /\ \A t \in Threads : Ended(t)
    /\ UNCHANGED vars

Next ==
    \/ \E t \in Threads : Step(t)
    \/ Joined

\* A thread that can run does.
Fairness == \A t \in Threads : WF_vars(Step(t))

Spec == Init /\ [][Next]_vars /\ Fairness

-----------------------------------------------------------------------------
(* find(), which is not called while items are inserted.                   *)

\* As if find went to the first two bins only, whatever the number of hashes.
FindTwoBins(i) ==
    \/ \E h \in {0, 1} : h < table.numHashes /\ mBins[Location(i, h)].idx = i
    \/ \E k \in Slot : /\ mStash[k].idx = i
                      /\ \A j \in 0 .. k : mStash[j] # Empty

\* find() of the hash of item i, which is that of no other item: one of its bins,
\* or the slots of the stash up to the first empty one.
Find(i) ==
    \/ \E h \in 0 .. table.numHashes - 1 : mBins[Location(i, h)].idx = i
    \/ \E k \in Slot : /\ mStash[k].idx = i
                      /\ \A j \in 0 .. k : mStash[j] # Empty

-----------------------------------------------------------------------------
(* Properties                                                              *)

TypeOK ==
    /\ table \in Tables
    /\ mVals \subseteq Item
    /\ mBins \in [BinIndex -> Entry]
    /\ mStash \in [Slot -> Entry]
    /\ pc \in [Threads -> PC]
    /\ call \in [Threads -> Nat \ {0}]
    /\ block \in [Threads -> Nat]
    /\ hand \in [Threads -> [Lane -> Hand]]
    /\ lane \in [Threads -> Lane]
    /\ next \in [Threads -> Nat]
    /\ slot \in [Threads -> 0 .. MaxStash]
    /\ looping \in [Threads -> BOOLEAN]

\* The items of its call that a thread has not taken yet.
Pending(t) ==
    IF pc[t] \in {"call", "done", "refused"} THEN {}
    ELSE LET c == CurrentCall(t)
             taken == block[t] + IF pc[t] = "block" THEN 0 ELSE next[t]
         IN  c.start + taken .. c.start + c.size - 1

InBin(i) == \E b \in BinIndex : mBins[b].idx = i
InStash(i) == \E k \in Slot : mStash[k].idx = i
InHand(i) == \E t \in Threads, l \in Lane : hand[t][l].idx = i

Somewhere(i) ==
    InBin(i) \/ InStash(i) \/ InHand(i) \/ \E t \in Threads : i \in Pending(t)

Inserting == {t \in Threads : table.calls[t] # <<>>}

\* The threads that insert do not share a stash.
StashOfOne == table.stash = 0 \/ \A t, u \in Inserting : t = u

NothingTwice ==
    /\ \A b, c \in BinIndex : b # c /\ mBins[b].idx = mBins[c].idx => mBins[b].idx = Null
    /\ \A t, u \in Threads, l, m \in Lane :
         <<t, l>> # <<u, m>> /\ hand[t][l].idx = hand[u][m].idx => hand[t][l].idx = Null
    /\ \A t \in Threads, l \in Lane : hand[t][l].idx # Null =>
         /\ ~InBin(hand[t][l].idx)
         /\ ~InStash(hand[t][l].idx)
    /\ \A i \in Item : InStash(i) => ~InBin(i)

\* However the threads throw each other's items out, every item inserted is in a
\* bin or in the stash, in the hands of a thread or still to be taken by one, and
\* in one of these places only: items are lost only with the hands of a thread
\* that has thrown, and none is in two bins, or in a bin and with a thread.
ItemsKept ==
    /\ StashOfOne => \A i \in mVals : Somewhere(i)
    /\ NothingTwice

\* Whenever an item is in the table, find() finds it: a bin holds only items it is
\* a location of, and the stash has no hole.
FoundWherePlaced == \A i \in Item : InBin(i) \/ InStash(i) => Find(i)

\* The bins of an item are in the table and distinct, and both functions agree.
RowsDistinct ==
    \A i \in Item :
        /\ \A h, g \in DOMAIN RowOf(i) : h # g => RowOf(i)[h] # RowOf(i)[g]
        /\ \A h \in DOMAIN RowOf(i) : RowOf(i)[h] \in 0 .. table.numBins - 1
        /\ RowOf(i) = buildRow32(table.hashes[i], table.numBins, table.numHashes)

\* An insertion ends: after mReinsertLimit evictions an item goes to the stash, or
\* insert() throws.
EveryThreadEnds == <>(\A t \in Threads : Ended(t))

-----------------------------------------------------------------------------
(* What the documentation says and the code does not do.                   *)

\* "Thread safe version": several threads may insert, with a stash as well.
ThreadSafe == \A i \in mVals : Somewhere(i)
=============================================================================
