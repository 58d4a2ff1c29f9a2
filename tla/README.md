# Verification of ExtensionFieldPCG

TLA+ modules, TLC configurations and TLAPS proofs for the program of this repository:
pseudorandom correlation generators (VOLE and OLE) over the extension field F4[x] / (x^64 +
alpha(x^3 + x) + 1), their codes, the parts of libOTe they are built from, and the two parts of
cryptoTools where several threads share state: the cuckoo hash table and the network channels.

## 1. Inventory

### Components

| Component | Source | State | Operations |
|---|---|---|---|
| Silent Walsh VOLE sender / receiver | `SilentWalshVoleSender.h`, `SilentWalshVoleReceiver.h` | `mState`, `mRequestSize`, `mBaseType`, `mSizePer`, `mGen`, `mBaseA/B/C`, `mA`, `mB`, `mC`, the two SoftSpoken objects | `configure`, `genSilentBaseOts`, `setSilentBaseOts`, `silentSend`, `silentReceive`, `checkRT`, `ferretMalCheck`, `clear` |
| Regular PPRF | `libOTe/libOTe/Tools/Pprf` | `mDomain`, `mDepth`, `mPntCount`, `mBaseOTs`, choice bits | `configure`, `setBase`, `sampleChoiceBits`, `getPoints`, `expand`, `clear` |
| Noisy VOLE | `libOTe/libOTe/Vole/Noisy` | none | `send`, `receive` |
| OT extension, base OT | `SoftSpokenMalOtExt.cpp`, `SimplestOT.cpp` | base OTs, seeds | `send`, `receive`, `genBaseOts`, `setBaseOts` |
| F4 arithmetic and transform | `F4.h`, `FoleageFft.h` | none | `F4_mul`, `F4_reduce`, `foleageFft`, `inv_foleageFft` |
| Coefficient contexts | `Coeff128.h`, `CoeffCtx.h` | none | `plus`, `minus`, `mul`, `eq`, `fromBlock`, (de)serialisation |
| Benchmarks, codes for a PCS | `test.h`, `main.cpp` | local vectors | `VOLE_QASD`, `Vole_LPN`, `QA_encode_test_PCS`, EA, EC and RAA encoders |
| OLE | `OLE.h`, `TernaryDpf.h` | per party: points, values, cross terms; per level: seeds, control bits | `dpf`, `Extension_Field_OLE`, `expand`, `correctionWord` |
| Cuckoo hash table | `cryptoTools/Common/CuckooIndex` | `mBins`, `mStash`, `mVals`, `mLocations`; per call: the lanes | `init`, `insert`, `probeInsert`, `insertOne`, `find` |
| Channels | `cryptoTools/Network/Channel` | queues per direction, `mStatus`, `mHandle`, `StartSocketOp` with its timer and socket | connect and retry, `send`, `recv`, `close`, `cancel` |
| Acceptor | `cryptoTools/Network/IOService` | pending sockets, socket groups, sessions, two promises | accept, greet and name a socket, `asyncGetSocket`, `cancelPendingChannel`, `unsubscribe`, `stop` |
| PRNG | `cryptoTools/Crypto/PRNG.h` | buffer, position | `get`, `fork`, `SetSeed` |

All paths are under `src/`, those of cryptoTools under `src/libOTe/cryptoTools/cryptoTools`. The
rest of libOTe and cryptoTools, `thirdparty`, and coproto/macoro/boost (whose code is not in the
repository) are libraries here; of coproto and of asio only what their use shows is modelled.

### How they interact

`main.cpp` dispatches on its argument to one benchmark. `VOLE_QASD` starts one thread per party
over a `LocalAsyncSocket` pair; each thread makes two calls (`silentReceive` twice, `silentSend`
twice) on the same objects. A call configures itself if nobody has, generates base OTs and a
small VOLE if `mGen` has none, expands 64 punctured PRF trees in eight messages, optionally
checks the result, and encodes the noisy vectors with `foleageFft` after rounding their length
to a power of three. Base OTs and VOLE come from two sub-protocols: one after the other the
first time with SoftSpoken, else together under `when_all_ready`, the second one on
`chl.fork()`. All of it is coroutines; the only shared state of the two parties is the channel
(and, in `VOLE_QASD` and `dpf`, a PRNG). `Extension_Field_OLE` runs `dpf` per pair of
polynomials with two threads again, then transforms and multiplies.

The cuckoo table of cryptoTools is filled by the threads of its caller, which share the bins and
the stash through atomic exchanges alone. A `Channel` of its network layer belongs to the
session of a client or of a server. Everything that touches a channel runs on its strand, with
exceptions: the calls change its status themselves, and the handler of the retry timer is not on
the strand. A client's channel connects, reads the acceptor's greeting and writes its names; the
acceptor, on a strand of its own, pairs named sockets with the channels that wait and posts each
to the strand of its channel.

### What is hard

* **Unnamed messages.** No message says what it is. Every send must meet the receive it is meant
  for across four sub-protocols, two strands and repeated calls, in an order each party computes
  from its own state.
* **Exceptions under `when_all_ready`.** It does not rethrow, so `genSilentBaseOts` goes on with
  buffers that were never written.
* **State across calls.** Extension objects and their seeds survive a call, base correlations
  must not.
* **Sizes.** `n / 64` must be even and exact for the trees, and the length is rounded to a power
  of three in between.
* **Arithmetic on packed bits.** A reduction in two passes, transforms whose passes run in the
  same order in both directions.
* **Threads** that share a PRNG; **unsigned wrap-around** of sizes.
* **Threads that throw out each other's items.** An insertion ends with another item than it
  began with, in a bin that may change hands again at once.
* **Timers against completions.** Which of a connection, its time limit, its retry and a cancel
  comes first decides who finalizes the start of a channel, and it has to be one of them.
* **A cancel in the middle of things**: of a connection, of a socket on its way to the channel,
  of a message of which half has come, of a close that is half done.
* **Pairing in any order.** Sockets, channels and sessions arrive as they like, and `stop()`
  waits for two promises that whoever comes last has to set, once.
* **Sums of block numbers** in OLE, which go digit by digit and must not carry.

`PROJECT.json` lists each of these at its line, with the properties that cover it or the reason
why none does.

### What makes the components correct

The two parties implement an ideal correlation generator: every call that returns at both
parties gives the same correlation to both, no correlation is used twice, a failing call fails
visibly, nobody waits for ever. The transform is an evaluation at all cube roots of unity and
its inverse undoes it; the multiplication is that of the extension field; the code is
systematic. Encoding each vector on its own keeps `mA = mB + mC * delta`, and the two calls of
`VOLE_QASD` combine to a VOLE of the syndrome `a * s + e`. The outputs of a DPF are shares of a
point function, and those of OLE are shares of the product of the parties' values. An item
inserted into a cuckoo table is in exactly one place and is found there. A channel gets the
socket its names say, and only one; what is closed has nothing under way, what is cancelled
returns, no assertion fails and no socket is left open by accident. (Two of the last do not hold
everywhere: section 4.)

## 2. Modules

| Module | Models | |
|---|---|---|
| `WalshSizes` | the sizes derived from a request | operators |
| `SilentWalshVole` | both parties and their channel | EXTENDS `WalshSizes` |
| `VoleFunctionality` | the ideal functionality | abstract specification, INSTANCEd by `SilentWalshVole` |
| `SilentWalshVoleSync` | | what keeps both parties in step, EXTENDS `SilentWalshVole` |
| `SilentWalshVoleProofs` | | theorems about one party and about both, EXTENDS `SilentWalshVoleSync` |
| `MCSilentWalshVole` | | the plans of calls TLC runs: lost connections, refused requests, checks |
| `BlockF4` | a block as a polynomial over F4, `F4_mul` | operators |
| `FoleageFft` | one pass of either transform, and what all passes should compute | EXTENDS `BlockF4` |
| `FoleageFftProofs` | | the ring of blocks, sums, what the passes compute: used by the three modules of proofs below |
| `PublicVector` | the vector `a` of `QaCode` and `QasdVole` | EXTENDS `FoleageFft` |
| `QaCode` | `QA_encode_test_PCS(num_var, n)` | EXTENDS `PublicVector` |
| `QaCodeProofs` | | theorems about `QaCode`, EXTENDS `FoleageFftProofs` |
| `CoeffCtx` | `mul` and `plus` of `CoeffCtxGF128_F4` and `CoeffCtxGF128` | EXTENDS `BlockF4` |
| `QasdVole` | encoding and combination of the vectors in `VOLE_QASD` | EXTENDS `PublicVector`, `CoeffCtx` |
| `QasdVoleProofs` | | theorems about `QasdVole`, EXTENDS `FoleageFftProofs` |
| `TernaryDpf` | `expand` and `correctionWord` at both parties | |
| `TernaryDpfProofs` | | theorems about `TernaryDpf` |
| `ExtensionFieldOle` | both `Extension_Field_OLE` and `dpf` | EXTENDS `FoleageFft` |
| `ExtensionFieldOleProofs` | | theorems about `ExtensionFieldOle`, EXTENDS `FoleageFftProofs` |
| `CuckooRow` | the bins of an item: `buildRow`, `buildRow32` | operators |
| `CuckooIndex` | a cuckoo table and the threads that fill it | EXTENDS `CuckooRow` |
| `CuckooIndexProofs` | | theorems about `CuckooIndex` |
| `ChannelBase` | what a task on a channel's strand does with the channel | operators |
| `Acceptor` | what a task on the acceptor's strand does with it | operators |
| `Network` | clients that connect, channels, acceptor and the programs | INSTANCEs `ChannelBase`, `Acceptor` |
| `NetworkProofs` | | theorems about `Network` with its `Acceptor`, and where sockets go |
| `MCTransforms` | | `QaCode`, `QasdVole` and `ExtensionFieldOle` with the messages, noise, deltas, terms and shares TLC runs; a behaviour is that of one of the three |
| `MCTernaryDpf` | | the points, values, seeds and hash functions TLC runs |
| `MCCuckooIndex` | | the tables, hashes and calls TLC runs |
| `MCNetwork` | | the programs TLC runs |

### SilentWalshVole

A party's coroutine is a *strand*: the sequence `job[p][s]` of the channel operations it still
has to do. Operators named after the sub-protocols (`BaseOtSend`, `OtExtReceive`,
`NoisyVoleSend`, `Expansion`, `Verification`) give the operations of each, in the order of the
code, and `GenJob` puts together what `genSilentBaseOts` awaits. An operation is done by
`Transmit` or `Receive`, or fails in `Break`. Between two `co_await`s a coroutine runs on
undisturbed: each such piece is one action.

| Code | Model |
|---|---|
| `configure`, by the user or by a call | `Configure`, `EnterUnconfigured` (with `SetConfiguration`) |
| `silentSend`/`silentReceive` up to the first `co_await` | `EnterUnconfigured`, `EnterConfigured` |
| `genSilentBaseOts` | `GenSilentBaseOts`, then the strands, then `SetSilentBaseOts` |
| `mGen.expand`, populate mC and mA | `BeginExpand`, the messages `"tree"`, `EndExpand` |
| `checkRT`, malicious check | the operations of `Verification`, `Refuses` |
| encoding, copying, `clear` | `Finish` |
| `MACORO_CATCH` | `Throw`, `Break` |

*Values* are abstracted to their provenance. A batch of base correlations is the pair of
generation numbers of the two parties whose messages it was computed from, 0 for a buffer never
written. A noisy vector is the pair of batches it was expanded from. Two parties hold `mA = mB +
mC * delta` exactly when their vectors have the same provenance; a tree made from other base OTs
turns the receiver's vector into `Junk`. What the encoding finds past the noisy vector is the
`tail`: nothing, memory nobody has written (zero or junk, chosen freely), or entries that are
not encoded. `F4` and transform arithmetic is in the other modules.

*Abstracted*: several messages of one sub-protocol in the same direction without a receive in
between (the correction batches of SoftSpoken, the groups of four of AsmSimplestOT, the base OT of
a Linux build, challenge and hash key) are one message; the number of OTs is the same at both
parties by construction of the sizes.

*External*: a socket delivers in order per channel; sends after the connection is lost may be
accepted and vanish; what had arrived may still be received; a receive of the wrong size throws;
closing wakes the peer.

### BlockF4, FoleageFft, QaCode

A block is the set of its bits that are set, each a pair of the exponent of x and `"l"` (1) or
`"h"` (alpha). `Degree` is 64 in the code. `Clmul` is `_mm_clmulepi64_si128` on sets of
exponents. A position of a vector is the function of its ternary digits, so that the recursion
of `foleageFft` becomes one `Pass` per digit (the comment in `FoleageFft` says why the order is
that of the code). `QaCode` has one action per statement of the encoder and one per pass of a
transform. The reference definitions (`BitProduct`, `Lowered`, `Evaluate`) are written without
any of the code's shortcuts: bit by bit multiplication with the rule alpha^2 = alpha + 1, long
division one coefficient at a time, sums over all monomials.

### CoeffCtx, QasdVole

`SilentWalshVole` says where the vectors of a call come from; `QasdVole` starts from what they
then contain, noisy vectors with `mA = mB + mC * d`, and follows the values. Each party's thread
encodes its vectors in place, one pass per step (`EncodeA`, `EncodeC` at the receiver, `EncodeB`
at the sender), call by call, and runs its last loop (`CombineReceiver`, `CombineSender`), at
its own pace. `noise` remembers the start; no action reads it. `Evaluate` is again the sum over
all monomials. `CoeffCtx` has both contexts with blocks as coefficients: a block there is also a
polynomial of degree below `2 * Degree` over F2, multiplied modulo `Gf128Modulus` in `gf128Mul`
and `gf128Reduce`.

The threads are modelled as interleaved passes although they share only `a` and `d`, which
nobody writes: what matters is that no order is assumed.

### TernaryDpf

One tree of `mNumPoints`, which share their messages and nothing else. A node is the sequence of
digits that leads to it. `stage` is what a party's coroutine waits for, `strand` what the two
coroutines of `correctionWord` wait for; `net` has a FIFO per receiving party and channel,
channel 0 being the socket and channel n the fork of level n.

| Code | Model |
|---|---|
| `expand` before its first `co_await` | `Init` |
| domain 1 | `ExpandTrivially` |
| `sender()` | `Transfer` |
| `recver()` | `SendCorrection`, `ReceiveTransfer` |
| `correctionWord` after `when_all_ready` | `SendSigma`, the beginning of `ExpandLevel` and `ExpandLeaves` (`Corrected`) |
| the loop over the levels, the last layer, the output | `ExpandLevel`, `ExpandLeaves`, `Output` |

Blocks are sets of bits, and the three AES hashes, `roundFn` and `expand3` any functions
(constants). Which level sits in which of the three rotating buffers is abstracted: the state
has the control bits of the parents and the seeds of the level. A lost connection is not
modelled here, since `dpf` has no other end of the socket than its own two threads. Exceptions
on malformed points, and the branch without values, are not reached from `dpf`. The threads draw
seeds and masks from one PRNG; what they draw is arbitrary in the model, so that race cannot
matter for the properties checked here.

### ExtensionFieldOle

`Extension_Field_OLE(depth, block_length, c)` with `NumPolys` = c; the variant without c is the
one with two polynomials of which the second has the factor one. A position is a function of its
digits, as in `FoleageFft`, and its high digits are its block; so `BlockOf` adds block numbers
the way `F3x32` does. `Polys` are the terms of both parties, one in each block.

| Code | Model |
|---|---|
| `expand` of all pairs of blocks in `dpf()` | `Expand`: the outputs are any shares of the point functions, which is what `SharesPoint` says of `TernaryDpf` |
| the loop that adds outputs to a cross term | `Add` |
| joining both threads, the next pair of polynomials | `Join` |
| the second pair of threads: transforms, products with the public factors | `Transform`, `Combine` |

The final comparison of the program is the property `OleHolds`. Drawing the base OTs, and the
additive sharing of a product of coefficients, which happens in the clear, are abstracted.

### CuckooRow, CuckooIndex

`CuckooRow` has both functions that draw the bins of an item from its hash: the scalar one with
its insertion and the one for eight hashes at a time with its compares. `CuckooIndex` has one
action for each access to shared memory: the exchange of a bin (`Bin::swap`), the load of a slot
of the stash (`isEmpty`) and its exchange. What a thread does to its own variables belongs to
the step before.

| Code | Model |
|---|---|
| `init` | `Init` |
| `insert`: the checks, the rows of the items | `Call`, which refuses or takes them into `mVals` |
| `insert`: the loop over blocks of 32, `probeInsert` | `Block`, `EndCall`, `Done` |
| the loop over batches: exchange all lanes, then look at each | `Swap`; `Refill`, `Retry`, `GiveUp` |
| the items left in the lanes, and the rest of the block | `Lanes`, `Rest` |
| `insertOne` | `InsertOne` |
| the loop over the stash, or the exception | `Scan`, `Put` |
| `find` | the operator `Find` |

An item is its index; its hash is a constant of three words, of any size. `looping` says where a
thread goes on after the stash. The hash that `insert` computes from an item, prefetching, and
`validate()` are left out.

Two things are assumed of memory. `insert` looks at `mVals` and writes it without
synchronisation (`CuckooIndex.cpp:683`, `:690`), and `Call` is one step: that is right because no
two threads insert the same item (`ThreadsApart`, checked by TLC for the tables of the run, as in
`CuckooIndex_parallel_Test_Impl`). The bins of an item, `mLocations`, are written plainly too,
and the exchange that passes the item to another thread is relaxed (`CuckooIndex.h:221`), so
nothing in the code orders the write before that thread's `getHash`. `RowOf` is a constant of the
item: the model has the order that x86 gives, and says nothing of a weaker one.

### ChannelBase, Acceptor, Network

`ChannelBase` and `Acceptor` are what a task on a strand does with the state of a channel, or of
the acceptor, as operators from state to state; tasks that are posted join `strand` and are
taken from it one after the other. `Network` puts them together with the part of `StartSocketOp`
that connects and with the threads of the programs.

| Code | Model |
|---|---|
| the queues: `asyncSend`/`asyncRecv`, `asyncPerformSend`/`Recv`, `printError`, `cancelSendQueue`/`RecvQueue` | `Enque`, `Perform`, `Complete`, `CancelQueue` of `ChannelBase` |
| `close`, `cancel` | `Close` and `CloseRecv`, `Cancel`, `Skip`; their callbacks `Callback` |
| `setSocket`, `finalize`, `cancelPending` | the tasks `SocketGiven`, `CancelStart` of `ChannelTask` |
| `asyncConnectToServer` | `Attempt`, and its handlers `Timeout`, `Connect` |
| `connectCallback`, `retryConnect` | operators of the same names; the retry's handler is `Retry` |
| `recvServerMessage`, `sendConnectionString` | `Read`, `Write` |
| the accept handler, `sendServerMessage`, `recvConnectionString` | `Accept`, `AcceptAborted`, `Greeted`, `NameRead` |
| tasks posted to the acceptor | `AcceptorTask` with `GetSocket`, `CancelChannel`, `SetSocket`, `Unsubscribe`, `Stop` |
| `FixedSendBuff::asyncPerform`, `FixedRecvBuff::asyncPerform` | `SendDone`; `RecvHeader`, `RecvDone` |
| the user's threads | `Open`, `Send`, `Recv`, ..., `StopSession`, `StopAcceptor` |

With one worker a handler of the client is one step. With two, `Late` is the assignment
`mIsFirst = false` that both handlers of an attempt make after what they call, and `Retry` may
come before it. `close()` is two steps, since it queues its callback twice.

A message is received in two operations of the socket, first the header and then the rest. The
handler of the header is not on the strand and asks for the rest at once (`RecvHeader`), whether
or not a cancel has been there meanwhile; the rest completes on the strand (`RecvDone`). A
message is sent in one operation, of which a cancel may let only the header leave: `wire` counts
the parts that are on their way. A call that `waits` is the blocking form, and returns when its
message has left or come, or will not (`Returned`).

*Abstracted*: a message has no size, so that none is of a wrong one (`IoBuffer.cpp:44-61`); all
sessions of a program have one name and differ by their ID. A plan bounds the attempts to connect
(`attempts`). Setting an option on a socket that is closed meanwhile fails at once and retries.
The next accept is a task of its own on the acceptor's strand, and `start()` does nothing when the
acceptor has stopped.

*External*: the kernel connects while the acceptor listens, or refuses; handlers of a socket
that is cancelled or closed complete with an error, unless the operation was done already; a
timer that has run out can no longer be cancelled; a peer that has closed may still have sent
what is received. That a TCP connection is reset when it is closed with unread data is not
modelled.

## 3. Runs

| Run | Result | What it shows |
|---|---|---|
| `calls` | pass | every call of the silent VOLE: matching of messages, no junk returned, freshness, drained channels, correlation, refinement; every thread ends, both parties fail together, calls over a connection that lasts return |
| `benchmark` | violation | lengths of the README for which a call throws |
| `transforms` | pass | transform, product, reduction, systematic code; the encoded vectors of `VOLE_QASD` stay correlated, their combination is a VOLE of the syndrome; each cross term of OLE is shared, and both parties' outputs share the product of their values |
| `default_ctx` | violation | with the classes' default context they do not stay correlated |
| `dpf` | pass | messages and receives match, one active path, the outputs share the point function, both end |
| `cuckoo` | pass | items are in one place each, found where they are, rows are distinct, insertion ends |
| `cuckoo_stash` | violation | two threads that need the stash at once lose an item |
| `network` | pass | sockets are paired as named, none is forgotten, no match is missed, promises are set once, what is closed is quiet, and of the channels' assertions only one fails, where a channel is closed again |
| `network_fair` | pass | `cancel()` returns, unless both ends are cut between header and rest, `stop()` returns, channels connect |
| `network_closing` | violation | a channel that is closed while a cancel or a close of it is pending starts a loop in a closed channel |
| `network_cut` | violation | two ends that are cancelled between header and rest wait for each other for ever |
| `network_timers` | violation | with a second thread in the client's IOService a start is finalized twice |

**Bounds.**

*Silent VOLE.* Two calls (`MaxCalls`): the first and a later call differ in the state of the
extension objects, which does not change any more after the first one, so a third adds no new
case. `NumBatches` is 2 instead of the code's 8: the messages of an expansion are alike.
`NumPartitions` is 64 and the sizes are the real ones. A plan says of each call what it asks
for, whether the checks and the malicious mode are on, and whether the connection may be lost.
The plans mix self-configured calls with explicit ones of both base types and pre-generated base
OTs; requests that are refused (an odd number of leaves, not a multiple of the trees, more than
was configured); the two calls of `VOLE_QASD` for 3^4, 3^5, 3^6 and 3^9; and calls with all
checks. Requests the encoding rounds *up* are not among them: 512 becomes 729, and what lies
between is memory that `resize()` has not initialised, which breaks `Correlated`. The program
makes no such request.

*Codes, VOLE and OLE* (`transforms`). The three functions have their variables to themselves, so
one run takes them one at a time: `function` says which, and the variables of the others stay as
they could begin. `Degree` is 5, the smallest for which two passes of `F4_reduce` are needed and
suffice (4 is not enough, from 5 on every degree works the same way). `NumVars` is 3: a pass meets
neighbouring and distant positions, and with `BlockLength` 2 the number of a block of OLE has two
digits, so that a carry would show. The messages have up to two non-zero entries: every map
checked is linear in the message, so monomials span all cases. For `VOLE_QASD` noise at one or two
positions over shares of the sender that are zero, constant and different, deltas and values with
coefficients of all kinds at both ends of a block. For OLE two polynomials, hence four cross
terms; terms at equal and different points, coefficients whose products overflow, and DPF shares
that are zero or all different. `default_ctx` runs `VOLE_QASD` alone and uses x^10 + x^3 + 1,
irreducible as the code's x^128 + x^7 + x^2 + x + 1 is.

*DPF.* Up to three levels, so that a level is corrected under bits that were themselves
corrected, and domains of 1, of 3, of 5 of 9 and of 20 of 27 leaves, which cut siblings and leave
some points outside; blocks of four bits, hashes that are not linear, and points that pair any two
digits on any level.

*Cuckoo table.* `BatchSize` is 2 for the code's 8, `BlockSize` 5 for 32 and `ReinsertLimit` 3: a
block is still more than two batches with a rest, and items reach the limit. Up to 7 bins, 5
slots and 8 items; hashes that spread, that share some bins, and that share all, for which the
evictions never end by themselves. One thread with several spans, or two threads, with and
without stash; two and three hash functions, since only with three are there batches. That no
item is lost (`ItemsKept`) is claimed where one thread inserts or the table has no stash
(`StashOfOne`), and the run has tables of both kinds; with several threads and a stash it is
wrong (`cuckoo_stash`), and what remains of `ItemsKept` is that no item is in two places.

*Network.* One or two channels on each side and one or two sessions, one to three attempts,
scripts of up to four calls: every kind of call, a cancel at any moment of connecting, talking
and closing, messages that are sent to nobody, a channel that replaces a cancelled one of the
same names, two channels whose names are each other's reversed, a server that ends, and a session
that ends while one of its sockets still waits for a channel.

Calls that close a channel overlap in every way: `close()` after a cancel that has called back
(`CancelKeeps`), a cancel after a close that has not (`CloseCancel`), and `close()` after either
(`CancelThenClose`, `CloseTwice`), which is what `~Channel` does. The last two break the assertion
at `Channel.cpp:735` (`network_closing`); they are in `network` too, where `NoAssertFails` allows
that one assertion to channels that are closed again (`ClosesAgain`) and nothing else. Messages
are cut in every way: a cancel finds a receive that waits for its connection (`CutEarly`), and
both ends are cancelled after a first message, with a second one on its way in one direction
(`CutOff`) or one in each (`CutBoth`), of which nothing, the header or all may have left and come.
`CutBoth` is what `network_cut` runs, and is also in `network_fair`: there `CancelReturns` says
that the only state in which `cancel()` may wait for ever is the one that run shows, in which both
ends have the header of a message whose rest the other has aborted (`HalvesOnly`).

`LocalFirst` (an action constraint) does not interleave the first tasks of a channel that makes no
calls, or whose thread waits for its first message: they change that channel only, nothing
disables them, and no other step depends on whether they have run, so every behaviour has an
equivalent one in which they come first.

**Fairness.** Silent VOLE: weak fairness of each party's control steps and of each strand's
channel operations, as the code runs one thread per party, and macoro resumes a coroutine whose
operation can complete; nothing is assumed of `Disconnect`. DPF and cuckoo table: weak fairness
per party or thread, which the operating system's scheduler gives. Network: weak fairness of
`Run`, all steps of programs, IOServices and kernel taken together: the system does not stop
while something can happen. That is enough as attempts and scripts are finite, and it does not
force anybody to end a session, nor an attempt to succeed; plans that are `calm` are those where
the server stays and the last attempt is not refused.

**Deadlock** is checked for `SilentWalshVole` (`Joined` is the only way to rest), `QaCode`
(`CodeDone`), `ExtensionFieldOle` (`OleDone`), `QasdVole`, `TernaryDpf` and `CuckooIndex`
(`Joined`). The network
may come to rest anywhere, as a client or a receive may wait for a server that is gone: there it
is not checked, and what must return is stated as a property.

**Mutants.** For every property of a passing run `PROJECT.json` names a definition and a
plausibly wrong variant of it (the operators introduced by "As if ...") under which TLC finds it
violated.

## 4. Findings

* `README.md:30` offers `--QA_VOLE n` for length 3^n; the calls throw for n = 1, 2, 3, 7, 8, 10
  (`benchmark`).
* The silent VOLE classes transform over F4 whatever their context. With the default one,
  `CoeffCtxGF128`, which is also the only one the malicious mode accepts, the returned vectors
  are not correlated (`default_ctx`). The program instantiates them with `CoeffCtxGF128_F4`
  only, where they are.
* `CuckooIndex.h:170` calls the `ThreadSafe` variant the "Thread safe version". Its stash is
  not: two threads may find the same slot empty, and the second to fill it drops the first one's
  item (`cuckoo_stash`). Without a stash no item is lost.
* `Channel.cpp:321` asserts that a start is finalized once. The retry timer's handler does not
  run on the strand; with two threads it can start an attempt whose `mIsFirst` the previous
  handler then resets, both ways to go on are taken, and the start is finalized twice
  (`network_timers`). With one thread in the IOService this cannot happen (`network`).
* `Channel.cpp:735` asserts that no queue starts its loop in a closed channel. `~Channel` closes
  (`Channel.cpp:607-611`), and `asyncClose` looks at the status before it queues its two
  callbacks: an `asyncCancel` or `asyncClose` that was pending can end between the two, and the
  second one then starts a loop in a closed channel (`network_closing`). Without assertions the
  callback runs and `close()` returns.
* `Channel.h:320` says that `cancel()` "Aborts all current operations (connect, send, receive)."
  The rest of a message is asked for outside the strand (`IoBuffer.cpp:66`), so a cancel between
  it and the header aborts neither. It then waits for the peer to go on or to close, and if the
  peer has been cancelled in the same way, neither `cancel()` returns (`network_cut`).

## 5. Proofs

`SilentWalshVoleProofs` proves for all values of the constants that satisfy
`ConstantsAssumption`:

* `TypeCorrect`: `TypeOK`, with `Counters`, which relates generations, forks and channels to the
  calls made. It is needed because a channel's number is a count of forks, and `net` has only so
  many channels.
* `SenderNeverReturnsJunk`: `SenderReturnsWhole`. When a strand ends with an exception under
  `when_all_ready`, its party's socket is closed (`closed` never shrinks), and every expansion
  of the sender begins with a send; so a sender that holds a batch with a missing half can never
  get past its first tree. The inductive invariant `SenderBacked` says this stage by stage: what
  the heard generation, the base batches, and the noisy vector are while the sender's socket is
  open. A call returns only after all trees are sent, so with an open socket throughout.
* `CorrelationsAreFresh`: `FreshCorrelations`. The inductive invariant `Fresh` bounds the
  sender's and receiver's own component of every tag by `gens`, which grows with every
  generation, and says that returned vectors use strictly older generations than those being
  made; two returned vectors therefore differ in the party's own component.

and about both parties, for all plans, batches and modes:

* `PartiesInStep`. What a call exchanges is determined by the plan: `Script` of
  `SilentWalshVoleSync` is the sequence of operations of each call on each channel, forks
  included, and the scripts of the two parties are opposites of each other (`ScriptOpposite`).
  `InSync` says that on each channel one party waits for exactly the messages on their way to it
  and then for the opposite of what the other one has left to do; `Lockstep`, that a party's
  objects, generations and vectors are what the calls of its plan make of them, and that each
  message carries the generation and vector of the call it belongs to. They are inductive only
  together (`InStep`): what a party sends next depends on the state of its extension objects,
  and that state on the calls both have been through. After a closed socket or an exception the
  equality of channels is gone; what stays is that an open party finds only what it waits for,
  and that a closed one never gets past its expansion (`StuckOf`). Each step is one case:
  steps that begin a call replace nothing by the script of the call (`ControlInSync`), a send
  moves an operation from what is left to what is on its way (`TransmitInSync`), a receive takes
  one off both (`ReceiveInSync`), an exception closes (`BreakInSync`). TLC has checked `InSync`
  and `Lockstep` on the plans of `calls`.
* `EveryMessageIsExpected`: `ExpectedMessage`, `ChannelsAreDrained`: `Drained`, and
  `ReceiverNeverReturnsJunk`: `ReceiverReturnsWhole`. They follow from `InStep`. The receiver's
  half needs both parties, unlike the sender's: its first tree is a receive, which succeeds only
  if the sender has come so far with the same base correlations.
* `CallsAreCorrelated`: `Correlated`, and `CallsImplementFunctionality`:
  `ImplementsFunctionality`, the refinement of `VoleFunctionality`. Initial states map to
  initial states; `Finish` of the party that is first maps to a fresh correlation, that of the
  other one to its other half, every other step to a stutter. Both assume `RequestsFit`: no
  request of the plan is made longer by the encoding. A request of 512 is, to 729, and returns
  entries from memory nobody has written; neither property holds then. The plans of `calls`
  satisfy it.

`FoleageFftProofs` proves what the next three modules need about blocks and transforms, for every
`Degree` and `NumVars`:

* Blocks are a commutative ring. `F4_mul` distributes over `Xor` (`F4_mulXor`) and commutes with
  `TimesOmega` (`F4_mulOmega`). The first rests on the parity of a symmetric difference of finite
  sets (`XorParity`), which makes `Clmul` linear, and on each fold of `F4_reduce` being linear;
  the second on a fold taking the pair (odd + even, odd) to the pair of the same shape.
  `F4_mulCommutes` is a bijection between the pairs of exponents that `Clmul` counts.
  `F4_mulExchange` and `F4_mulAssociates` are not read off a product of three polynomials, whose
  reduction is done twice at different places. Multiplication by x (`TimesX`) is compared with
  `F4_mul` by a monomial, monomials commute with each other (`MonomialsCommute`), and what two
  linear maps do to all monomials and to their multiples by omega decides what they do to all
  blocks (`BlockSpan`).
* `XorAll`, the sum over a finite family, is defined by the parity with which a bit occurs. So
  its laws (splitting off an index, reindexing, adding two families, exchanging two sums, moving
  a linear map in) follow from facts about cardinalities, without an induction over the family.
* One pass of `foleageFft` replaces the sum over one exponent by its value (`ValuePass`).
  `Transformed(n, x, c)` says that `x` is what `n` passes make of `c`: for each position the
  sum over the exponents of the first `n` variables, evaluated at its digits. A pass takes it
  from `n` to `n + 1`, and after all of them it is `Evaluate`. `Inverted` is the same backwards,
  and a pass of `inv_foleageFft` takes it down (`InversePass`); that 1 + 1 + 1 = 1 over F2 is why
  nothing has to be divided by 3.

`QaCodeProofs` proves for every `Degree`, `NumVars`, `Messages` and `Values` its three
properties:

* `F4_mulReduces`: `F4_mul` is the product bit by bit, reduced by long division, for each pair of
  blocks. The two folds of `F4_reduce` and the division that removes one exponent at a time are
  compared by value: `ValueOf` is the sum of the reduced powers of x (and their multiples by
  alpha) over the bits of a polynomial. Removing the highest exponent keeps the value
  (`RemovedValue`), because the powers satisfy the recurrence of the modulus (`PowerRecurs`), and
  a polynomial that is a block already is its own value. `ProductsAreReduced`: `ProductsReduced`
  follows.
* `TransformEvaluates`: `ForwardEvaluates`, and `CodeWordIsProduct`: `CodedIsProduct`. The
  inductive invariant `CInv` says at which pass each vector is, as `Transformed` or `Inverted`
  of the message, the polynomial, or their pointwise product.

`QasdVoleProofs` proves for every `Degree`, `NumVars`, `Deltas`, `Values` and `Noise`, under
`Ctx = "CoeffCtxGF128_F4"`:

* `TypeCorrect`: `TypeOK`. The reduction leaves blocks.
* `EncodingKeepsCorrelation`: `EncodingCorrelated`. The invariant of the run is not inductive:
  between the passes nothing relates mA, mB and mC, which are at different passes. `IInv` says
  that for each call there is a history of all three up to the furthest of them, correlated at
  each point, on which each variable is at some point. A pass of the one that is furthest
  extends the history (`HistoryExtends`), by `CorrelatedPass`; a pass of another one follows it.
  Stating the history as a witness that grows by a step, instead of a recursive function of the
  start, is what avoids induction over the passes.
* `VerificationSucceeds`: `Verified`. Once both threads are done, the shares of the program
  differ by exactly what its check says. `VInv` adds to `IInv` what the order of each thread's
  steps is (`Ordered`) and that the shares of a thread that has combined are the affine
  expression of its vectors (`SharesAffine`); the rest is distributivity and associativity.
* `VolOfNoise`: `VolIsSyndrome`, the receiver's share is the value of a * s + e at each point.
  `SInv` follows the passes with `NoiseTransformed`.

`TernaryDpfProofs` proves for any depth, domains, points, values, hash functions, seeds, masks
and base OTs, and every order in which the two parties and their coroutines run, `TypeCorrect`:
`TypeOK`, `NothingIsMistaken`: `Matched`, `PathStaysSingle`: `OneActivePath`, and
`PointIsShared`: `SharesPoint`. One invariant, `IInv`, carries all four:

* `Control` and `Mailed` say where the parties are relative to each other, one at most a level
  ahead, and that each queue holds exactly the messages the receiver is due. `Matched` follows.
* `Masked`, `Buffered` and `Summed` follow the oblivious transfer of a level: what the mask of a
  party is once it has sent, what its peer keeps of that, and that the two shares of the
  correction word add up to the sums of all seeds, with what both have drawn in place of the sum
  at the digit of the point (`ShareSums`, `WordSums`). All 9 pairs of digits meet in
  `OffsetPoint`.
* `Levels` says that the parties are on the path to the point, also while one of them is a level
  behind. It is then compared with the level it *will* have (`Fixed`, `LevelTags`, `LevelSeeds`,
  `LevelSums`), which is determined since both shares of the word are there. So the two steps
  that correct a level are symmetric: the first one to take it changes what is compared, the
  second changes nothing. `OneActivePath` alone is not inductive: that the seeds are equal off
  the path after the correction needs the sums of the level (`XorAllDiffer`: families that
  differ at one point only have sums that differ as they do there).
* `LeavesOnPath` and `Outputs` do the same for the leaves and the last correction.

TLC has checked `IInv`, conjunct by conjunct, on the trees of `dpf`. That `log3ceil` returns the
least number that suffices uses the least element of a set of numbers, which is proved from the
well-foundedness of strict subsets (`LeastNatural`), as the library's induction theorems are out
of reach.

`ExtensionFieldOleProofs` proves for every `Degree`, `NumVars`, number of polynomials and of high
digits, all positions and values of the parties' polynomials, and all outputs the DPFs may have:

* `ProductEvaluates`: the value of a product of polynomials is the product of their values, the
  exponents adding modulo 3 digit by digit (`ExponentSum`); with `foleageFftEvaluates`, that all
  passes of the transform are `Evaluate`.
* `CallsShareProducts`: `CrossTermsShared`. A position is a block and a point within it, which
  the code adds apart: the block numbers in `dpf()`, the points in the DPF. So the product of two
  terms, as a polynomial, is the tree of their two blocks (`TreesShareProduct`), and the trees
  whose blocks add up to that of a position are the ones whose outputs are added there. The
  invariant (`CrossAdded`, part of `OInv`) is that a cross term of a party is the sum of its own
  outputs, once it has added them; that the outputs of both are shares is only used when the
  sums are compared, so that the order of the two threads does not matter.
* `OleAlwaysHolds`: `OleHolds`. `ValuesShared` says of the cross terms of both parties that their
  values are shares of products of values, while either party may be before or after its
  transform (`CrossValue`); `SumsCombined` what a party has summed up. That the two sums are the
  product of the parties' values is then that the pairs of polynomials are numbered one to one
  by the calls (`CallsArePairs`), and distributivity over both sums (`MulSums`).

`CuckooIndexProofs` proves, under `ThreeHashes` (every table uses three hash functions: the loop
over batches and the vector `buildRow32` are for these, and rows of other lengths are folds over
sequences), for any threads, tables, hashes, batches, blocks, stash and limit:

* `RowsAreDistinct`: `RowsDistinct`. A bin drawn from a smaller range is moved past the ones
  before it in increasing order (`ThreeDistinct`); that `buildRow` and `buildRow32` give the
  same three numbers is a case distinction over the order of the remainders (`Row3Is`,
  `LaneRowIs`).
* `TypeCorrect` and `ItemsAreFound`: `TypeOK` and `FoundWherePlaced`. The inductive invariant
  `Sound` says where a thread is in its call and block (`Progress`), which lanes hold items at
  which step (`Hands`), that the slots of the stash a thread has passed are taken (`Looked`),
  that the hash number kept in a bin is one that names the bin (`Placed`), and that the stash is
  filled without a hole (`NoHole`). The last two make `find` complete; they need the others,
  because an item's next bin comes from what an exchange took out, and a slot from a scan that
  other threads may overtake.
* `ItemsAreKept`: `ItemsKept`, under `ThreadsApart` and `SpansApart` as well: spans that two
  threads insert are disjoint, and those that one inserts are too, or start at the same item and
  then all but one are refused. `Held` is a function from all *places* an item can be at (bins,
  slots, hands, items a thread has still to take) to what is there. `Kept` says that no item is at
  two places, that what is held was inserted, and, unless threads that insert share a stash, that
  what was inserted is held. Each step exchanges what two places hold (`SwappedKeeps`), moves the
  first items of a block to the lanes (`PairedKeeps`), drops what a slot held (`DroppedKeeps`), or
  adds the items of a call (`CallFiled`); so the proof is not about interleavings but about
  permutations of places. With a stash of its own a thread's slot is still empty when it is filled
  (`SlotFree`), which is what two threads cannot rely on.

`NetworkProofs` proves for any plans, that is any numbers of channels, sessions, attempts and
threads, any names and scripts, and every interleaving of clients, acceptor and programs:

* `AcceptorIsInOrder`: the inductive invariant `AcceptorInv`. `PromisedOnce` and `NoMissedMatch`
  are far from inductive: that a promise is not set twice depends on who else may still bring
  the condition about, and that no match is missed on everything that moves sockets and
  channels. `Good` says of the acceptor between two tasks that its promises are set exactly when
  they are due (`Released`, `Emptying`), that a group is kept exactly while it is wanted
  (`Wanted`), and that the channels that wait fit none of the sockets they could get
  (`Unmatched`: those of their session, or of the pool while the session has no ID, which is
  while it is in `unclaimed`). `InOrder` says of the tasks on its strand what makes each of them
  come to a state it is made for: a channel asks for a socket before its session ends, a session
  ends once and is subscribed until then, the acceptor stops once and after all sessions, a
  socket is named once. `Attempts` and `Apart` say that a socket is accepted once: each attempt
  of a client connects one, with a number that no socket known to the acceptor has, whatever its
  timers do.
* `PromisesAreSetOnce`: `PromisedOnce`, and `NoMatchIsMissed`: `NoMissedMatch`, which follow.

There is one lemma for each task of the acceptor (`GetSocketKeeps`, `NameKeeps`, `StopKeeps`,
...), about any state that is `Good`, then one for each action of `Network`. Merging a group of
sockets into a session is a fold, about which TLAPS has no induction here: `AddSocketsKeep` takes
the least number of sockets after which the claim would fail (`LeastNatural`, from the
well-foundedness of strict subsets). A client's handlers are composed of parts that make no new
attempt (`Quiet`), so that connecting matters to the proof only in `Attempt` and `Connect`. TLC
has checked `AcceptorInv`, conjunct by conjunct, on the plans of `network`.

It goes on from there to `SocketsGoWhereNamed`: `PairedAsNamed`, for any
plans. That a socket gets to the channel that bears its name, and to that one only, is decided
at several places (when a socket is named, when a channel asks, when a group is claimed by a
session and merged into it), and by then other tasks have moved the socket. `PairingInv` says:

* of each socket that it is in one place (`InOnePlace`): it waits for its name, in the pool, with
  a session, or is with one channel, given or still on its way to it;
* that wherever it is, it fits (`Fitting`): a group has the ID of its sockets, a session that of
  the group it has claimed, and a channel's sockets its names and its session;
* that the acceptor knows only sockets of attempts that have been made (`KnownArePast`), so that
  what an attempt brings is nowhere yet.

An operator of `Acceptor` only moves sockets (`Moves`, `Comes`), lets go of some (`Drops`), or
keeps all where they are (`Still`): one lemma each, and again the least socket that fails for the
fold of `merge` (`AddSocketsPair`). Of the operators of `ChannelBase` only one fact is needed,
that none gives a channel a socket which it was not told of (`NoNew`), through every path of
callbacks (`CallbackReduces`, `RunCallbacksReduce`). TLC has checked `PairingInv`, conjunct by
conjunct, on the plans of `network`.

Only model-checked: of `Network` its `TypeOK`, the assertions and quiet of the channels
(`NoAssertFails` as restricted above, `ClosedIsQuiet`) and that no socket is forgotten
(`NoSocketForgotten`), the cuckoo tables with two hash functions, the coefficient contexts other
than `CoeffCtxGF128_F4`, and everything about liveness, which is beyond TLAPS here.

## 6. Not modelled, and the plan

1. `RegularPprf` and `NoisyVole` at the level of values: tree expansion, interleaved positions,
   the noisy coordinates; `SilentWalshVole`'s provenance justified by them.
2. `SharedPrng`: the two threads of `VOLE_QASD` on one PRNG. Until then draws are arbitrary.
3. `IntegerPrime`: representatives below 2^127 - 1, scaled to a small Mersenne number.
4. `Accumulate`: the accumulators of EA, EC and RAA codes, and `Vole_LPN` with them.
5. Retrying on the same objects with a new socket after a failure; failures of a DPF expansion
   inside `dpf()`.
6. Proofs: `TypeOK`, `NoAssertFails` and `ClosedIsQuiet` of the channels, and
   `NoSocketForgotten` from `PairingInv` (that what a step takes from one place is put in another
   or closed).

Parts of modelled components that are left out: the cuckoo table's `validate()` and its choice
of parameters for a failure probability (a fit of measured curves); of the channels
`waitForConnection`, TLS, a channel made of a ready socket, and receives of a wrong size.

Not planned, with the reason:

* OT extension's and LPN's security, AES, hashing and the PRNG's stream: cryptographic
  assumptions, not state machines.
* coproto, macoro and asio: their code is not in the repository.
* The other OT, VOLE, triple and 1-out-of-N protocols of libOTe and their tools (LDPC matrices,
  Tungsten and silver code data, bit transposition): the program does not use them.
* Circuits of cryptoTools (`BetaCircuit`, `BetaLibrary`): generators of gate lists, used by
  nothing here.
* `thirdparty` (Kyber, curve arithmetic): vendored, generated in part.
* Timing, communication counters, logging and command line formatting.
