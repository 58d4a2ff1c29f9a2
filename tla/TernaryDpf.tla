------------------------------ MODULE TernaryDpf ------------------------------
(***************************************************************************)
(* TernaryDpf::expand and correctionWord, run by two parties over a socket  *)
(* pair for one tree (the code runs mNumPoints of them side by side, in the *)
(* same messages), with values of a type whose sum is the Xor.              *)
(*                                                                         *)
(* A node is the path of ternary digits that leads to it, so Node(n) is     *)
(* level n of the tree.  Of the three levels the code keeps in rotating     *)
(* buffers, a party's state has the control bits of the parents and the     *)
(* seeds of the current level; the children replace them when they are      *)
(* made.                                                                    *)
(***************************************************************************)
EXTENDS Integers, Sequences, FiniteSets

CONSTANTS
    Bits,           \* the bits of a block, number 0 the least significant one
    Domains,        \* the domains that init may be given
    MaxDepth,       \* the largest depth that they need
    Hash,           \* hashBlock of the three AES objects
    RoundFn,        \* AES::roundFn(s, s)
    Expand3,        \* expand3
    Points,         \* per domain: the shares of the points
    Values,         \* the shares of the values
    Seeds,          \* the blocks sc0, sc1, sc2 drawn from the PRNG
    Masks,          \* the blocks r drawn from the PRNG
    BaseOts,        \* the pairs of keys set by setBaseOts
    Choices         \* the choice bits set by setBaseOts

Party == {0, 1}
Block == SUBSET Bits
Digit == 0 .. 2
Node(n) == [1 .. n -> Digit]
Triple == [Digit -> Block]

\* The first power of three that reaches x.
log3ceil(x) ==
    LET reach == {i \in 0 .. MaxDepth : 3 ^ i >= x}
    IN  CHOOSE i \in reach : \A j \in reach : i <= j

ASSUME DpfAssumption ==
    /\ 0 \in Bits
    /\ MaxDepth \in Nat \ {0}
    /\ Domains \subseteq 1 .. 3 ^ MaxDepth
    /\ Hash \in [Digit -> [Block -> Block]]
    /\ RoundFn \in [Block -> Block]
    /\ Expand3 \in [Block -> Triple]
    /\ \A d \in Domains : Points[d] \subseteq [Party -> Node(log3ceil(d))]
    /\ Values \subseteq [Party -> Block]
    /\ Seeds \subseteq [Party -> Triple]
    /\ Masks \subseteq Block
    /\ BaseOts \subseteq [Party -> [1 .. 2 * MaxDepth -> [{0, 1} -> Block]]]
    /\ Choices \subseteq [Party -> [1 .. 2 * MaxDepth -> {0, 1}]]

VARIABLES
    mDomain,
    points,         \* per party: the digits of its point, the first one on top
    values,         \* per party: its value
    mBaseSendOts,   \* per party
    mBaseChoice,    \* per party
    iter,           \* per party: the level that is corrected
    stage,          \* per party: what its own coroutine waits for
    strand,         \* per party: what sender() and recver() wait for
    parentTags,     \* per party: the control bits of the level above
    seeds,          \* per party: the seeds of the level, not yet corrected
    z,              \* per party: the sums of the seeds by digit
    mask,           \* per party: mask
    recvBuffer,     \* per party: recvBuffer
    sigma,          \* per party: its share of the correction word
    leaves,         \* per party: leafVals
    tags,           \* per party: t, the control bits of the leaves
    output,         \* per party: what was passed to the callback
    net             \* per receiving party and channel: the messages in flight

inputs == <<mDomain, points, values, mBaseSendOts, mBaseChoice>>
transferred == <<mask, recvBuffer>>
tree == <<iter, parentTags, seeds, z>>
result == <<leaves, tags, output>>
vars == <<inputs, stage, strand, tree, transferred, sigma, result, net>>

\* Not filled yet.
Nothing == <<>>

mDepth == log3ceil(mDomain)

Parent(x, n) == [i \in 1 .. n - 1 |-> x[i]]

\* The number of a leaf.
Index(x) ==
    LET upTo[n \in 0 .. mDepth] == IF n = 0 THEN 0 ELSE 3 * upTo[n - 1] + x[n]
    IN  upTo[mDepth]

Leaf == {x \in Node(mDepth) : Index(x) < mDomain}

\* The Xor of two bits.
Flip(i, j) == (i + j) % 2

Zero == {}
Xor(x, y) == (x \ y) \cup (y \ x)
lsb(b) == 0 \in b

\* The Xor of all blocks of a family.
XorAll(f) ==
    {b \in Bits : Cardinality({x \in DOMAIN f : b \in f[x]}) % 2 = 1}

XorTriple(u, v) == [i \in Digit |-> Xor(u[i], v[i])]
ZeroTriple == [i \in Digit |-> Zero]

\* The control bit of the root.
RootTag(p) == p = 1

Init ==
    /\ mDomain \in Domains
    /\ points \in Points[mDomain]
    /\ values \in Values
    /\ mBaseSendOts \in BaseOts
    /\ mBaseChoice \in Choices
    /\ iter = [p \in Party |-> 1]
    /\ stage = [p \in Party |-> IF mDomain = 1 THEN "trivial" ELSE "transfer"]
    /\ strand = [p \in Party |-> [sender |-> "recv", recver |-> "send"]]
    /\ parentTags = [p \in Party |-> [x \in Node(0) |-> RootTag(p)]]
    /\ z \in Seeds
    /\ seeds = [p \in Party |-> [x \in Node(1) |-> z[p][x[1]]]]
    /\ mask = [p \in Party |-> ZeroTriple]
    /\ recvBuffer = [p \in Party |-> <<ZeroTriple, ZeroTriple>>]
    /\ sigma = [p \in Party |-> ZeroTriple]
    /\ leaves = [p \in Party |-> Nothing]
    /\ tags = [p \in Party |-> Nothing]
    /\ output = [p \in Party |-> Nothing]
    /\ net = [p \in Party |-> [c \in 0 .. MaxDepth |-> <<>>]]

-----------------------------------------------------------------------------
(* Channel 0 is the socket expand() was given, channel n the one forked     *)
(* from it for level n.  Messages carry their kind only to tell whether     *)
(* the right one is received: nothing in the code looks at it.              *)

\* As if both strands used the socket itself.
ChannelUnforked(p, s) == 0

\* socks, swapped at party 1.
Channel(p, s) == IF (s = "sender") = (p = 0) THEN 0 ELSE iter[p]

Send(p, c, kind, what) ==
    net' = [net EXCEPT ![1 - p][c] = Append(@, [kind |-> kind, what |-> what])]

Arrived(p, c) == net[p][c] # <<>>
Received(p, c) == Head(net[p][c]).what
Consume(p, c) == [net EXCEPT ![p][c] = Tail(@)]

\* The trivial case of a domain of one.
ExpandTrivially(p) ==
    /\ stage[p] = "trivial"
    /\ output' = [output EXCEPT ![p] = [x \in Leaf |-> values[p]]]
    /\ tags' = [tags EXCEPT ![p] = [x \in Leaf |-> RootTag(p)]]
    /\ stage' = [stage EXCEPT ![p] = "done"]
    /\ UNCHANGED <<inputs, strand, tree, transferred, sigma, leaves, net>>

\* recver() sends the bits of the digit, hidden by the choice bits.
SendCorrection(p) ==
    LET n == iter[p]
        a == points[p][n]
    IN  /\ stage[p] = "transfer"
        /\ strand[p].recver = "send"
        /\ Send(p, Channel(p, "recver"), "correction",
                <<Flip(a % 2, mBaseChoice[p][2 * n - 1]), Flip(a \div 2, mBaseChoice[p][2 * n])>>)
        /\ strand' = [strand EXCEPT ![p].recver = "recv"]
        /\ UNCHANGED <<inputs, stage, tree, transferred, sigma, result>>

\* As if the digits were subtracted.
OffsetSubtracted(j, a) == (j + 3 - a) % 3

\* The place of r in the message for a peer with digit j.
Offset(j, a) == (j + a) % 3

\* sender() answers with the messages for the digits 1 and 2; for the digit 0
\* the peer derives everything itself.
Transfer(p) ==
    LET n == iter[p]
        a == points[p][n]
        c == Channel(p, "sender")
        correction == Received(p, c)
        key(j) == Xor(mBaseSendOts[p][2 * n - 1][Flip(j % 2, correction[1])],
                      mBaseSendOts[p][2 * n][Flip(j \div 2, correction[2])])
    IN  /\ stage[p] = "transfer"
        /\ strand[p].sender = "recv"
        /\ Arrived(p, c)
        /\ \E drawn \in Masks :
             LET r == IF p = 1 THEN drawn \cup {0} ELSE drawn \ {0}
                 own == [Expand3[key(0)] EXCEPT ![a] = Xor(@, r)]
                 for(j) == [XorTriple(Expand3[key(j)], own)
                              EXCEPT ![Offset(j, a)] = Xor(@, r)]
             IN  /\ mask' = [mask EXCEPT ![p] = own]
                 /\ net' = [Consume(p, c) EXCEPT ![1 - p][c] =
                              Append(@, [kind |-> "transfer", what |-> <<for(1), for(2)>>])]
        /\ strand' = [strand EXCEPT ![p].sender = "done"]
        /\ UNCHANGED <<inputs, stage, tree, recvBuffer, sigma, result>>

ReceiveTransfer(p) ==
    LET c == Channel(p, "recver")
    IN  /\ stage[p] = "transfer"
        /\ strand[p].recver = "recv"
        /\ Arrived(p, c)
        /\ recvBuffer' = [recvBuffer EXCEPT ![p] = Received(p, c)]
        /\ net' = Consume(p, c)
        /\ strand' = [strand EXCEPT ![p].recver = "done"]
        /\ UNCHANGED <<inputs, stage, tree, mask, sigma, result>>

\* As if the peer's share of the correction word were received first.
BothReadyAndShare(p) == strand[p] = [sender |-> "done", recver |-> "done"] /\ Arrived(p, 0)

\* when_all_ready(sender(), recver())
BothReady(p) == strand[p] = [sender |-> "done", recver |-> "done"]

\* Both coroutines are done: the party sends its share of
\* the correction word.
SendSigma(p) ==
    LET n == iter[p]
        a == points[p][n]
        mBaseRecvOts(i) == mBaseSendOts[1 - p][i][mBaseChoice[p][i]]
        ka == Expand3[Xor(mBaseRecvOts(2 * n - 1), mBaseRecvOts(2 * n))]
        own == XorTriple(XorTriple(ka, mask[p]), z[p])
        share == IF a = 0 THEN own ELSE XorTriple(own, recvBuffer[p][a])
    IN  /\ stage[p] = "transfer"
        /\ BothReady(p)
        /\ sigma' = [sigma EXCEPT ![p] = share]
        /\ Send(p, 0, "sigma", share)
        /\ stage' = [stage EXCEPT ![p] = "sigma"]
        /\ UNCHANGED <<inputs, strand, tree, transferred, result>>

\* The seeds of the level, corrected below the parents whose control bit is set.
Corrected(p) ==
    LET word == XorTriple(sigma[p], Received(p, 0))
        n == iter[p]
    IN  [x \in Node(n) |-> IF parentTags[p][Parent(x, n)]
                           THEN Xor(seeds[p][x], word[x[n]]) ELSE seeds[p][x]]

\* As if the seeds were not replaced with their control bits.
TagsKept(p, s) == parentTags[p]

TagsOf(p, s) == [x \in Node(iter[p]) |-> lsb(s[x])]

\* The peer's share has arrived: the level is corrected and expanded, and the
\* next one begins.
ExpandLevel(p) ==
    LET n == iter[p]
        s == Corrected(p)
    IN  /\ stage[p] = "sigma"
        /\ Arrived(p, 0)
        /\ n < mDepth
        /\ parentTags' = [parentTags EXCEPT ![p] = TagsOf(p, s)]
        /\ seeds' = [seeds EXCEPT ![p] =
             [y \in Node(n + 1) |-> Hash[y[n + 1]][s[Parent(y, n + 1)]]]]
        /\ z' = [z EXCEPT ![p] =
             [i \in Digit |-> XorAll([x \in Node(n) |-> Hash[i][s[x]]])]]
        /\ net' = Consume(p, 0)
        /\ iter' = [iter EXCEPT ![p] = n + 1]
        /\ stage' = [stage EXCEPT ![p] = "transfer"]
        /\ strand' = [strand EXCEPT ![p] = [sender |-> "recv", recver |-> "send"]]
        /\ UNCHANGED <<inputs, transferred, sigma, result>>

\* The leaves are corrected, and the party sends its value plus their sum.
ExpandLeaves(p) ==
    LET s == Corrected(p)
        leafVals == [x \in Leaf |-> RoundFn[s[x]]]
        diff == Xor(values[p], XorAll(leafVals))
    IN  /\ stage[p] = "sigma"
        /\ Arrived(p, 0)
        /\ iter[p] = mDepth
        /\ leaves' = [leaves EXCEPT ![p] = leafVals]
        /\ tags' = [tags EXCEPT ![p] = [x \in Leaf |-> lsb(s[x])]]
        /\ net' = [Consume(p, 0) EXCEPT ![1 - p][0] =
                     Append(@, [kind |-> "diff", what |-> diff])]
        /\ stage' = [stage EXCEPT ![p] = "diff"]
        /\ UNCHANGED <<inputs, strand, tree, transferred, sigma, output>>

\* As if a party corrected all of its leaves.
MaskedAlways(tag, gamma) == gamma

\* ctx.mask
MaskedBy(tag, gamma) == IF tag THEN gamma ELSE Zero

\* The peer's has arrived: gamma corrects the leaves whose control bit is set.
Output(p) ==
    LET gamma == Xor(Xor(Received(p, 0), XorAll(leaves[p])), values[p])
    IN  /\ stage[p] = "diff"
        /\ Arrived(p, 0)
        /\ output' = [output EXCEPT ![p] =
             [x \in Leaf |-> Xor(MaskedBy(tags[p][x], gamma), leaves[p][x])]]
        /\ net' = Consume(p, 0)
        /\ stage' = [stage EXCEPT ![p] = "done"]
        /\ UNCHANGED <<inputs, strand, tree, transferred, sigma, leaves, tags>>

BothDone == stage = [p \in Party |-> "done"]

Joined == BothDone /\ UNCHANGED vars

Step(p) ==
    \/ ExpandTrivially(p)
    \/ SendCorrection(p)
    \/ Transfer(p)
    \/ ReceiveTransfer(p)
    \/ SendSigma(p)
    \/ ExpandLevel(p)
    \/ ExpandLeaves(p)
    \/ Output(p)

Next == (\E p \in Party : Step(p)) \/ Joined

\* Each party has a thread, which resumes a coroutine that can go on.
Fairness ==
    \A p \in Party :
        /\ WF_vars(ExpandTrivially(p))
        /\ WF_vars(SendCorrection(p))
        /\ WF_vars(Transfer(p))
        /\ WF_vars(ReceiveTransfer(p))
        /\ WF_vars(SendSigma(p))
        /\ WF_vars(ExpandLevel(p))
        /\ WF_vars(ExpandLeaves(p))
        /\ WF_vars(Output(p))

Spec == Init /\ [][Next]_vars /\ Fairness

-----------------------------------------------------------------------------
(* Properties                                                              *)

Ports == [sender : {"recv", "done"}, recver : {"send", "recv", "done"}]

TypeOK ==
    /\ iter \in [Party -> 1 .. MaxDepth]
    /\ stage \in [Party -> {"trivial", "transfer", "sigma", "diff", "done"}]
    /\ strand \in [Party -> Ports]
    /\ {z, mask, sigma} \subseteq [Party -> Triple]
    /\ recvBuffer \in [Party -> Triple \X Triple]
    /\ \A p \in Party :
         /\ parentTags[p] \in [Node(iter[p] - 1) -> BOOLEAN]
         /\ seeds[p] \in [Node(iter[p]) -> Block]
         /\ stage[p] \in {"diff", "done"} /\ mDepth > 0 => leaves[p] \in [Leaf -> Block]
         /\ stage[p] \in {"diff", "done"} => tags[p] \in [Leaf -> BOOLEAN]
         /\ stage[p] = "done" => output[p] \in [Leaf -> Block]

\* No message names its purpose, and two coroutines of each party and its own
\* messages share the socket and its forks: what a party finds when it
\* receives is nevertheless what the code there takes it for.
Matched ==
    \A p \in Party :
        LET Expects(c, kind) == Arrived(p, c) => Head(net[p][c]).kind = kind
        IN  /\ stage[p] = "transfer" /\ strand[p].sender = "recv" =>
                 Expects(Channel(p, "sender"), "correction")
            /\ stage[p] = "transfer" /\ strand[p].recver = "recv" =>
                 Expects(Channel(p, "recver"), "transfer")
            /\ stage[p] = "sigma" => Expects(0, "sigma")
            /\ stage[p] = "diff" => Expects(0, "diff")

\* The point the parties share digit by digit.
Point == [i \in 1 .. mDepth |-> (points[0][i] + points[1][i]) % 3]

\* Above the level that both parties correct, the control bits differ at one
\* node, that on the way to the point, and below any other node both hold the
\* same seeds.
OneActivePath ==
    (iter[0] = iter[1] /\ \A p \in Party : stage[p] \in {"transfer", "sigma"}) =>
        LET n == iter[0]
            Active(x) == \A i \in 1 .. n - 1 : x[i] = Point[i]
        IN  /\ \A x \in Node(n - 1) : (parentTags[0][x] # parentTags[1][x]) <=> Active(x)
            /\ \A y \in Node(n) : ~Active(y) => seeds[0][y] = seeds[1][y]

\* What expand() passes to the two callbacks adds up to the value at the point
\* and to zero at all other leaves, and the tags to one and zero.
SharesPoint ==
    BothDone =>
        \A x \in Leaf :
            /\ Xor(output[0][x], output[1][x])
                 = IF x = Point THEN Xor(values[0], values[1]) ELSE Zero
            /\ (tags[0][x] # tags[1][x]) <=> x = Point

\* Neither party waits for the other for ever.
Terminates == <>BothDone
=============================================================================
