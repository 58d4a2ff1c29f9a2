--------------------------- MODULE SilentWalshVole ---------------------------
(***************************************************************************)
(* SilentWalshVoleSender and SilentWalshVoleReceiver, run against each     *)
(* other over one socket pair for a sequence of silentSend/silentReceive   *)
(* calls (VOLE_QASD makes two).                                            *)
(*                                                                         *)
(* A coroutine of a party is a strand: a sequence of channel operations    *)
(* still to be done, put together from the sub-protocols the code awaits.  *)
(* A party has the strand of its own call and, while genSilentBaseOts runs *)
(* two protocols under when_all_ready, a second one on a forked channel.   *)
(*                                                                         *)
(* Values are represented by where they come from.  A batch of base        *)
(* correlations is the pair of generation numbers of the two parties whose *)
(* messages it was computed from, and a noisy vector the batches of base   *)
(* OTs and of base VOLEs it was expanded from: the two parties hold        *)
(* mA = mB + mC * delta exactly when their vectors come from the same ones *)
(* (RegularPprf and NoisyVole are modelled at that level in modules of     *)
(* their own).                                                             *)
(***************************************************************************)
EXTENDS Sequences, WalshSizes

CONSTANTS
    NumBatches,          \* trees / 8: the messages of one eager PPRF expansion
    MaxCalls,            \* bound on the calls of one run
    Plans                \* the sequences of calls the two callers may agree on

BaseType == {"BaseExtend", "Base"}

\* One call at both parties, for n correlations: "auto" if silentSend and
\* silentReceive configure themselves, or the base type of an explicit
\* configure() for req correlations, followed or not by genSilentBaseOts(), with
\* the modes both callers have set: mMalType = Malicious, and mDebug.  block says that
\* F = block and Ctx = CoeffCtxGF128, which the malicious mode is written for, and
\* lossy that the connection may be lost at any time.
Call == [type : BaseType \cup {"auto"}, req : Nat, n : Nat, pregen : BOOLEAN,
         mal : BOOLEAN, debug : BOOLEAN, block : BOOLEAN, lossy : BOOLEAN]

ASSUME ConstantsAssumption ==
    /\ NumBatches \in Nat \ {0}
    /\ MaxCalls \in Nat
    /\ \A calls \in Plans : calls \in Seq(Call) /\ Len(calls) <= MaxCalls

VARIABLES
    plan,       \* the calls both threads make, fixed from the start
    pos,        \* per party: index in plan of the current or next call
    stage,      \* per party: how far the current call is
    mState,     \* per party: State
    conf,       \* per party: mRequestSize, mBaseType, mGen.mDomain
    baseOts,    \* per party: mGen.mBaseOTs
    baseVole,   \* per party: mBaseB, or mBaseA and mBaseC
    ext,        \* per party: the state of its two OT extension objects
    gens,       \* per party: genSilentBaseOts begun, its generation number
    forks,      \* per party: chl.fork() calls, which number the channels
    forked,     \* per party: genSilentBaseOts runs two strands
    job,        \* per party and strand: the channel operations left
    heard,      \* per party and strand: the peer's generation number, 0: none
    noisy,      \* per party: where mB, or mA and mC, come from
    net,        \* per receiving party and channel: the messages in flight
    closed,     \* what is closed: the socket of a party, or the link
    out         \* per party: the correlations returned to the caller

vars == <<plan, pos, stage, mState, conf, baseOts, baseVole, ext, gens, forks,
          forked, job, heard, noisy, net, closed, out>>

Party == {"sender", "receiver"}
Peer(p) == IF p = "sender" THEN "receiver" ELSE "sender"

Strand == {"main", "fork"}

Stage == {"idle", "ready", "pregen", "based", "entered", "gen", "expand",
          "verify", "failed"}

ExtState == {"none", "based", "seeded"}

Entry(p) == plan[pos[p]]
MoreCalls(p) == pos[p] <= Len(plan)

-----------------------------------------------------------------------------
(* Provenance of the values.                                               *)

Tag == [Party -> Nat]
NoTag == [p \in Party |-> 0]

\* As if each call drew its base correlations from a copy of the caller's PRNG.
TagOfCopiedPrng(p, h) == [q \in Party |-> IF q = p \/ h > 0 THEN 1 ELSE 0]

\* The batch p has computed from its own messages and those of generation h of
\* the peer.  With h = 0 the protocol did not end: memory nobody has written.
TagOf(p, h) == [q \in Party |-> IF q = p THEN gens[p] ELSE h]

Whole(tag) == \A p \in Party : tag[p] > 0

Vector == [ots : Tag, vole : Tag]
NoVector == [ots |-> NoTag, vole |-> NoTag]

\* What p holds when its vector was mixed with values the peer does not know.
Junk(p) == [ots |-> [q \in Party |-> IF q = p THEN 1 ELSE 0], vole |-> NoTag]

\* A returned vector: tail is what its encoding found beyond the noisy vector, or
\* raw if the last entries are not encoded.
TailKind == {"none", "raw", "zero", "junk"}
Output == [vector : Vector, tail : TailKind]

-----------------------------------------------------------------------------
(* The sub-protocols, as the channel operations each side performs.        *)

Kind == {"base1", "base2", "seed", "expand", "corr", "chal", "resp", "noisy",
         "tree", "rtDelta", "rtB", "rtBaseB", "malX", "malHash"}

Op == [io : {"send", "recv"}, kind : Kind]
Send(k) == [io |-> "send", kind |-> k]
Recv(k) == [io |-> "recv", kind |-> k]

\* OtSender::send and OtReceiver::receive of the base OT, SimplestOT.
BaseOtSend == <<Send("base1"), Recv("base2")>>
BaseOtReceive == <<Recv("base1"), Send("base2")>>

\* As if the challenge were sent only after the response.
OtExtSendLateChallenge(state) ==
    (IF state = "none" THEN BaseOtReceive ELSE <<>>)
    \o (IF state # "seeded" THEN <<Send("seed"), Recv("expand")>> ELSE <<>>)
    \o <<Recv("corr"), Recv("resp"), Send("chal")>>

\* SoftSpokenMalOtSender::send: without base OTs it receives some, without
\* seeds it draws one and expands, then the corrections, the challenge with the
\* hash key and the response.
OtExtSend(state) ==
    (IF state = "none" THEN BaseOtReceive ELSE <<>>)
    \o (IF state # "seeded" THEN <<Send("seed"), Recv("expand")>> ELSE <<>>)
    \o <<Recv("corr"), Send("chal"), Recv("resp")>>

\* SoftSpokenMalOtReceiver::receive
OtExtReceive(state) ==
    (IF state = "none" THEN BaseOtSend ELSE <<>>)
    \o (IF state # "seeded" THEN <<Recv("seed"), Send("expand")>> ELSE <<>>)
    \o <<Send("corr"), Recv("chal"), Send("resp")>>

\* As if the sender of a noisy VOLE left its last message unread.
NoisyVoleSendUnread == <<>>

\* NoisyVoleSender::send and NoisyVoleReceiver::receive after their OTs, where
\* the sender of the VOLE is the receiver of the OTs.
NoisyVoleSend == <<Recv("noisy")>>
NoisyVoleReceive == <<Send("noisy")>>

\* What genSilentBaseOts awaits for a base type and the states e of the extension
\* objects: on the caller's channel, and on the fork.
\* Without base OTs for the NoisyVole's OTs the first extension makes them too,
\* and the two protocols run one after the other.
MustFork(type, e) == type = "Base" \/ e.nv # "none"

GenOts(p, type, e) ==
    IF type = "Base"
    THEN IF p = "sender" THEN BaseOtSend ELSE BaseOtReceive
    ELSE IF p = "sender" THEN OtExtSend(e.main) ELSE OtExtReceive(e.main)

GenFirstVole(p) ==
    IF p = "sender" THEN OtExtReceive("based") \o NoisyVoleSend
                    ELSE OtExtSend("based") \o NoisyVoleReceive

GenMain(p, type, e) ==
    GenOts(p, type, e) \o (IF MustFork(type, e) THEN <<>> ELSE GenFirstVole(p))

GenFork(p, type, e) ==
    IF type = "Base"
    THEN IF p = "sender" THEN BaseOtReceive \o NoisyVoleSend
                         ELSE BaseOtSend \o NoisyVoleReceive
    ELSE IF p = "sender" THEN OtExtReceive(e.nv) \o NoisyVoleSend
                         ELSE OtExtSend(e.nv) \o NoisyVoleReceive

\* As if the second protocol were never given to when_all_ready.
GenJobOneStrand(p, type, e) ==
    [s \in Strand |-> IF s = "main" THEN GenMain(p, type, e) ELSE <<>>]

GenJob(p, type, e) ==
    [s \in Strand |-> IF s = "main" THEN GenMain(p, type, e)
                      ELSE IF MustFork(type, e) THEN GenFork(p, type, e) ELSE <<>>]

\* RegularPprf{Sender,Receiver}::expand, eager: one message per eight trees.
Expansion(p) ==
    [i \in 1 .. NumBatches |-> IF p = "sender" THEN Send("tree") ELSE Recv("tree")]

\* As if the receiver did the malicious check first.
VerificationSwapped(p, call) ==
    IF p = "sender"
    THEN <<Send("rtDelta"), Send("rtB"), Send("rtBaseB"), Recv("malX"), Send("malHash")>>
    ELSE <<Send("malX"), Recv("malHash"), Recv("rtDelta"), Recv("rtB"), Recv("rtBaseB")>>

\* checkRT, then the malicious check.
Verification(p, call) ==
    (IF ~call.debug THEN <<>>
     ELSE IF p = "sender"
          THEN <<Send("rtDelta"), Send("rtB"), Send("rtBaseB")>>
          ELSE <<Recv("rtDelta"), Recv("rtB"), Recv("rtBaseB")>>)
    \o (IF ~call.mal THEN <<>>
        ELSE IF p = "sender" THEN <<Recv("malX"), Send("malHash")>>
                             ELSE <<Send("malX"), Recv("malHash")>>)

Resting == [s \in Strand |-> <<>>]
OnMain(ops) == [s \in Strand |-> IF s = "main" THEN ops ELSE <<>>]

\* As if the second protocol got chl itself instead of chl.fork().
ChannelUnforked(p, s) == 0

Channel(p, s) == IF s = "main" THEN 0 ELSE forks[p]
Channels == 0 .. MaxCalls

Message == [kind : Kind, gen : Nat \ {0}, vector : Vector]

-----------------------------------------------------------------------------
Init ==
    /\ plan \in Plans
    /\ pos = [p \in Party |-> 1]
    /\ stage = [p \in Party |-> "idle"]
    /\ mState = [p \in Party |-> "Default"]
    /\ conf = [p \in Party |-> [req |-> 0, type |-> "BaseExtend", dom |-> 0]]
    /\ baseOts = [p \in Party |-> NoTag]
    /\ baseVole = [p \in Party |-> NoTag]
    /\ ext = [p \in Party |-> [main |-> "none", nv |-> "none"]]
    /\ gens = [p \in Party |-> 0]
    /\ forks = [p \in Party |-> 0]
    /\ forked = [p \in Party |-> FALSE]
    /\ job = [p \in Party |-> Resting]
    /\ heard = [p \in Party |-> [s \in Strand |-> 0]]
    /\ noisy = [p \in Party |-> NoVector]
    /\ net = [p \in Party |-> [c \in Channels |-> <<>>]]
    /\ closed = {}
    /\ out = [p \in Party |-> <<>>]

-----------------------------------------------------------------------------
(* The ways a call ends early.                                             *)

\* As if no MACORO_CATCH closed the socket.
ThrowWithoutClose(p) ==
    /\ stage' = [stage EXCEPT ![p] = "failed"]
    /\ job' = [job EXCEPT ![p] = Resting]
    /\ UNCHANGED closed

\* An exception leaves the outermost MACORO_TRY of p: the socket is closed and
\* the thread of the caller ends.
Throw(p) ==
    /\ stage' = [stage EXCEPT ![p] = "failed"]
    /\ job' = [job EXCEPT ![p] = Resting]
    /\ closed' = closed \cup {p}

\* The connection is lost.
Disconnect ==
    /\ \E k \in DOMAIN plan : plan[k].lossy
    /\ "link" \notin closed
    /\ closed' = closed \cup {"link"}
    /\ UNCHANGED <<plan, pos, stage, mState, conf, baseOts, baseVole, ext,
                   gens, forks, forked, job, heard, noisy, net, out>>

-----------------------------------------------------------------------------
(* configure(), called by the user or by a call that finds State::Default.  *)

\* As if mBaseType took what the caller asked for, which may be nothing.
SetConfigurationUnset(p, req, type) ==
    /\ mState' = [mState EXCEPT ![p] = "Configured"]
    /\ conf' = [conf EXCEPT ![p] =
                  [req |-> req, type |-> Entry(p).type, dom |-> SizePer(req)]]
    /\ baseOts' = [baseOts EXCEPT ![p] = NoTag]

\* The members are assigned before mGen.configure() can throw, and a PPRF that
\* throws keeps its domain and its base OTs.
SetConfiguration(p, req, type) ==
    /\ mState' = [mState EXCEPT ![p] = "Configured"]
    /\ conf' = [conf EXCEPT ![p] =
                  [req |-> req, type |-> type,
                   dom |-> IF Configurable(req) THEN SizePer(req) ELSE @.dom]]
    /\ baseOts' = [baseOts EXCEPT ![p] = IF Configurable(req) THEN NoTag ELSE @]

\* The user's configure(): nothing closes the socket when it throws.
Configure(p) ==
    /\ stage[p] = "idle"
    /\ MoreCalls(p)
    /\ Entry(p).type # "auto"
    /\ SetConfiguration(p, Entry(p).req, Entry(p).type)
    /\ stage' = [stage EXCEPT ![p] = IF Configurable(Entry(p).req)
                                     THEN "ready" ELSE "failed"]
    /\ UNCHANGED <<plan, pos, baseVole, ext, gens, forks, forked, job, heard,
                   noisy, net, closed, out>>

\* silentSend or silentReceive up to its first co_await: configure if nobody
\* has, then compare the request with n.
EnterUnconfigured(p) ==
    /\ stage[p] = "idle"
    /\ MoreCalls(p)
    /\ Entry(p).type = "auto"
    /\ mState[p] = "Default"
    /\ SetConfiguration(p, Entry(p).n, "BaseExtend")
    /\ IF Configurable(Entry(p).n)
       THEN /\ stage' = [stage EXCEPT ![p] = "entered"]
            /\ UNCHANGED <<job, closed>>
       ELSE Throw(p)
    /\ UNCHANGED <<plan, pos, baseVole, ext, gens, forks, forked, heard, noisy,
                   net, out>>

CallStage(p) ==
    IF Entry(p).pregen THEN "based"
    ELSE IF Entry(p).type = "auto" THEN "idle" ELSE "ready"

EnterConfigured(p) ==
    /\ MoreCalls(p)
    /\ stage[p] = CallStage(p)
    /\ mState[p] # "Default"
    /\ IF conf[p].req < Entry(p).n
       THEN Throw(p)
       ELSE /\ stage' = [stage EXCEPT ![p] = "entered"]
            /\ UNCHANGED <<job, closed>>
    /\ UNCHANGED <<plan, pos, mState, conf, baseOts, baseVole, ext, gens, forks,
                   forked, heard, noisy, net, out>>

-----------------------------------------------------------------------------
(* genSilentBaseOts()                                                      *)

\* sampleBaseVoleVals() of the receiver refuses the malicious mode for a
\* coefficient type without it.
RefusesMalicious(p) == p = "receiver" /\ Entry(p).mal /\ ~Entry(p).block

\* Up to the co_await: sample the choice bits and the noise, fork the channel
\* if two protocols are to run.
GenSilentBaseOts(p) ==
    /\ \/ stage[p] = "entered" /\ baseOts[p] = NoTag
       \/ stage[p] = "ready" /\ Entry(p).pregen
    /\ IF RefusesMalicious(p)
       THEN /\ Throw(p)
            /\ UNCHANGED <<gens, forks, forked, heard>>
       ELSE /\ stage' = [stage EXCEPT ![p] = IF @ = "ready" THEN "pregen" ELSE "gen"]
            /\ gens' = [gens EXCEPT ![p] = @ + 1]
            /\ forked' = [forked EXCEPT ![p] = MustFork(conf[p].type, ext[p])]
            /\ forks' = [forks EXCEPT ![p] = IF forked'[p] THEN @ + 1 ELSE @]
            /\ heard' = [heard EXCEPT ![p] = [s \in Strand |-> 0]]
            /\ job' = [job EXCEPT ![p] = GenJob(p, conf[p].type, ext[p])]
            /\ UNCHANGED closed
    /\ UNCHANGED <<plan, pos, mState, conf, baseOts, baseVole, ext, noisy, net, out>>

\* The protocols have ended, with or without success: when_all_ready does not
\* rethrow, so setSilentBaseOts stores whatever the buffers hold.
SetSilentBaseOts(p) ==
    /\ stage[p] \in {"gen", "pregen"}
    /\ job[p] = Resting
    /\ stage' = [stage EXCEPT ![p] = IF @ = "gen" THEN "entered" ELSE "based"]
    /\ baseOts' = [baseOts EXCEPT ![p] = TagOf(p, heard[p].main)]
    /\ baseVole' = [baseVole EXCEPT ![p] =
                      TagOf(p, IF forked[p] THEN heard[p].fork ELSE heard[p].main)]
    /\ mState' = [mState EXCEPT ![p] = IF p = "receiver" THEN "HasBase" ELSE @]
    /\ ext' = [ext EXCEPT ![p] = IF conf[p].type = "Base" THEN @
                                 ELSE [main |-> "seeded", nv |-> "seeded"]]
    /\ UNCHANGED <<plan, pos, conf, gens, forks, forked, job, heard, noisy, net,
                   closed, out>>

-----------------------------------------------------------------------------
(* The expansion, the checks and the encoding.                             *)

\* mGen.expand(): the output must fit the trees.
BeginExpand(p) ==
    /\ stage[p] = "entered"
    /\ baseOts[p] # NoTag
    /\ IF FitsTrees(conf[p].req, conf[p].dom)
       THEN /\ stage' = [stage EXCEPT ![p] = "expand"]
            /\ noisy' = [noisy EXCEPT ![p] =
                           [ots |-> baseOts[p], vole |-> baseVole[p]]]
            /\ job' = [job EXCEPT ![p] = OnMain(Expansion(p))]
            /\ UNCHANGED closed
       ELSE /\ Throw(p)
            /\ UNCHANGED noisy
    /\ UNCHANGED <<plan, pos, mState, conf, baseOts, baseVole, ext, gens, forks,
                   forked, heard, net, out>>

\* The base OTs are dropped once every tree has been sent or received.
EndExpand(p) ==
    /\ stage[p] = "expand"
    /\ job[p] = Resting
    /\ stage' = [stage EXCEPT ![p] = "verify"]
    /\ baseOts' = [baseOts EXCEPT ![p] = NoTag]
    /\ job' = [job EXCEPT ![p] = OnMain(Verification(p, Entry(p)))]
    /\ UNCHANGED <<plan, pos, mState, conf, baseVole, ext, gens, forks, forked,
                   heard, noisy, net, closed, out>>

\* The encoding finds memory nobody has written when it makes the noisy vector
\* longer; when it makes it shorter, the copy to the caller goes on beyond its
\* end, to what the noisy vector held there.
TailsOf(req, n) ==
    IF Grows(req) THEN {"zero", "junk"}
    ELSE IF n > NumSize(req) THEN {"raw"} ELSE {"none"}

\* Encode, copy the correlations to the caller and clear().
Finish(p) ==
    /\ stage[p] = "verify"
    /\ job[p] = Resting
    /\ \E tail \in TailsOf(conf[p].req, Entry(p).n) :
         out' = [out EXCEPT ![p] =
                   Append(@, [vector |-> noisy[p], tail |-> tail])]
    /\ stage' = [stage EXCEPT ![p] = "idle"]
    /\ pos' = [pos EXCEPT ![p] = @ + 1]
    /\ mState' = [mState EXCEPT ![p] = "Default"]
    /\ baseVole' = [baseVole EXCEPT ![p] = NoTag]
    /\ baseOts' = [baseOts EXCEPT ![p] = NoTag]
    /\ conf' = [conf EXCEPT ![p] = [req |-> @.req, type |-> @.type, dom |-> 0]]
    /\ noisy' = [noisy EXCEPT ![p] = NoVector]
    /\ UNCHANGED <<plan, ext, gens, forks, forked, job, heard, net, closed>>

-----------------------------------------------------------------------------
(* The channel operations of a strand.                                     *)

NextOp(p, s) == Head(job[p][s])
Inbox(p, s) == net[p][Channel(p, s)]

Advance(p, s) == job' = [job EXCEPT ![p][s] = Tail(@)]

\* chl.send() on an open socket.  Once the link or the peer is gone the message
\* may still be accepted, and lost.
Transmit(p, s) ==
    /\ job[p][s] # <<>>
    /\ NextOp(p, s).io = "send"
    /\ p \notin closed
    /\ net' = IF closed # {} THEN net
              ELSE [net EXCEPT ![Peer(p)][Channel(p, s)] =
                      Append(@, [kind |-> NextOp(p, s).kind, gen |-> gens[p],
                                 vector |-> noisy[p]])]
    /\ Advance(p, s)
    /\ UNCHANGED <<plan, pos, stage, mState, conf, baseOts, baseVole, ext, gens,
                   forks, forked, heard, noisy, closed, out>>

\* A message that p cannot continue with: the check of checkRT or of the
\* malicious mode fails, or the mode is not supported.
Refuses(p, m) ==
    \/ m.kind \in {"rtBaseB", "malHash"} /\ m.vector # noisy[p]
    \/ m.kind = "malX" /\ ~Entry(p).block

\* chl.recv() of a message of the expected size, which may have arrived before
\* the link or the peer was gone.  A tree that was not made from
\* the receiver's base OTs, or was programmed with another base VOLE, leaves mA
\* without relation to the sender's mB.
Receive(p, s) ==
    /\ job[p][s] # <<>>
    /\ NextOp(p, s).io = "recv"
    /\ p \notin closed
    /\ Inbox(p, s) # <<>>
    /\ LET m == Head(Inbox(p, s)) IN
         /\ m.kind = NextOp(p, s).kind
         /\ IF Refuses(p, m)
            THEN /\ Throw(p)
                 /\ UNCHANGED <<heard, noisy>>
            ELSE /\ Advance(p, s)
                 /\ heard' = [heard EXCEPT ![p][s] = m.gen]
                 /\ noisy' = [noisy EXCEPT ![p] =
                                IF m.kind = "tree" /\ m.vector # @ THEN Junk(p) ELSE @]
                 /\ UNCHANGED <<stage, closed>>
    /\ net' = [net EXCEPT ![p][Channel(p, s)] = Tail(@)]
    /\ UNCHANGED <<plan, pos, mState, conf, baseOts, baseVole, ext, gens, forks,
                   forked, out>>

\* A channel operation throws: the socket is closed, or the message is not of
\* the expected size.  Under when_all_ready the exception ends the strand only.
Break(p, s) ==
    /\ job[p][s] # <<>>
    /\ \/ closed # {}
       \/ /\ NextOp(p, s).io = "recv"
          /\ Inbox(p, s) # <<>>
          /\ Head(Inbox(p, s)).kind # NextOp(p, s).kind
    /\ IF stage[p] \in {"gen", "pregen"} /\ forked[p]
       THEN /\ job' = [job EXCEPT ![p][s] = <<>>]
            /\ heard' = [heard EXCEPT ![p][s] = 0]
            /\ closed' = closed \cup {p}
            /\ UNCHANGED stage
       ELSE /\ Throw(p)
            /\ UNCHANGED heard
    /\ UNCHANGED <<plan, pos, mState, conf, baseOts, baseVole, ext, gens, forks,
                   forked, noisy, net, out>>

-----------------------------------------------------------------------------
Control(p) ==
    \/ Configure(p)
    \/ EnterUnconfigured(p)
    \/ EnterConfigured(p)
    \/ GenSilentBaseOts(p)
    \/ SetSilentBaseOts(p)
    \/ BeginExpand(p)
    \/ EndExpand(p)
    \/ Finish(p)

Communicate(p, s) ==
    \/ Transmit(p, s)
    \/ Receive(p, s)
    \/ Break(p, s)

Ended(p) == stage[p] = "failed" \/ (stage[p] = "idle" /\ ~MoreCalls(p))

\* Both threads are joined.
Joined ==
    /\ \A p \in Party : Ended(p)
    /\ UNCHANGED vars

Next ==
    \/ \E p \in Party : Control(p)
    \/ \E p \in Party, s \in Strand : Communicate(p, s)
    \/ Disconnect
    \/ Joined

\* Both threads run, and a coroutine whose operation can complete is resumed.
Fairness ==
    /\ \A p \in Party : WF_vars(Control(p))
    /\ \A p \in Party, s \in Strand : WF_vars(Communicate(p, s))

Spec == Init /\ [][Next]_vars /\ Fairness

-----------------------------------------------------------------------------
(* Properties                                                              *)

TypeOK ==
    /\ plan \in Seq(Call) /\ Len(plan) <= MaxCalls
    /\ pos \in [Party -> Nat \ {0}]
    /\ stage \in [Party -> Stage]
    /\ mState \in [Party -> {"Default", "Configured", "HasBase"}]
    /\ conf \in [Party -> [req : Nat, type : BaseType, dom : Nat]]
    /\ baseOts \in [Party -> Tag]
    /\ baseVole \in [Party -> Tag]
    /\ ext \in [Party -> [main : ExtState, nv : ExtState]]
    /\ gens \in [Party -> Nat]
    /\ forks \in [Party -> Nat]
    /\ forked \in [Party -> BOOLEAN]
    /\ job \in [Party -> [Strand -> Seq(Op)]]
    /\ heard \in [Party -> [Strand -> Nat]]
    /\ noisy \in [Party -> Vector]
    /\ net \in [Party -> [Channels -> Seq(Message)]]
    /\ closed \subseteq Party \cup {"link"}
    /\ out \in [Party -> Seq(Output)]

\* A message is only ever received by the operation that expects it, across
\* sub-protocols, strands and calls that reuse the same socket pair: the two
\* parties' channel operations pair up without the code ever naming a message.
ExpectedMessage ==
    \A p \in Party \ closed, s \in Strand :
        /\ job[p][s] # <<>>
        /\ NextOp(p, s).io = "recv"
        /\ Inbox(p, s) # <<>>
        => Head(Inbox(p, s)).kind = NextOp(p, s).kind

\* Between two calls nothing is left in a channel that the next call would take
\* for its own.
Drained ==
    /\ \A p \in Party : stage[p] = "idle"
    /\ pos["sender"] = pos["receiver"]
    => \A p \in Party, c \in Channels : net[p][c] = <<>>

WholeVector(v) == Whole(v.ots) /\ Whole(v.vole)

\* setSilentBaseOts runs on uninitialised buffers when a protocol under
\* when_all_ready has failed.  No call returns to its caller with a vector
\* expanded from them.
ReturnsWhole(p) ==
    \A k \in DOMAIN out[p] : WholeVector(out[p][k].vector)

SenderReturnsWhole == ReturnsWhole("sender")
ReceiverReturnsWhole == ReturnsWhole("receiver")

\* mA = mB + mC * delta for the vectors both parties return from the same call,
\* which is what VOLE_QASD verifies of its two calls.
Correlated ==
    \A k \in DOMAIN out["sender"] \cap DOMAIN out["receiver"] :
        /\ out["sender"][k].vector = out["receiver"][k].vector
        /\ \A p \in Party : out[p][k].tail # "junk"

\* Base correlations are used for one expansion only: two calls never return
\* vectors made from the same base OTs or the same base VOLEs.
FreshCorrelations ==
    \A p \in Party : \A i, j \in DOMAIN out[p] :
        /\ i # j
        /\ WholeVector(out[p][i].vector)
        /\ WholeVector(out[p][j].vector)
        => /\ out[p][i].vector.ots # out[p][j].vector.ots
           /\ out[p][i].vector.vole # out[p][j].vector.vole

\* A thread never waits for ever on a peer that has thrown: the socket it
\* closed wakes every operation.
EveryThreadEnds == <>(\A p \in Party : Ended(p))

\* While the connection lasts, a call that throws at one party throws at the
\* other: nobody returns one half of a correlation whose other half is missing.
FailTogether ==
    \A p \in Party :
        stage[p] = "failed" ~> stage[Peer(p)] = "failed" \/ "link" \in closed

\* While the connection lasts and the requests are supported, every call returns its
\* correlations.
EveryCallReturns ==
    (\A k \in DOMAIN plan : ~plan[k].lossy) => <>(\A p \in Party : stage[p] = "idle" /\ ~MoreCalls(p))

-----------------------------------------------------------------------------
(* What the documentation says and the code does not do.                   *)

\* The README offers --QA_VOLE n for VOLEs of length 3^n: no call throws.
NoCallThrows == \A p \in Party : stage[p] # "failed"

-----------------------------------------------------------------------------
(* The functionality both parties implement.  A vector encoded together with *)
(* memory nobody has written is correlated with nothing.                     *)

Returned(p) ==
    [k \in DOMAIN out[p] |->
        IF out[p][k].tail = "junk" THEN Junk(p) ELSE out[p][k].vector]

WholeTags == [Party -> 1 .. MaxCalls]

Functionality ==
    INSTANCE VoleFunctionality WITH
        Correlations <- [ots : WholeTags, vole : WholeTags],
        got <- [p \in Party |-> Returned(p)],
        stopped <- [p \in Party |-> stage[p] = "failed"]

\* Every behaviour of the two parties, with its lost connections and exceptions,
\* is one of the ideal functionality.
ImplementsFunctionality == Functionality!Spec
=============================================================================
