------------------------ MODULE SilentWalshVoleProofs ------------------------
(***************************************************************************)
(* Proofs about SilentWalshVole, for every set of plans, every number of   *)
(* partitions and batches, and with or without the checks and lost         *)
(* connections.                                                            *)
(***************************************************************************)
EXTENDS SilentWalshVoleSync, SequenceTheorems, FiniteSetTheorems, TLAPS

-----------------------------------------------------------------------------
(* The sub-protocols are sequences of operations, and the sender's last    *)
(* operation in each of them is a receive.                                 *)

\* p never receives a tree.
NoTreeIn(ops) == \A i \in 1 .. Len(ops) : ops[i] # Recv("tree")

EndsInRecv(ops) == ops # <<>> /\ ops[Len(ops)].io = "recv"

\* Send and Recv build operations.
LEMMA OpType ==
    ASSUME NEW k \in Kind
    PROVE  /\ Send(k) \in Op /\ Recv(k) \in Op
           /\ Send(k).io = "send" /\ Recv(k).io = "recv"
           /\ Send(k).kind = k /\ Recv(k).kind = k
BY DEF Send, Recv, Op

\* Each sub-protocol is a sequence of operations.
LEMMA PartsType ==
    /\ BaseOtSend \in Seq(Op) /\ BaseOtReceive \in Seq(Op)
    /\ NoisyVoleSend \in Seq(Op) /\ NoisyVoleReceive \in Seq(Op)
    /\ \A state \in ExtState :
          OtExtSend(state) \in Seq(Op) /\ OtExtReceive(state) \in Seq(Op)
<1>1. \A k \in Kind : Send(k) \in Op /\ Recv(k) \in Op
  BY OpType
<1>2. BaseOtSend \in Seq(Op) /\ BaseOtReceive \in Seq(Op)
  BY <1>1 DEF BaseOtSend, BaseOtReceive, Kind
<1>3. NoisyVoleSend \in Seq(Op) /\ NoisyVoleReceive \in Seq(Op)
  BY <1>1 DEF NoisyVoleSend, NoisyVoleReceive, Kind
<1>4. ASSUME NEW state \in ExtState
      PROVE  OtExtSend(state) \in Seq(Op) /\ OtExtReceive(state) \in Seq(Op)
  <2>1. /\ (IF state = "none" THEN BaseOtReceive ELSE <<>>) \in Seq(Op)
        /\ (IF state = "none" THEN BaseOtSend ELSE <<>>) \in Seq(Op)
    BY <1>2, EmptySeq
  <2>2. /\ <<Send("seed"), Recv("expand")>> \in Seq(Op)
        /\ <<Recv("seed"), Send("expand")>> \in Seq(Op)
        /\ <<Recv("corr"), Send("chal"), Recv("resp")>> \in Seq(Op)
        /\ <<Send("corr"), Recv("chal"), Send("resp")>> \in Seq(Op)
    BY <1>1 DEF Kind
  <2>3. /\ (IF state # "seeded" THEN <<Send("seed"), Recv("expand")>> ELSE <<>>) \in Seq(Op)
        /\ (IF state # "seeded" THEN <<Recv("seed"), Send("expand")>> ELSE <<>>) \in Seq(Op)
    BY <2>2, EmptySeq
  <2> QED
    BY <2>1, <2>2, <2>3, ConcatProperties DEF OtExtSend, OtExtReceive
<1> QED
  BY <1>2, <1>3, <1>4

\* Concatenation keeps the last operation of its second argument, and adds no
\* operation.
LEMMA ConcatOps ==
    ASSUME NEW a \in Seq(Op), NEW b \in Seq(Op)
    PROVE  /\ a \o b \in Seq(Op)
           /\ EndsInRecv(b) => EndsInRecv(a \o b)
           /\ NoTreeIn(a) /\ NoTreeIn(b) => NoTreeIn(a \o b)
<1> DEFINE c == a \o b
<1>1. /\ c \in Seq(Op)
      /\ Len(c) = Len(a) + Len(b)
      /\ \A i \in 1 .. Len(a) + Len(b) :
            c[i] = IF i <= Len(a) THEN a[i] ELSE b[i - Len(a)]
  BY ConcatProperties
<1>2. Len(a) \in Nat /\ Len(b) \in Nat
  BY LenProperties
<1>3. ASSUME EndsInRecv(b) PROVE EndsInRecv(c)
  <2>1. Len(b) \in Nat \ {0}
    BY <1>3, EmptySeq DEF EndsInRecv
  <2>2. Len(c) = Len(a) + Len(b) /\ c[Len(c)] = b[Len(b)]
    BY <1>1, <1>2, <2>1
  <2>3. c # <<>>
    BY <2>1, <2>2, <1>1, <1>2, EmptySeq
  <2> QED
    BY <1>3, <2>2, <2>3 DEF EndsInRecv
<1>4. ASSUME NoTreeIn(a), NoTreeIn(b) PROVE NoTreeIn(c)
  <2> SUFFICES ASSUME NEW i \in 1 .. Len(c) PROVE c[i] # Recv("tree")
    BY DEF NoTreeIn
  <2>1. CASE i <= Len(a)
    BY <2>1, <1>1, <1>2, <1>4 DEF NoTreeIn
  <2>2. CASE ~(i <= Len(a))
    <3>1. i - Len(a) \in 1 .. Len(b) /\ c[i] = b[i - Len(a)]
      BY <2>2, <1>1, <1>2
    <3> QED
      BY <3>1, <1>4 DEF NoTreeIn
  <2> QED
    BY <2>1, <2>2
<1> QED
  BY <1>1, <1>3, <1>4

\* What a strand does after one operation.
LEMMA TailOps ==
    ASSUME NEW a \in Seq(Op), a # <<>>
    PROVE  /\ Head(a) \in Op
           /\ Tail(a) \in Seq(Op)
           /\ NoTreeIn(a) => NoTreeIn(Tail(a)) /\ Head(a) # Recv("tree")
           /\ EndsInRecv(a) => Head(a).io = "recv" \/ EndsInRecv(Tail(a))
<1>1. /\ Head(a) \in Op
      /\ Tail(a) \in Seq(Op)
      /\ Len(Tail(a)) = Len(a) - 1
      /\ \A i \in 1 .. Len(Tail(a)) : Tail(a)[i] = a[i + 1]
  BY HeadTailProperties
<1> DEFINE n == Len(a)
<1>2. n \in Nat \ {0} /\ Head(a) = a[1]
  BY EmptySeq, LenProperties
<1>3. ASSUME NoTreeIn(a) PROVE NoTreeIn(Tail(a)) /\ Head(a) # Recv("tree")
  BY <1>1, <1>2, <1>3 DEF NoTreeIn
<1>4. ASSUME EndsInRecv(a) PROVE Head(a).io = "recv" \/ EndsInRecv(Tail(a))
  <2>1. CASE Len(a) = 1
    BY <2>1, <1>2, <1>4 DEF EndsInRecv
  <2>2. CASE Len(a) > 1
    <3>1. Len(Tail(a)) \in 1 .. Len(a) /\ Tail(a)[Len(Tail(a))] = a[Len(a)]
      BY <2>2, <1>1, <1>2
    <3>2. Tail(a) # <<>>
      <4>1. Len(Tail(a)) # 0
        BY <3>1, <1>1, <1>2
      <4>2. Len(<<>>) = 0
        BY EmptySeq
      <4> QED
        BY <4>1, <4>2, Zenon
    <3> QED
      BY <3>1, <3>2, <1>4 DEF EndsInRecv
  <2>3. n = 1 \/ n > 1
    <3> HIDE DEF n
    <3> QED
      BY <1>2
  <2> QED
    BY <2>1, <2>2, <2>3
<1> QED
  BY <1>1, <1>3, <1>4

\* Whether a short sequence has a tree or ends in a receive is read off it.
LEMMA ShortOps ==
    /\ NoTreeIn(<<>>)
    /\ \A x \in Op : NoTreeIn(<<x>>) <=> x # Recv("tree")
    /\ \A x, y \in Op :
          NoTreeIn(<<x, y>>) <=> x # Recv("tree") /\ y # Recv("tree")
    /\ \A x, y, z \in Op :
          NoTreeIn(<<x, y, z>>)
             <=> x # Recv("tree") /\ y # Recv("tree") /\ z # Recv("tree")
    /\ \A x \in Op : EndsInRecv(<<x>>) <=> x.io = "recv"
    /\ \A x, y \in Op : EndsInRecv(<<x, y>>) <=> y.io = "recv"
    /\ \A x, y, z \in Op : EndsInRecv(<<x, y, z>>) <=> z.io = "recv"
BY DEF NoTreeIn, EndsInRecv

\* Only one operation receives a tree.
LEMMA OtherKinds ==
    ASSUME NEW k \in Kind \ {"tree"}
    PROVE  Send(k) # Recv("tree") /\ Recv(k) # Recv("tree") /\ Recv(k).io = "recv"
BY DEF Send, Recv

\* The sender's halves of the sub-protocols end in a receive and have no tree.
LEMMA SenderParts ==
    /\ EndsInRecv(BaseOtSend) /\ NoTreeIn(BaseOtSend)
    /\ NoTreeIn(BaseOtReceive)
    /\ EndsInRecv(NoisyVoleSend) /\ NoTreeIn(NoisyVoleSend)
    /\ \A state \in ExtState :
          /\ EndsInRecv(OtExtSend(state)) /\ NoTreeIn(OtExtSend(state))
          /\ NoTreeIn(OtExtReceive(state))
<1> USE DEF Kind
<1>0. \A k \in Kind \ {"tree"} :
         /\ Send(k) \in Op /\ Recv(k) \in Op
         /\ Send(k) # Recv("tree") /\ Recv(k) # Recv("tree") /\ Recv(k).io = "recv"
  BY OpType, OtherKinds
<1>1. /\ EndsInRecv(BaseOtSend) /\ NoTreeIn(BaseOtSend)
      /\ NoTreeIn(BaseOtReceive)
      /\ EndsInRecv(NoisyVoleSend) /\ NoTreeIn(NoisyVoleSend)
  BY <1>0, ShortOps DEF BaseOtSend, BaseOtReceive, NoisyVoleSend
<1>2. ASSUME NEW state \in ExtState
      PROVE  /\ EndsInRecv(OtExtSend(state)) /\ NoTreeIn(OtExtSend(state))
             /\ NoTreeIn(OtExtReceive(state))
  <2> DEFINE b1 == IF state = "none" THEN BaseOtReceive ELSE <<>>
             b2 == IF state = "none" THEN BaseOtSend ELSE <<>>
             e1 == IF state # "seeded" THEN <<Send("seed"), Recv("expand")>> ELSE <<>>
             e2 == IF state # "seeded" THEN <<Recv("seed"), Send("expand")>> ELSE <<>>
             c1 == <<Recv("corr"), Send("chal"), Recv("resp")>>
             c2 == <<Send("corr"), Recv("chal"), Send("resp")>>
  <2>1. b1 \in Seq(Op) /\ b2 \in Seq(Op)
    BY PartsType, EmptySeq
  <2>2. \A k \in Kind : Send(k) \in Op /\ Recv(k) \in Op
    BY OpType
  <2>3. /\ <<Send("seed"), Recv("expand")>> \in Seq(Op)
        /\ <<Recv("seed"), Send("expand")>> \in Seq(Op)
        /\ c1 \in Seq(Op) /\ c2 \in Seq(Op)
    BY <2>2
  <2>4. e1 \in Seq(Op) /\ e2 \in Seq(Op)
    BY <2>3, EmptySeq
  <2>5. NoTreeIn(b1) /\ NoTreeIn(b2)
    BY <1>1, ShortOps
  <2>6. NoTreeIn(e1) /\ NoTreeIn(e2)
    BY <1>0, ShortOps
  <2>7. NoTreeIn(c1) /\ EndsInRecv(c1) /\ NoTreeIn(c2)
    BY <1>0, ShortOps
  <2>8. OtExtSend(state) = (b1 \o e1) \o c1 /\ OtExtReceive(state) = (b2 \o e2) \o c2
    BY DEF OtExtSend, OtExtReceive
  <2> HIDE DEF b1, b2, e1, e2, c1, c2
  <2>9. /\ b1 \o e1 \in Seq(Op) /\ NoTreeIn(b1 \o e1)
        /\ b2 \o e2 \in Seq(Op) /\ NoTreeIn(b2 \o e2)
    BY <2>1, <2>4, <2>5, <2>6, ConcatOps
  <2> QED
    BY <2>3, <2>7, <2>8, <2>9, ConcatOps
<1> QED
  BY <1>1, <1>2

\* What genSilentBaseOts awaits, for any base type and extension objects.
LEMMA GenOps ==
    ASSUME NEW p \in Party, NEW type \in BaseType, NEW e \in [main : ExtState, nv : ExtState]
    PROVE  /\ GenMain(p, type, e) \in Seq(Op) /\ GenFork(p, type, e) \in Seq(Op)
           /\ p = "sender" => /\ EndsInRecv(GenMain(p, type, e)) /\ NoTreeIn(GenMain(p, type, e))
                              /\ EndsInRecv(GenFork(p, type, e)) /\ NoTreeIn(GenFork(p, type, e))
<1>0. e.main \in ExtState /\ e.nv \in ExtState
  OBVIOUS
<1>1. "based" \in ExtState
  BY DEF ExtState
<1>2. /\ GenOts(p, type, e) \in Seq(Op)
      /\ p = "sender" => EndsInRecv(GenOts(p, type, e)) /\ NoTreeIn(GenOts(p, type, e))
  BY <1>0, PartsType, SenderParts DEF GenOts
<1>3. /\ GenFirstVole(p) \in Seq(Op)
      /\ p = "sender" => EndsInRecv(GenFirstVole(p)) /\ NoTreeIn(GenFirstVole(p))
  BY <1>1, PartsType, SenderParts, ConcatOps DEF GenFirstVole
<1>4. /\ GenMain(p, type, e) \in Seq(Op)
      /\ p = "sender" => EndsInRecv(GenMain(p, type, e)) /\ NoTreeIn(GenMain(p, type, e))
  <2>1. CASE MustFork(type, e)
    <3>1. GenMain(p, type, e) = GenOts(p, type, e)
      BY <1>2, <2>1, ConcatEmptySeq DEF GenMain
    <3> QED
      BY <1>2, <3>1
  <2>2. CASE ~MustFork(type, e)
    <3>1. GenMain(p, type, e) = GenOts(p, type, e) \o GenFirstVole(p)
      BY <2>2 DEF GenMain
    <3> QED
      BY <1>2, <1>3, <3>1, ConcatOps
  <2> QED
    BY <2>1, <2>2
<1>5. /\ GenFork(p, type, e) \in Seq(Op)
      /\ p = "sender" => EndsInRecv(GenFork(p, type, e)) /\ NoTreeIn(GenFork(p, type, e))
  BY <1>0, PartsType, SenderParts, ConcatOps DEF GenFork
<1> QED
  BY <1>4, <1>5

\* The expansion is never empty, and only the receiver is sent trees.
LEMMA ExpansionOps ==
    ASSUME NEW p \in Party
    PROVE  /\ Expansion(p) \in Seq(Op) /\ Expansion(p) # <<>>
           /\ p = "sender" => NoTreeIn(Expansion(p))
<1> USE ConstantsAssumption
<1>1. Send("tree") \in Op /\ Recv("tree") \in Op /\ Send("tree") # Recv("tree")
  BY OpType DEF Kind, Send, Recv
<1>2. Expansion(p) \in [1 .. NumBatches -> Op] /\ NumBatches \in Nat
  BY <1>1 DEF Expansion
<1>3. Expansion(p) \in Seq(Op) /\ Len(Expansion(p)) = NumBatches
  BY <1>2
<1>4. Expansion(p) # <<>>
  <2>1. Len(Expansion(p)) # 0
    BY <1>3
  <2> QED
    BY <2>1, EmptySeq, Zenon
<1>5. ASSUME p = "sender" PROVE NoTreeIn(Expansion(p))
  BY <1>1, <1>3, <1>5 DEF NoTreeIn, Expansion
<1> QED
  BY <1>3, <1>4, <1>5

\* The operations of the checks.
LEMMA VerificationOps ==
    ASSUME NEW p \in Party, NEW call
    PROVE  /\ Verification(p, call) \in Seq(Op)
           /\ p = "sender" => NoTreeIn(Verification(p, call))
<1> USE DEF Kind
<1> DEFINE d == IF ~call.debug THEN <<>>
                ELSE IF p = "sender"
                     THEN <<Send("rtDelta"), Send("rtB"), Send("rtBaseB")>>
                     ELSE <<Recv("rtDelta"), Recv("rtB"), Recv("rtBaseB")>>
           m == IF ~call.mal THEN <<>>
                ELSE IF p = "sender" THEN <<Recv("malX"), Send("malHash")>>
                                     ELSE <<Send("malX"), Recv("malHash")>>
<1>1. \A k \in Kind : Send(k) \in Op /\ Recv(k) \in Op
  BY OpType
<1>2. /\ <<Send("rtDelta"), Send("rtB"), Send("rtBaseB")>> \in Seq(Op)
      /\ <<Recv("rtDelta"), Recv("rtB"), Recv("rtBaseB")>> \in Seq(Op)
      /\ <<Recv("malX"), Send("malHash")>> \in Seq(Op)
      /\ <<Send("malX"), Recv("malHash")>> \in Seq(Op)
  BY <1>1
<1>3. d \in Seq(Op) /\ m \in Seq(Op)
  BY <1>2, EmptySeq
<1>4. p = "sender" => NoTreeIn(d) /\ NoTreeIn(m)
  <2>1. \A k \in Kind \ {"tree"} :
           Send(k) \in Op /\ Recv(k) \in Op /\ Send(k) # Recv("tree") /\ Recv(k) # Recv("tree")
    BY OpType, OtherKinds
  <2> QED
    BY <2>1, ShortOps
<1>5. Verification(p, call) = d \o m
  BY DEF Verification
<1> QED
  <2> HIDE DEF d, m
  <2> QED
    BY <1>3, <1>4, <1>5, ConcatOps

-----------------------------------------------------------------------------
(* Types, and the counters that keep a forked channel within Channels.     *)

Running == {"gen", "pregen", "expand", "verify"}

\* A party begins at most one generation per call, forks at most once per
\* generation, and communicates only inside a call that has begun one.
CountersOf(p) ==
    /\ forks[p] <= gens[p]
    /\ gens[p] <= pos[p]
    /\ pos[p] <= Len(plan) + 1
    /\ stage[p] # "idle" => pos[p] <= Len(plan)
    /\ stage[p] \in {"idle", "ready"} => baseOts[p] = NoTag /\ gens[p] < pos[p]
    /\ stage[p] = "entered" /\ baseOts[p] = NoTag => gens[p] < pos[p]
    /\ stage[p] = "based" => baseOts[p] # NoTag
    /\ stage[p] \in Running \/ baseOts[p] # NoTag => gens[p] >= 1
    /\ stage[p] \notin Running => job[p] = Resting

Counters == \A p \in Party : CountersOf(p)

\* SizePer and the tags have their types.
LEMMA SizePerType ==
    ASSUME NEW req \in Nat
    PROVE  SizePer(req) \in Nat
BY NumPartitionsAssumption DEF SizePer

\* The tags and vectors of a party that has computed nothing have their types.
LEMMA TagType ==
    /\ NoTag \in Tag /\ NoVector \in Vector
    /\ \A p \in Party : Junk(p) \in Vector
BY DEF NoTag, Tag, NoVector, Vector, Junk

\* Resting and OnMain are the jobs of two strands.
LEMMA JobType ==
    /\ Resting \in [Strand -> Seq(Op)]
    /\ \A ops \in Seq(Op) : OnMain(ops) \in [Strand -> Seq(Op)]
<1>1. <<>> \in Seq(Op)
  BY EmptySeq
<1> QED
  BY <1>1 DEF Resting, OnMain

\* The call a party makes is one of the plan.
LEMMA EntryType ==
    ASSUME TypeOK, NEW p \in Party, MoreCalls(p)
    PROVE  Entry(p) \in Call /\ Entry(p).type \in BaseType \cup {"auto"}
           /\ Entry(p).req \in Nat /\ Entry(p).n \in Nat
<1>1. plan \in Seq(Call) /\ pos[p] \in 1 .. Len(plan)
  BY DEF TypeOK, MoreCalls
<1>2. Entry(p) \in Call
  BY <1>1, ElementOfSeq DEF Entry
<1> QED
  BY <1>2 DEF Call

\* The initial states.
LEMMA TypeInit == Init => TypeOK /\ Counters
<1> SUFFICES ASSUME Init PROVE TypeOK /\ Counters
  OBVIOUS
<1>1. plan \in Seq(Call) /\ Len(plan) <= MaxCalls /\ Len(plan) \in Nat
  BY ConstantsAssumption, LenProperties DEF Init
<1>2. TypeOK
  BY <1>1, TagType, JobType, EmptySeq
     DEF Init, TypeOK, Stage, ExtState, BaseType
<1>3. Counters
  BY <1>1 DEF Init, Counters, CountersOf, Running
<1> QED
  BY <1>2, <1>3

\* Ending a call early.
LEMMA ThrowType ==
    ASSUME TypeOK, NEW p \in Party, Throw(p)
    PROVE  /\ stage' \in [Party -> Stage]
           /\ job' \in [Party -> [Strand -> Seq(Op)]]
           /\ closed' \subseteq Party \cup {"link"}
BY JobType DEF Throw, TypeOK, Stage

\* Storing a configuration.
LEMMA ConfigurationType ==
    ASSUME TypeOK, NEW p \in Party, NEW req \in Nat, NEW type \in BaseType,
           SetConfiguration(p, req, type)
    PROVE  /\ mState' \in [Party -> {"Default", "Configured", "HasBase"}]
           /\ conf' \in [Party -> [req : Nat, type : BaseType, dom : Nat]]
           /\ baseOts' \in [Party -> Tag]
<1>1. SizePer(req) \in Nat
  BY SizePerType
<1>2. conf[p].dom \in Nat
  BY DEF TypeOK
<1> QED
  BY <1>1, <1>2, TagType DEF SetConfiguration, TypeOK

\* Every operation at the user's or the coroutine's control keeps the types.
LEMMA ControlType ==
    ASSUME TypeOK, Counters, NEW p \in Party, Control(p)
    PROVE  TypeOK'
<1>1. ASSUME Configure(p) PROVE TypeOK'
  <2>1. Entry(p).req \in Nat /\ Entry(p).type \in BaseType
    BY <1>1, EntryType DEF Configure
  <2>2. /\ mState' \in [Party -> {"Default", "Configured", "HasBase"}]
        /\ conf' \in [Party -> [req : Nat, type : BaseType, dom : Nat]]
        /\ baseOts' \in [Party -> Tag]
    BY <1>1, <2>1, ConfigurationType DEF Configure
  <2>3. stage' \in [Party -> Stage]
    BY <1>1 DEF Configure, TypeOK, Stage
  <2> QED
    BY <1>1, <2>2, <2>3 DEF Configure, TypeOK
<1>2. ASSUME EnterUnconfigured(p) PROVE TypeOK'
  <2>1. Entry(p).n \in Nat /\ "BaseExtend" \in BaseType
    BY <1>2, EntryType DEF EnterUnconfigured, BaseType
  <2>2. /\ mState' \in [Party -> {"Default", "Configured", "HasBase"}]
        /\ conf' \in [Party -> [req : Nat, type : BaseType, dom : Nat]]
        /\ baseOts' \in [Party -> Tag]
    BY <1>2, <2>1, ConfigurationType DEF EnterUnconfigured
  <2>3. /\ stage' \in [Party -> Stage]
        /\ job' \in [Party -> [Strand -> Seq(Op)]]
        /\ closed' \subseteq Party \cup {"link"}
    BY <1>2, ThrowType DEF EnterUnconfigured, TypeOK, Stage
  <2> QED
    BY <1>2, <2>2, <2>3 DEF EnterUnconfigured, TypeOK
<1>3. ASSUME EnterConfigured(p) PROVE TypeOK'
  <2>1. /\ stage' \in [Party -> Stage]
        /\ job' \in [Party -> [Strand -> Seq(Op)]]
        /\ closed' \subseteq Party \cup {"link"}
    BY <1>3, ThrowType DEF EnterConfigured, TypeOK, Stage
  <2> QED
    BY <1>3, <2>1 DEF EnterConfigured, TypeOK
<1>4. ASSUME GenSilentBaseOts(p) PROVE TypeOK'
  <2>1. CASE RefusesMalicious(p)
    BY <1>4, <2>1, ThrowType DEF GenSilentBaseOts, TypeOK
  <2>2. CASE ~RefusesMalicious(p)
    <3>0. conf[p].type \in BaseType /\ ext[p] \in [main : ExtState, nv : ExtState]
      BY DEF TypeOK
    <3>1. GenMain(p, conf[p].type, ext[p]) \in Seq(Op) /\ GenFork(p, conf[p].type, ext[p]) \in Seq(Op)
          /\ <<>> \in Seq(Op)
      BY <3>0, GenOps, EmptySeq
    <3>2. GenJob(p, conf[p].type, ext[p]) \in [Strand -> Seq(Op)]
      BY <3>1 DEF GenJob
    <3>3. /\ stage' = [stage EXCEPT ![p] = IF @ = "ready" THEN "pregen" ELSE "gen"]
          /\ gens' = [gens EXCEPT ![p] = @ + 1]
          /\ forked' = [forked EXCEPT ![p] = MustFork(conf[p].type, ext[p])]
          /\ forks' = [forks EXCEPT ![p] = IF forked'[p] THEN @ + 1 ELSE @]
          /\ heard' = [heard EXCEPT ![p] = [s \in Strand |-> 0]]
          /\ job' = [job EXCEPT ![p] = GenJob(p, conf[p].type, ext[p])]
          /\ UNCHANGED <<closed, plan, pos, mState, conf, baseOts, baseVole, ext,
                         noisy, net, out>>
      BY <1>4, <2>2 DEF GenSilentBaseOts
    <3>4. stage' \in [Party -> Stage]
      BY <3>3 DEF TypeOK, Stage
    <3>5. gens' \in [Party -> Nat] /\ forks' \in [Party -> Nat]
      BY <3>3 DEF TypeOK
    <3>6. forked' \in [Party -> BOOLEAN]
      <4>1. MustFork(conf[p].type, ext[p]) \in BOOLEAN
        BY DEF MustFork
      <4> QED
        BY <3>3, <4>1 DEF TypeOK
    <3>7. heard' \in [Party -> [Strand -> Nat]]
      BY <3>3 DEF TypeOK
    <3>8. job' \in [Party -> [Strand -> Seq(Op)]]
      BY <3>2, <3>3 DEF TypeOK
    <3> QED
      BY <3>3, <3>4, <3>5, <3>6, <3>7, <3>8 DEF TypeOK
  <2> QED
    BY <2>1, <2>2
<1>5. ASSUME SetSilentBaseOts(p) PROVE TypeOK'
  <2>1. \A h \in Nat : TagOf(p, h) \in Tag
    BY DEF TagOf, Tag, TypeOK
  <2>2. heard[p].main \in Nat /\ heard[p].fork \in Nat
    BY DEF TypeOK, Strand
  <2>3. stage' \in [Party -> Stage]
    BY <1>5 DEF SetSilentBaseOts, TypeOK, Stage
  <2>4. baseOts' \in [Party -> Tag] /\ baseVole' \in [Party -> Tag]
    BY <1>5, <2>1, <2>2 DEF SetSilentBaseOts, TypeOK
  <2>5. /\ mState' \in [Party -> {"Default", "Configured", "HasBase"}]
        /\ ext' \in [Party -> [main : ExtState, nv : ExtState]]
    BY <1>5 DEF SetSilentBaseOts, TypeOK, ExtState
  <2> QED
    BY <1>5, <2>3, <2>4, <2>5 DEF SetSilentBaseOts, TypeOK
<1>6. ASSUME BeginExpand(p) PROVE TypeOK'
  <2>1. OnMain(Expansion(p)) \in [Strand -> Seq(Op)]
    BY ExpansionOps, JobType
  <2>2. /\ stage' \in [Party -> Stage]
        /\ job' \in [Party -> [Strand -> Seq(Op)]]
        /\ closed' \subseteq Party \cup {"link"}
    <3>1. \/ /\ stage' = [stage EXCEPT ![p] = "expand"]
             /\ job' = [job EXCEPT ![p] = OnMain(Expansion(p))]
             /\ UNCHANGED closed
          \/ Throw(p)
      BY <1>6 DEF BeginExpand
    <3>2. CASE Throw(p)
      BY <3>2, ThrowType
    <3>3. CASE stage' = [stage EXCEPT ![p] = "expand"]
               /\ job' = [job EXCEPT ![p] = OnMain(Expansion(p))]
               /\ UNCHANGED closed
      BY <2>1, <3>3 DEF TypeOK, Stage
    <3> QED
      BY <3>1, <3>2, <3>3
  <2>3. noisy' \in [Party -> Vector]
    <3>1. [ots |-> baseOts[p], vole |-> baseVole[p]] \in Vector
      BY DEF TypeOK, Vector
    <3>2. \/ noisy' = [noisy EXCEPT ![p] = [ots |-> baseOts[p], vole |-> baseVole[p]]]
          \/ noisy' = noisy
      BY <1>6 DEF BeginExpand
    <3> QED
      BY <3>1, <3>2 DEF TypeOK
  <2> QED
    BY <1>6, <2>2, <2>3 DEF BeginExpand, TypeOK
<1>7. ASSUME EndExpand(p) PROVE TypeOK'
  <2>1. OnMain(Verification(p, Entry(p))) \in [Strand -> Seq(Op)]
    BY VerificationOps, JobType
  <2> QED
    BY <1>7, <2>1, TagType DEF EndExpand, TypeOK, Stage
<1>8. ASSUME Finish(p) PROVE TypeOK'
  <2>1. PICK tail \in TailsOf(conf[p].req, Entry(p).n) :
           out' = [out EXCEPT ![p] =
                      Append(@, [vector |-> noisy[p], tail |-> tail])]
    BY <1>8 DEF Finish
  <2>2. [vector |-> noisy[p], tail |-> tail] \in Output
    BY DEF TailsOf, TailKind, Output, TypeOK
  <2>3. out' \in [Party -> Seq(Output)]
    BY <2>1, <2>2, AppendProperties DEF TypeOK
  <2>4. /\ stage' \in [Party -> Stage]
        /\ pos' \in [Party -> Nat \ {0}]
        /\ mState' \in [Party -> {"Default", "Configured", "HasBase"}]
    BY <1>8 DEF Finish, TypeOK, Stage
  <2>5. /\ baseOts' \in [Party -> Tag] /\ baseVole' \in [Party -> Tag]
        /\ noisy' \in [Party -> Vector]
    BY <1>8, TagType DEF Finish, TypeOK
  <2>6. conf' \in [Party -> [req : Nat, type : BaseType, dom : Nat]]
    BY <1>8 DEF Finish, TypeOK
  <2> QED
    BY <1>8, <2>3, <2>4, <2>5, <2>6 DEF Finish, TypeOK
<1> QED
  BY <1>1, <1>2, <1>3, <1>4, <1>5, <1>6, <1>7, <1>8 DEF Control

\* A strand that still has something to do runs inside a call, on a channel
\* that exists, under a generation that has begun.
LEMMA ActiveStrand ==
    ASSUME TypeOK, Counters, NEW p \in Party, NEW s \in Strand, job[p][s] # <<>>
    PROVE  /\ stage[p] \in Running
           /\ gens[p] \in Nat \ {0}
           /\ Channel(p, s) \in Channels
           /\ NextOp(p, s) \in Op /\ Tail(job[p][s]) \in Seq(Op)
<1>1. stage[p] \in Running
  BY DEF Counters, CountersOf, Resting
<1>2. /\ gens[p] \in Nat /\ forks[p] \in Nat /\ pos[p] \in Nat
      /\ Len(plan) \in Nat /\ Len(plan) <= MaxCalls /\ MaxCalls \in Nat
  BY ConstantsAssumption, LenProperties DEF TypeOK
<1>3. gens[p] >= 1 /\ forks[p] <= gens[p] /\ gens[p] <= pos[p] /\ pos[p] <= Len(plan)
  BY <1>1 DEF Counters, CountersOf, Running
<1>4. gens[p] \in Nat \ {0} /\ forks[p] <= MaxCalls
  BY <1>2, <1>3
<1>5. Channel(p, s) \in Channels
  BY <1>2, <1>4 DEF Channel, Channels
<1>6. job[p][s] \in Seq(Op)
  BY DEF TypeOK
<1> QED
  BY <1>1, <1>4, <1>5, <1>6, TailOps DEF NextOp

\* Every channel operation keeps the types.
LEMMA CommunicateType ==
    ASSUME TypeOK, Counters, NEW p \in Party, NEW s \in Strand, Communicate(p, s)
    PROVE  TypeOK'
<1>1. job[p][s] # <<>>
  BY DEF Communicate, Transmit, Receive, Break
<1>2. /\ gens[p] \in Nat \ {0}
      /\ Channel(p, s) \in Channels
      /\ NextOp(p, s) \in Op /\ Tail(job[p][s]) \in Seq(Op)
  BY <1>1, ActiveStrand
<1>3. \A q \in Party, c \in Channels : net[q][c] \in Seq(Message)
  BY DEF TypeOK
<1>4. ASSUME Advance(p, s) PROVE job' \in [Party -> [Strand -> Seq(Op)]]
  BY <1>2, <1>4 DEF Advance, TypeOK
<1>5. ASSUME Transmit(p, s) PROVE TypeOK'
  <2> DEFINE m == [kind |-> NextOp(p, s).kind, gen |-> gens[p], vector |-> noisy[p]]
             ch == Channel(p, s)
  <2>1. m \in Message
    BY <1>2 DEF Message, Op, TypeOK
  <2>2. net' \in [Party -> [Channels -> Seq(Message)]]
    <3>1. Peer(p) \in Party
      BY DEF Peer, Party
    <3>2. Append(net[Peer(p)][ch], m) \in Seq(Message)
      BY <3>1, <1>2, <1>3, <2>1, AppendProperties
    <3>3. net' = IF closed # {} THEN net
                 ELSE [net EXCEPT ![Peer(p)][ch] = Append(@, m)]
      BY <1>5 DEF Transmit
    <3> HIDE DEF m, ch
    <3> QED
      BY <3>1, <3>2, <3>3 DEF TypeOK
  <2> QED
    BY <1>4, <1>5, <2>2 DEF Transmit, TypeOK
<1>6. ASSUME Receive(p, s) PROVE TypeOK'
  <2> DEFINE ch == Channel(p, s)
             m == Head(net[p][ch])
  <2>1. net[p][ch] \in Seq(Message) /\ net[p][ch] # <<>>
    BY <1>2, <1>3, <1>6 DEF Receive, Inbox
  <2>2. m \in Message /\ Tail(net[p][ch]) \in Seq(Message)
    BY <2>1, HeadTailProperties
  <2>3. net' = [net EXCEPT ![p][ch] = Tail(@)]
    BY <1>6 DEF Receive
  <2>4. net' \in [Party -> [Channels -> Seq(Message)]]
    <3> HIDE DEF ch
    <3> QED
      BY <2>2, <2>3 DEF TypeOK
  <2>5. CASE Refuses(p, m)
    <3>1. Throw(p) /\ UNCHANGED <<heard, noisy>>
      BY <1>6, <2>5 DEF Receive, Inbox
    <3> QED
      BY <1>6, <2>4, <3>1, ThrowType DEF Receive, TypeOK
  <2>6. CASE ~Refuses(p, m)
    <3>1. /\ Advance(p, s)
          /\ heard' = [heard EXCEPT ![p][s] = m.gen]
          /\ noisy' = [noisy EXCEPT ![p] =
                         IF m.kind = "tree" /\ m.vector # @ THEN Junk(p) ELSE @]
          /\ UNCHANGED <<stage, closed>>
      BY <1>6, <2>6 DEF Receive, Inbox
    <3>2. m.gen \in Nat
      BY <2>2 DEF Message
    <3> HIDE DEF m
    <3>3. heard' \in [Party -> [Strand -> Nat]]
      BY <3>1, <3>2 DEF TypeOK
    <3>4. noisy' \in [Party -> Vector]
      BY <3>1, TagType DEF TypeOK
    <3> QED
      BY <1>4, <1>6, <2>4, <3>1, <3>3, <3>4 DEF Receive, TypeOK
  <2> QED
    BY <2>5, <2>6
<1>7. ASSUME Break(p, s) PROVE TypeOK'
  <2>1. CASE stage[p] \in {"gen", "pregen"} /\ forked[p]
    <3>1. /\ job' = [job EXCEPT ![p][s] = <<>>]
          /\ heard' = [heard EXCEPT ![p][s] = 0]
          /\ closed' = closed \cup {p}
          /\ UNCHANGED stage
      BY <1>7, <2>1 DEF Break
    <3>2. job' \in [Party -> [Strand -> Seq(Op)]]
      BY <3>1, EmptySeq DEF TypeOK
    <3>3. heard' \in [Party -> [Strand -> Nat]]
      BY <3>1 DEF TypeOK
    <3> QED
      BY <1>7, <3>1, <3>2, <3>3 DEF Break, TypeOK
  <2>2. CASE ~(stage[p] \in {"gen", "pregen"} /\ forked[p])
    <3>1. Throw(p) /\ UNCHANGED heard
      BY <1>7, <2>2 DEF Break
    <3> QED
      BY <1>7, <3>1, ThrowType DEF Break, TypeOK
  <2> QED
    BY <2>1, <2>2
<1> QED
  BY <1>5, <1>6, <1>7 DEF Communicate

\* A step of p that leaves the counted state of q alone.
CountedBy(q) == <<pos[q], stage[q], baseOts[q], gens[q], forks[q], job[q]>>

\* The counts of a party depend on its own part of the state only.
LEMMA CountersElsewhere ==
    ASSUME NEW q \in Party, CountersOf(q), UNCHANGED <<CountedBy(q), plan>>
    PROVE  CountersOf(q)'
BY DEF CountersOf, CountedBy

\* The numbers CountersOf compares.
LEMMA CountersType ==
    ASSUME TypeOK, NEW p \in Party
    PROVE  /\ forks[p] \in Nat /\ gens[p] \in Nat /\ pos[p] \in Nat
           /\ Len(plan) \in Nat
BY LenProperties DEF TypeOK

\* A party that throws is counted as before.
LEMMA CountersThrow ==
    ASSUME TypeOK, NEW p \in Party, CountersOf(p), Throw(p), pos[p] <= Len(plan),
           UNCHANGED <<plan, pos, gens, forks>>,
           baseOts'[p] \in {NoTag, baseOts[p]}
    PROVE  CountersOf(p)'
<1>1. stage'[p] = "failed" /\ job'[p] = Resting
  BY DEF Throw, TypeOK
<1> QED
  BY <1>1 DEF CountersOf, Running

\* Every operation at the user's or the coroutine's control keeps the counts.
LEMMA ControlCounters ==
    ASSUME TypeOK, Counters, NEW p \in Party, Control(p)
    PROVE  Counters'
<1>1. CountersOf(p)
  BY DEF Counters
<1>2. CountersOf(p)'
  <2> USE <1>1, CountersType
  <2>1. CASE Configure(p)
    <3>1. /\ pos[p] <= Len(plan) /\ stage[p] = "idle"
          /\ stage'[p] \in {"ready", "failed"}
          /\ baseOts'[p] \in {NoTag, baseOts[p]}
          /\ UNCHANGED <<plan, pos, gens, forks, job>>
      BY <2>1 DEF Configure, SetConfiguration, MoreCalls, TypeOK
    <3> QED
      BY <3>1 DEF CountersOf, Running
  <2>2. CASE EnterUnconfigured(p)
    <3>1. /\ pos[p] <= Len(plan) /\ stage[p] = "idle"
          /\ baseOts'[p] \in {NoTag, baseOts[p]}
          /\ UNCHANGED <<plan, pos, gens, forks>>
      BY <2>2 DEF EnterUnconfigured, SetConfiguration, MoreCalls, TypeOK
    <3>2. CASE Throw(p)
      BY <3>1, <3>2, CountersThrow
    <3>3. CASE stage' = [stage EXCEPT ![p] = "entered"] /\ UNCHANGED job
      <4>1. stage'[p] = "entered"
        BY <3>3 DEF TypeOK
      <4> QED
        BY <3>1, <3>3, <4>1 DEF CountersOf, Running
    <3> QED
      BY <2>2, <3>2, <3>3 DEF EnterUnconfigured
  <2>3. CASE EnterConfigured(p)
    <3>1. /\ pos[p] <= Len(plan) /\ stage[p] \in {"idle", "ready", "based"}
          /\ UNCHANGED <<plan, pos, gens, forks, baseOts>>
      BY <2>3 DEF EnterConfigured, CallStage, MoreCalls
    <3>2. CASE Throw(p)
      BY <3>1, <3>2, CountersThrow
    <3>3. CASE stage' = [stage EXCEPT ![p] = "entered"] /\ UNCHANGED job
      <4>1. stage'[p] = "entered"
        BY <3>3 DEF TypeOK
      <4> QED
        BY <3>1, <3>3, <4>1 DEF CountersOf, Running
    <3> QED
      BY <2>3, <3>2, <3>3 DEF EnterConfigured
  <2>4. CASE GenSilentBaseOts(p)
    <3>1. /\ stage[p] \in {"entered", "ready"} /\ gens[p] < pos[p]
          /\ UNCHANGED <<plan, pos, baseOts>>
      BY <2>4 DEF GenSilentBaseOts, CountersOf
    <3>2. CASE Throw(p) /\ UNCHANGED <<gens, forks>>
      BY <3>1, <3>2, CountersThrow DEF CountersOf
    <3>3. CASE /\ stage' = [stage EXCEPT ![p] = IF @ = "ready" THEN "pregen" ELSE "gen"]
               /\ gens' = [gens EXCEPT ![p] = @ + 1]
               /\ forks' = [forks EXCEPT ![p] = IF forked'[p] THEN @ + 1 ELSE @]
      <4>1. /\ stage'[p] \in {"gen", "pregen"}
            /\ gens'[p] = gens[p] + 1
            /\ forks'[p] \in {forks[p], forks[p] + 1}
        BY <3>3 DEF TypeOK
      <4> QED
        BY <3>1, <4>1 DEF CountersOf, Running
    <3> QED
      BY <2>4, <3>2, <3>3 DEF GenSilentBaseOts
  <2>5. CASE SetSilentBaseOts(p)
    <3>1. /\ stage[p] \in {"gen", "pregen"} /\ job[p] = Resting
          /\ stage'[p] \in {"entered", "based"}
          /\ \E h \in Nat : baseOts'[p] = TagOf(p, h)
          /\ UNCHANGED <<plan, pos, gens, forks, job>>
      BY <2>5 DEF SetSilentBaseOts, TypeOK, Strand
    <3>2. gens[p] >= 1
      BY <3>1 DEF CountersOf, Running
    <3>3. \A h \in Nat : TagOf(p, h)[p] = gens[p] /\ NoTag[p] = 0
      BY DEF TagOf, NoTag
    <3>4. baseOts'[p] # NoTag
      BY <3>1, <3>2, <3>3
    <3> QED
      BY <3>1, <3>2, <3>4 DEF CountersOf, Running
  <2>6. CASE BeginExpand(p)
    <3>1. /\ stage[p] = "entered" /\ baseOts[p] # NoTag
          /\ UNCHANGED <<plan, pos, gens, forks, baseOts>>
      BY <2>6 DEF BeginExpand
    <3>2. CASE Throw(p)
      BY <3>1, <3>2, CountersThrow DEF CountersOf
    <3>3. CASE stage' = [stage EXCEPT ![p] = "expand"]
      <4>1. stage'[p] = "expand"
        BY <3>3 DEF TypeOK
      <4> QED
        BY <3>1, <4>1 DEF CountersOf, Running
    <3> QED
      BY <2>6, <3>2, <3>3 DEF BeginExpand
  <2>7. CASE EndExpand(p)
    <3>1. /\ stage[p] = "expand" /\ stage'[p] = "verify" /\ baseOts'[p] = NoTag
          /\ UNCHANGED <<plan, pos, gens, forks>>
      BY <2>7 DEF EndExpand, TypeOK
    <3> QED
      BY <3>1 DEF CountersOf, Running
  <2>8. CASE Finish(p)
    <3>1. /\ stage[p] = "verify" /\ stage'[p] = "idle" /\ baseOts'[p] = NoTag
          /\ pos'[p] = pos[p] + 1 /\ job[p] = Resting
          /\ UNCHANGED <<plan, gens, forks, job>>
      BY <2>8 DEF Finish, TypeOK
    <3> QED
      BY <3>1 DEF CountersOf, Running
  <2> QED
    BY <2>1, <2>2, <2>3, <2>4, <2>5, <2>6, <2>7, <2>8 DEF Control
<1>3. ASSUME NEW q \in Party \ {p} PROVE CountersOf(q)'
  <2>1. UNCHANGED <<CountedBy(q), plan>>
    BY DEF Control, Configure, EnterUnconfigured, EnterConfigured, Throw,
           SetConfiguration, GenSilentBaseOts, SetSilentBaseOts, BeginExpand,
           EndExpand, Finish, CountedBy, TypeOK
  <2> QED
    BY <2>1, CountersElsewhere DEF Counters
<1> QED
  BY <1>2, <1>3 DEF Counters

\* Every channel operation keeps the counts.
LEMMA CommunicateCounters ==
    ASSUME TypeOK, Counters, NEW p \in Party, NEW s \in Strand, Communicate(p, s)
    PROVE  Counters'
<1>1. CountersOf(p)
  BY DEF Counters
<1>2. job[p][s] # <<>> /\ stage[p] \in Running
  BY ActiveStrand DEF Communicate, Transmit, Receive, Break
<1>3. UNCHANGED <<plan, pos, baseOts, gens, forks>>
  BY DEF Communicate, Transmit, Receive, Break
<1>4. \/ Throw(p)
      \/ UNCHANGED stage
  BY DEF Communicate, Transmit, Receive, Break
<1>5. CountersOf(p)'
  <2>1. pos[p] <= Len(plan)
    BY <1>1, <1>2 DEF CountersOf, Running
  <2>2. CASE Throw(p)
    BY <1>1, <1>3, <2>1, <2>2, CountersThrow
  <2>3. CASE UNCHANGED stage
    BY <1>1, <1>2, <1>3, <2>3 DEF CountersOf
  <2> QED
    BY <1>4, <2>2, <2>3
<1>6. ASSUME NEW q \in Party \ {p} PROVE CountersOf(q)'
  <2>1. job'[q] = job[q] /\ stage'[q] = stage[q]
    BY DEF Communicate, Transmit, Receive, Break, Advance, Throw, TypeOK
  <2>2. UNCHANGED <<CountedBy(q), plan>>
    BY <1>3, <2>1 DEF CountedBy
  <2> QED
    BY <2>2, CountersElsewhere DEF Counters
<1> QED
  BY <1>5, <1>6 DEF Counters

\* TypeOK and Counters are inductive.
LEMMA TypeStep == TypeOK /\ Counters /\ [Next]_vars => TypeOK' /\ Counters'
<1> SUFFICES ASSUME TypeOK, Counters, [Next]_vars
             PROVE  TypeOK' /\ Counters'
  OBVIOUS
<1>1. ASSUME NEW p \in Party, Control(p) PROVE TypeOK' /\ Counters'
  BY <1>1, ControlType, ControlCounters
<1>2. ASSUME NEW p \in Party, NEW s \in Strand, Communicate(p, s)
      PROVE  TypeOK' /\ Counters'
  BY <1>2, CommunicateType, CommunicateCounters
<1>3. ASSUME Disconnect PROVE TypeOK' /\ Counters'
  BY <1>3 DEF Disconnect, TypeOK, Counters, CountersOf
<1>4. ASSUME UNCHANGED vars PROVE TypeOK' /\ Counters'
  BY <1>4 DEF vars, TypeOK, Counters, CountersOf
<1> QED
  BY <1>1, <1>2, <1>3, <1>4 DEF Next, Joined

\* Every reachable state of the two parties has the types of the model, for all
\* plans of calls: in particular a forked channel never has a number beyond the
\* calls made, since genSilentBaseOts runs once per call and forks once per run.
THEOREM TypeCorrect == Spec => []TypeOK /\ []Counters
<1>1. Init => TypeOK /\ Counters
  BY TypeInit
<1>2. TypeOK /\ Counters /\ [Next]_vars => TypeOK' /\ Counters'
  BY TypeStep
<1> QED
  BY <1>1, <1>2, PTL DEF Spec

\* The state of a party's own objects and coroutines.
StateOf(p) ==
    <<stage[p], job[p], heard[p], forked[p], baseOts[p], baseVole[p], noisy[p],
      gens[p], out[p]>>

\* What one party does leaves the other's state alone, and opens no socket.
LEMMA Untouched ==
    ASSUME TypeOK, NEW p \in Party, NEW q \in Party \ {p}, NEW s \in Strand,
           Control(p) \/ Communicate(p, s)
    PROVE  UNCHANGED StateOf(q) /\ closed \subseteq closed'
<1>1. CASE Control(p)
  <2> USE DEF StateOf, TypeOK
  <2>1. CASE Configure(p)
    BY <2>1 DEF Configure, SetConfiguration
  <2>2. CASE EnterUnconfigured(p)
    BY <2>2 DEF EnterUnconfigured, SetConfiguration, Throw
  <2>3. CASE EnterConfigured(p)
    BY <2>3 DEF EnterConfigured, Throw
  <2>4. CASE GenSilentBaseOts(p)
    BY <2>4 DEF GenSilentBaseOts, Throw
  <2>5. CASE SetSilentBaseOts(p)
    BY <2>5 DEF SetSilentBaseOts
  <2>6. CASE BeginExpand(p)
    BY <2>6 DEF BeginExpand, Throw
  <2>7. CASE EndExpand(p)
    BY <2>7 DEF EndExpand
  <2>8. CASE Finish(p)
    BY <2>8 DEF Finish
  <2> QED
    BY <1>1, <2>1, <2>2, <2>3, <2>4, <2>5, <2>6, <2>7, <2>8 DEF Control
<1>2. CASE Communicate(p, s)
  <2> USE DEF StateOf, TypeOK
  <2>1. CASE Transmit(p, s)
    BY <2>1 DEF Transmit, Advance
  <2>2. CASE Receive(p, s)
    <3> DEFINE m == Head(Inbox(p, s))
    <3>1. UNCHANGED <<forked, baseOts, baseVole, gens, out>>
      BY <2>2 DEF Receive
    <3>2. CASE Refuses(p, m)
      <4>1. Throw(p) /\ UNCHANGED <<heard, noisy>>
        BY <2>2, <3>2 DEF Receive
      <4> QED
        BY <3>1, <4>1 DEF Throw
    <3>3. CASE ~Refuses(p, m)
      <4>1. /\ Advance(p, s)
            /\ heard' = [heard EXCEPT ![p][s] = m.gen]
            /\ noisy' = [noisy EXCEPT ![p] =
                           IF m.kind = "tree" /\ m.vector # @ THEN Junk(p) ELSE @]
            /\ UNCHANGED <<stage, closed>>
        BY <2>2, <3>3 DEF Receive
      <4> HIDE DEF m
      <4> QED
        BY <3>1, <4>1 DEF Advance
    <3> QED
      BY <3>2, <3>3
  <2>3. CASE Break(p, s)
    BY <2>3 DEF Break, Throw
  <2> QED
    BY <1>2, <2>1, <2>2, <2>3 DEF Communicate
<1> QED
  BY <1>1, <1>2

-----------------------------------------------------------------------------
(* What the sender returns was made from base correlations it received.    *)

\* The strands a genSilentBaseOts of p waits for.
Awaited(p) == IF forked[p] THEN Strand ELSE {"main"}

\* Each strand of genSilentBaseOts ends in a receive, so once it is through, its
\* party has heard of the peer unless its socket is closed; and on a closed
\* socket the expansion, which has at least one message to send, cannot end.
SenderBacked ==
    /\ \A s \in Strand : NoTreeIn(job["sender"][s])
    /\ stage["sender"] \in {"gen", "pregen"} =>
          \A s \in Awaited("sender") :
             \/ heard["sender"][s] > 0
             \/ "sender" \in closed
             \/ EndsInRecv(job["sender"][s])
    /\ stage["sender"] \in {"based", "entered"} /\ baseOts["sender"] # NoTag =>
          \/ "sender" \in closed
          \/ Whole(baseOts["sender"]) /\ Whole(baseVole["sender"])
    /\ stage["sender"] = "expand" =>
          \/ WholeVector(noisy["sender"])
          \/ "sender" \in closed /\ job["sender"].main # <<>>
    /\ stage["sender"] = "verify" => WholeVector(noisy["sender"])
    /\ SenderReturnsWhole

\* Before its first call the sender holds nothing.
LEMMA SenderInit == Init => SenderBacked
BY DEF Init, SenderBacked, Resting, NoTreeIn, SenderReturnsWhole, ReturnsWhole, Party,
       Strand

\* A step that leaves the sender alone, and opens no socket.
LEMMA SenderElsewhere ==
    ASSUME SenderBacked, UNCHANGED StateOf("sender"), closed \subseteq closed'
    PROVE  SenderBacked'
BY DEF SenderBacked, StateOf, Awaited, SenderReturnsWhole, ReturnsWhole

\* A sender that throws returns nothing more.
LEMMA SenderThrow ==
    ASSUME TypeOK, SenderBacked, Throw("sender"), UNCHANGED out
    PROVE  SenderBacked'
<1>1. stage'["sender"] = "failed" /\ job'["sender"] = Resting
  BY DEF Throw, TypeOK, Party
<1>2. \A s \in Strand : NoTreeIn(job'["sender"][s])
  BY <1>1 DEF Resting, NoTreeIn
<1>3. SenderReturnsWhole'
  BY DEF SenderBacked, SenderReturnsWhole, ReturnsWhole
<1> QED
  BY <1>1, <1>2, <1>3 DEF SenderBacked

\* The operations of the sender's coroutine.
LEMMA SenderControl ==
    ASSUME TypeOK, Counters, SenderBacked, Control("sender")
    PROVE  SenderBacked'
<1> DEFINE p == "sender"
<1>p. p \in Party
  BY DEF Party
<1>j. ASSUME job'[p] = Resting PROVE \A s \in Strand : NoTreeIn(job'[p][s])
  BY <1>j DEF Resting, NoTreeIn
<1>o. ASSUME UNCHANGED out PROVE SenderReturnsWhole'
  BY <1>o DEF SenderBacked, SenderReturnsWhole, ReturnsWhole
<1>c. CountersOf(p)
  BY <1>p DEF Counters
<1>1. CASE Configure(p)
  <2>1. /\ stage'[p] \in {"ready", "failed"}
        /\ UNCHANGED <<job, out>>
    BY <1>1, <1>p DEF Configure, TypeOK
  <2> QED
    BY <2>1, <1>o DEF SenderBacked
<1>2. CASE EnterUnconfigured(p)
  <2>1. UNCHANGED out /\ stage[p] = "idle"
        /\ baseOts'[p] \in {NoTag, baseOts[p]}
    BY <1>2, <1>p DEF EnterUnconfigured, SetConfiguration, TypeOK
  <2>2. CASE Throw(p)
    BY <2>1, <2>2, SenderThrow
  <2>3. CASE stage' = [stage EXCEPT ![p] = "entered"] /\ UNCHANGED <<job, closed>>
    <3>1. stage'[p] = "entered" /\ baseOts'[p] = NoTag
      BY <2>1, <2>3, <1>p, <1>c DEF TypeOK, CountersOf
    <3> QED
      BY <2>1, <2>3, <3>1, <1>o DEF SenderBacked
  <2> QED
    BY <1>2, <2>2, <2>3 DEF EnterUnconfigured
<1>3. CASE EnterConfigured(p)
  <2>1. UNCHANGED <<out, baseOts, baseVole>> /\ stage[p] \in {"idle", "ready", "based"}
    BY <1>3 DEF EnterConfigured, CallStage
  <2>2. CASE Throw(p)
    BY <2>1, <2>2, SenderThrow
  <2>3. CASE stage' = [stage EXCEPT ![p] = "entered"] /\ UNCHANGED <<job, closed>>
    <3>1. /\ stage'[p] = "entered"
          /\ stage[p] # "based" => baseOts[p] = NoTag
      BY <2>1, <2>3, <1>p, <1>c DEF TypeOK, CountersOf
    <3> QED
      BY <2>1, <2>3, <3>1, <1>o DEF SenderBacked
  <2> QED
    BY <1>3, <2>2, <2>3 DEF EnterConfigured
<1>4. CASE GenSilentBaseOts(p)
  <2>1. UNCHANGED out
    BY <1>4 DEF GenSilentBaseOts
  <2>2. CASE RefusesMalicious(p)
    BY <1>4, <2>1, <2>2, SenderThrow DEF GenSilentBaseOts
  <2>3. CASE ~RefusesMalicious(p)
    <3>1. /\ stage'[p] \in {"gen", "pregen"}
          /\ forked'[p] = MustFork(conf[p].type, ext[p])
          /\ job'[p] = GenJob(p, conf[p].type, ext[p])
      BY <1>4, <2>3, <1>p DEF GenSilentBaseOts, TypeOK
    <3>2. /\ EndsInRecv(GenMain(p, conf[p].type, ext[p])) /\ NoTreeIn(GenMain(p, conf[p].type, ext[p]))
          /\ EndsInRecv(GenFork(p, conf[p].type, ext[p])) /\ NoTreeIn(GenFork(p, conf[p].type, ext[p]))
      BY <1>p, GenOps DEF TypeOK
    <3>3. \A s \in Strand : NoTreeIn(job'[p][s])
      BY <3>1, <3>2 DEF GenJob, NoTreeIn
    <3>4. \A s \in Awaited(p)' : EndsInRecv(job'[p][s])
      BY <3>1, <3>2 DEF GenJob, Awaited, Strand
    <3> QED
      BY <3>1, <3>3, <3>4, <2>1, <1>o DEF SenderBacked
  <2> QED
    BY <2>2, <2>3
<1>5. CASE SetSilentBaseOts(p)
  <2>1. /\ stage[p] \in {"gen", "pregen"} /\ job[p] = Resting
        /\ stage'[p] \in {"entered", "based"}
        /\ baseOts'[p] = TagOf(p, heard[p].main)
        /\ baseVole'[p] = TagOf(p, IF forked[p] THEN heard[p].fork ELSE heard[p].main)
        /\ UNCHANGED <<job, out, closed>>
    BY <1>5, <1>p DEF SetSilentBaseOts, TypeOK
  <2>2. \A s \in Awaited(p) : ~EndsInRecv(job[p][s])
    BY <2>1 DEF Resting, EndsInRecv, Awaited, Strand
  <2>3. ASSUME p \notin closed PROVE Whole(baseOts'[p]) /\ Whole(baseVole'[p])
    <3>1. gens[p] \in Nat /\ gens[p] >= 1
      BY <2>1, <1>p, <1>c DEF CountersOf, Running, TypeOK
    <3>2. heard[p].main > 0 /\ (forked[p] => heard[p].fork > 0)
      BY <2>1, <2>2, <2>3 DEF SenderBacked, Awaited, Strand
    <3> QED
      BY <2>1, <3>1, <3>2, <1>p DEF Whole, TagOf
  <2> QED
    BY <2>1, <2>3, <1>j, <1>o DEF SenderBacked
<1>6. CASE BeginExpand(p)
  <2>1. UNCHANGED out /\ stage[p] = "entered" /\ baseOts[p] # NoTag
    BY <1>6 DEF BeginExpand
  <2>2. CASE Throw(p)
    BY <2>1, <2>2, SenderThrow
  <2>3. CASE ~Throw(p)
    <3>1. /\ stage'[p] = "expand" /\ job'[p] = OnMain(Expansion(p))
          /\ noisy'[p] = [ots |-> baseOts[p], vole |-> baseVole[p]]
          /\ UNCHANGED closed
      BY <1>6, <2>3, <1>p DEF BeginExpand, TypeOK
    <3>2. job'[p].main # <<>> /\ \A s \in Strand : NoTreeIn(job'[p][s])
      BY <3>1, <1>p, ExpansionOps DEF OnMain, Strand, NoTreeIn
    <3>3. WholeVector(noisy'[p]) \/ p \in closed
      BY <2>1, <3>1 DEF SenderBacked, WholeVector
    <3> QED
      BY <2>1, <3>1, <3>2, <3>3, <1>o DEF SenderBacked
  <2> QED
    BY <2>2, <2>3
<1>7. CASE EndExpand(p)
  <2>1. /\ stage[p] = "expand" /\ job[p] = Resting
        /\ stage'[p] = "verify" /\ job'[p] = OnMain(Verification(p, Entry(p)))
        /\ UNCHANGED <<out, noisy, closed>>
    BY <1>7, <1>p DEF EndExpand, TypeOK
  <2>2. \A s \in Strand : NoTreeIn(job'[p][s])
    BY <2>1, <1>p, VerificationOps DEF OnMain, NoTreeIn
  <2>3. WholeVector(noisy[p])
    BY <2>1 DEF SenderBacked, Resting, Strand
  <2> QED
    BY <2>1, <2>2, <2>3, <1>o DEF SenderBacked, WholeVector
<1>8. CASE Finish(p)
  <2>1. /\ stage[p] = "verify" /\ stage'[p] = "idle" /\ UNCHANGED job
        /\ \E tail \in TailsOf(conf[p].req, Entry(p).n) :
              out'[p] = Append(out[p], [vector |-> noisy[p], tail |-> tail])
    BY <1>8, <1>p DEF Finish, TypeOK
  <2>2. PICK tail \in TailsOf(conf[p].req, Entry(p).n) :
           out'[p] = Append(out[p], [vector |-> noisy[p], tail |-> tail])
    BY <2>1
  <2>3. WholeVector(noisy[p])
    BY <2>1 DEF SenderBacked
  <2>4. SenderReturnsWhole'
    <3> DEFINE o == [vector |-> noisy[p], tail |-> tail]
    <3>1. out[p] \in Seq(Output) /\ o \in Output
      BY <1>p DEF TypeOK, TailsOf, TailKind, Output
    <3>2. o.vector = noisy[p]
      OBVIOUS
    <3>3. \A k \in DOMAIN out[p] : WholeVector(out[p][k].vector)
      BY DEF SenderBacked, SenderReturnsWhole, ReturnsWhole
    <3> HIDE DEF o
    <3>4. \A k \in DOMAIN out'[p] : out'[p][k] = o \/ (k \in DOMAIN out[p] /\ out'[p][k] = out[p][k])
      BY <2>2, <3>1, AppendProperties DEF o
    <3>5. \A k \in DOMAIN out'[p] : WholeVector(out'[p][k].vector)
      BY <2>3, <3>2, <3>3, <3>4
    <3> QED
      BY <3>5 DEF SenderReturnsWhole, ReturnsWhole, WholeVector, Whole
  <2> QED
    BY <2>1, <2>4 DEF SenderBacked
<1> QED
  BY <1>1, <1>2, <1>3, <1>4, <1>5, <1>6, <1>7, <1>8 DEF Control

\* The sender's channel operations.
LEMMA SenderCommunicate ==
    ASSUME TypeOK, Counters, SenderBacked, NEW s \in Strand, Communicate("sender", s)
    PROVE  SenderBacked'
<1> DEFINE p == "sender"
           ops == job[p][s]
<1>p. p \in Party
  BY DEF Party
<1>1. /\ ops # <<>> /\ ops \in Seq(Op) /\ Channel(p, s) \in Channels
      /\ NextOp(p, s) \in Op /\ NextOp(p, s) = Head(ops)
  BY <1>p, ActiveStrand
     DEF Communicate, Transmit, Receive, Break, TypeOK, NextOp
<1>2. /\ NoTreeIn(ops) => NoTreeIn(Tail(ops)) /\ Head(ops) # Recv("tree")
      /\ EndsInRecv(ops) => Head(ops).io = "recv" \/ EndsInRecv(Tail(ops))
  BY <1>1, TailOps
<1>3. NoTreeIn(ops)
  BY DEF SenderBacked
<1>4. UNCHANGED <<out, baseOts, baseVole, forked>>
  BY DEF Communicate, Transmit, Receive, Break
<1>o. SenderReturnsWhole'
  BY <1>4 DEF SenderBacked, SenderReturnsWhole, ReturnsWhole
<1>5. ASSUME Advance(p, s)
      PROVE  /\ job'[p][s] = Tail(ops)
             /\ \A t \in Strand \ {s} : job'[p][t] = job[p][t]
             /\ \A t \in Strand : NoTreeIn(job'[p][t])
  <2>1. /\ job'[p][s] = Tail(ops)
        /\ \A t \in Strand \ {s} : job'[p][t] = job[p][t]
    BY <1>5, <1>p DEF Advance, TypeOK
  <2> QED
    BY <2>1, <1>2, <1>3 DEF SenderBacked
<1>6. stage[p] \notin {"based", "entered"}
  BY <1>1, <1>p, ActiveStrand DEF Running
<1>7. CASE Transmit(p, s)
  <2>1. /\ Advance(p, s) /\ p \notin closed /\ Head(ops).io = "send"
        /\ UNCHANGED <<stage, heard, noisy, closed>>
    BY <1>7 DEF Transmit, NextOp
  <2>2. stage[p] \in {"gen", "pregen"} =>
           \A t \in Awaited(p) : heard[p][t] > 0 \/ EndsInRecv(job'[p][t])
    <3> SUFFICES ASSUME stage[p] \in {"gen", "pregen"}, NEW t \in Awaited(p)
                 PROVE  heard[p][t] > 0 \/ EndsInRecv(job'[p][t])
      OBVIOUS
    <3>1. t \in Strand
      BY DEF Awaited, Strand
    <3>2. heard[p][t] > 0 \/ EndsInRecv(job[p][t])
      BY <2>1 DEF SenderBacked
    <3>3. Head(ops).io # "recv"
      BY <2>1
    <3>4. CASE t = s
      BY <2>1, <3>2, <3>3, <3>4, <1>2, <1>5
    <3>5. CASE t # s
      BY <2>1, <3>1, <3>2, <3>5, <1>5
    <3> QED
      BY <3>4, <3>5
  <2> QED
    BY <2>1, <2>2, <1>4, <1>5, <1>6, <1>o DEF SenderBacked, Awaited, WholeVector
<1>8. CASE Receive(p, s)
  <2> DEFINE m == Head(net[p][Channel(p, s)])
  <2>1. p \notin closed /\ NextOp(p, s).io = "recv" /\ m.kind = NextOp(p, s).kind
    BY <1>8 DEF Receive, Inbox
  <2>2. m \in Message
    <3>1. net[p][Channel(p, s)] \in Seq(Message) /\ net[p][Channel(p, s)] # <<>>
      BY <1>8, <1>1, <1>p DEF Receive, Inbox, TypeOK
    <3> QED
      BY <3>1, HeadTailProperties
  <2>3. m.kind # "tree"
    <3>1. NextOp(p, s) # Recv("tree")
      BY <1>1, <1>2, <1>3
    <3>2. NextOp(p, s) = [io |-> NextOp(p, s).io, kind |-> NextOp(p, s).kind]
      BY <1>1 DEF Op
    <3> QED
      BY <2>1, <3>1, <3>2 DEF Recv
  <2>4. CASE Refuses(p, m)
    <3>1. Throw(p)
      BY <1>8, <2>4 DEF Receive, Inbox
    <3> QED
      BY <3>1, <1>4, SenderThrow
  <2>5. CASE ~Refuses(p, m)
    <3>1. /\ Advance(p, s)
          /\ heard' = [heard EXCEPT ![p][s] = m.gen]
          /\ noisy' = [noisy EXCEPT ![p] =
                         IF m.kind = "tree" /\ m.vector # @ THEN Junk(p) ELSE @]
          /\ UNCHANGED <<stage, closed>>
      BY <1>8, <2>5 DEF Receive, Inbox
    <3>2. m.gen > 0
      BY <2>2 DEF Message
    <3> HIDE DEF m
    <3>3. noisy'[p] = noisy[p]
      BY <3>1, <2>3, <1>p DEF TypeOK
    <3>4. /\ heard'[p][s] > 0
          /\ \A t \in Strand \ {s} : heard'[p][t] = heard[p][t]
      BY <3>1, <3>2, <1>p DEF TypeOK
    <3>5. stage[p] \in {"gen", "pregen"} =>
             \A t \in Awaited(p) : heard'[p][t] > 0 \/ EndsInRecv(job'[p][t])
      <4> SUFFICES ASSUME stage[p] \in {"gen", "pregen"}, NEW t \in Awaited(p), t # s
                   PROVE  heard'[p][t] > 0 \/ EndsInRecv(job'[p][t])
        BY <3>4
      <4>1. t \in Strand
        BY DEF Awaited, Strand
      <4>2. heard[p][t] > 0 \/ EndsInRecv(job[p][t])
        BY <2>1 DEF SenderBacked
      <4> QED
        BY <4>1, <4>2, <3>1, <3>4, <1>5
    <3> QED
      BY <2>1, <3>1, <3>3, <3>5, <1>4, <1>5, <1>6, <1>o
         DEF SenderBacked, Awaited, WholeVector
  <2> QED
    BY <2>4, <2>5
<1>9. CASE Break(p, s)
  <2>1. CASE stage[p] \in {"gen", "pregen"} /\ forked[p]
    <3>1. /\ job' = [job EXCEPT ![p][s] = <<>>]
          /\ closed' = closed \cup {p}
          /\ UNCHANGED stage
      BY <1>9, <2>1 DEF Break
    <3>2. \A t \in Strand : NoTreeIn(job'[p][t])
      BY <3>1, <1>p DEF TypeOK, SenderBacked, NoTreeIn
    <3> QED
      BY <2>1, <3>1, <3>2, <1>o DEF SenderBacked
  <2>2. CASE ~(stage[p] \in {"gen", "pregen"} /\ forked[p])
    <3>1. Throw(p)
      BY <1>9, <2>2 DEF Break
    <3> QED
      BY <3>1, <1>4, SenderThrow
  <2> QED
    BY <2>1, <2>2
<1> QED
  BY <1>7, <1>8, <1>9 DEF Communicate

\* What backs the sender's vectors is kept by every step.
LEMMA SenderStep ==
    ASSUME TypeOK, Counters, SenderBacked, [Next]_vars
    PROVE  SenderBacked'
<1>1. ASSUME NEW p \in Party, Control(p) PROVE SenderBacked'
  <2>1. CASE p = "sender"
    BY <1>1, <2>1, SenderControl
  <2>2. CASE p = "receiver"
    BY <1>1, <2>2, Untouched, SenderElsewhere DEF Strand, Party
  <2> QED
    BY <2>1, <2>2 DEF Party
<1>2. ASSUME NEW p \in Party, NEW s \in Strand, Communicate(p, s) PROVE SenderBacked'
  <2>1. CASE p = "sender"
    BY <1>2, <2>1, SenderCommunicate
  <2>2. CASE p = "receiver"
    BY <1>2, <2>2, Untouched, SenderElsewhere DEF Party
  <2> QED
    BY <2>1, <2>2 DEF Party
<1>3. ASSUME Disconnect PROVE SenderBacked'
  BY <1>3, SenderElsewhere DEF Disconnect, StateOf
<1>4. ASSUME UNCHANGED vars PROVE SenderBacked'
  BY <1>4, SenderElsewhere DEF vars, StateOf
<1> QED
  BY <1>1, <1>2, <1>3, <1>4 DEF Next, Joined

\* setSilentBaseOts runs on whatever the buffers hold when a protocol under
\* when_all_ready has thrown; all the same silentSend never returns a vector made
\* from them, because the expansion that follows needs the socket the exception
\* has closed.
THEOREM SenderNeverReturnsJunk == Spec => []SenderReturnsWhole
<1>1. Init => SenderBacked
  BY SenderInit
<1>2. TypeOK /\ Counters /\ SenderBacked /\ [Next]_vars => SenderBacked'
  BY SenderStep
<1>3. SenderBacked => SenderReturnsWhole
  BY DEF SenderBacked
<1> QED
  BY <1>1, <1>2, <1>3, TypeCorrect, PTL DEF Spec

-----------------------------------------------------------------------------
(* No two calls return vectors made from the same base correlations.       *)

\* p has made v in its generation g.
MadeIn(p, v, g) == v.ots[p] = g /\ v.vole[p] = g

\* What p holds comes from its current generation, and what it has returned from
\* earlier ones, each from one of its own.
FreshOf(p) ==
    /\ baseOts[p] # NoTag => baseOts[p][p] = gens[p] /\ baseVole[p][p] = gens[p]
    /\ stage[p] \in {"expand", "verify"} /\ WholeVector(noisy[p]) =>
          MadeIn(p, noisy[p], gens[p])
    /\ \A k \in DOMAIN out[p] : WholeVector(out[p][k].vector) =>
          /\ MadeIn(p, out[p][k].vector, out[p][k].vector.ots[p])
          /\ out[p][k].vector.ots[p] <= gens[p]
          /\ Generated(p) => out[p][k].vector.ots[p] < gens[p]
    /\ \A i, j \in DOMAIN out[p] :
          i # j /\ WholeVector(out[p][i].vector) /\ WholeVector(out[p][j].vector) =>
             out[p][i].vector.ots[p] # out[p][j].vector.ots[p]

Fresh == \A p \in Party : FreshOf(p)

\* What a party has used depends on its own part of the state only.
LEMMA FreshElsewhere ==
    ASSUME NEW p \in Party, FreshOf(p), UNCHANGED StateOf(p)
    PROVE  FreshOf(p)'
BY DEF FreshOf, StateOf, Generated, WholeVector, Whole, MadeIn

\* The outputs stay fresh while no call of p returns, begins a generation or
\* forgets that one has begun.
LEMMA FreshKept ==
    ASSUME NEW p \in Party, FreshOf(p), UNCHANGED <<gens[p], out[p]>>,
           Generated(p)' => Generated(p),
           baseOts'[p] # NoTag => baseOts'[p][p] = gens[p] /\ baseVole'[p][p] = gens[p],
           stage'[p] \in {"expand", "verify"} /\ WholeVector(noisy[p])' =>
              MadeIn(p, noisy'[p], gens[p])
    PROVE  FreshOf(p)'
BY DEF FreshOf, WholeVector, Whole, MadeIn

\* Junk is not whole.
LEMMA JunkNotWhole == \A p \in Party : ~WholeVector(Junk(p))
BY DEF WholeVector, Whole, Junk, NoTag

\* Before its first call no party has used anything.
LEMMA FreshInit == Init => Fresh
BY DEF Init, Fresh, FreshOf

\* A party that throws uses nothing more.
LEMMA FreshThrow ==
    ASSUME TypeOK, NEW p \in Party, FreshOf(p), Throw(p), UNCHANGED <<gens, out, baseVole>>,
           baseOts'[p] \in {NoTag, baseOts[p]}
    PROVE  FreshOf(p)'
<1>1. stage'[p] = "failed"
  BY DEF Throw, TypeOK
<1>2. ~Generated(p)'
  BY <1>1 DEF Generated, Running
<1>3. baseOts'[p] # NoTag => baseOts'[p][p] = gens[p] /\ baseVole'[p][p] = gens[p]
  BY DEF FreshOf
<1> QED
  BY <1>1, <1>2, <1>3, FreshKept

\* The operations of the coroutine of p.
LEMMA FreshControl ==
    ASSUME TypeOK, Counters, Fresh, NEW p \in Party, Control(p)
    PROVE  FreshOf(p)'
<1>c. CountersOf(p) /\ FreshOf(p) /\ gens[p] \in Nat
  BY DEF Counters, Fresh, TypeOK
<1>1. CASE Configure(p)
  <2>1. /\ stage'[p] \in {"ready", "failed"}
        /\ baseOts'[p] \in {NoTag, baseOts[p]}
        /\ UNCHANGED <<gens, out, baseVole>>
    BY <1>1 DEF Configure, SetConfiguration, TypeOK
  <2> QED
    BY <2>1, <1>c, FreshKept DEF FreshOf, Generated, Running
<1>2. CASE EnterUnconfigured(p)
  <2>1. /\ stage[p] = "idle" /\ UNCHANGED <<gens, out, baseVole>>
        /\ baseOts'[p] \in {NoTag, baseOts[p]}
    BY <1>2 DEF EnterUnconfigured, SetConfiguration, TypeOK
  <2>2. CASE Throw(p)
    BY <2>1, <2>2, <1>c, FreshThrow
  <2>3. CASE stage' = [stage EXCEPT ![p] = "entered"]
    <3>1. stage'[p] = "entered" /\ baseOts'[p] = NoTag
      BY <2>1, <2>3, <1>c DEF TypeOK, CountersOf
    <3> QED
      BY <2>1, <3>1, <1>c, FreshKept DEF Generated, Running
  <2> QED
    BY <1>2, <2>2, <2>3 DEF EnterUnconfigured
<1>3. CASE EnterConfigured(p)
  <2>1. /\ UNCHANGED <<gens, out, baseVole, baseOts, noisy>>
        /\ stage[p] \in {"idle", "ready", "based"}
    BY <1>3 DEF EnterConfigured, CallStage
  <2>2. CASE Throw(p)
    BY <2>1, <2>2, <1>c, FreshThrow
  <2>3. CASE stage' = [stage EXCEPT ![p] = "entered"]
    <3>1. /\ stage'[p] = "entered"
          /\ stage[p] # "based" => baseOts[p] = NoTag
      BY <2>1, <2>3, <1>c DEF TypeOK, CountersOf
    <3>2. Generated(p)' => Generated(p)
      BY <2>1, <3>1 DEF Generated, Running
    <3> QED
      BY <2>1, <3>1, <3>2, <1>c, FreshKept DEF FreshOf
  <2> QED
    BY <1>3, <2>2, <2>3 DEF EnterConfigured
<1>4. CASE GenSilentBaseOts(p)
  <2>1. /\ stage[p] \in {"entered", "ready"} /\ baseOts[p] = NoTag
        /\ UNCHANGED <<out, baseVole, baseOts, noisy>>
    BY <1>4, <1>c DEF GenSilentBaseOts, CountersOf
  <2>2. CASE Throw(p) /\ UNCHANGED gens
    BY <2>1, <2>2, <1>c, FreshThrow
  <2>3. CASE /\ stage' = [stage EXCEPT ![p] = IF @ = "ready" THEN "pregen" ELSE "gen"]
             /\ gens' = [gens EXCEPT ![p] = @ + 1]
    <3>1. stage'[p] \in {"gen", "pregen"} /\ gens'[p] = gens[p] + 1
      BY <2>3 DEF TypeOK
    <3>2. \A k \in DOMAIN out[p] :
             out[p][k].vector \in Vector /\ out[p][k].vector.ots[p] \in Nat
      <4> SUFFICES ASSUME NEW k \in DOMAIN out[p]
                   PROVE  out[p][k].vector \in Vector /\ out[p][k].vector.ots[p] \in Nat
        OBVIOUS
      <4>1. out[p] \in Seq(Output)
        BY DEF TypeOK
      <4>2. out[p][k] \in Output
        BY <4>1, ElementOfSeq
      <4> QED
        BY <4>2 DEF Output, Vector, Tag
    <3> QED
      BY <2>1, <3>1, <3>2, <1>c DEF FreshOf, WholeVector, Whole, MadeIn
  <2> QED
    BY <1>4, <2>2, <2>3 DEF GenSilentBaseOts
<1>5. CASE SetSilentBaseOts(p)
  <2>1. /\ stage[p] \in {"gen", "pregen"} /\ stage'[p] \in {"entered", "based"}
        /\ \E h : baseOts'[p] = TagOf(p, h)
        /\ \E h : baseVole'[p] = TagOf(p, h)
        /\ UNCHANGED <<gens, out, noisy>>
    BY <1>5 DEF SetSilentBaseOts, TypeOK
  <2>2. baseOts'[p][p] = gens[p] /\ baseVole'[p][p] = gens[p]
    BY <2>1 DEF TagOf
  <2> QED
    BY <2>1, <2>2, <1>c, FreshKept DEF Generated, Running
<1>6. CASE BeginExpand(p)
  <2>1. /\ stage[p] = "entered" /\ baseOts[p] # NoTag
        /\ UNCHANGED <<gens, out, baseOts, baseVole>>
    BY <1>6 DEF BeginExpand
  <2>2. CASE Throw(p)
    BY <2>1, <2>2, <1>c, FreshThrow
  <2>3. CASE ~Throw(p)
    <3>1. /\ stage'[p] = "expand"
          /\ noisy'[p] = [ots |-> baseOts[p], vole |-> baseVole[p]]
      BY <1>6, <2>3 DEF BeginExpand, TypeOK
    <3>2. MadeIn(p, noisy'[p], gens[p])
      BY <2>1, <3>1, <1>c DEF FreshOf, MadeIn
    <3> QED
      BY <2>1, <3>1, <3>2, <1>c, FreshKept DEF FreshOf, Generated
  <2> QED
    BY <2>2, <2>3
<1>7. CASE EndExpand(p)
  <2>1. /\ stage[p] = "expand" /\ stage'[p] = "verify" /\ baseOts'[p] = NoTag
        /\ UNCHANGED <<gens, out, noisy>>
    BY <1>7 DEF EndExpand, TypeOK
  <2>2. WholeVector(noisy[p])' => MadeIn(p, noisy'[p], gens[p])
    BY <2>1, <1>c DEF FreshOf, WholeVector, Whole, MadeIn
  <2> QED
    BY <2>1, <2>2, <1>c, FreshKept DEF Generated, Running
<1>8. CASE Finish(p)
  <2>1. /\ stage[p] = "verify" /\ stage'[p] = "idle" /\ baseOts'[p] = NoTag
        /\ \E tail \in TailsOf(conf[p].req, Entry(p).n) :
              out'[p] = Append(out[p], [vector |-> noisy[p], tail |-> tail])
        /\ UNCHANGED gens
    BY <1>8 DEF Finish, TypeOK
  <2>2. PICK tail \in TailsOf(conf[p].req, Entry(p).n) :
           out'[p] = Append(out[p], [vector |-> noisy[p], tail |-> tail])
    BY <2>1
  <2> DEFINE o == [vector |-> noisy[p], tail |-> tail]
             n == Len(out[p]) + 1
  <2>3. out[p] \in Seq(Output) /\ o \in Output
    BY DEF TypeOK, TailsOf, TailKind, Output
  <2>4. o.vector = noisy[p]
    OBVIOUS
  <2>5. /\ out'[p][n] = o
        /\ DOMAIN out'[p] = DOMAIN out[p] \cup {n}
        /\ \A k \in DOMAIN out[p] : out'[p][k] = out[p][k]
    <3>0. Len(out[p]) \in Nat /\ DOMAIN out[p] = 1 .. Len(out[p])
      BY <2>3, LenProperties
    <3> HIDE DEF o
    <3>1. Append(out[p], o) \in Seq(Output)
      BY <2>3, AppendProperties
    <3>2. /\ Len(Append(out[p], o)) = Len(out[p]) + 1
          /\ \A k \in 1 .. Len(out[p]) : Append(out[p], o)[k] = out[p][k]
          /\ Append(out[p], o)[Len(out[p]) + 1] = o
      BY <2>3, AppendProperties
    <3>3. out'[p] = Append(out[p], o)
      BY <2>2 DEF o
    <3>4. DOMAIN out'[p] = 1 .. Len(out[p]) + 1
      BY <3>1, <3>2, <3>3, LenProperties
    <3>5. 1 .. Len(out[p]) + 1 = (1 .. Len(out[p])) \cup {n}
      BY <3>0
    <3> QED
      BY <3>0, <3>2, <3>3, <3>4, <3>5
  <2>6. Generated(p) /\ ~Generated(p)'
    BY <2>1 DEF Generated, Running
  <2>7. WholeVector(noisy[p]) => MadeIn(p, noisy[p], gens[p])
    BY <2>1, <1>c DEF FreshOf
  <2>8. \A k \in DOMAIN out[p] : WholeVector(out[p][k].vector) =>
           /\ MadeIn(p, out[p][k].vector, out[p][k].vector.ots[p])
           /\ out[p][k].vector.ots[p] <= gens[p]
           /\ out[p][k].vector.ots[p] < gens[p]
    BY <2>6, <1>c DEF FreshOf
  <2>9. \A k \in DOMAIN out[p] : WholeVector(out[p][k].vector) =>
           out[p][k].vector.ots[p] \in Nat /\ out[p][k].vector.ots[p] # gens[p]
    <3> SUFFICES ASSUME NEW k \in DOMAIN out[p], WholeVector(out[p][k].vector)
                 PROVE  out[p][k].vector.ots[p] \in Nat /\ out[p][k].vector.ots[p] # gens[p]
      OBVIOUS
    <3>1. out[p][k] \in Output
      BY <2>3, ElementOfSeq
    <3>2. out[p][k].vector.ots[p] \in Nat
      BY <3>1 DEF Output, Vector, Tag
    <3> QED
      BY <3>2, <2>8, <1>c
  <2> HIDE DEF o, n
  <2>10. \A k \in DOMAIN out'[p] : WholeVector(out'[p][k].vector) =>
           /\ MadeIn(p, out'[p][k].vector, out'[p][k].vector.ots[p])
           /\ out'[p][k].vector.ots[p] <= gens[p]
    BY <2>4, <2>5, <2>7, <2>8, <1>c DEF MadeIn
  <2>11. \A i, j \in DOMAIN out'[p] :
           i # j /\ WholeVector(out'[p][i].vector) /\ WholeVector(out'[p][j].vector) =>
              out'[p][i].vector.ots[p] # out'[p][j].vector.ots[p]
    <3> SUFFICES ASSUME NEW i \in DOMAIN out'[p], NEW j \in DOMAIN out'[p], i # j,
                        WholeVector(out'[p][i].vector), WholeVector(out'[p][j].vector)
                 PROVE  out'[p][i].vector.ots[p] # out'[p][j].vector.ots[p]
      OBVIOUS
    <3>1. CASE i \in DOMAIN out[p] /\ j \in DOMAIN out[p]
      BY <3>1, <2>5, <1>c DEF FreshOf
    <3>2. CASE i \in DOMAIN out[p] /\ j = n
      BY <3>2, <2>4, <2>5, <2>7, <2>9 DEF MadeIn
    <3>3. CASE i = n /\ j \in DOMAIN out[p]
      BY <3>3, <2>4, <2>5, <2>7, <2>9 DEF MadeIn
    <3> QED
      BY <3>1, <3>2, <3>3, <2>5
  <2> QED
    BY <2>1, <2>6, <2>10, <2>11 DEF FreshOf, WholeVector, Whole, MadeIn
<1> QED
  BY <1>1, <1>2, <1>3, <1>4, <1>5, <1>6, <1>7, <1>8 DEF Control

\* The channel operations of p.
LEMMA FreshCommunicate ==
    ASSUME TypeOK, Counters, Fresh, NEW p \in Party, NEW s \in Strand, Communicate(p, s)
    PROVE  FreshOf(p)'
<1>1. FreshOf(p) /\ UNCHANGED <<gens, out, baseOts, baseVole>>
  BY DEF Fresh, Communicate, Transmit, Receive, Break
<1>2. CASE Throw(p)
  BY <1>1, <1>2, FreshThrow
<1>3. CASE ~Throw(p)
  <2>1. UNCHANGED stage
    BY <1>3 DEF Communicate, Transmit, Receive, Break
  <2>2. noisy'[p] = noisy[p] \/ noisy'[p] = Junk(p)
    <3> DEFINE m == Head(net[p][Channel(p, s)])
    <3>1. \/ noisy' = noisy
          \/ noisy' = [noisy EXCEPT ![p] =
                         IF m.kind = "tree" /\ m.vector # @ THEN Junk(p) ELSE @]
      BY DEF Communicate, Transmit, Receive, Break, Inbox
    <3> HIDE DEF m
    <3> QED
      BY <3>1 DEF TypeOK
  <2>3. WholeVector(noisy[p])' => noisy'[p] = noisy[p] /\ WholeVector(noisy[p])
    BY <2>2, JunkNotWhole DEF WholeVector, Whole
  <2>4. Generated(p)' => Generated(p)
    BY <1>1, <2>1 DEF Generated
  <2> QED
    BY <1>1, <2>1, <2>3, <2>4, FreshKept DEF FreshOf, MadeIn
<1> QED
  BY <1>2, <1>3

\* No step uses a base correlation twice.
LEMMA FreshStep ==
    ASSUME TypeOK, Counters, Fresh, [Next]_vars
    PROVE  Fresh'
<1>1. ASSUME NEW p \in Party, Control(p) PROVE Fresh'
  <2>1. FreshOf(p)'
    BY <1>1, FreshControl
  <2>2. ASSUME NEW q \in Party \ {p} PROVE FreshOf(q)'
    BY <1>1, Untouched, FreshElsewhere DEF Fresh, Strand
  <2> QED
    BY <2>1, <2>2 DEF Fresh
<1>2. ASSUME NEW p \in Party, NEW s \in Strand, Communicate(p, s) PROVE Fresh'
  <2>1. FreshOf(p)'
    BY <1>2, FreshCommunicate
  <2>2. ASSUME NEW q \in Party \ {p} PROVE FreshOf(q)'
    BY <1>2, Untouched, FreshElsewhere DEF Fresh
  <2> QED
    BY <2>1, <2>2 DEF Fresh
<1>3. ASSUME Disconnect PROVE Fresh'
  BY <1>3, FreshElsewhere DEF Disconnect, StateOf, Fresh
<1>4. ASSUME UNCHANGED vars PROVE Fresh'
  BY <1>4, FreshElsewhere DEF vars, StateOf, Fresh
<1> QED
  BY <1>1, <1>2, <1>3, <1>4 DEF Next, Joined

\* Two calls never return vectors made from the same base OTs or the same base
\* VOLEs, whatever the sequence of configure, genSilentBaseOts and send calls,
\* the exceptions and the lost connections: the PPRF drops its base OTs when the
\* expansion ends, and clear() those of a call.
THEOREM CorrelationsAreFresh == Spec => []FreshCorrelations
<1>1. Init => Fresh
  BY FreshInit
<1>2. TypeOK /\ Counters /\ Fresh /\ [Next]_vars => Fresh'
  BY FreshStep
<1>3. Fresh => FreshCorrelations
  <2> SUFFICES ASSUME Fresh, NEW p \in Party,
                      NEW i \in DOMAIN out[p], NEW j \in DOMAIN out[p], i # j,
                      WholeVector(out[p][i].vector), WholeVector(out[p][j].vector)
               PROVE  /\ out[p][i].vector.ots # out[p][j].vector.ots
                      /\ out[p][i].vector.vole # out[p][j].vector.vole
    BY DEF FreshCorrelations
  <2>1. /\ out[p][i].vector.ots[p] # out[p][j].vector.ots[p]
        /\ out[p][i].vector.vole[p] = out[p][i].vector.ots[p]
        /\ out[p][j].vector.vole[p] = out[p][j].vector.ots[p]
    BY DEF Fresh, FreshOf, MadeIn
  <2> QED
    BY <2>1
<1> QED
  BY <1>1, <1>2, <1>3, TypeCorrect, PTL DEF Spec
-----------------------------------------------------------------------------
(***************************************************************************)
(* The two parties stay in step, so they return the halves of the same     *)
(* correlations and implement VoleFunctionality, with lost connections and *)
(* exceptions.  First comes the algebra of what two parties have left to   *)
(* do: sequences of steps, their opposites and the messages between them,  *)
(* and the two halves of every sub-protocol, which are opposites.          *)
(***************************************************************************)

-----------------------------------------------------------------------------
(* Sequences of operations and their opposites.                            *)

\* A side that is flipped twice is itself.
LEMMA FlipType ==
    /\ \A x \in Op : Flip(x) \in Op /\ Flip(Flip(x)) = x
    /\ \A x \in Step : Flip(x) \in Step /\ Flip(Flip(x)) = x
<1> DEFINE Other(io) == IF io = "send" THEN "recv" ELSE "send"
<1>0. \A io \in {"send", "recv"} : Other(io) \in {"send", "recv"} /\ Other(Other(io)) = io
  OBVIOUS
<1> HIDE DEF Other
<1>1. ASSUME NEW x \in Op PROVE Flip(x) \in Op /\ Flip(Flip(x)) = x
  <2>1. x.io \in {"send", "recv"} /\ x.kind \in Kind /\ x = [io |-> x.io, kind |-> x.kind]
    BY DEF Op
  <2>2. Flip(x) = [io |-> Other(x.io), kind |-> x.kind]
    BY <2>1 DEF Flip, Other
  <2>3. Flip([io |-> Other(x.io), kind |-> x.kind])
           = [io |-> Other(Other(x.io)), kind |-> x.kind]
    BY DEF Flip, Other
  <2> QED
    BY <1>0, <2>1, <2>2, <2>3 DEF Op
<1>2. ASSUME NEW x \in Step PROVE Flip(x) \in Step /\ Flip(Flip(x)) = x
  <2>1. /\ x.io \in {"send", "recv"} /\ x.kind \in Kind /\ x.gen \in Nat
        /\ x = [io |-> x.io, kind |-> x.kind, gen |-> x.gen]
    BY DEF Step
  <2>2. Flip(x) = [io |-> Other(x.io), kind |-> x.kind, gen |-> x.gen]
    BY <2>1 DEF Flip, Other
  <2>3. Flip([io |-> Other(x.io), kind |-> x.kind, gen |-> x.gen])
           = [io |-> Other(Other(x.io)), kind |-> x.kind, gen |-> x.gen]
    BY DEF Flip, Other
  <2> QED
    BY <1>0, <2>1, <2>2, <2>3 DEF Step
<1> QED
  BY <1>1, <1>2

\* The opposite of a sequence, element by element.
LEMMA OppositeSeq ==
    ASSUME NEW S, \A x \in S : Flip(x) \in S /\ Flip(Flip(x)) = x, NEW a \in Seq(S)
    PROVE  /\ Opposite(a) \in Seq(S)
           /\ Len(Opposite(a)) = Len(a)
           /\ \A i \in 1 .. Len(a) : Opposite(a)[i] = Flip(a[i])
           /\ Opposite(Opposite(a)) = a
<1>1. DOMAIN a = 1 .. Len(a) /\ Len(a) \in Nat /\ \A i \in 1 .. Len(a) : a[i] \in S
  BY LenProperties, ElementOfSeq
<1>2. Opposite(a) = [i \in 1 .. Len(a) |-> Flip(a[i])]
  BY <1>1 DEF Opposite
<1>3. Opposite(a) \in [1 .. Len(a) -> S]
  BY <1>1, <1>2
<1>4. Opposite(a) \in Seq(S) /\ Len(Opposite(a)) = Len(a)
  BY <1>1, <1>3
<1>5. \A i \in 1 .. Len(a) : Opposite(a)[i] = Flip(a[i])
  BY <1>2
<1>6. Opposite(Opposite(a)) = [i \in 1 .. Len(a) |-> Flip(Opposite(a)[i])]
  <2>1. DOMAIN Opposite(a) = 1 .. Len(a)
    BY <1>2
  <2> QED
    BY <2>1 DEF Opposite
<1>7. Opposite(Opposite(a)) = [i \in 1 .. Len(a) |-> a[i]]
  BY <1>1, <1>5, <1>6
<1>8. a = [i \in 1 .. Len(a) |-> a[i]]
  BY <1>1, LenProperties
<1> QED
  BY <1>4, <1>5, <1>7, <1>8

\* Opposites are taken part by part.
LEMMA OppositeConcat ==
    ASSUME NEW S, \A x \in S : Flip(x) \in S /\ Flip(Flip(x)) = x,
           NEW a \in Seq(S), NEW b \in Seq(S)
    PROVE  Opposite(a \o b) = Opposite(a) \o Opposite(b)
<1>1. /\ a \o b \in Seq(S) /\ Len(a \o b) = Len(a) + Len(b)
      /\ \A i \in 1 .. Len(a) + Len(b) :
            (a \o b)[i] = IF i <= Len(a) THEN a[i] ELSE b[i - Len(a)]
      /\ Len(a) \in Nat /\ Len(b) \in Nat
  BY ConcatProperties, LenProperties
<1>2. /\ Opposite(a) \in Seq(S) /\ Opposite(b) \in Seq(S) /\ Opposite(a \o b) \in Seq(S)
      /\ Len(Opposite(a)) = Len(a) /\ Len(Opposite(b)) = Len(b)
      /\ Len(Opposite(a \o b)) = Len(a) + Len(b)
      /\ \A i \in 1 .. Len(a) : Opposite(a)[i] = Flip(a[i])
      /\ \A i \in 1 .. Len(b) : Opposite(b)[i] = Flip(b[i])
      /\ \A i \in 1 .. Len(a) + Len(b) : Opposite(a \o b)[i] = Flip((a \o b)[i])
  BY <1>1, OppositeSeq
<1>3. /\ Opposite(a) \o Opposite(b) \in Seq(S)
      /\ Len(Opposite(a) \o Opposite(b)) = Len(a) + Len(b)
      /\ \A i \in 1 .. Len(a) + Len(b) :
            (Opposite(a) \o Opposite(b))[i] =
               IF i <= Len(a) THEN Opposite(a)[i] ELSE Opposite(b)[i - Len(a)]
  BY <1>2, ConcatProperties
<1>4. ASSUME NEW i \in 1 .. Len(a) + Len(b)
      PROVE  Opposite(a \o b)[i] = (Opposite(a) \o Opposite(b))[i]
  <2>1. CASE i <= Len(a)
    BY <2>1, <1>1, <1>2, <1>3
  <2>2. CASE ~(i <= Len(a))
    <3>1. i - Len(a) \in 1 .. Len(b)
      BY <2>2, <1>1
    <3>2. Opposite(a \o b)[i] = Flip(b[i - Len(a)])
      BY <2>2, <1>1, <1>2
    <3>3. (Opposite(a) \o Opposite(b))[i] = Flip(b[i - Len(a)])
      BY <2>2, <3>1, <1>2, <1>3
    <3> QED
      BY <3>2, <3>3
  <2> QED
    BY <2>1, <2>2
<1> QED
  BY <1>2, <1>3, <1>4, SeqEqual

\* Short sequences and their opposites.
LEMMA OppositeShort ==
    /\ Opposite(<<>>) = <<>>
    /\ \A x : Opposite(<<x>>) = <<Flip(x)>>
    /\ \A x, y : Opposite(<<x, y>>) = <<Flip(x), Flip(y)>>
    /\ \A x, y, z : Opposite(<<x, y, z>>) = <<Flip(x), Flip(y), Flip(z)>>
BY DEF Opposite

\* Operations marked with their generation.
LEMMA StepsSeq ==
    ASSUME NEW g \in Nat, NEW a \in Seq(Op)
    PROVE  /\ Steps(a, g) \in Seq(Step)
           /\ Len(Steps(a, g)) = Len(a)
           /\ \A i \in 1 .. Len(a) :
                 Steps(a, g)[i] = [io |-> a[i].io, kind |-> a[i].kind, gen |-> g]
<1>1. DOMAIN a = 1 .. Len(a) /\ Len(a) \in Nat /\ \A i \in 1 .. Len(a) : a[i] \in Op
  BY LenProperties, ElementOfSeq
<1>2. Steps(a, g) =
         [i \in 1 .. Len(a) |-> [io |-> a[i].io, kind |-> a[i].kind, gen |-> g]]
  BY <1>1 DEF Steps
<1>3. Steps(a, g) \in [1 .. Len(a) -> Step]
  BY <1>1, <1>2 DEF Op, Step
<1> QED
  BY <1>1, <1>2, <1>3

\* Marking goes part by part, and does not care for the side.
LEMMA StepsConcat ==
    ASSUME NEW g \in Nat, NEW a \in Seq(Op), NEW b \in Seq(Op)
    PROVE  /\ Steps(a \o b, g) = Steps(a, g) \o Steps(b, g)
           /\ Steps(Opposite(a), g) = Opposite(Steps(a, g))
           /\ Steps(a, g) = <<>> <=> a = <<>>
<1>0. /\ a \o b \in Seq(Op) /\ Len(a \o b) = Len(a) + Len(b)
      /\ \A i \in 1 .. Len(a) + Len(b) :
            (a \o b)[i] = IF i <= Len(a) THEN a[i] ELSE b[i - Len(a)]
      /\ Len(a) \in Nat /\ Len(b) \in Nat
  BY ConcatProperties, LenProperties
<1> DEFINE mark(x) == [io |-> x.io, kind |-> x.kind, gen |-> g]
<1>1. Steps(a \o b, g) = Steps(a, g) \o Steps(b, g)
  <2>1. /\ Steps(a, g) \in Seq(Step) /\ Len(Steps(a, g)) = Len(a)
        /\ \A i \in 1 .. Len(a) : Steps(a, g)[i] = mark(a[i])
    BY StepsSeq
  <2>2. /\ Steps(b, g) \in Seq(Step) /\ Len(Steps(b, g)) = Len(b)
        /\ \A i \in 1 .. Len(b) : Steps(b, g)[i] = mark(b[i])
    BY StepsSeq
  <2>3. /\ Steps(a \o b, g) \in Seq(Step) /\ Len(Steps(a \o b, g)) = Len(a) + Len(b)
        /\ \A i \in 1 .. Len(a) + Len(b) : Steps(a \o b, g)[i] = mark((a \o b)[i])
    <3> DEFINE c == a \o b
    <3>1. c \in Seq(Op) /\ Len(c) = Len(a) + Len(b)
      BY <1>0
    <3> HIDE DEF c
    <3>2. /\ Steps(c, g) \in Seq(Step) /\ Len(Steps(c, g)) = Len(a) + Len(b)
          /\ \A i \in 1 .. Len(a) + Len(b) : Steps(c, g)[i] = mark(c[i])
      BY <3>1, StepsSeq
    <3> QED
      BY <3>2 DEF c
  <2> HIDE DEF mark
  <2>4. /\ Steps(a, g) \o Steps(b, g) \in Seq(Step)
        /\ Len(Steps(a, g) \o Steps(b, g)) = Len(a) + Len(b)
        /\ \A i \in 1 .. Len(a) + Len(b) :
              (Steps(a, g) \o Steps(b, g))[i] =
                 IF i <= Len(a) THEN Steps(a, g)[i] ELSE Steps(b, g)[i - Len(a)]
    <3> DEFINE u == Steps(a, g)
               v == Steps(b, g)
    <3>1. u \in Seq(Step) /\ v \in Seq(Step) /\ Len(u) = Len(a) /\ Len(v) = Len(b)
      BY <2>1, <2>2
    <3> HIDE DEF u, v
    <3>2. /\ u \o v \in Seq(Step)
          /\ Len(u \o v) = Len(u) + Len(v)
          /\ \A i \in 1 .. Len(u) + Len(v) :
                (u \o v)[i] = IF i <= Len(u) THEN u[i] ELSE v[i - Len(u)]
      BY <3>1, ConcatProperties
    <3> QED
      BY <3>1, <3>2 DEF u, v
  <2>5. ASSUME NEW i \in 1 .. Len(a) + Len(b)
        PROVE  Steps(a \o b, g)[i] = (Steps(a, g) \o Steps(b, g))[i]
    <3>1. CASE i <= Len(a)
      BY <3>1, <1>0, <2>1, <2>3, <2>4
    <3>2. CASE ~(i <= Len(a))
      <4>1. i - Len(a) \in 1 .. Len(b)
        BY <3>2, <1>0
      <4> QED
        BY <3>2, <4>1, <1>0, <2>2, <2>3, <2>4
    <3> QED
      BY <3>1, <3>2
  <2> QED
    BY <2>3, <2>4, <2>5, SeqEqual
<1>2. Steps(Opposite(a), g) = Opposite(Steps(a, g))
  <2>1. /\ Opposite(a) \in Seq(Op) /\ Len(Opposite(a)) = Len(a)
        /\ \A i \in 1 .. Len(a) : Opposite(a)[i] = Flip(a[i]) /\ a[i] \in Op
    BY FlipType, OppositeSeq, ElementOfSeq
  <2>2. /\ Steps(Opposite(a), g) \in Seq(Step) /\ Len(Steps(Opposite(a), g)) = Len(a)
        /\ \A i \in 1 .. Len(a) : Steps(Opposite(a), g)[i] = mark(Flip(a[i]))
        /\ Steps(a, g) \in Seq(Step) /\ Len(Steps(a, g)) = Len(a)
        /\ \A i \in 1 .. Len(a) : Steps(a, g)[i] = mark(a[i])
    <3>1. /\ Steps(a, g) \in Seq(Step) /\ Len(Steps(a, g)) = Len(a)
          /\ \A i \in 1 .. Len(a) : Steps(a, g)[i] = mark(a[i])
      BY StepsSeq
    <3> DEFINE o == Opposite(a)
    <3>2. /\ Steps(o, g) \in Seq(Step) /\ Len(Steps(o, g)) = Len(o)
          /\ \A i \in 1 .. Len(o) : Steps(o, g)[i] = mark(o[i])
      BY <2>1, StepsSeq
    <3> QED
      BY <2>1, <3>1, <3>2
  <2>3. /\ Opposite(Steps(a, g)) \in Seq(Step) /\ Len(Opposite(Steps(a, g))) = Len(a)
        /\ \A i \in 1 .. Len(a) : Opposite(Steps(a, g))[i] = Flip(mark(a[i]))
    BY <2>2, FlipType, OppositeSeq
  <2>4. ASSUME NEW x \in Op PROVE Flip(mark(x)) = mark(Flip(x))
    BY DEF Flip, Op
  <2> HIDE DEF mark
  <2> QED
    BY <2>1, <2>2, <2>3, <2>4, SeqEqual
<1>3. Steps(a, g) = <<>> <=> a = <<>>
  <2>1. Steps(a, g) \in Seq(Step) /\ Len(Steps(a, g)) = Len(a)
    BY StepsSeq
  <2> QED
    BY <2>1, EmptySeq
<1> QED
  BY <1>1, <1>2, <1>3

\* The step a message asks for.
Await(m) == [io |-> "recv", kind |-> m.kind, gen |-> m.gen]

\* The steps a channel asks for.
LEMMA AwaitsSeq ==
    ASSUME NEW msgs \in Seq(Message)
    PROVE  /\ Awaits(msgs) \in Seq(Step)
           /\ Len(Awaits(msgs)) = Len(msgs)
           /\ \A i \in 1 .. Len(msgs) : Awaits(msgs)[i] = Await(msgs[i])
           /\ Awaits(msgs) = <<>> <=> msgs = <<>>
<1>1. /\ DOMAIN msgs = 1 .. Len(msgs) /\ Len(msgs) \in Nat
      /\ \A i \in 1 .. Len(msgs) : msgs[i] \in Message
  BY LenProperties, ElementOfSeq
<1>2. Awaits(msgs) = [i \in 1 .. Len(msgs) |-> Await(msgs[i])]
  BY <1>1 DEF Awaits, Await
<1>3. Awaits(msgs) \in [1 .. Len(msgs) -> Step]
  BY <1>1, <1>2 DEF Message, Step, Await
<1>4. /\ Awaits(msgs) \in Seq(Step) /\ Len(Awaits(msgs)) = Len(msgs)
      /\ \A i \in 1 .. Len(msgs) : Awaits(msgs)[i] = Await(msgs[i])
  BY <1>1, <1>2, <1>3
<1>5. Awaits(msgs) = <<>> <=> msgs = <<>>
  BY <1>4, EmptySeq
<1> QED
  BY <1>4, <1>5

\* A sequence is its head and its tail.
LEMMA SeqSplit ==
    ASSUME NEW S, NEW a \in Seq(S), a # <<>>
    PROVE  /\ Head(a) \in S /\ Tail(a) \in Seq(S) /\ <<Head(a)>> \in Seq(S)
           /\ a = <<Head(a)>> \o Tail(a)
<1> DEFINE h == <<Head(a)>>
           t == Tail(a)
<1>1. /\ Head(a) \in S /\ t \in Seq(S) /\ Len(t) = Len(a) - 1
      /\ \A i \in 1 .. Len(t) : t[i] = a[i + 1]
      /\ Head(a) = a[1] /\ Len(a) \in Nat \ {0}
  BY HeadTailProperties, EmptySeq
<1>2. h \in Seq(S) /\ Len(h) = 1 /\ h[1] = a[1]
  BY <1>1
<1> HIDE DEF h, t
<1>3. /\ h \o t \in Seq(S) /\ Len(h \o t) = Len(h) + Len(t)
      /\ \A i \in 1 .. Len(h) + Len(t) :
            (h \o t)[i] = IF i <= Len(h) THEN h[i] ELSE t[i - Len(h)]
  BY <1>1, <1>2, ConcatProperties
<1>4. ASSUME NEW i \in 1 .. Len(a) PROVE a[i] = (h \o t)[i]
  <2>1. CASE i = 1
    BY <2>1, <1>1, <1>2, <1>3
  <2>2. CASE i # 1
    <3>1. i - 1 \in 1 .. Len(t) /\ ~(i <= Len(h)) /\ i \in 1 .. Len(h) + Len(t)
      BY <2>2, <1>1, <1>2
    <3> QED
      BY <3>1, <1>1, <1>2, <1>3
  <2> QED
    BY <2>1, <2>2
<1>5. a = h \o t
  BY <1>1, <1>2, <1>3, <1>4, SeqEqual
<1> QED
  BY <1>1, <1>2, <1>5 DEF h, t

\* Two sequences that begin with one element each.
LEMMA SplitEqual ==
    ASSUME NEW S, NEW x \in S, NEW y \in S, NEW a \in Seq(S), NEW b \in Seq(S),
           <<x>> \o a = <<y>> \o b
    PROVE  x = y /\ a = b
<1> DEFINE u == <<x>>
           v == <<y>>
<1>1. u \in Seq(S) /\ v \in Seq(S) /\ Len(u) = 1 /\ Len(v) = 1 /\ u[1] = x /\ v[1] = y
  OBVIOUS
<1>2. u \o a = v \o b
  OBVIOUS
<1> HIDE DEF u, v
<1>3. Len(a) \in Nat /\ Len(b) \in Nat
  BY LenProperties
<1>4. (u \o a)[1] = u[1]
  BY <1>1, <1>3, ConcatProperties
<1>5. (v \o b)[1] = v[1]
  BY <1>1, <1>3, ConcatProperties
<1>6. x = y
  BY <1>1, <1>2, <1>4, <1>5
<1>7. u = v
  BY <1>6 DEF u, v
<1> QED
  BY <1>1, <1>2, <1>6, <1>7, ConcatSimplifications, Zenon

\* Sending adds a message at the end of a channel, and receiving takes the first.
LEMMA AwaitsSplit ==
    ASSUME NEW msgs \in Seq(Message)
    PROVE  /\ \A m \in Message : Awaits(Append(msgs, m)) = Awaits(msgs) \o <<Await(m)>>
           /\ msgs # <<>> => /\ Await(Head(msgs)) \in Step
                             /\ Tail(msgs) \in Seq(Message)
                             /\ Awaits(msgs) = <<Await(Head(msgs))>> \o Awaits(Tail(msgs))
<1>1. /\ Awaits(msgs) \in Seq(Step) /\ Len(Awaits(msgs)) = Len(msgs)
      /\ \A i \in 1 .. Len(msgs) : Awaits(msgs)[i] = Await(msgs[i])
      /\ Awaits(msgs) = <<>> <=> msgs = <<>>
      /\ Len(msgs) \in Nat
  BY AwaitsSeq, LenProperties
<1>2. \A m \in Message : Await(m) \in Step
  BY DEF Await, Message, Step
<1>3. ASSUME NEW m \in Message
      PROVE  Awaits(Append(msgs, m)) = Awaits(msgs) \o <<Await(m)>>
  <2> DEFINE n == Append(msgs, m)
             x == Await(m)
  <2>1. /\ n \in Seq(Message) /\ Len(n) = Len(msgs) + 1
        /\ \A i \in 1 .. Len(msgs) : n[i] = msgs[i]
        /\ n[Len(msgs) + 1] = m
    BY AppendProperties
  <2>2. x \in Step
    BY <1>2
  <2>3. Awaits(msgs) \o <<x>> = Append(Awaits(msgs), x)
    BY <1>1, <2>2, AppendIsConcat
  <2> HIDE DEF n, x
  <2>4. /\ Append(Awaits(msgs), x) \in Seq(Step)
        /\ Len(Append(Awaits(msgs), x)) = Len(msgs) + 1
        /\ \A i \in 1 .. Len(msgs) : Append(Awaits(msgs), x)[i] = Awaits(msgs)[i]
        /\ Append(Awaits(msgs), x)[Len(msgs) + 1] = x
    BY <1>1, <2>2, AppendProperties
  <2>5. /\ Awaits(n) \in Seq(Step) /\ Len(Awaits(n)) = Len(msgs) + 1
        /\ \A i \in 1 .. Len(msgs) + 1 : Awaits(n)[i] = Await(n[i])
    BY <2>1, AwaitsSeq
  <2>6. ASSUME NEW i \in 1 .. Len(msgs) + 1
        PROVE  Awaits(n)[i] = Append(Awaits(msgs), x)[i]
    <3>1. CASE i \in 1 .. Len(msgs)
      BY <3>1, <1>1, <2>1, <2>4, <2>5
    <3>2. CASE i = Len(msgs) + 1
      BY <3>2, <2>1, <2>4, <2>5 DEF x
    <3> QED
      BY <3>1, <3>2, <1>1
  <2>7. Awaits(n) = Append(Awaits(msgs), x)
    BY <2>4, <2>5, <2>6, SeqEqual
  <2> QED
    BY <2>3, <2>7 DEF n, x
<1>4. ASSUME msgs # <<>>
      PROVE  /\ Await(Head(msgs)) \in Step
             /\ Tail(msgs) \in Seq(Message)
             /\ Awaits(msgs) = <<Await(Head(msgs))>> \o Awaits(Tail(msgs))
  <2> DEFINE t == Tail(msgs)
             a == Awaits(msgs)
  <2>1. /\ Head(msgs) \in Message /\ t \in Seq(Message) /\ Len(t) = Len(msgs) - 1
        /\ \A i \in 1 .. Len(t) : t[i] = msgs[i + 1]
        /\ Head(msgs) = msgs[1] /\ Len(msgs) \in Nat \ {0}
    BY <1>4, HeadTailProperties, EmptySeq
  <2>2. a \in Seq(Step) /\ a # <<>>
    BY <1>1, <1>4
  <2>3. a = <<Head(a)>> \o Tail(a) /\ Head(a) = a[1] /\ Tail(a) \in Seq(Step)
        /\ Len(Tail(a)) = Len(a) - 1 /\ \A i \in 1 .. Len(Tail(a)) : Tail(a)[i] = a[i + 1]
    BY <2>2, SeqSplit, HeadTailProperties
  <2>4. Head(a) = Await(Head(msgs))
    BY <2>1, <2>3, <1>1
  <2> HIDE DEF t
  <2>5. /\ Awaits(t) \in Seq(Step) /\ Len(Awaits(t)) = Len(t)
        /\ \A i \in 1 .. Len(t) : Awaits(t)[i] = Await(t[i])
    BY <2>1, AwaitsSeq
  <2>6. ASSUME NEW i \in 1 .. Len(t) PROVE Awaits(t)[i] = Tail(a)[i]
    <3>1. i + 1 \in 1 .. Len(msgs) /\ i \in 1 .. Len(Tail(a))
      BY <1>1, <2>1, <2>3
    <3> QED
      BY <3>1, <1>1, <2>1, <2>3, <2>5
  <2>7. Awaits(t) = Tail(a)
    <3>1. Len(Awaits(t)) = Len(Tail(a)) /\ Len(Awaits(t)) = Len(t)
      BY <1>1, <2>1, <2>3, <2>5
    <3> HIDE DEF a
    <3> QED
      BY <2>3, <2>5, <2>6, <3>1, SeqEqual
  <2> QED
    BY <1>2, <2>1, <2>3, <2>4, <2>7 DEF t
<1> QED
  BY <1>3, <1>4

-----------------------------------------------------------------------------
(* What sending, receiving and a new call do to two parties in step.       *)

\* Only receives.
AllRecv(a) == \A i \in 1 .. Len(a) : a[i].io = "recv"

\* Messages ask for receives.
LEMMA AwaitsRecv ==
    ASSUME NEW msgs \in Seq(Message)
    PROVE  AllRecv(Awaits(msgs))
<1>1. \A m : Await(m).io = "recv"
  BY DEF Await
<1>2. Len(Awaits(msgs)) = Len(msgs)
      /\ \A i \in 1 .. Len(msgs) : Awaits(msgs)[i] = Await(msgs[i])
  BY AwaitsSeq
<1> QED
  BY <1>1, <1>2 DEF AllRecv

\* The rules by which sequences of steps are put together and taken apart.
LEMMA StepAlgebra ==
    /\ <<>> \in Seq(Step)
    /\ \A x \in Step : <<x>> \in Seq(Step)
    /\ \A x \in Step : Flip(x) \in Step
    /\ \A x \in Step : Opposite(<<x>>) = <<Flip(x)>>
    /\ \A a, b \in Seq(Step) : a \o b \in Seq(Step)
    /\ \A a \in Seq(Step) : a \o <<>> = a
    /\ \A a \in Seq(Step) : <<>> \o a = a
    /\ \A a \in Seq(Step) : Opposite(a) \in Seq(Step)
    /\ \A a \in Seq(Step) : Opposite(Opposite(a)) = a
    /\ \A a, b \in Seq(Step) : Opposite(a \o b) = Opposite(a) \o Opposite(b)
<1>1. <<>> \in Seq(Step) /\ \A x \in Step : <<x>> \in Seq(Step)
  BY EmptySeq
<1>2. \A x \in Step : Flip(x) \in Step /\ Flip(Flip(x)) = x
  BY FlipType
<1>3. \A x \in Step : Opposite(<<x>>) = <<Flip(x)>>
  BY OppositeShort
<1>4. \A a, b \in Seq(Step) : a \o b \in Seq(Step)
  BY ConcatProperties
<1>6. \A a \in Seq(Step) : a \o <<>> = a /\ <<>> \o a = a
  BY ConcatEmptySeq
<1>7. \A a \in Seq(Step) : Opposite(a) \in Seq(Step) /\ Opposite(Opposite(a)) = a
  BY <1>2, OppositeSeq
<1>8. \A a, b \in Seq(Step) : Opposite(a \o b) = Opposite(a) \o Opposite(b)
  BY <1>2, OppositeConcat
<1> QED
  BY <1>1, <1>2, <1>3, <1>4, <1>6, <1>7, <1>8

\* Joining sequences of steps is associative.
LEMMA StepAssociative ==
    \A a, b, c \in Seq(Step) : (a \o b) \o c = a \o (b \o c)
BY ConcatAssociative

\* The first step of a sequence, and the rest.
LEMMA StepSplit ==
    \A x \in Step, a \in Seq(Step) : Head(<<x>> \o a) = x /\ Tail(<<x>> \o a) = a
<1> SUFFICES ASSUME NEW x \in Step, NEW a \in Seq(Step)
             PROVE  Head(<<x>> \o a) = x /\ Tail(<<x>> \o a) = a
  OBVIOUS
<1> DEFINE u == <<x>>
           c == u \o a
<1>1. u \in Seq(Step) /\ Len(u) = 1 /\ u[1] = x
  OBVIOUS
<1> HIDE DEF u
<1>2. /\ c \in Seq(Step) /\ Len(c) = 1 + Len(a) /\ c[1] = x /\ Len(a) \in Nat
  <2>1. /\ u \o a \in Seq(Step) /\ Len(u \o a) = Len(u) + Len(a)
        /\ \A i \in 1 .. Len(u) + Len(a) :
              (u \o a)[i] = IF i <= Len(u) THEN u[i] ELSE a[i - Len(u)]
    BY <1>1, ConcatProperties
  <2>2. Len(a) \in Nat
    BY LenProperties
  <2> QED
    BY <1>1, <2>1, <2>2
<1>3. c # <<>>
  BY <1>2, EmptySeq
<1> HIDE DEF c
<1>4. <<Head(c)>> \o Tail(c) = c /\ Head(c) = c[1] /\ Head(c) \in Step /\ Tail(c) \in Seq(Step)
  BY <1>2, <1>3, SeqSplit
<1>5. <<x>> \o Tail(c) = <<x>> \o a
  BY <1>2, <1>4 DEF c, u
<1>6. Tail(c) = a
  BY <1>4, <1>5, SplitEqual
<1> QED
  BY <1>2, <1>4, <1>6 DEF c, u

\* A party with a message on its way takes it, and the parties stay in step.
LEMMA FollowsReceive ==
    ASSUME NEW x \in Step, NEW y \in Step, NEW a \in Seq(Step), NEW toA \in Seq(Step),
           NEW b \in Seq(Step), NEW toB \in Seq(Step),
           Follows(<<x>> \o a, <<y>> \o toA, b, toB)
    PROVE  x = y /\ Follows(a, toA, b, toB)
<1>1. <<y>> \in Seq(Step) /\ Opposite(b) \in Seq(Step)
  BY StepAlgebra, Zenon
<1>2. toB = <<>> /\ <<x>> \o a = (<<y>> \o toA) \o Opposite(b)
  BY DEF Follows
<1>3. (<<y>> \o toA) \o Opposite(b) = <<y>> \o (toA \o Opposite(b))
  BY <1>1, StepAssociative
<1>4. toA \o Opposite(b) \in Seq(Step)
  BY <1>1, StepAlgebra, Zenon
<1>5. <<x>> \o a = <<y>> \o (toA \o Opposite(b))
  BY <1>2, <1>3, Zenon
<1>6. x = y /\ a = toA \o Opposite(b)
  <2>1. Head(<<x>> \o a) = x /\ Tail(<<x>> \o a) = a
    BY StepSplit, Zenon
  <2>2. /\ Head(<<y>> \o (toA \o Opposite(b))) = y
        /\ Tail(<<y>> \o (toA \o Opposite(b))) = toA \o Opposite(b)
    BY <1>4, StepSplit, Zenon
  <2> QED
    BY <1>5, <2>1, <2>2, Zenon
<1> QED
  BY <1>2, <1>6 DEF Follows

\* A party whose next step is to send waits for nothing.
LEMMA NothingToSender ==
    ASSUME NEW x \in Step, x.io = "send", NEW a \in Seq(Step), NEW toA \in Seq(Step),
           AllRecv(toA), NEW rest \in Seq(Step), <<x>> \o a = toA \o rest
    PROVE  toA = <<>>
<1> SUFFICES ASSUME toA # <<>> PROVE FALSE
  OBVIOUS
<1>1. /\ Head(toA) \in Step /\ Tail(toA) \in Seq(Step) /\ <<Head(toA)>> \in Seq(Step)
      /\ toA = <<Head(toA)>> \o Tail(toA)
  BY SeqSplit
<1>2. Head(toA).io = "recv"
  BY EmptySeq DEF AllRecv
<1>3. (<<Head(toA)>> \o Tail(toA)) \o rest = <<Head(toA)>> \o (Tail(toA) \o rest)
  BY <1>1, StepAssociative, Zenon
<1>4. Tail(toA) \o rest \in Seq(Step)
  BY <1>1, StepAlgebra, Zenon
<1>5. <<x>> \o a = <<Head(toA)>> \o (Tail(toA) \o rest)
  BY <1>1, <1>3, Zenon
<1>6. x = Head(toA)
  <2>1. Head(<<x>> \o a) = x
    BY StepSplit, Zenon
  <2>2. Head(<<Head(toA)>> \o (Tail(toA) \o rest)) = Head(toA)
    BY <1>1, <1>4, StepSplit, Zenon
  <2> QED
    BY <1>5, <2>1, <2>2, Zenon
<1> QED
  BY <1>2, <1>6

\* A party that sends has the other wait for its message.
LEMMA FollowsSend ==
    ASSUME NEW x \in Step, x.io = "send", NEW a \in Seq(Step), NEW toA \in Seq(Step),
           AllRecv(toA), NEW b \in Seq(Step), NEW toB \in Seq(Step),
           \/ Follows(<<x>> \o a, toA, b, toB)
           \/ Follows(b, toB, <<x>> \o a, toA)
    PROVE  Follows(b, toB \o <<Flip(x)>>, a, toA)
<1>1. /\ <<x>> \in Seq(Step) /\ <<Flip(x)>> \in Seq(Step) /\ Opposite(a) \in Seq(Step)
      /\ Opposite(b) \in Seq(Step)
  BY StepAlgebra, Zenon
<1>2. Opposite(<<x>> \o a) = <<Flip(x)>> \o Opposite(a)
  <2>1. Opposite(<<x>> \o a) = Opposite(<<x>>) \o Opposite(a)
    BY <1>1, StepAlgebra, Zenon
  <2>2. Opposite(<<x>>) = <<Flip(x)>>
    BY OppositeShort, Zenon
  <2> QED
    BY <2>1, <2>2, Zenon
<1>3. CASE Follows(b, toB, <<x>> \o a, toA)
  <2>1. toA = <<>> /\ b = toB \o Opposite(<<x>> \o a)
    BY <1>3 DEF Follows
  <2>2. b = toB \o (<<Flip(x)>> \o Opposite(a))
    BY <1>2, <2>1, Zenon
  <2>3. (toB \o <<Flip(x)>>) \o Opposite(a) = toB \o (<<Flip(x)>> \o Opposite(a))
    BY <1>1, StepAssociative, Zenon
  <2> QED
    BY <2>1, <2>2, <2>3, Zenon DEF Follows
<1>4. CASE Follows(<<x>> \o a, toA, b, toB)
  <2>1. toB = <<>> /\ <<x>> \o a = toA \o Opposite(b)
    BY <1>4 DEF Follows
  <2>2. toA = <<>>
    BY <1>1, <2>1, NothingToSender
  <2>3. <<x>> \o a = Opposite(b)
    BY <1>1, <2>1, <2>2, StepAlgebra, Zenon
  <2>4. b = Opposite(<<x>> \o a)
    BY <2>3, StepAlgebra, Zenon
  <2>5. toB \o <<Flip(x)>> = <<Flip(x)>>
    BY <1>1, <2>1, StepAlgebra, Zenon
  <2> QED
    BY <1>2, <2>2, <2>4, <2>5, Zenon DEF Follows
<1> QED
  BY <1>3, <1>4

\* Joining the other sides of steps is associative.
LEMMA JoinOpposites ==
    ASSUME NEW a \in Seq(Step), NEW b, NEW c,
           Opposite(b) \in Seq(Step), Opposite(c) \in Seq(Step)
    PROVE  (a \o Opposite(b)) \o Opposite(c) = a \o (Opposite(b) \o Opposite(c))
BY StepAssociative, Zenon

\* Both parties go on to the two sides of the same call.
LEMMA FollowsExtend ==
    ASSUME NEW a \in Seq(Step), NEW toA \in Seq(Step), NEW b \in Seq(Step),
           NEW toB \in Seq(Step), NEW e \in Seq(Step), Follows(a, toA, b, toB)
    PROVE  Follows(a \o Opposite(e), toA, b \o e, toB)
<1>1. Opposite(b) \in Seq(Step) /\ Opposite(e) \in Seq(Step)
  BY StepAlgebra, Zenon
<1>2. Opposite(b \o e) = Opposite(b) \o Opposite(e)
  BY StepAlgebra, Zenon
<1>3. toB = <<>> /\ a = toA \o Opposite(b)
  BY DEF Follows
<1>4. (toA \o Opposite(b)) \o Opposite(e) = toA \o (Opposite(b) \o Opposite(e))
  BY <1>1, JoinOpposites, SMTT(30)
<1> QED
  BY <1>2, <1>3, <1>4, Zenon DEF Follows

\* What a party finds on a channel is what it expects first.
LEMMA BeginsConcat ==
    ASSUME NEW t \in Seq(Step), NEW r \in Seq(Step)
    PROVE  Begins(t, t \o r)
<1>1. /\ Len(t \o r) = Len(t) + Len(r)
      /\ \A i \in 1 .. Len(t) + Len(r) : (t \o r)[i] = IF i <= Len(t) THEN t[i] ELSE r[i - Len(t)]
  BY ConcatProperties
<1>2. Len(t) \in Nat /\ Len(r) \in Nat /\ DOMAIN t = 1 .. Len(t)
  BY LenProperties
<1> QED
  BY <1>1, <1>2 DEF Begins

\* What is on its way is the beginning of what its receiver waits for.
LEMMA FollowsBegins ==
    ASSUME NEW a \in Seq(Step), NEW toA \in Seq(Step), NEW b \in Seq(Step),
           NEW toB \in Seq(Step), Follows(a, toA, b, toB)
    PROVE  Begins(toA, a) /\ Begins(toB, b)
<1>1. toB = <<>> /\ a = toA \o Opposite(b) /\ Opposite(b) \in Seq(Step)
  BY StepAlgebra DEF Follows
<1>2. Begins(toA, a)
  BY <1>1, BeginsConcat
<1>3. Begins(toB, b)
  BY <1>1, LenProperties, EmptySeq DEF Begins
<1> QED
  BY <1>2, <1>3

\* It still is when its receiver has more to do afterwards.
LEMMA BeginsExtend ==
    ASSUME NEW t \in Seq(Step), NEW a \in Seq(Step), NEW e \in Seq(Step), Begins(t, a)
    PROVE  Begins(t, a \o e)
<1>1. /\ Len(a \o e) = Len(a) + Len(e)
      /\ \A i \in 1 .. Len(a) + Len(e) : (a \o e)[i] = IF i <= Len(a) THEN a[i] ELSE e[i - Len(a)]
  BY ConcatProperties
<1>2. Len(t) \in Nat /\ Len(a) \in Nat /\ Len(e) \in Nat /\ DOMAIN t = 1 .. Len(t)
  BY LenProperties
<1>3. Len(t) <= Len(a) /\ \A i \in 1 .. Len(t) : t[i] = a[i]
  BY <1>2 DEF Begins
<1>4. Len(t) <= Len(a \o e)
  BY <1>1, <1>2, <1>3
<1>5. ASSUME NEW i \in 1 .. Len(t) PROVE t[i] = (a \o e)[i]
  BY <1>1, <1>2, <1>3
<1> QED
  BY <1>2, <1>4, <1>5 DEF Begins

\* An open party with a message on its way expects that message.
LEMMA BeginsReceive ==
    ASSUME NEW x \in Step, NEW y \in Step, NEW a \in Seq(Step), NEW t \in Seq(Step),
           Begins(<<y>> \o t, <<x>> \o a)
    PROVE  x = y /\ Begins(t, a)
<1> DEFINE u == <<x>>
           v == <<y>>
           ua == u \o a
           vt == v \o t
<1>1. u \in Seq(Step) /\ v \in Seq(Step) /\ Len(u) = 1 /\ Len(v) = 1 /\ u[1] = x /\ v[1] = y
  OBVIOUS
<1>2. Len(a) \in Nat /\ Len(t) \in Nat /\ DOMAIN t = 1 .. Len(t)
  BY LenProperties
<1>h. Begins(vt, ua)
  OBVIOUS
<1> HIDE DEF u, v
<1>3. /\ Len(u \o a) = Len(u) + Len(a)
      /\ \A i \in 1 .. Len(u) + Len(a) : (u \o a)[i] = IF i <= Len(u) THEN u[i] ELSE a[i - Len(u)]
  BY <1>1, ConcatProperties
<1>4. /\ v \o t \in Seq(Step) /\ Len(v \o t) = Len(v) + Len(t)
      /\ \A i \in 1 .. Len(v) + Len(t) : (v \o t)[i] = IF i <= Len(v) THEN v[i] ELSE t[i - Len(v)]
  BY <1>1, ConcatProperties
<1> HIDE DEF ua, vt
<1>5. /\ Len(ua) = 1 + Len(a) /\ ua[1] = x
      /\ \A i \in 1 .. Len(a) : ua[i + 1] = a[i]
  BY <1>1, <1>2, <1>3 DEF ua
<1>6. /\ Len(vt) = 1 + Len(t) /\ vt[1] = y
      /\ \A i \in 1 .. Len(t) : vt[i + 1] = t[i]
      /\ DOMAIN vt = 1 .. 1 + Len(t)
  <2>1. vt \in Seq(Step) /\ Len(vt) = 1 + Len(t)
    BY <1>1, <1>4 DEF vt
  <2>2. DOMAIN vt = 1 .. Len(vt)
    BY <2>1, LenProperties
  <2>3. vt[1] = y /\ \A i \in 1 .. Len(t) : vt[i + 1] = t[i]
    BY <1>1, <1>2, <1>4 DEF vt
  <2> QED
    BY <2>1, <2>2, <2>3
<1>7. Len(vt) <= Len(ua) /\ \A i \in 1 .. 1 + Len(t) : vt[i] = ua[i]
  BY <1>h, <1>6 DEF Begins
<1>8. x = y
  BY <1>2, <1>5, <1>6, <1>7
<1>9. Len(t) <= Len(a)
  BY <1>2, <1>5, <1>6, <1>7
<1>10. ASSUME NEW i \in 1 .. Len(t) PROVE t[i] = a[i]
  <2>1. i + 1 \in 1 .. 1 + Len(t) /\ i \in 1 .. Len(a)
    BY <1>2, <1>9
  <2> QED
    BY <2>1, <1>5, <1>6, <1>7
<1> QED
  BY <1>2, <1>8, <1>9, <1>10 DEF Begins

\* A party that sends, or has nothing to do, finds nothing.
LEMMA BeginsNothing ==
    ASSUME NEW t \in Seq(Step), AllRecv(t)
    PROVE  /\ Begins(t, <<>>) => t = <<>>
           /\ \A x \in Step, a \in Seq(Step) :
                 x.io = "send" /\ Begins(t, <<x>> \o a) => t = <<>>
           /\ \A a \in Seq(Step) : Begins(<<>>, a)
<1>0. Len(t) \in Nat /\ DOMAIN t = 1 .. Len(t) /\ (t # <<>> => Len(t) \in Nat \ {0})
      /\ Len(<<>>) = 0
  BY LenProperties, EmptySeq
<1>1. Begins(t, <<>>) => t = <<>>
  BY <1>0 DEF Begins
<1>2. ASSUME NEW x \in Step, NEW a \in Seq(Step), x.io = "send", Begins(t, <<x>> \o a), t # <<>>
      PROVE  FALSE
  <2> DEFINE c == <<x>> \o a
  <2>1. t[1] = c[1] /\ t[1].io = "recv"
    BY <1>0, <1>2 DEF Begins, AllRecv
  <2>2. c \in Seq(Step) /\ c # <<>>
    <3>1. <<x>> \in Seq(Step) /\ <<x>> # <<>>
      OBVIOUS
    <3> QED
      BY <3>1, ConcatProperties, ConcatEqualIffEmpty
  <2>3. Head(c) = x
    BY StepSplit, Zenon
  <2> HIDE DEF c
  <2>4. Head(c) = c[1]
    BY <2>2, HeadTailProperties
  <2> QED
    BY <1>2, <2>1, <2>3, <2>4
<1>3. \A a \in Seq(Step) : Begins(<<>>, a)
  <2> SUFFICES ASSUME NEW a \in Seq(Step) PROVE Begins(<<>>, a)
    OBVIOUS
  <2>1. Len(a) \in Nat /\ <<>> \in Seq(Step) /\ DOMAIN <<>> = 1 .. 0
    BY LenProperties, EmptySeq
  <2> QED
    BY <1>0, <2>1 DEF Begins
<1> QED
  BY <1>1, <1>2, <1>3

-----------------------------------------------------------------------------
(* The two halves of a call are opposites.                                 *)

\* The operations of genSilentBaseOts.
GenOp == [io : {"send", "recv"}, kind : GenKind]

\* The operations of genSilentBaseOts, and their other sides.
LEMMA GenOpType ==
    /\ GenOp \subseteq Op
    /\ \A k \in GenKind : Send(k) \in GenOp /\ Recv(k) \in GenOp
    /\ \A k : Flip(Send(k)) = Recv(k) /\ Flip(Recv(k)) = Send(k)
    /\ \A k : Recv(k).io = "recv"
    /\ \A x \in GenOp : Flip(x) \in GenOp /\ Flip(Flip(x)) = x
<1>1. GenOp \subseteq Op
  BY DEF GenOp, Op, GenKind, Kind
<1>2. \A k \in GenKind : Send(k) \in GenOp /\ Recv(k) \in GenOp
  BY DEF GenOp, Send, Recv
<1>3. \A k : Flip(Send(k)) = Recv(k) /\ Flip(Recv(k)) = Send(k)
  BY DEF Flip, Send, Recv
<1>4. \A k : Recv(k).io = "recv"
  BY DEF Recv
<1>5. ASSUME NEW x \in GenOp PROVE Flip(x) \in GenOp /\ Flip(Flip(x)) = x
  <2>1. x.io \in {"send", "recv"} /\ x.kind \in GenKind /\ x = [io |-> x.io, kind |-> x.kind]
    BY DEF GenOp
  <2>2. Flip(x).io \in {"send", "recv"} /\ Flip(x) = [io |-> Flip(x).io, kind |-> x.kind]
    BY <2>1 DEF Flip
  <2>3. Flip(x) \in GenOp
    BY <2>1, <2>2 DEF GenOp
  <2> QED
    BY <1>1, <2>3, FlipType
<1> QED
  BY <1>1, <1>2, <1>3, <1>4, <1>5

\* Opposites of operations, part by part.
LEMMA GenOpposites ==
    /\ \A a \in Seq(GenOp) : Opposite(a) \in Seq(GenOp) /\ Opposite(Opposite(a)) = a
    /\ \A a, b \in Seq(GenOp) : a \o b \in Seq(GenOp)
    /\ \A a, b \in Seq(GenOp) : Opposite(a \o b) = Opposite(a) \o Opposite(b)
    /\ <<>> \in Seq(GenOp)
    /\ Seq(GenOp) \subseteq Seq(Op)
<1>1. \A a \in Seq(GenOp) : Opposite(a) \in Seq(GenOp) /\ Opposite(Opposite(a)) = a
  BY GenOpType, OppositeSeq
<1>2. \A a, b \in Seq(GenOp) : a \o b \in Seq(GenOp)
  BY ConcatProperties
<1>3. \A a, b \in Seq(GenOp) : Opposite(a \o b) = Opposite(a) \o Opposite(b)
  BY GenOpType, OppositeConcat
<1>4. <<>> \in Seq(GenOp)
  BY EmptySeq
<1>5. Seq(GenOp) \subseteq Seq(Op)
  BY GenOpType, SeqMonotonic
<1> QED
  BY <1>1, <1>2, <1>3, <1>4, <1>5

\* A sequence with a receive in one of its parts has one.
LEMMA ReceivesConcat ==
    ASSUME NEW a \in Seq(Op), NEW b \in Seq(Op), Receives(a) \/ Receives(b)
    PROVE  Receives(a \o b)
<1>1. /\ a \o b \in Seq(Op) /\ Len(a \o b) = Len(a) + Len(b)
      /\ \A i \in 1 .. Len(a) + Len(b) :
            (a \o b)[i] = IF i <= Len(a) THEN a[i] ELSE b[i - Len(a)]
  BY ConcatProperties
<1>2. /\ DOMAIN a = 1 .. Len(a) /\ DOMAIN b = 1 .. Len(b)
      /\ Len(a) \in Nat /\ Len(b) \in Nat /\ DOMAIN (a \o b) = 1 .. Len(a) + Len(b)
  BY <1>1, LenProperties
<1>3. CASE Receives(a)
  <2>1. PICK i \in 1 .. Len(a) : a[i].io = "recv"
    BY <1>2, <1>3 DEF Receives
  <2>2. i \in 1 .. Len(a) + Len(b) /\ (a \o b)[i] = a[i]
    BY <1>1, <1>2
  <2> QED
    BY <1>2, <2>1, <2>2 DEF Receives
<1>4. CASE Receives(b)
  <2>1. PICK i \in 1 .. Len(b) : b[i].io = "recv"
    BY <1>2, <1>4 DEF Receives
  <2>2. i + Len(a) \in 1 .. Len(a) + Len(b) /\ (a \o b)[i + Len(a)] = b[i]
    BY <1>1, <1>2
  <2> QED
    BY <1>2, <2>1, <2>2 DEF Receives
<1> QED
  BY <1>3, <1>4

\* Each sub-protocol of genSilentBaseOts: its operations, its opposite, and that it
\* hears of the peer.
LEMMA GenPartsOpposite ==
    /\ BaseOtSend \in Seq(GenOp) /\ Opposite(BaseOtSend) = BaseOtReceive
    /\ Receives(BaseOtSend) /\ Receives(BaseOtReceive)
    /\ NoisyVoleSend \in Seq(GenOp) /\ Opposite(NoisyVoleSend) = NoisyVoleReceive
    /\ \A state : /\ OtExtSend(state) \in Seq(GenOp)
                  /\ Opposite(OtExtSend(state)) = OtExtReceive(state)
                  /\ Receives(OtExtSend(state)) /\ Receives(OtExtReceive(state))
<1> USE DEF GenKind
<1>0. \A k \in GenKind : Send(k) \in GenOp /\ Recv(k) \in GenOp
  BY GenOpType
<1>f. \A k : Flip(Send(k)) = Recv(k) /\ Flip(Recv(k)) = Send(k)
  BY GenOpType
<1>r. \A k : Recv(k).io = "recv"
  BY GenOpType
<1>1. BaseOtSend \in Seq(GenOp) /\ Opposite(BaseOtSend) = BaseOtReceive
  <2>1. Opposite(BaseOtSend) = <<Flip(Send("base1")), Flip(Recv("base2"))>>
    BY OppositeShort DEF BaseOtSend
  <2> QED
    BY <1>0, <1>f, <2>1 DEF BaseOtSend, BaseOtReceive
<1>2. NoisyVoleSend \in Seq(GenOp) /\ Opposite(NoisyVoleSend) = NoisyVoleReceive
  <2>1. Opposite(NoisyVoleSend) = <<Flip(Recv("noisy"))>>
    BY OppositeShort DEF NoisyVoleSend
  <2> QED
    BY <1>0, <1>f, <2>1 DEF NoisyVoleSend, NoisyVoleReceive
<1>3. Receives(BaseOtSend) /\ Receives(BaseOtReceive)
  <2>1. 2 \in DOMAIN BaseOtSend /\ BaseOtSend[2] = Recv("base2")
    BY DEF BaseOtSend
  <2>2. 1 \in DOMAIN BaseOtReceive /\ BaseOtReceive[1] = Recv("base1")
    BY DEF BaseOtReceive
  <2> QED
    BY <1>r, <2>1, <2>2 DEF Receives
<1>4. ASSUME NEW state
      PROVE  /\ OtExtSend(state) \in Seq(GenOp)
             /\ Opposite(OtExtSend(state)) = OtExtReceive(state)
             /\ Receives(OtExtSend(state)) /\ Receives(OtExtReceive(state))
  <2> DEFINE b1 == IF state = "none" THEN BaseOtReceive ELSE <<>>
             b2 == IF state = "none" THEN BaseOtSend ELSE <<>>
             e1 == IF state # "seeded" THEN <<Send("seed"), Recv("expand")>> ELSE <<>>
             e2 == IF state # "seeded" THEN <<Recv("seed"), Send("expand")>> ELSE <<>>
             c1 == <<Recv("corr"), Send("chal"), Recv("resp")>>
             c2 == <<Send("corr"), Recv("chal"), Send("resp")>>
  <2>1. Opposite(<<>>) = <<>>
    BY OppositeShort
  <2>2. b2 \in Seq(GenOp) /\ b1 = Opposite(b2)
    BY <1>1, <2>1, GenOpposites
  <2>3. b1 \in Seq(GenOp) /\ b2 = Opposite(b1)
    BY <2>2, GenOpposites
  <2>4. e1 \in Seq(GenOp) /\ e2 = Opposite(e1)
    <3>1. <<Send("seed"), Recv("expand")>> \in Seq(GenOp)
      BY <1>0
    <3>2. Opposite(<<Send("seed"), Recv("expand")>>) = <<Flip(Send("seed")), Flip(Recv("expand"))>>
      BY OppositeShort
    <3> QED
      BY <1>f, <2>1, <3>1, <3>2, GenOpposites
  <2>5. c1 \in Seq(GenOp) /\ c2 = Opposite(c1)
    <3>1. c1 \in Seq(GenOp)
      BY <1>0
    <3>2. Opposite(c1) = <<Flip(Recv("corr")), Flip(Send("chal")), Flip(Recv("resp"))>>
      BY OppositeShort
    <3> QED
      BY <1>f, <3>1, <3>2
  <2>6. Receives(c1) /\ Receives(c2)
    <3>1. 1 \in DOMAIN c1 /\ c1[1] = Recv("corr") /\ 2 \in DOMAIN c2 /\ c2[2] = Recv("chal")
      OBVIOUS
    <3> QED
      BY <1>r, <3>1 DEF Receives
  <2>7. OtExtSend(state) = (b1 \o e1) \o c1 /\ OtExtReceive(state) = (b2 \o e2) \o c2
    BY DEF OtExtSend, OtExtReceive
  <2> HIDE DEF b1, b2, e1, e2, c1, c2
  <2>8. b1 \o e1 \in Seq(GenOp) /\ Opposite(b1 \o e1) = b2 \o e2
    BY <2>3, <2>4, GenOpposites, Zenon
  <2>9. (b1 \o e1) \o c1 \in Seq(GenOp) /\ Opposite((b1 \o e1) \o c1) = (b2 \o e2) \o c2
    <3> DEFINE u == b1 \o e1
    <3>1. u \in Seq(GenOp)
      BY <2>8
    <3> HIDE DEF u
    <3>2. u \o c1 \in Seq(GenOp) /\ Opposite(u \o c1) = Opposite(u) \o Opposite(c1)
      BY <3>1, <2>5, GenOpposites, Zenon
    <3> QED
      BY <3>2, <2>5, <2>8 DEF u
  <2>10. Receives((b1 \o e1) \o c1) /\ Receives((b2 \o e2) \o c2)
    <3>1. /\ b1 \o e1 \in Seq(Op) /\ b2 \o e2 \in Seq(Op)
          /\ c1 \in Seq(Op) /\ c2 \in Seq(Op)
      BY <2>5, <2>8, GenOpposites, Zenon
    <3> QED
      BY <3>1, <2>6, ReceivesConcat
  <2> QED
    BY <2>7, <2>9, <2>10
<1> QED
  BY <1>1, <1>2, <1>3, <1>4

\* Two protocols one after the other, at both parties.
LEMMA GenSequence ==
    ASSUME NEW a \in Seq(GenOp), NEW b \in Seq(GenOp)
    PROVE  /\ a \o b \in Seq(GenOp) /\ Opposite(a) \o Opposite(b) \in Seq(GenOp)
           /\ Opposite(a \o b) = Opposite(a) \o Opposite(b)
           /\ Receives(a) => Receives(a \o b)
           /\ Receives(Opposite(a)) => Receives(Opposite(a) \o Opposite(b))
<1> DEFINE c == Opposite(a)
           d == Opposite(b)
<1>0. c \in Seq(GenOp) /\ d \in Seq(GenOp)
  BY GenOpposites
<1>1. Opposite(a \o b) = c \o d
  BY GenOpposites, Zenon
<1> HIDE DEF c, d
<1>2. a \o b \in Seq(GenOp) /\ c \o d \in Seq(GenOp)
  BY <1>0, GenOpposites, Zenon
<1>3. a \in Seq(Op) /\ b \in Seq(Op) /\ c \in Seq(Op) /\ d \in Seq(Op)
  BY <1>0, GenOpposites
<1>4. Receives(a) => Receives(a \o b)
  BY <1>3, ReceivesConcat
<1>5. Receives(c) => Receives(c \o d)
  BY <1>3, ReceivesConcat
<1> QED
  BY <1>1, <1>2, <1>4, <1>5 DEF c, d

\* What genSilentBaseOts awaits, on either channel, is opposite at the two parties,
\* and each strand hears of the peer.
LEMMA GenOpposite ==
    ASSUME NEW type, NEW e
    PROVE  /\ Opposite(GenMain("sender", type, e)) = GenMain("receiver", type, e)
           /\ Opposite(GenFork("sender", type, e)) = GenFork("receiver", type, e)
           /\ \A p \in Party :
                 /\ GenMain(p, type, e) \in Seq(GenOp) /\ Receives(GenMain(p, type, e))
                 /\ GenFork(p, type, e) \in Seq(GenOp) /\ Receives(GenFork(p, type, e))
<1>0. "sender" # "receiver"
  OBVIOUS
<1>1. /\ BaseOtSend \in Seq(GenOp) /\ BaseOtReceive \in Seq(GenOp)
      /\ Opposite(BaseOtSend) = BaseOtReceive /\ Opposite(BaseOtReceive) = BaseOtSend
      /\ NoisyVoleSend \in Seq(GenOp) /\ NoisyVoleReceive \in Seq(GenOp)
      /\ Opposite(NoisyVoleSend) = NoisyVoleReceive
  BY GenPartsOpposite, GenOpposites
<1>2. \A state : /\ OtExtSend(state) \in Seq(GenOp) /\ OtExtReceive(state) \in Seq(GenOp)
                 /\ Opposite(OtExtSend(state)) = OtExtReceive(state)
                 /\ Opposite(OtExtReceive(state)) = OtExtSend(state)
  BY GenPartsOpposite, GenOpposites
<1>3. \A a, b \in Seq(GenOp) :
         /\ a \o b \in Seq(GenOp)
         /\ Opposite(a \o b) = Opposite(a) \o Opposite(b)
         /\ Receives(a) \/ Receives(b) => Receives(a \o b)
  BY GenOpposites, ReceivesConcat
<1>4. \A p \in Party : GenOts(p, type, e) \in Seq(GenOp) /\ Receives(GenOts(p, type, e))
  BY <1>1, <1>2, GenPartsOpposite DEF GenOts
<1>5. Opposite(GenOts("sender", type, e)) = GenOts("receiver", type, e)
  BY <1>0, <1>1, <1>2 DEF GenOts
<1>6. /\ \A p \in Party : GenFirstVole(p) \in Seq(GenOp)
      /\ Opposite(GenFirstVole("sender")) = GenFirstVole("receiver")
  <2>1. /\ GenFirstVole("sender") = OtExtReceive("based") \o NoisyVoleSend
        /\ GenFirstVole("receiver") = OtExtSend("based") \o NoisyVoleReceive
    BY <1>0 DEF GenFirstVole
  <2>5. /\ OtExtReceive("based") \o NoisyVoleSend \in Seq(GenOp)
        /\ OtExtSend("based") \o NoisyVoleReceive \in Seq(GenOp)
    BY <1>1, <1>2, GenSequence
  <2>6. Opposite(OtExtReceive("based") \o NoisyVoleSend)
           = Opposite(OtExtReceive("based")) \o Opposite(NoisyVoleSend)
    BY <1>1, <1>2, GenSequence
  <2>7. Opposite(OtExtReceive("based") \o NoisyVoleSend) = OtExtSend("based") \o NoisyVoleReceive
    BY <1>1, <1>2, <2>6
  <2>2. /\ GenFirstVole("sender") \in Seq(GenOp) /\ GenFirstVole("receiver") \in Seq(GenOp)
        /\ Opposite(GenFirstVole("sender")) = GenFirstVole("receiver")
    BY <2>1, <2>5, <2>7
  <2> QED
    BY <2>2 DEF Party
<1>7. /\ \A p \in Party : GenMain(p, type, e) \in Seq(GenOp) /\ Receives(GenMain(p, type, e))
      /\ Opposite(GenMain("sender", type, e)) = GenMain("receiver", type, e)
  <2> DEFINE v(p) == IF MustFork(type, e) THEN <<>> ELSE GenFirstVole(p)
  <2>1. (\A p \in Party : v(p) \in Seq(GenOp)) /\ Opposite(v("sender")) = v("receiver")
    BY <1>6, GenOpposites, OppositeShort
  <2>2. \A p : GenMain(p, type, e) = GenOts(p, type, e) \o v(p)
    BY DEF GenMain
  <2> HIDE DEF v
  <2>3. \A p \in Party : GenMain(p, type, e) \in Seq(GenOp) /\ Receives(GenMain(p, type, e))
    BY <1>3, <1>4, <2>1, <2>2
  <2>4. Opposite(GenOts("sender", type, e) \o v("sender"))
           = Opposite(GenOts("sender", type, e)) \o Opposite(v("sender"))
    BY <1>3, <1>4, <2>1 DEF Party
  <2> QED
    BY <1>5, <2>1, <2>2, <2>3, <2>4
<1>8. /\ \A p \in Party : GenFork(p, type, e) \in Seq(GenOp) /\ Receives(GenFork(p, type, e))
      /\ Opposite(GenFork("sender", type, e)) = GenFork("receiver", type, e)
  <2>1. CASE type = "Base"
    <3>1. /\ GenFork("sender", type, e) = BaseOtReceive \o NoisyVoleSend
          /\ GenFork("receiver", type, e) = BaseOtSend \o NoisyVoleReceive
      BY <1>0, <2>1 DEF GenFork
    <3>2. /\ GenFork("sender", type, e) \in Seq(GenOp)
          /\ GenFork("receiver", type, e) \in Seq(GenOp)
          /\ Receives(GenFork("sender", type, e)) /\ Receives(GenFork("receiver", type, e))
          /\ Opposite(GenFork("sender", type, e)) = GenFork("receiver", type, e)
      <4>1. Receives(BaseOtSend) /\ Receives(BaseOtReceive)
        BY GenPartsOpposite
      <4>5. /\ BaseOtReceive \o NoisyVoleSend \in Seq(GenOp)
            /\ BaseOtSend \o NoisyVoleReceive \in Seq(GenOp)
        BY <1>1, <4>1, GenSequence
      <4>6. Opposite(BaseOtReceive \o NoisyVoleSend)
               = Opposite(BaseOtReceive) \o Opposite(NoisyVoleSend)
        BY <1>1, <4>1, GenSequence
      <4>7. Opposite(BaseOtReceive \o NoisyVoleSend) = BaseOtSend \o NoisyVoleReceive
        BY <1>1, <4>1, <4>6
      <4>8. Receives(BaseOtReceive \o NoisyVoleSend)
        BY <1>1, <4>1, GenSequence
      <4>9. Receives(BaseOtSend \o NoisyVoleReceive)
        BY <1>1, <4>1, GenSequence
      <4> QED
        BY <3>1, <4>5, <4>7, <4>8, <4>9
    <3> QED
      BY <3>2 DEF Party
  <2>2. CASE type # "Base"
    <3>1. /\ GenFork("sender", type, e) = OtExtReceive(e.nv) \o NoisyVoleSend
          /\ GenFork("receiver", type, e) = OtExtSend(e.nv) \o NoisyVoleReceive
      BY <1>0, <2>2 DEF GenFork
    <3>2. /\ GenFork("sender", type, e) \in Seq(GenOp)
          /\ GenFork("receiver", type, e) \in Seq(GenOp)
          /\ Receives(GenFork("sender", type, e)) /\ Receives(GenFork("receiver", type, e))
          /\ Opposite(GenFork("sender", type, e)) = GenFork("receiver", type, e)
      <4>1. Receives(OtExtSend(e.nv)) /\ Receives(OtExtReceive(e.nv))
        BY GenPartsOpposite
      <4>5. /\ OtExtReceive(e.nv) \o NoisyVoleSend \in Seq(GenOp)
            /\ OtExtSend(e.nv) \o NoisyVoleReceive \in Seq(GenOp)
        BY <1>1, <1>2, <4>1, GenSequence
      <4>6. Opposite(OtExtReceive(e.nv) \o NoisyVoleSend)
               = Opposite(OtExtReceive(e.nv)) \o Opposite(NoisyVoleSend)
        BY <1>1, <1>2, <4>1, GenSequence
      <4>7. Opposite(OtExtReceive(e.nv) \o NoisyVoleSend) = OtExtSend(e.nv) \o NoisyVoleReceive
        BY <1>1, <1>2, <4>1, <4>6
      <4>8. Receives(OtExtReceive(e.nv) \o NoisyVoleSend)
        BY <1>1, <1>2, <4>1, GenSequence
      <4>9. Receives(OtExtSend(e.nv) \o NoisyVoleReceive)
        BY <1>1, <1>2, <4>1, GenSequence
      <4> QED
        BY <3>1, <4>5, <4>7, <4>8, <4>9
    <3> QED
      BY <3>2 DEF Party
  <2> QED
    BY <2>1, <2>2
<1> QED
  BY <1>7, <1>8

\* So are the expansion and the checks.
LEMMA AfterGenOpposite ==
    ASSUME NEW k
    PROVE  /\ \A p \in Party : AfterGen(p, k) \in Seq(Op)
           /\ Opposite(AfterGen("sender", k)) = AfterGen("receiver", k)
<1> USE DEF Kind
<1>0. "sender" \in Party /\ "receiver" \in Party /\ "sender" # "receiver"
  BY DEF Party
<1>f. \A kind : Flip(Send(kind)) = Recv(kind) /\ Flip(Recv(kind)) = Send(kind)
  BY GenOpType
<1>t. \A x \in Op : Flip(x) \in Op /\ Flip(Flip(x)) = x
  BY FlipType
<1>1. Opposite(Expansion("sender")) = Expansion("receiver")
  <2>1. Expansion("sender") = [i \in 1 .. NumBatches |-> Send("tree")]
    BY DEF Expansion
  <2>2. Expansion("receiver") = [i \in 1 .. NumBatches |-> Recv("tree")]
    BY <1>0 DEF Expansion
  <2> QED
    BY <1>f, <2>1, <2>2 DEF Opposite
<1>2. Opposite(Verification("sender", plan[k])) = Verification("receiver", plan[k])
  <2> DEFINE d1 == IF ~plan[k].debug THEN <<>>
                   ELSE <<Send("rtDelta"), Send("rtB"), Send("rtBaseB")>>
             d2 == IF ~plan[k].debug THEN <<>>
                   ELSE <<Recv("rtDelta"), Recv("rtB"), Recv("rtBaseB")>>
             m1 == IF ~plan[k].mal THEN <<>> ELSE <<Recv("malX"), Send("malHash")>>
             m2 == IF ~plan[k].mal THEN <<>> ELSE <<Send("malX"), Recv("malHash")>>
  <2>1. \A kind \in Kind : Send(kind) \in Op /\ Recv(kind) \in Op
    BY OpType
  <2>2. /\ <<Send("rtDelta"), Send("rtB"), Send("rtBaseB")>> \in Seq(Op)
        /\ <<Recv("malX"), Send("malHash")>> \in Seq(Op)
    BY <2>1
  <2>3. d1 \in Seq(Op) /\ m1 \in Seq(Op)
    BY <2>2, EmptySeq
  <2>4. Opposite(d1) = d2
    <3>1. Opposite(<<Send("rtDelta"), Send("rtB"), Send("rtBaseB")>>)
             = <<Flip(Send("rtDelta")), Flip(Send("rtB")), Flip(Send("rtBaseB"))>>
      BY OppositeShort
    <3> QED
      BY <1>f, <3>1, OppositeShort
  <2>5. Opposite(m1) = m2
    <3>1. Opposite(<<Recv("malX"), Send("malHash")>>) = <<Flip(Recv("malX")), Flip(Send("malHash"))>>
      BY OppositeShort
    <3> QED
      BY <1>f, <3>1, OppositeShort
  <2>6. Verification("sender", plan[k]) = d1 \o m1 /\ Verification("receiver", plan[k]) = d2 \o m2
    BY <1>0 DEF Verification
  <2> HIDE DEF d1, d2, m1, m2
  <2>7. Opposite(d1 \o m1) = Opposite(d1) \o Opposite(m1)
    BY <1>t, <2>3, OppositeConcat
  <2> QED
    BY <2>4, <2>5, <2>6, <2>7
<1>3. \A p \in Party : Expansion(p) \in Seq(Op) /\ Verification(p, plan[k]) \in Seq(Op)
  BY ExpansionOps, VerificationOps
<1>4. \A p \in Party : AfterGen(p, k) \in Seq(Op)
  BY <1>3, ConcatProperties DEF AfterGen
<1>5. Opposite(AfterGen("sender", k)) = AfterGen("receiver", k)
  <2> DEFINE a == Expansion("sender")
             b == Verification("sender", plan[k])
  <2>1. a \in Seq(Op) /\ b \in Seq(Op)
    BY <1>0, <1>3
  <2> HIDE DEF a, b
  <2>2. Opposite(a \o b) = Opposite(a) \o Opposite(b)
    BY <1>t, <2>1, OppositeConcat
  <2> QED
    BY <1>1, <1>2, <2>2 DEF AfterGen, a, b
<1> QED
  BY <1>4, <1>5

\* What the two parties do for a call on a channel is opposite.
LEMMA ScriptOpposite ==
    ASSUME NEW p \in Party, NEW k, NEW c
    PROVE  /\ Script(p, k, c) \in Seq(Op)
           /\ Opposite(Script(p, k, c)) = Script(Peer(p), k, c)
<1> DEFINE type == TypeAt(k)
           e == ExtAt(k)
<1>t. \A x \in Op : Flip(x) \in Op /\ Flip(Flip(x)) = x
  BY FlipType
<1>0. /\ Peer("sender") = "receiver" /\ Peer("receiver") = "sender"
      /\ Party = {"sender", "receiver"}
  BY DEF Peer, Party
<1>1. \A q \in Party : Script(q, k, c) \in Seq(Op)
  <2>1. \A q \in Party : GenMain(q, type, e) \in Seq(Op) /\ GenFork(q, type, e) \in Seq(Op)
    BY GenOpposite, GenOpposites
  <2>2. \A q \in Party : GenMain(q, type, e) \o AfterGen(q, k) \in Seq(Op)
    BY <2>1, AfterGenOpposite, ConcatProperties
  <2> QED
    BY <2>1, <2>2, EmptySeq DEF Script
<1>2. Opposite(Script("sender", k, c)) = Script("receiver", k, c)
  <2>1. CASE c = 0
    <3> DEFINE a == GenMain("sender", type, e)
               b == AfterGen("sender", k)
    <3>1. a \in Seq(Op) /\ b \in Seq(Op)
      BY <1>0, GenOpposite, GenOpposites, AfterGenOpposite
    <3>2. /\ Opposite(a) = GenMain("receiver", type, e)
          /\ Opposite(b) = AfterGen("receiver", k)
      BY GenOpposite, AfterGenOpposite
    <3> HIDE DEF a, b
    <3>3. Opposite(a \o b) = Opposite(a) \o Opposite(b)
      BY <1>t, <3>1, OppositeConcat
    <3> QED
      BY <2>1, <3>2, <3>3 DEF Script, a, b
  <2>2. CASE c # 0
    BY <2>2, GenOpposite, OppositeShort DEF Script
  <2> QED
    BY <2>1, <2>2
<1>3. Opposite(Script("receiver", k, c)) = Script("sender", k, c)
  BY <1>0, <1>1, <1>2, <1>t, OppositeSeq
<1> QED
  BY <1>0, <1>1, <1>2, <1>3

-----------------------------------------------------------------------------
(* What the plan says of a call.                                           *)

\* The plan never changes, so neither does what it says.
LEMMA PlanKept ==
    ASSUME plan' = plan
    PROVE  /\ \A k : TypeAt(k)' = TypeAt(k) /\ RequestAt(k)' = RequestAt(k)
           /\ \A k : ExtAt(k)' = ExtAt(k)
           /\ \A k : ForksAt(k)' = ForksAt(k)
           /\ \A k : ForksIn(k)' = ForksIn(k)
           /\ \A p, k : AfterGen(p, k)' = AfterGen(p, k)
           /\ \A p, k, c : Script(p, k, c)' = Script(p, k, c)
<1>1. \A k : TypeAt(k)' = TypeAt(k) /\ RequestAt(k)' = RequestAt(k)
  BY DEF TypeAt, RequestAt
<1>2. \A k : ExtAt(k)' = ExtAt(k)
  BY DEF TypeAt, ExtAt
<1>3. \A k : ForksAt(k)' = ForksAt(k)
  BY <1>1, <1>2 DEF ForksAt
<1>4. \A k : ForksIn(k)' = ForksIn(k)
  BY DEF ForksIn, ForksAt, TypeAt, ExtAt
<1>5. \A p, k : AfterGen(p, k)' = AfterGen(p, k)
  BY DEF AfterGen
<1>6. \A p, k, c : Script(p, k, c)' = Script(p, k, c)
  BY <1>4 DEF Script, ForksAt, TypeAt, ExtAt, AfterGen
<1> QED
  BY <1>1, <1>2, <1>3, <1>4, <1>5, <1>6

\* Each call that forks adds one channel.
LEMMA ForksNext ==
    /\ ForksIn(0) = 0
    /\ \A g \in Nat : /\ ForksIn(g) \in Nat
                      /\ ForksIn(g + 1) = IF ForksAt(g + 1) THEN ForksIn(g) + 1 ELSE ForksIn(g)
                      /\ g > 0 /\ ForksAt(g) => ForksIn(g) > 0
<1> DEFINE F(g) == {j \in 1 .. g : ForksAt(j)}
<1>1. ForksIn(0) = 0
  <2>1. F(0) = {}
    OBVIOUS
  <2> QED
    BY <2>1, FS_EmptySet DEF ForksIn
<1>2. ASSUME NEW g \in Nat PROVE IsFiniteSet(F(g)) /\ Cardinality(F(g)) \in Nat
  <2>1. IsFiniteSet(1 .. g)
    BY FS_Interval
  <2>2. F(g) \subseteq 1 .. g
    OBVIOUS
  <2> QED
    BY <2>1, <2>2, FS_Subset, FS_CardinalityType
<1>3. ASSUME NEW g \in Nat
      PROVE  ForksIn(g + 1) = IF ForksAt(g + 1) THEN ForksIn(g) + 1 ELSE ForksIn(g)
  <2>1. CASE ForksAt(g + 1)
    <3>1. F(g + 1) = F(g) \cup {g + 1}
      BY <2>1
    <3>2. g + 1 \notin F(g)
      OBVIOUS
    <3> HIDE DEF F
    <3>3. Cardinality(F(g) \cup {g + 1}) = Cardinality(F(g)) + 1
      BY <1>2, <3>2, FS_AddElement
    <3> QED
      BY <2>1, <3>1, <3>3 DEF ForksIn, F
  <2>2. CASE ~ForksAt(g + 1)
    <3>1. F(g + 1) = F(g)
      BY <2>2
    <3> QED
      BY <2>2, <3>1 DEF ForksIn
  <2> QED
    BY <2>1, <2>2
<1>4. ASSUME NEW g \in Nat, g > 0, ForksAt(g) PROVE ForksIn(g) > 0
  <2>1. g - 1 \in Nat /\ (g - 1) + 1 = g
    BY <1>4
  <2>2. ForksIn(g) = ForksIn(g - 1) + 1
    BY <1>3, <1>4, <2>1
  <2>3. ForksIn(g - 1) \in Nat
    BY <1>2, <2>1 DEF ForksIn
  <2> QED
    BY <2>2, <2>3
<1> QED
  BY <1>1, <1>2, <1>3, <1>4 DEF ForksIn

\* A call that uses the extension objects leaves them with seeds.
LEMMA ExtNext ==
    ASSUME NEW g \in Nat, g > 0
    PROVE  ExtAt(g + 1) = IF TypeAt(g) = "BaseExtend"
                          THEN [main |-> "seeded", nv |-> "seeded"] ELSE ExtAt(g)
<1>1. /\ (g + 1) - 1 = g
      /\ \A j : j \in 1 .. g <=> j \in 1 .. g - 1 \/ j = g
  OBVIOUS
<1>2. (\E j \in 1 .. (g + 1) - 1 : TypeAt(j) = "BaseExtend")
         <=> TypeAt(g) = "BaseExtend" \/ \E j \in 1 .. g - 1 : TypeAt(j) = "BaseExtend"
  BY <1>1
<1> QED
  BY <1>2 DEF ExtAt

-----------------------------------------------------------------------------
(* What a party has left to do.                                            *)

\* What p does in the generation its peer has begun before it.
Ahead(p, c) ==
    IF gens[p] < gens[Peer(p)]
    THEN Steps(Script(p, gens[p] + 1, c), gens[p] + 1) ELSE <<>>

\* The other party.
LEMMA PeerType ==
    \A p \in Party : /\ Peer(p) \in Party /\ Peer(p) # p /\ Peer(Peer(p)) = p
                     /\ \A q \in Party : q # p => q = Peer(p)
BY DEF Peer, Party

\* The types of what is left.
LEMMA LeftType ==
    ASSUME TypeOK, NEW p \in Party, NEW c
    PROVE  /\ Later(p) \in Seq(Op) /\ Left(p, c) \in Seq(Op)
           /\ Steps(Left(p, c), gens[p]) \in Seq(Step)
           /\ Ahead(p, c) \in Seq(Step)
           /\ Todo(p, c) \in Seq(Step)
           /\ Todo(p, c) = Steps(Left(p, c), gens[p]) \o Ahead(p, c)
<1>1. /\ \A s \in Strand : job[p][s] \in Seq(Op)
      /\ gens[p] \in Nat /\ gens[p] + 1 \in Nat
  BY DEF TypeOK
<1>2. Later(p) \in Seq(Op)
  BY AfterGenOpposite, VerificationOps, EmptySeq DEF Later
<1>3. Left(p, c) \in Seq(Op)
  <2>1. job[p].main \in Seq(Op) /\ job[p].fork \in Seq(Op) /\ <<>> \in Seq(Op)
    BY <1>1, EmptySeq DEF Strand
  <2>2. job[p].main \o Later(p) \in Seq(Op)
    BY <1>2, <2>1, ConcatProperties
  <2> QED
    BY <2>1, <2>2 DEF Left
<1>4. Steps(Left(p, c), gens[p]) \in Seq(Step)
  BY <1>1, <1>3, StepsSeq
<1>5. Ahead(p, c) \in Seq(Step)
  <2>1. Script(p, gens[p] + 1, c) \in Seq(Op)
    BY ScriptOpposite
  <2>2. Steps(Script(p, gens[p] + 1, c), gens[p] + 1) \in Seq(Step)
    BY <1>1, <2>1, StepsSeq
  <2> QED
    BY <2>2, StepAlgebra DEF Ahead
<1>6. Todo(p, c) = Steps(Left(p, c), gens[p]) \o Ahead(p, c)
  BY DEF Todo, Ahead
<1>7. Steps(Left(p, c), gens[p]) \o Ahead(p, c) \in Seq(Step)
  BY <1>4, <1>5, StepAlgebra, Zenon
<1> QED
  BY <1>2, <1>3, <1>4, <1>5, <1>6, <1>7

\* What is on its way to a party.
LEMMA InboxType ==
    ASSUME TypeOK, NEW p \in Party, NEW c \in Channels
    PROVE  /\ net[p][c] \in Seq(Message)
           /\ Awaits(net[p][c]) \in Seq(Step) /\ AllRecv(Awaits(net[p][c]))
           /\ Awaits(net[p][c]) = <<>> <=> net[p][c] = <<>>
<1>1. net[p][c] \in Seq(Message)
  BY DEF TypeOK
<1> QED
  BY <1>1, AwaitsSeq, AwaitsRecv

\* The step that a channel operation of p is.
Mark(p, s) == [io |-> NextOp(p, s).io, kind |-> NextOp(p, s).kind, gen |-> gens[p]]

\* A party in generation g that is not idle works on its call g, on the channel it
\* forked for it, if any.
LEMMA ForkedChannel ==
    ASSUME TypeOK, Counters, Lockstep, NEW p \in Party, job[p].fork # <<>>
    PROVE  forks[p] > 0
<1>1. PlannedOf(p)
  BY DEF Lockstep, LockstepOf
<1>2. stage[p] \in {"gen", "pregen"} /\ forked[p] /\ forked[p] = ForksAt(gens[p])
      /\ forks[p] = ForksIn(gens[p])
  BY <1>1 DEF PlannedOf
<1>3. gens[p] \in Nat \ {0}
  BY <1>2, CountersType DEF Counters, CountersOf, Running
<1> QED
  BY <1>2, <1>3, ForksNext

\* Concatenation is associative.
LEMMA OpAssociative ==
    \A a, b, c \in Seq(Op) : (a \o b) \o c = a \o (b \o c)
BY ConcatAssociative

\* What p has left on a strand's channel after its next operation.
LeftAfter(p, s) ==
    IF s = "main" THEN Tail(job[p].main) \o Later(p) ELSE Tail(job[p].fork)

TodoAfter(p, s) ==
    Steps(LeftAfter(p, s), gens[p]) \o Ahead(p, Channel(p, s))

\* A channel operation is the first thing left on its channel.
LEMMA LeftActive ==
    ASSUME TypeOK, Counters, Lockstep, NEW p \in Party, NEW s \in Strand, job[p][s] # <<>>
    PROVE  /\ Mark(p, s) \in Step
           /\ TodoAfter(p, s) \in Seq(Step)
           /\ Todo(p, Channel(p, s)) = <<Mark(p, s)>> \o TodoAfter(p, s)
<1> DEFINE c == Channel(p, s)
           x == NextOp(p, s)
           a == LeftAfter(p, s)
           h == Ahead(p, c)
           g == gens[p]
<1>1. /\ g \in Nat /\ job[p][s] \in Seq(Op)
      /\ Later(p) \in Seq(Op) /\ h \in Seq(Step)
      /\ Todo(p, c) = Steps(Left(p, c), g) \o h
  <2>1. g \in Nat /\ job[p][s] \in Seq(Op)
    BY DEF TypeOK
  <2>2. Later(p) \in Seq(Op) /\ h \in Seq(Step) /\ Todo(p, c) = Steps(Left(p, c), g) \o h
    <3> HIDE DEF c
    <3> QED
      BY LeftType, Zenon
  <2> QED
    BY <2>1, <2>2
<1>2. /\ x \in Op /\ Tail(job[p][s]) \in Seq(Op) /\ <<x>> \in Seq(Op)
      /\ job[p][s] = <<x>> \o Tail(job[p][s])
  BY <1>1, SeqSplit DEF NextOp
<1>3. a \in Seq(Op) /\ Left(p, c) = <<x>> \o a
  <2>1. CASE s = "main"
    <3>1. c = 0 /\ Left(p, c) = job[p].main \o Later(p) /\ a = Tail(job[p].main) \o Later(p)
      BY <2>1 DEF Channel, Left, LeftAfter
    <3> DEFINE t == Tail(job[p].main)
               u == <<x>>
    <3>2. t \in Seq(Op) /\ u \in Seq(Op) /\ job[p].main = u \o t
      BY <1>2, <2>1
    <3> HIDE DEF t, u
    <3>3. (u \o t) \o Later(p) = u \o (t \o Later(p))
      BY <1>1, <3>2, OpAssociative, Zenon
    <3>4. t \o Later(p) \in Seq(Op)
      BY <1>1, <3>2, ConcatProperties
    <3> QED
      BY <3>1, <3>2, <3>3, <3>4 DEF t, u
  <2>2. CASE s = "fork"
    <3>1. c = forks[p] /\ forks[p] # 0
      BY <2>2, ForkedChannel, CountersType DEF Channel
    <3>2. Left(p, c) = job[p].fork /\ a = Tail(job[p].fork)
      BY <2>2, <3>1 DEF Left, LeftAfter
    <3> QED
      BY <1>2, <2>2, <3>2
  <2> QED
    BY <2>1, <2>2 DEF Strand
<1>4. Mark(p, s) \in Step
  BY <1>1, <1>2 DEF Mark, Op, Step
<1> HIDE DEF c, x, a, h, g
<1>5. Steps(<<x>>, g) = <<[io |-> x.io, kind |-> x.kind, gen |-> g]>>
  BY DEF Steps
<1>6. Steps(<<x>> \o a, g) = Steps(<<x>>, g) \o Steps(a, g)
  BY <1>1, <1>2, <1>3, StepsConcat
<1> DEFINE m == <<[io |-> x.io, kind |-> x.kind, gen |-> g]>>
           b == Steps(a, g)
<1>7. m = <<Mark(p, s)>>
  BY DEF Mark, x, g
<1>8. m \in Seq(Step) /\ b \in Seq(Step)
  <2>1. b \in Seq(Step)
    BY <1>1, <1>3, StepsSeq, Zenon
  <2> HIDE DEF m
  <2>2. m \in Seq(Step)
    BY <1>4, <1>7
  <2> QED
    BY <2>1, <2>2, Zenon
<1>9. Todo(p, c) = (m \o b) \o h
  BY <1>1, <1>3, <1>5, <1>6
<1>10. TodoAfter(p, s) = b \o h
  BY DEF TodoAfter, a, g, h, c
<1> HIDE DEF m, b
<1>11. (m \o b) \o h = m \o (b \o h)
  BY <1>1, <1>8, StepAssociative, Zenon
<1>12. b \o h \in Seq(Step)
  BY <1>1, <1>8, StepAlgebra, Zenon
<1> QED
  BY <1>4, <1>7, <1>9, <1>10, <1>11, <1>12 DEF c

\* An open party that finds a message on the channel of one of its strands
\* receives next, and the message is of its own generation.
LEMMA Expected ==
    ASSUME TypeOK, Counters, Lockstep, InSync, NEW p \in Party, p \notin closed,
           NEW s \in Strand, job[p][s] # <<>>, Inbox(p, s) # <<>>
    PROVE  /\ NextOp(p, s).io = "recv"
           /\ Head(Inbox(p, s)).kind = NextOp(p, s).kind
           /\ Head(Inbox(p, s)).gen = gens[p]
<1> DEFINE c == Channel(p, s)
           m == Head(Inbox(p, s))
           rest == Awaits(Tail(Inbox(p, s)))
<1>1. c \in Channels
  BY ActiveStrand
<1>2. Inbox(p, s) = net[p][c] /\ net[p][c] \in Seq(Message)
  BY <1>1, InboxType DEF Inbox
<1>3. /\ Await(m) \in Step /\ rest \in Seq(Step)
      /\ Awaits(net[p][c]) = <<Await(m)>> \o rest
  BY <1>2, AwaitsSplit, AwaitsSeq
<1>4. Begins(Awaits(net[p][c]), Todo(p, c))
  BY <1>1 DEF InSync
<1>5. /\ Mark(p, s) \in Step /\ TodoAfter(p, s) \in Seq(Step)
      /\ Todo(p, c) = <<Mark(p, s)>> \o TodoAfter(p, s)
  BY LeftActive
<1>6. Begins(<<Await(m)>> \o rest, <<Mark(p, s)>> \o TodoAfter(p, s))
  BY <1>3, <1>4, <1>5
<1> HIDE DEF m, rest
<1>7. Await(m) = Mark(p, s)
  BY <1>3, <1>5, <1>6, BeginsReceive
<1> QED
  BY <1>7 DEF Await, Mark, m

-----------------------------------------------------------------------------
(* The party that does not move.                                           *)

\* The plan and the objects of a party besides its coroutines.
ObjectsOf(q) == <<pos[q], mState[q], conf[q], ext[q], forks[q]>>

\* The other party's objects stay as they are, and so does its socket.
LEMMA PeerObjects ==
    ASSUME TypeOK, NEW p \in Party, NEW q \in Party \ {p}, NEW s \in Strand,
           Control(p) \/ Communicate(p, s)
    PROVE  /\ UNCHANGED ObjectsOf(q) /\ plan' = plan
           /\ q \in closed' <=> q \in closed
           /\ gens'[p] \in {gens[p], gens[p] + 1}
<1> USE DEF ObjectsOf, TypeOK
<1>1. CASE Control(p)
  <2>1. CASE Configure(p)
    BY <2>1 DEF Configure, SetConfiguration
  <2>2. CASE EnterUnconfigured(p)
    BY <2>2 DEF EnterUnconfigured, SetConfiguration, Throw
  <2>3. CASE EnterConfigured(p)
    BY <2>3 DEF EnterConfigured, Throw
  <2>4. CASE GenSilentBaseOts(p)
    <3> HIDE DEF ObjectsOf, TypeOK
    <3>1. UNCHANGED <<plan, pos, mState, conf, ext>>
      BY <2>4 DEF GenSilentBaseOts
    <3>2. closed' \in {closed, closed \cup {p}}
      BY <2>4 DEF GenSilentBaseOts, Throw
    <3>3. gens' \in {gens, [gens EXCEPT ![p] = @ + 1]}
      BY <2>4 DEF GenSilentBaseOts
    <3>4. forks' \in {forks, [forks EXCEPT ![p] = @], [forks EXCEPT ![p] = @ + 1]}
      BY <2>4 DEF GenSilentBaseOts
    <3>5. gens \in [Party -> Nat] /\ forks \in [Party -> Nat]
      BY DEF TypeOK
    <3>6. gens'[q] = gens[q] /\ gens'[p] \in {gens[p], gens[p] + 1}
      BY <3>3, <3>5
    <3>7. forks'[q] = forks[q]
      BY <3>4, <3>5
    <3>8. q \in closed' <=> q \in closed
      BY <3>2
    <3> QED
      BY <3>1, <3>6, <3>7, <3>8 DEF ObjectsOf
  <2>5. CASE SetSilentBaseOts(p)
    BY <2>5 DEF SetSilentBaseOts
  <2>6. CASE BeginExpand(p)
    BY <2>6 DEF BeginExpand, Throw
  <2>7. CASE EndExpand(p)
    BY <2>7 DEF EndExpand
  <2>8. CASE Finish(p)
    BY <2>8 DEF Finish
  <2> QED
    BY <1>1, <2>1, <2>2, <2>3, <2>4, <2>5, <2>6, <2>7, <2>8 DEF Control
<1>2. CASE Communicate(p, s)
  <2>1. CASE Transmit(p, s)
    BY <2>1 DEF Transmit
  <2>2. CASE Receive(p, s)
    <3>1. UNCHANGED <<plan, pos, mState, conf, ext, gens, forks>>
      BY <2>2 DEF Receive
    <3>2. closed' = closed \/ Throw(p)
      BY <2>2 DEF Receive
    <3> QED
      BY <3>1, <3>2 DEF Throw
  <2>3. CASE Break(p, s)
    BY <2>3 DEF Break, Throw
  <2> QED
    BY <1>2, <2>1, <2>2, <2>3 DEF Communicate
<1> QED
  BY <1>1, <1>2

\* The message p sends next.
Outgoing(p, s) == [kind |-> NextOp(p, s).kind, gen |-> gens[p], vector |-> noisy[p]]

\* What it finds in its inbox is as before, but for one message more.
LEMMA PeerMail ==
    ASSUME TypeOK, Counters, Lockstep, NEW p \in Party, NEW s \in Strand,
           Control(p) \/ Communicate(p, s)
    PROVE  /\ \/ net'[Peer(p)] = net[Peer(p)]
              \/ /\ Transmit(p, s) /\ closed = {}
                 /\ net' = [net EXCEPT ![Peer(p)][Channel(p, s)] = Append(@, Outgoing(p, s))]
           /\ \/ net'[p] = net[p]
              \/ /\ Receive(p, s)
                 /\ net' = [net EXCEPT ![p][Channel(p, s)] = Tail(@)]
<1>0. Peer(p) # p /\ Peer(p) \in Party
  BY PeerType
<1>1. CASE Control(p)
  BY <1>1 DEF Control, Configure, EnterUnconfigured, EnterConfigured, GenSilentBaseOts,
              SetSilentBaseOts, BeginExpand, EndExpand, Finish
<1>2. CASE Transmit(p, s)
  BY <1>0, <1>2 DEF Transmit, TypeOK, Outgoing
<1>3. CASE Receive(p, s)
  <2>1. net' = [net EXCEPT ![p][Channel(p, s)] = Tail(@)]
    BY <1>3 DEF Receive
  <2>2. net'[Peer(p)] = net[Peer(p)]
    BY <1>0, <2>1 DEF TypeOK
  <2> QED
    BY <1>3, <2>1, <2>2
<1>4. CASE Break(p, s)
  BY <1>4 DEF Break
<1> QED
  BY <1>1, <1>2, <1>3, <1>4 DEF Communicate

\* A party sends what it holds in its generation.
LEMMA OutgoingIsWhole ==
    ASSUME TypeOK, Counters, Lockstep, NEW p \in Party, NEW s \in Strand, Transmit(p, s)
    PROVE  /\ Outgoing(p, s) \in Message
           /\ Outgoing(p, s).gen = gens[p]
           /\ Outgoing(p, s).kind \in VectorKind =>
                 Outgoing(p, s).vector = UniformVector(gens[p])
<1>0. job[p][s] # <<>> /\ p \notin closed
  BY DEF Transmit
<1>1. gens[p] \in Nat \ {0} /\ NextOp(p, s) \in Op /\ stage[p] \in Running
  BY <1>0, ActiveStrand
<1>2. KindsOf(p) /\ HoldsOf(p)
  BY DEF Lockstep, LockstepOf
<1>3. CASE stage[p] \in {"gen", "pregen"}
  <2>1. job[p][s] \in Seq(Op) /\ Head(job[p][s]) = job[p][s][1]
        /\ 1 \in DOMAIN job[p][s]
    BY <1>0, HeadTailProperties, EmptySeq, LenProperties DEF TypeOK
  <2>2. NextOp(p, s).kind \in GenKind
    BY <1>2, <1>3, <2>1 DEF KindsOf, NextOp
  <2>3. NextOp(p, s).kind \notin VectorKind
    BY <2>2 DEF GenKind, VectorKind
  <2> QED
    BY <1>1, <2>3 DEF Outgoing, Message, Op, TypeOK
<1>4. CASE stage[p] \in {"expand", "verify"}
  <2>1. noisy[p] = UniformVector(gens[p])
    BY <1>0, <1>2, <1>4 DEF HoldsOf
  <2> QED
    BY <1>1, <2>1 DEF Outgoing, Message, Op, TypeOK
<1> QED
  BY <1>1, <1>3, <1>4 DEF Running

\* Its mail stays from generations its peer has begun.
LEMMA PeerMailOf ==
    ASSUME TypeOK, Counters, Lockstep, NEW p \in Party, NEW s \in Strand,
           Control(p) \/ Communicate(p, s)
    PROVE  MailOf(Peer(p))' /\ MailOf(p)'
<1> DEFINE q == Peer(p)
           Good(m, g) == /\ m.gen <= g
                         /\ m.kind \in VectorKind => m.vector = UniformVector(m.gen)
<1>0. q # p /\ q \in Party /\ Peer(q) = p /\ q \in Party \ {p} /\ p \in Party \ {q}
  BY PeerType
<1>1. \A r \in Party : \A c \in Channels : \A i \in DOMAIN net[r][c] :
         Good(net[r][c][i], gens[Peer(r)])
  BY DEF Lockstep, LockstepOf, MailOf
<1>2. gens'[q] = gens[q] /\ gens'[p] \in {gens[p], gens[p] + 1}
      /\ gens[q] \in Nat /\ gens[p] \in Nat
  BY <1>0, Untouched, PeerObjects DEF StateOf, TypeOK
<1>3. \A r \in Party, c \in Channels :
         /\ net[r][c] \in Seq(Message)
         /\ \A i \in DOMAIN net[r][c] : net[r][c][i].gen \in Nat
  <2> SUFFICES ASSUME NEW r \in Party, NEW c \in Channels
               PROVE  /\ net[r][c] \in Seq(Message)
                      /\ \A i \in DOMAIN net[r][c] : net[r][c][i].gen \in Nat
    OBVIOUS
  <2>1. net[r][c] \in Seq(Message)
    BY DEF TypeOK
  <2>2. \A i \in DOMAIN net[r][c] : net[r][c][i] \in Message
    BY <2>1, ElementOfSeq
  <2> QED
    BY <2>1, <2>2 DEF Message
<1>4. \A c \in Channels : \A i \in DOMAIN net'[q][c] : Good(net'[q][c][i], gens'[p])
  <2>1. CASE net'[q] = net[q]
    <3> HIDE DEF q
    <3> SUFFICES ASSUME NEW c \in Channels, NEW i \in DOMAIN net[q][c]
                 PROVE  Good(net[q][c][i], gens'[p])
      BY <2>1
    <3>1. Good(net[q][c][i], gens[p]) /\ net[q][c][i].gen \in Nat
      BY <1>0, <1>1, <1>3
    <3> QED
      BY <1>2, <3>1
  <2>2. CASE /\ Transmit(p, s) /\ closed = {}
             /\ net' = [net EXCEPT ![q][Channel(p, s)] = Append(@, Outgoing(p, s))]
    <3> DEFINE d == Channel(p, s)
               m == Outgoing(p, s)
    <3>1. m \in Message /\ Good(m, gens[p]) /\ gens'[p] = gens[p]
      <4>1. /\ m \in Message /\ m.gen = gens[p] /\ gens' = gens
            /\ m.kind \in VectorKind => m.vector = UniformVector(gens[p])
        BY <2>2, OutgoingIsWhole DEF Transmit
      <4> HIDE DEF m
      <4> QED
        BY <1>2, <4>1
    <3>2. d \in Channels
      BY <2>2, ActiveStrand DEF Transmit
    <3>3. net'[q][d] = Append(net[q][d], m) /\ \A c \in Channels \ {d} : net'[q][c] = net[q][c]
      <4> HIDE DEF q, d, m
      <4> QED
        BY <1>0, <2>2, <3>2 DEF TypeOK, q, d, m
    <3> HIDE DEF q, d, m
    <3>4. ASSUME NEW i \in DOMAIN Append(net[q][d], m)
          PROVE  Good(Append(net[q][d], m)[i], gens[p])
      <4>1. /\ Append(net[q][d], m) \in Seq(Message)
            /\ Len(Append(net[q][d], m)) = Len(net[q][d]) + 1
            /\ \A j \in 1 .. Len(net[q][d]) : Append(net[q][d], m)[j] = net[q][d][j]
            /\ Append(net[q][d], m)[Len(net[q][d]) + 1] = m
        BY <1>0, <1>3, <3>1, <3>2, AppendProperties
      <4>2. /\ Len(net[q][d]) \in Nat /\ DOMAIN net[q][d] = 1 .. Len(net[q][d])
            /\ i \in 1 .. Len(net[q][d]) + 1
        BY <1>0, <1>3, <3>2, <4>1, LenProperties
      <4>3. CASE i \in 1 .. Len(net[q][d])
        BY <1>0, <1>1, <3>2, <4>1, <4>2, <4>3
      <4>4. CASE i = Len(net[q][d]) + 1
        BY <3>1, <4>1, <4>4
      <4> QED
        BY <4>2, <4>3, <4>4
    <3>5. ASSUME NEW c \in Channels, NEW i \in DOMAIN net'[q][c]
          PROVE  Good(net'[q][c][i], gens'[p])
      <4>1. CASE c = d
        BY <3>1, <3>3, <3>4, <3>5, <4>1
      <4>2. CASE c # d
        BY <1>0, <1>1, <3>1, <3>3, <3>5, <4>2
      <4> QED
        BY <4>1, <4>2
    <3> QED
      BY <3>5
  <2> QED
    BY <2>1, <2>2, PeerMail
<1>5. \A c \in Channels : \A i \in DOMAIN net'[p][c] : Good(net'[p][c][i], gens[q])
  <2>1. CASE net'[p] = net[p]
    BY <1>1, <2>1
  <2>2. CASE /\ Receive(p, s)
             /\ net' = [net EXCEPT ![p][Channel(p, s)] = Tail(@)]
    <3> DEFINE d == Channel(p, s)
    <3>1. d \in Channels /\ net[p][d] # <<>> /\ net[p][d] \in Seq(Message)
      BY <1>3, <2>2, ActiveStrand DEF Receive, Inbox
    <3>2. net'[p][d] = Tail(net[p][d]) /\ \A c \in Channels \ {d} : net'[p][c] = net[p][c]
      <4> HIDE DEF d
      <4> QED
        BY <2>2, <3>1 DEF TypeOK, d
    <3> HIDE DEF d
    <3>3. ASSUME NEW i \in DOMAIN Tail(net[p][d])
          PROVE  Good(Tail(net[p][d])[i], gens[q])
      <4>1. /\ Tail(net[p][d]) \in Seq(Message)
            /\ Len(Tail(net[p][d])) = Len(net[p][d]) - 1
            /\ \A j \in 1 .. Len(Tail(net[p][d])) : Tail(net[p][d])[j] = net[p][d][j + 1]
        BY <3>1, HeadTailProperties
      <4>2. /\ Len(net[p][d]) \in Nat /\ DOMAIN net[p][d] = 1 .. Len(net[p][d])
            /\ i \in 1 .. Len(Tail(net[p][d]))
        BY <3>1, <4>1, LenProperties
      <4>3. i + 1 \in DOMAIN net[p][d] /\ Tail(net[p][d])[i] = net[p][d][i + 1]
        BY <4>1, <4>2
      <4> QED
        BY <1>1, <3>1, <4>3
    <3>4. ASSUME NEW c \in Channels, NEW i \in DOMAIN net'[p][c]
          PROVE  Good(net'[p][c][i], gens[q])
      <4>1. CASE c = d
        BY <3>2, <3>3, <3>4, <4>1
      <4>2. CASE c # d
        BY <1>1, <3>2, <3>4, <4>2
      <4> QED
        BY <4>1, <4>2
    <3> QED
      BY <3>4
  <2> QED
    BY <2>1, <2>2, PeerMail
<1>6. MailOf(q)'
  BY <1>0, <1>4 DEF MailOf, UniformVector, Uniform
<1>7. MailOf(p)'
  BY <1>0, <1>2, <1>5 DEF MailOf, UniformVector, Uniform
<1> QED
  BY <1>6, <1>7

\* The other party stays as Lockstep says.
LEMMA PeerLockstep ==
    ASSUME TypeOK, Counters, Lockstep, NEW p \in Party, NEW s \in Strand,
           Control(p) \/ Communicate(p, s), NEW q \in Party \ {p}
    PROVE  LockstepOf(q)'
<1>0. q = Peer(p) /\ Peer(q) = p
  BY PeerType
<1>1. UNCHANGED StateOf(q) /\ UNCHANGED ObjectsOf(q) /\ plan' = plan
      /\ (q \in closed' <=> q \in closed)
  BY Untouched, PeerObjects
<1>2. gens'[p] \in {gens[p], gens[p] + 1} /\ gens[p] \in Nat /\ gens[q] \in Nat
      /\ \A t \in Strand : heard[q][t] \in Nat
  <2>1. gens'[p] \in {gens[p], gens[p] + 1}
    BY PeerObjects
  <2> QED
    BY <2>1 DEF TypeOK
<1>3. LockstepOf(q)
  BY DEF Lockstep
<1> USE DEF StateOf, ObjectsOf
<1>4. CallsOf(q)'
  BY <1>1, <1>3 DEF LockstepOf, CallsOf, Generated, UniformVector, Uniform
<1>5. PlannedOf(q)'
  BY <1>1, <1>3, PlanKept DEF LockstepOf, PlannedOf
<1>6. StuckOf(q)'
  BY <1>1, <1>3 DEF LockstepOf, StuckOf
<1>7. HoldsOf(q)'
  BY <1>1, <1>3 DEF LockstepOf, HoldsOf, UniformVector, Uniform, Receives
<1>8. KindsOf(q)'
  BY <1>1, <1>3 DEF LockstepOf, KindsOf
<1>9. PaceOf(q)'
  <2>1. gens'[q] = gens[q] /\ stage'[q] = stage[q] /\ heard'[q] = heard[q]
    BY <1>1
  <2>2. gens[p] <= gens'[p]
    BY <1>2
  <2>3. PaceOf(q)
    BY <1>3 DEF LockstepOf
  <2>4. gens'[p] \in Nat
    BY <1>2
  <2> QED
    BY <1>0, <1>1, <1>2, <2>1, <2>2, <2>3, <2>4 DEF PaceOf
<1>10. MailOf(q)'
  BY <1>0, PeerMailOf
<1> QED
  BY <1>4, <1>5, <1>6, <1>7, <1>8, <1>9, <1>10 DEF LockstepOf

-----------------------------------------------------------------------------
(* The party that moves.                                                   *)

\* A party that throws.
LEMMA ThrowLockstep ==
    ASSUME TypeOK, Counters, NEW p \in Party, LockstepOf(p), Throw(p),
           gens' = gens, plan' = plan,
           UNCHANGED <<pos[p], forks[p], heard[p], out[p]>>, MailOf(p)'
    PROVE  LockstepOf(p)'
<1>1. stage'[p] = "failed" /\ job'[p] = Resting /\ p \in closed'
  BY DEF Throw, TypeOK
<1>2. CallsOf(p)'
  BY <1>1 DEF LockstepOf, CallsOf, UniformVector, Uniform
<1>3. PlannedOf(p)'
  BY <1>1, PlanKept DEF LockstepOf, PlannedOf, Resting, Strand
<1>4. StuckOf(p)' /\ HoldsOf(p)' /\ KindsOf(p)'
  BY <1>1 DEF StuckOf, HoldsOf, KindsOf
<1>5. PaceOf(p)'
  BY <1>1 DEF LockstepOf, PaceOf
<1> QED
  BY <1>2, <1>3, <1>4, <1>5 DEF LockstepOf

\* What PlannedOf says of the objects of p stays true when they and the stage's
\* generation do.
LEMMA PlannedKept ==
    ASSUME NEW p \in Party, PlannedOf(p), plan' = plan,
           UNCHANGED <<pos[p], gens[p], forks[p], forked[p], conf[p], ext[p]>>,
           stage[p] \notin {"idle", "failed"}, stage'[p] \notin {"idle", "failed"},
           stage[p] \in {"gen", "pregen"} <=> stage'[p] \in {"gen", "pregen"},
           job'[p].fork = job[p].fork \/ job'[p].fork = <<>>
    PROVE  PlannedOf(p)'
BY PlanKept DEF PlannedOf

\* An idle party configures itself for the call.
LEMMA ConfigureLockstep ==
    ASSUME TypeOK, Counters, Lockstep, NEW p \in Party, MailOf(p)',
           Configure(p) \/ EnterUnconfigured(p)
    PROVE  LockstepOf(p)'
<1>1. LockstepOf(p) /\ CountersOf(p)
  BY DEF Lockstep, Counters
<1>2. UNCHANGED <<plan, pos, baseVole, ext, gens, forks, forked, heard, noisy, out>>
  BY DEF Configure, EnterUnconfigured
<1>3. CASE Throw(p)
  BY <1>1, <1>2, <1>3, ThrowLockstep
<1>4. CASE ~Throw(p)
  <2>1. /\ stage[p] = "idle" /\ baseOts[p] = NoTag /\ job[p] = Resting
        /\ stage'[p] \in {"ready", "entered", "failed"} /\ baseOts'[p] = NoTag
        /\ UNCHANGED <<closed, job>>
    BY <1>1, <1>4 DEF Configure, EnterUnconfigured, SetConfiguration, TypeOK, CountersOf, Running
  <2>2. conf'[p].type = TypeAt(pos[p]) /\ conf'[p].req = RequestAt(pos[p])
    BY DEF Configure, EnterUnconfigured, SetConfiguration, TypeOK, TypeAt, RequestAt, Entry
  <2>3. ~Generated(p) /\ ~Generated(p)' /\ p \notin closed
    BY <1>1, <2>1 DEF Generated, LockstepOf, StuckOf
  <2>4. CallsOf(p)'
    BY <1>1, <1>2, <2>1, <2>3 DEF LockstepOf, CallsOf, UniformVector, Uniform
  <2>5. PlannedOf(p)'
    BY <1>1, <1>2, <2>1, <2>2, PlanKept DEF LockstepOf, PlannedOf, Resting, Strand
  <2>6. StuckOf(p)' /\ HoldsOf(p)' /\ KindsOf(p)'
    BY <2>1, <2>3 DEF StuckOf, HoldsOf, KindsOf
  <2>7. PaceOf(p)'
    BY <1>1, <1>2, <2>1, <2>3 DEF LockstepOf, PaceOf
  <2> QED
    BY <2>4, <2>5, <2>6, <2>7 DEF LockstepOf
<1> QED
  BY <1>3, <1>4

\* A configured party enters the call.
LEMMA EnterLockstep ==
    ASSUME TypeOK, Counters, Lockstep, NEW p \in Party, MailOf(p)', EnterConfigured(p)
    PROVE  LockstepOf(p)'
<1>1. LockstepOf(p) /\ CountersOf(p)
  BY DEF Lockstep, Counters
<1>2. UNCHANGED <<plan, pos, conf, baseOts, baseVole, ext, gens, forks, forked, heard, noisy, out>>
  BY DEF EnterConfigured
<1>3. CASE Throw(p)
  BY <1>1, <1>2, <1>3, ThrowLockstep
<1>4. CASE ~Throw(p)
  <2>1. /\ stage[p] \in {"ready", "based"} /\ stage'[p] = "entered"
        /\ UNCHANGED <<closed, job>>
    BY <1>1, <1>4 DEF EnterConfigured, CallStage, TypeOK, LockstepOf, PlannedOf
  <2>2. job[p] = Resting /\ (stage[p] = "ready" <=> baseOts[p] = NoTag)
    BY <1>1, <2>1 DEF CountersOf, Running
  <2>3. Generated(p)' <=> Generated(p)
    BY <1>2, <2>1, <2>2 DEF Generated
  <2>4. CallsOf(p)'
    BY <1>1, <1>2, <2>1, <2>3 DEF LockstepOf, CallsOf, UniformVector, Uniform
  <2>5. PlannedOf(p)'
    BY <1>1, <1>2, <2>1, PlannedKept DEF LockstepOf
  <2>6. StuckOf(p)' /\ KindsOf(p)'
    BY <1>1, <1>2, <2>1, <2>2 DEF LockstepOf, StuckOf, KindsOf
  <2>7. HoldsOf(p)'
    BY <1>1, <1>2, <2>1, <2>2 DEF LockstepOf, HoldsOf, Uniform
  <2>8. PaceOf(p)'
    BY <1>1, <1>2, <2>1 DEF LockstepOf, PaceOf
  <2> QED
    BY <2>4, <2>5, <2>6, <2>7, <2>8 DEF LockstepOf
<1> QED
  BY <1>3, <1>4

\* What genSilentBaseOts begins with.
LEMMA GenShape ==
    ASSUME TypeOK, Counters, Lockstep, NEW p \in Party, GenSilentBaseOts(p), ~RefusesMalicious(p)
    PROVE  /\ stage[p] \in {"entered", "ready"} /\ baseOts[p] = NoTag /\ job[p] = Resting
           /\ p \notin closed /\ gens[p] \in Nat /\ gens[p] + 1 = pos[p]
           /\ gens[p] <= gens[Peer(p)]
           /\ stage'[p] \in {"gen", "pregen"} /\ gens'[p] = gens[p] + 1
           /\ forked'[p] = ForksAt(gens[p] + 1)
           /\ forks'[p] = ForksIn(gens[p] + 1)
           /\ heard'[p] = [s \in Strand |-> 0]
           /\ job'[p] = GenJob(p, TypeAt(gens[p] + 1), ExtAt(gens[p] + 1))
           /\ UNCHANGED <<plan, pos, mState, conf, baseOts, baseVole, ext, noisy, net, out, closed>>
<1>1. LockstepOf(p) /\ CountersOf(p) /\ gens[p] \in Nat /\ pos[p] \in Nat
  BY DEF Lockstep, Counters, TypeOK
<1>2. /\ stage[p] \in {"entered", "ready"} /\ baseOts[p] = NoTag /\ job[p] = Resting
  BY <1>1 DEF GenSilentBaseOts, CountersOf, Running
<1>3. p \notin closed /\ gens[p] = pos[p] - 1
  BY <1>1, <1>2 DEF LockstepOf, StuckOf, CallsOf, Generated
<1>4. gens[p] + 1 = pos[p]
  BY <1>1, <1>3
<1>5. gens[p] <= gens[Peer(p)]
  BY <1>1, <1>2, <1>3 DEF LockstepOf, PaceOf
<1>6. conf[p].type = TypeAt(gens[p] + 1) /\ ext[p] = ExtAt(gens[p] + 1) /\ forks[p] = ForksIn(gens[p])
  BY <1>1, <1>2, <1>4 DEF LockstepOf, PlannedOf
<1>7. /\ stage' = [stage EXCEPT ![p] = IF @ = "ready" THEN "pregen" ELSE "gen"]
      /\ gens' = [gens EXCEPT ![p] = @ + 1]
      /\ forked' = [forked EXCEPT ![p] = MustFork(conf[p].type, ext[p])]
      /\ forks' = [forks EXCEPT ![p] = IF forked'[p] THEN @ + 1 ELSE @]
      /\ heard' = [heard EXCEPT ![p] = [s \in Strand |-> 0]]
      /\ job' = [job EXCEPT ![p] = GenJob(p, conf[p].type, ext[p])]
      /\ UNCHANGED <<plan, pos, mState, conf, baseOts, baseVole, ext, noisy, net, out, closed>>
  BY DEF GenSilentBaseOts
<1>8. forked'[p] = ForksAt(gens[p] + 1)
  BY <1>6, <1>7 DEF TypeOK, ForksAt
<1>9. forks'[p] = ForksIn(gens[p] + 1)
  <2>1. forks'[p] = IF ForksAt(gens[p] + 1) THEN forks[p] + 1 ELSE forks[p]
    BY <1>7, <1>8 DEF TypeOK
  <2> QED
    BY <1>1, <1>6, <2>1, ForksNext
<1>10. /\ stage'[p] \in {"gen", "pregen"} /\ gens'[p] = gens[p] + 1
       /\ heard'[p] = [s \in Strand |-> 0]
       /\ job'[p] = GenJob(p, TypeAt(gens[p] + 1), ExtAt(gens[p] + 1))
  BY <1>6, <1>7 DEF TypeOK
<1> QED
  BY <1>1, <1>2, <1>3, <1>4, <1>5, <1>7, <1>8, <1>9, <1>10

\* genSilentBaseOts begins.
LEMMA GenLockstep ==
    ASSUME TypeOK, Counters, Lockstep, NEW p \in Party, MailOf(p)', GenSilentBaseOts(p)
    PROVE  LockstepOf(p)'
<1>1. LockstepOf(p) /\ CountersOf(p)
  BY DEF Lockstep, Counters
<1>2. CASE RefusesMalicious(p)
  BY <1>1, <1>2, ThrowLockstep DEF GenSilentBaseOts
<1>3. CASE ~RefusesMalicious(p)
  <2> DEFINE g == gens[p] + 1
             j == GenJob(p, TypeAt(g), ExtAt(g))
             q == Peer(p)
  <2>1. /\ stage[p] \in {"entered", "ready"} /\ baseOts[p] = NoTag
        /\ p \notin closed /\ gens[p] \in Nat /\ g = pos[p] /\ gens[p] <= gens[q]
        /\ stage'[p] \in {"gen", "pregen"} /\ gens'[p] = g
        /\ forked'[p] = ForksAt(g) /\ forks'[p] = ForksIn(g)
        /\ heard'[p] = [s \in Strand |-> 0] /\ job'[p] = j
        /\ UNCHANGED <<plan, pos, mState, conf, baseOts, baseVole, ext, noisy, out, closed>>
    BY <1>3, GenShape
  <2>2. gens'[q] = gens[q] /\ gens[q] \in Nat
    BY PeerType, <1>3 DEF GenSilentBaseOts, TypeOK
  <2>3. /\ j.main \in Seq(GenOp) /\ Receives(j.main)
        /\ ForksAt(g) => Receives(j.fork)
        /\ ~ForksAt(g) => j.fork = <<>>
        /\ j.fork \in Seq(GenOp)
    BY GenOpposite, GenOpposites DEF GenJob, Strand, ForksAt
  <2> HIDE DEF g, j, q
  <2>4. CallsOf(p)'
    BY <1>1, <2>1 DEF LockstepOf, CallsOf, Generated, UniformVector, Uniform, g
  <2>5. PlannedOf(p)'
    <3>1. conf[p].type = TypeAt(pos[p]) /\ conf[p].req = RequestAt(pos[p]) /\ ext[p] = ExtAt(g)
      BY <1>1, <2>1 DEF LockstepOf, PlannedOf, g
    <3> QED
      BY <2>1, <2>3, <3>1, PlanKept DEF PlannedOf
  <2>6. StuckOf(p)'
    BY <2>1 DEF StuckOf
  <2>7. HoldsOf(p)'
    BY <2>1, <2>3 DEF HoldsOf, Strand, Receives
  <2>8. KindsOf(p)'
    <3>1. ASSUME NEW ops \in Seq(GenOp), NEW i \in DOMAIN ops PROVE ops[i].kind \in GenKind
      <4>1. ops[i] \in GenOp
        BY ElementOfSeq, LenProperties
      <4> QED
        BY <4>1 DEF GenOp
    <3> QED
      BY <2>1, <2>3, <3>1 DEF KindsOf, Strand
  <2>9. PaceOf(p)'
    BY <2>1, <2>2 DEF PaceOf, g, q
  <2> QED
    BY <2>4, <2>5, <2>6, <2>7, <2>8, <2>9 DEF LockstepOf
<1> QED
  BY <1>2, <1>3

\* setSilentBaseOts stores what the protocols have left.
LEMMA SetLockstep ==
    ASSUME TypeOK, Counters, Lockstep, NEW p \in Party, MailOf(p)', SetSilentBaseOts(p)
    PROVE  LockstepOf(p)'
<1>1. LockstepOf(p) /\ CountersOf(p) /\ gens[p] \in Nat /\ gens[p] >= 1
  BY DEF Lockstep, Counters, CountersOf, Running, SetSilentBaseOts, TypeOK
<1>2. /\ stage[p] \in {"gen", "pregen"} /\ stage'[p] \in {"entered", "based"}
      /\ job[p] = Resting
      /\ baseOts'[p] = TagOf(p, heard[p].main)
      /\ baseVole'[p] = TagOf(p, IF forked[p] THEN heard[p].fork ELSE heard[p].main)
      /\ ext'[p] = IF conf[p].type = "Base" THEN ext[p]
                   ELSE [main |-> "seeded", nv |-> "seeded"]
      /\ UNCHANGED <<plan, pos, conf, gens, forks, forked, job, heard, noisy, closed, out>>
  BY DEF SetSilentBaseOts, TypeOK
<1>3. \A h : TagOf(p, h) # NoTag
  <2>1. \A h : TagOf(p, h)[p] = gens[p] /\ NoTag[p] = 0
    BY DEF TagOf, NoTag
  <2> QED
    BY <1>1, <2>1
<1>4. p \notin closed => /\ heard[p].main = gens[p]
                         /\ forked[p] => heard[p].fork = gens[p]
  BY <1>1, <1>2 DEF LockstepOf, HoldsOf, Strand, Receives, Resting
<1>5. TagOf(p, gens[p]) = Uniform(gens[p])
  BY DEF TagOf, Uniform
<1>6. Generated(p) /\ Generated(p)'
  BY <1>2, <1>3 DEF Generated
<1>7. CallsOf(p)'
  BY <1>1, <1>2, <1>6 DEF LockstepOf, CallsOf, UniformVector, Uniform
<1>8. PlannedOf(p)'
  <2>1. gens[p] = pos[p] /\ conf[p].type = TypeAt(pos[p]) /\ conf[p].req = RequestAt(pos[p])
        /\ ext[p] = ExtAt(gens[p]) /\ forks[p] = ForksIn(gens[p])
    BY <1>1, <1>2, <1>6 DEF LockstepOf, CallsOf, PlannedOf
  <2>2. conf[p].type \in {"Base", "BaseExtend"}
    BY DEF TypeOK, BaseType
  <2>3. ext'[p] = ExtAt(gens[p] + 1)
    BY <1>1, <1>2, <2>1, <2>2, ExtNext
  <2> QED
    BY <1>2, <2>1, <2>3, PlanKept DEF PlannedOf, Resting, Strand
<1>9. StuckOf(p)' /\ KindsOf(p)'
  BY <1>2, <1>3 DEF StuckOf, KindsOf
<1>10. HoldsOf(p)'
  BY <1>2, <1>4, <1>5 DEF HoldsOf, Uniform
<1>11. PaceOf(p)'
  BY <1>1, <1>2, <1>4 DEF LockstepOf, PaceOf, Strand
<1> QED
  BY <1>7, <1>8, <1>9, <1>10, <1>11 DEF LockstepOf

\* The expansion begins.
LEMMA BeginLockstep ==
    ASSUME TypeOK, Counters, Lockstep, NEW p \in Party, MailOf(p)', BeginExpand(p)
    PROVE  LockstepOf(p)'
<1>1. LockstepOf(p) /\ CountersOf(p)
  BY DEF Lockstep, Counters
<1>2. stage[p] = "entered" /\ baseOts[p] # NoTag
      /\ UNCHANGED <<plan, pos, mState, conf, baseOts, baseVole, ext, gens, forks,
                     forked, heard, out>>
  BY DEF BeginExpand
<1>3. CASE ~FitsTrees(conf[p].req, conf[p].dom)
  BY <1>1, <1>2, <1>3, ThrowLockstep DEF BeginExpand
<1>4. CASE FitsTrees(conf[p].req, conf[p].dom)
  <2>1. /\ stage'[p] = "expand"
        /\ noisy'[p] = [ots |-> baseOts[p], vole |-> baseVole[p]]
        /\ job'[p] = OnMain(Expansion(p)) /\ closed' = closed
    BY <1>4 DEF BeginExpand, TypeOK
  <2>2. Expansion(p) # <<>>
    <3>1. DOMAIN Expansion(p) = 1 .. NumBatches
      BY DEF Expansion
    <3>2. 1 \in DOMAIN Expansion(p)
      BY <3>1, ConstantsAssumption
    <3> QED
      BY <3>2
  <2>3. Generated(p) /\ Generated(p)'
    BY <1>2, <2>1 DEF Generated
  <2>4. CallsOf(p)'
    BY <1>1, <1>2, <2>1, <2>3 DEF LockstepOf, CallsOf, UniformVector, Uniform
  <2>5. PlannedOf(p)'
    BY <1>1, <1>2, <2>1, PlannedKept DEF LockstepOf, OnMain, Strand
  <2>6. StuckOf(p)' /\ KindsOf(p)'
    BY <2>1, <2>2 DEF StuckOf, KindsOf, OnMain, Strand
  <2>7. HoldsOf(p)'
    BY <1>1, <1>2, <2>1 DEF LockstepOf, HoldsOf, UniformVector, Uniform
  <2>8. PaceOf(p)'
    BY <1>1, <1>2, <2>1 DEF LockstepOf, PaceOf
  <2> QED
    BY <2>4, <2>5, <2>6, <2>7, <2>8 DEF LockstepOf
<1> QED
  BY <1>3, <1>4

\* The expansion ends and the checks begin.
LEMMA EndLockstep ==
    ASSUME TypeOK, Counters, Lockstep, NEW p \in Party, MailOf(p)', EndExpand(p)
    PROVE  LockstepOf(p)'
<1>1. LockstepOf(p) /\ CountersOf(p)
  BY DEF Lockstep, Counters
<1>2. /\ stage[p] = "expand" /\ job[p] = Resting /\ stage'[p] = "verify"
      /\ job'[p] = OnMain(Verification(p, Entry(p))) /\ baseOts'[p] = NoTag
      /\ UNCHANGED <<plan, pos, conf, baseVole, ext, gens, forks, forked, heard, noisy, closed, out>>
  BY DEF EndExpand, TypeOK
<1>3. p \notin closed
  BY <1>1, <1>2 DEF LockstepOf, StuckOf, Resting, Strand
<1>4. Generated(p) /\ Generated(p)'
  BY <1>2 DEF Generated
<1>5. CallsOf(p)'
  BY <1>1, <1>2, <1>4 DEF LockstepOf, CallsOf, UniformVector, Uniform
<1>6. PlannedOf(p)'
  BY <1>1, <1>2, PlannedKept DEF LockstepOf, OnMain, Strand
<1>7. StuckOf(p)' /\ KindsOf(p)'
  BY <1>2, <1>3 DEF StuckOf, KindsOf
<1>8. HoldsOf(p)'
  BY <1>1, <1>2 DEF LockstepOf, HoldsOf, UniformVector, Uniform
<1>9. PaceOf(p)'
  BY <1>1, <1>2 DEF LockstepOf, PaceOf
<1> QED
  BY <1>5, <1>6, <1>7, <1>8, <1>9 DEF LockstepOf

\* A call returns.
LEMMA FinishShape ==
    ASSUME TypeOK, Counters, Lockstep, NEW p \in Party, Finish(p)
    PROVE  /\ p \notin closed /\ gens[p] = pos[p] /\ gens[p] <= gens[Peer(p)]
           /\ noisy[p] = UniformVector(gens[p])
           /\ Len(out[p]) + 1 = pos[p] /\ pos[p] \in Nat
           /\ stage[p] = "verify" /\ stage'[p] = "idle" /\ pos'[p] = pos[p] + 1
           /\ \E tail \in TailsOf(conf[p].req, Entry(p).n) :
                 out' = [out EXCEPT ![p] = Append(@, [vector |-> noisy[p], tail |-> tail])]
<1>1. LockstepOf(p) /\ CountersOf(p)
  BY DEF Lockstep, Counters
<1>2. stage[p] = "verify" /\ stage'[p] = "idle" /\ pos'[p] = pos[p] + 1 /\ pos[p] \in Nat
  BY DEF Finish, TypeOK
<1>3. p \notin closed
  BY <1>1, <1>2 DEF LockstepOf, StuckOf
<1>4. gens[p] = pos[p] /\ Len(out[p]) = pos[p] - 1
  BY <1>1, <1>2 DEF LockstepOf, CallsOf, Generated
<1>5. noisy[p] = UniformVector(gens[p])
  BY <1>1, <1>2, <1>3 DEF LockstepOf, HoldsOf
<1>6. gens[p] <= gens[Peer(p)]
  BY <1>1, <1>2, <1>3 DEF LockstepOf, PaceOf
<1>7. Len(out[p]) + 1 = pos[p]
  BY <1>2, <1>4
<1> QED
  BY <1>2, <1>3, <1>4, <1>5, <1>6, <1>7 DEF Finish

\* So the next call begins as the plan says.
LEMMA FinishLockstep ==
    ASSUME TypeOK, Counters, Lockstep, NEW p \in Party, MailOf(p)', Finish(p)
    PROVE  LockstepOf(p)'
<1>1. LockstepOf(p) /\ CountersOf(p)
  BY DEF Lockstep, Counters
<1>2. /\ stage[p] = "verify" /\ job[p] = Resting /\ stage'[p] = "idle"
      /\ mState'[p] = "Default" /\ pos'[p] = pos[p] + 1 /\ baseOts'[p] = NoTag
      /\ UNCHANGED <<plan, ext, gens, forks, forked, job, heard, closed>>
  BY DEF Finish, TypeOK
<1>3. /\ p \notin closed /\ gens[p] = pos[p] /\ noisy[p] = UniformVector(gens[p])
      /\ Len(out[p]) + 1 = pos[p] /\ pos[p] \in Nat
  BY FinishShape
<1>4. PICK tail : out' = [out EXCEPT ![p] = Append(@, [vector |-> noisy[p], tail |-> tail])]
                  /\ tail \in TailKind
  <2>1. TailsOf(conf[p].req, Entry(p).n) \subseteq TailKind
    BY DEF TailsOf, TailKind
  <2> QED
    BY <2>1, FinishShape
<1>5. CallsOf(p)'
  <2> DEFINE o == [vector |-> noisy[p], tail |-> tail]
  <2>1. out'[p] = Append(out[p], o) /\ out[p] \in Seq(Output) /\ o \in Output
    BY <1>4 DEF TypeOK, Output
  <2>2. o.vector = UniformVector(pos[p])
    BY <1>3
  <2> HIDE DEF o
  <2>3. /\ Len(Append(out[p], o)) = pos[p]
        /\ DOMAIN Append(out[p], o) = 1 .. pos[p]
        /\ \A k \in 1 .. pos[p] - 1 : Append(out[p], o)[k] = out[p][k]
        /\ Append(out[p], o)[pos[p]] = o
        /\ DOMAIN out[p] = 1 .. pos[p] - 1
    <3>1. /\ Append(out[p], o) \in Seq(Output)
          /\ Len(Append(out[p], o)) = Len(out[p]) + 1
          /\ \A k \in 1 .. Len(out[p]) : Append(out[p], o)[k] = out[p][k]
          /\ Append(out[p], o)[Len(out[p]) + 1] = o
      BY <2>1, AppendProperties
    <3>2. Len(out[p]) = pos[p] - 1
      BY <1>3, <2>1, LenProperties
    <3> QED
      BY <1>3, <2>1, <3>1, <3>2, LenProperties
  <2>4. \A k \in DOMAIN out[p] : out[p][k].vector = UniformVector(k)
    BY <1>1 DEF LockstepOf, CallsOf
  <2>5. \A k \in 1 .. pos[p] : out'[p][k].vector = UniformVector(k)
    <3> SUFFICES ASSUME NEW k \in 1 .. pos[p] PROVE out'[p][k].vector = UniformVector(k)
      OBVIOUS
    <3>1. CASE k = pos[p]
      BY <2>1, <2>2, <2>3, <3>1
    <3>2. CASE k # pos[p]
      <4>1. k \in 1 .. pos[p] - 1
        BY <1>3, <3>2
      <4> QED
        BY <2>1, <2>3, <2>4, <4>1
    <3> QED
      BY <3>1, <3>2
  <2>6. ~Generated(p)'
    BY <1>2 DEF Generated
  <2>7. pos'[p] - 1 = pos[p]
    BY <1>2, <1>3
  <2>8. gens'[p] = pos'[p] - 1 /\ Len(out'[p]) = pos'[p] - 1
    BY <1>2, <1>3, <2>1, <2>3, <2>7
  <2>9. \A k \in DOMAIN out'[p] : out'[p][k].vector = UniformVector(k)
    BY <2>1, <2>3, <2>5
  <2> QED
    BY <2>6, <2>8, <2>9 DEF CallsOf, UniformVector, Uniform
<1>6. PlannedOf(p)'
  BY <1>1, <1>2, PlanKept DEF LockstepOf, PlannedOf
<1>7. StuckOf(p)' /\ HoldsOf(p)' /\ KindsOf(p)'
  BY <1>2, <1>3 DEF StuckOf, HoldsOf, KindsOf
<1>8. PaceOf(p)'
  BY <1>1, <1>2 DEF LockstepOf, PaceOf
<1> QED
  BY <1>5, <1>6, <1>7, <1>8 DEF LockstepOf

\* A strand that goes on: what it had to receive besides the first operation is
\* still to come.
LEMMA AdvanceShape ==
    ASSUME TypeOK, NEW p \in Party, NEW s \in Strand, job[p][s] # <<>>, Advance(p, s)
    PROVE  /\ job'[p][s] = Tail(job[p][s])
           /\ \A t \in Strand \ {s} : job'[p][t] = job[p][t]
           /\ NextOp(p, s).io = "send" /\ Receives(job[p][s]) => Receives(job'[p][s])
           /\ \A K : (\A i \in DOMAIN job[p][s] : job[p][s][i].kind \in K)
                        => \A i \in DOMAIN job'[p][s] : job'[p][s][i].kind \in K
           /\ job'[p][s] # <<>> => job[p][s] # <<>>
<1> DEFINE a == job[p][s]
           t == Tail(a)
<1>1. job'[p][s] = t /\ \A u \in Strand \ {s} : job'[p][u] = job[p][u]
  BY DEF Advance, TypeOK
<1>2. /\ t \in Seq(Op) /\ Len(t) = Len(a) - 1 /\ Head(a) = a[1]
      /\ \A i \in 1 .. Len(t) : t[i] = a[i + 1]
      /\ DOMAIN a = 1 .. Len(a) /\ DOMAIN t = 1 .. Len(t) /\ Len(a) \in Nat
  BY HeadTailProperties, LenProperties DEF TypeOK
<1> HIDE DEF a, t
<1>3. ASSUME Head(a).io = "send", Receives(a) PROVE Receives(t)
  <2>1. PICK i \in 1 .. Len(a) : a[i].io = "recv"
    BY <1>2, <1>3 DEF Receives
  <2>2. i # 1
    BY <1>2, <1>3, <2>1
  <2>3. i - 1 \in 1 .. Len(t) /\ t[i - 1] = a[(i - 1) + 1] /\ (i - 1) + 1 = i
    BY <1>2, <2>1, <2>2
  <2> QED
    BY <1>2, <2>1, <2>3 DEF Receives
<1>4. ASSUME NEW K, \A i \in DOMAIN a : a[i].kind \in K, NEW i \in DOMAIN t
      PROVE  t[i].kind \in K
  <2>1. t[i] = a[i + 1] /\ i + 1 \in DOMAIN a
    BY <1>2
  <2> QED
    BY <1>4, <2>1
<1> QED
  BY <1>1, <1>3, <1>4 DEF NextOp, a, t

\* The parts of Lockstep that a channel operation cannot disturb, besides the
\* exceptions.
LEMMA AdvanceLockstep ==
    ASSUME TypeOK, Counters, Lockstep, NEW p \in Party, NEW s \in Strand,
           p \notin closed, job[p][s] # <<>>, Advance(p, s),
           UNCHANGED <<plan, pos, stage, conf, ext, baseOts, gens, forks, forked,
                       mState, closed, out>>
    PROVE  CallsOf(p)' /\ PlannedOf(p)' /\ StuckOf(p)' /\ KindsOf(p)'
<1>1. LockstepOf(p)
  BY DEF Lockstep
<1>2. /\ job'[p][s] = Tail(job[p][s])
      /\ \A t \in Strand \ {s} : job'[p][t] = job[p][t]
      /\ \A K : (\A i \in DOMAIN job[p][s] : job[p][s][i].kind \in K)
                        => \A i \in DOMAIN job'[p][s] : job'[p][s][i].kind \in K
  BY AdvanceShape
<1>3. CallsOf(p)'
  BY <1>1 DEF LockstepOf, CallsOf, Generated, UniformVector, Uniform
<1>4. job'[p].fork # <<>> => job[p].fork # <<>>
  BY <1>2 DEF Strand
<1>5. PlannedOf(p)'
  BY <1>1, <1>4, PlanKept DEF LockstepOf, PlannedOf
<1>6. StuckOf(p)'
  BY DEF StuckOf
<1>7. KindsOf(p)'
  BY <1>1, <1>2 DEF LockstepOf, KindsOf
<1> QED
  BY <1>3, <1>5, <1>6, <1>7

\* What p holds, when its strands have heard of its peer's generation or will.
LEMMA HoldsKept ==
    ASSUME NEW p \in Party, HoldsOf(p), p \notin closed,
           UNCHANGED <<stage[p], forked[p], gens[p], baseOts[p], baseVole[p]>>,
           stage[p] \in {"expand", "verify"} => noisy'[p] = noisy[p],
           \A t \in Strand : \/ heard'[p][t] = gens[p]
                             \/ /\ heard'[p][t] = heard[p][t]
                                /\ Receives(job[p][t]) => Receives(job'[p][t])
    PROVE  HoldsOf(p)'
<1>1. stage[p] \in {"gen", "pregen"} =>
         \A t \in IF forked[p] THEN Strand ELSE {"main"} :
            heard'[p][t] = gens[p] \/ Receives(job'[p][t])
  <2> SUFFICES ASSUME stage[p] \in {"gen", "pregen"},
                      NEW t \in IF forked[p] THEN Strand ELSE {"main"}
               PROVE  heard'[p][t] = gens[p] \/ Receives(job'[p][t])
    OBVIOUS
  <2>1. heard[p][t] = gens[p] \/ Receives(job[p][t])
    BY DEF HoldsOf
  <2>2. t \in Strand
    BY DEF Strand
  <2> QED
    BY <2>1, <2>2
<1> QED
  BY <1>1 DEF HoldsOf, UniformVector, Uniform

\* A message is sent.
LEMMA TransmitLockstep ==
    ASSUME TypeOK, Counters, Lockstep, NEW p \in Party, NEW s \in Strand, MailOf(p)',
           Transmit(p, s)
    PROVE  LockstepOf(p)'
<1>1. LockstepOf(p)
  BY DEF Lockstep
<1>2. /\ job[p][s] # <<>> /\ NextOp(p, s).io = "send" /\ p \notin closed /\ Advance(p, s)
      /\ UNCHANGED <<plan, pos, stage, mState, conf, baseOts, baseVole, ext, gens,
                     forks, forked, heard, noisy, closed, out>>
  BY DEF Transmit
<1>3. CallsOf(p)' /\ PlannedOf(p)' /\ StuckOf(p)' /\ KindsOf(p)'
  BY <1>2, AdvanceLockstep
<1>4. HoldsOf(p)'
  <2>1. \A t \in Strand : Receives(job[p][t]) => Receives(job'[p][t])
    BY <1>2, AdvanceShape
  <2> QED
    BY <1>1, <1>2, <2>1, HoldsKept DEF LockstepOf
<1>5. PaceOf(p)'
  BY <1>1, <1>2 DEF LockstepOf, PaceOf
<1> QED
  BY <1>3, <1>4, <1>5 DEF LockstepOf

\* A message is received.
LEMMA ReceiveLockstep ==
    ASSUME TypeOK, Counters, Lockstep, InSync, NEW p \in Party, NEW s \in Strand, MailOf(p)',
           Receive(p, s)
    PROVE  LockstepOf(p)'
<1> DEFINE m == Head(Inbox(p, s))
<1>1. LockstepOf(p)
  BY DEF Lockstep
<1>2. /\ job[p][s] # <<>> /\ Inbox(p, s) # <<>> /\ p \notin closed /\ m.kind = NextOp(p, s).kind
      /\ UNCHANGED <<plan, pos, mState, conf, baseOts, baseVole, ext, gens, forks, forked, out>>
  BY DEF Receive
<1>3. CASE Refuses(p, m)
  <2>1. Throw(p) /\ UNCHANGED <<heard, noisy>>
    BY <1>3 DEF Receive
  <2> QED
    BY <1>1, <1>2, <2>1, ThrowLockstep
<1>4. CASE ~Refuses(p, m)
  <2>1. /\ Advance(p, s)
        /\ heard' = [heard EXCEPT ![p][s] = m.gen]
        /\ noisy' = [noisy EXCEPT ![p] =
                       IF m.kind = "tree" /\ m.vector # @ THEN Junk(p) ELSE @]
        /\ UNCHANGED <<stage, closed>>
    BY <1>4 DEF Receive
  <2>2. m.gen = gens[p]
    BY <1>2, Expected
  <2>3. /\ m.gen <= gens[Peer(p)]
        /\ m.kind \in VectorKind => m.vector = UniformVector(m.gen)
    <3> DEFINE c == Channel(p, s)
    <3>1. c \in Channels /\ Inbox(p, s) = net[p][c] /\ net[p][c] \in Seq(Message)
      BY <1>2, ActiveStrand DEF Inbox, TypeOK
    <3>2. 1 \in DOMAIN net[p][c] /\ m = net[p][c][1]
      BY <1>2, <3>1, HeadTailProperties, EmptySeq, LenProperties
    <3> QED
      BY <1>1, <3>1, <3>2 DEF LockstepOf, MailOf
  <2>4. /\ job[p][s] # <<>> => CallsOf(p)' /\ PlannedOf(p)' /\ StuckOf(p)' /\ KindsOf(p)'
    BY <1>2, <2>1, AdvanceLockstep
  <2> HIDE DEF m
  <2>5. /\ heard'[p][s] = gens[p]
        /\ \A t \in Strand \ {s} : heard'[p][t] = heard[p][t]
    BY <2>1, <2>2 DEF TypeOK
  <2>6. stage[p] \in {"expand", "verify"} => noisy'[p] = noisy[p]
    <3> SUFFICES ASSUME stage[p] \in {"expand", "verify"} PROVE noisy'[p] = noisy[p]
      OBVIOUS
    <3>1. noisy[p] = UniformVector(gens[p])
      BY <1>1, <1>2 DEF LockstepOf, HoldsOf
    <3>2. m.kind = "tree" => m.vector = noisy[p]
      BY <2>2, <2>3, <3>1 DEF VectorKind
    <3> QED
      BY <2>1, <3>2 DEF TypeOK
  <2>7. HoldsOf(p)'
    <3>1. \A t \in Strand \ {s} : job'[p][t] = job[p][t]
      BY <1>2, <2>1, AdvanceShape
    <3>2. ASSUME NEW t \in Strand
          PROVE  \/ heard'[p][t] = gens[p]
                 \/ heard'[p][t] = heard[p][t] /\ job'[p][t] = job[p][t]
      BY <2>5, <3>1
    <3>3. \A t \in Strand : \/ heard'[p][t] = gens[p]
                             \/ /\ heard'[p][t] = heard[p][t]
                                /\ Receives(job[p][t]) => Receives(job'[p][t])
      BY <3>2
    <3> QED
      BY <1>1, <1>2, <2>1, <2>6, <3>3, HoldsKept DEF LockstepOf
  <2>8. PaceOf(p)'
    BY <1>1, <1>2, <2>1, <2>2, <2>3, <2>5 DEF LockstepOf, PaceOf
  <2> QED
    BY <1>2, <2>4, <2>7, <2>8 DEF LockstepOf
<1> QED
  BY <1>3, <1>4

\* An operation throws: its socket is closed, since no message is unexpected.
LEMMA BreakClosed ==
    ASSUME TypeOK, Counters, Lockstep, InSync, NEW p \in Party, NEW s \in Strand, Break(p, s)
    PROVE  p \in closed' /\ closed # {}
<1>1. p \in closed'
  BY DEF Break, Throw
<1>2. closed # {}
  BY Expected DEF Break
<1> QED
  BY <1>1, <1>2

\* A strand that ends early, or a party that throws, leaves what the plan says.
LEMMA BreakLockstep ==
    ASSUME TypeOK, Counters, Lockstep, NEW p \in Party, NEW s \in Strand, MailOf(p)',
           Break(p, s)
    PROVE  LockstepOf(p)'
<1>1. LockstepOf(p)
  BY DEF Lockstep
<1>2. UNCHANGED <<plan, pos, mState, conf, baseOts, baseVole, ext, gens, forks,
                  forked, noisy, net, out>>
  BY DEF Break
<1>3. CASE stage[p] \in {"gen", "pregen"} /\ forked[p]
  <2>1. /\ job' = [job EXCEPT ![p][s] = <<>>]
        /\ heard' = [heard EXCEPT ![p][s] = 0]
        /\ p \in closed' /\ stage' = stage
    BY <1>3 DEF Break
  <2>2. /\ job'[p][s] = <<>> /\ heard'[p][s] = 0
        /\ \A t \in Strand \ {s} : job'[p][t] = job[p][t] /\ heard'[p][t] = heard[p][t]
    BY <2>1 DEF TypeOK
  <2>3. CallsOf(p)'
    BY <1>1, <1>2, <2>1 DEF LockstepOf, CallsOf, Generated, UniformVector, Uniform
  <2>4. PlannedOf(p)'
    BY <1>1, <1>2, <1>3, <2>1, <2>2, PlanKept DEF LockstepOf, PlannedOf
  <2>5. StuckOf(p)' /\ HoldsOf(p)'
    BY <1>3, <2>1 DEF StuckOf, HoldsOf
  <2>6. KindsOf(p)'
    BY <1>1, <2>1, <2>2 DEF LockstepOf, KindsOf
  <2>7. PaceOf(p)'
    <3>1. gens[Peer(p)] \in Nat
      BY PeerType DEF TypeOK
    <3> QED
      BY <1>1, <1>2, <2>1, <2>2, <3>1 DEF LockstepOf, PaceOf
  <2> QED
    BY <2>3, <2>4, <2>5, <2>6, <2>7 DEF LockstepOf
<1>4. CASE ~(stage[p] \in {"gen", "pregen"} /\ forked[p])
  <2>1. Throw(p) /\ heard' = heard
    BY <1>4 DEF Break
  <2> QED
    BY <1>1, <1>2, <2>1, ThrowLockstep
<1> QED
  BY <1>3, <1>4

\* Whatever a party does, both stay as Lockstep says.
LEMMA LockstepMoves ==
    ASSUME TypeOK, Counters, Lockstep, InSync, NEW p \in Party, NEW s \in Strand,
           Control(p) \/ Communicate(p, s)
    PROVE  Lockstep'
<1>1. MailOf(p)'
  BY PeerMailOf
<1>2. LockstepOf(p)'
  <2>1. CASE Configure(p) \/ EnterUnconfigured(p)
    BY <1>1, <2>1, ConfigureLockstep
  <2>2. CASE EnterConfigured(p)
    BY <1>1, <2>2, EnterLockstep
  <2>3. CASE GenSilentBaseOts(p)
    BY <1>1, <2>3, GenLockstep
  <2>4. CASE SetSilentBaseOts(p)
    BY <1>1, <2>4, SetLockstep
  <2>5. CASE BeginExpand(p)
    BY <1>1, <2>5, BeginLockstep
  <2>6. CASE EndExpand(p)
    BY <1>1, <2>6, EndLockstep
  <2>7. CASE Finish(p)
    BY <1>1, <2>7, FinishLockstep
  <2>8. CASE Transmit(p, s)
    BY <1>1, <2>8, TransmitLockstep
  <2>9. CASE Receive(p, s)
    BY <1>1, <2>9, ReceiveLockstep
  <2>10. CASE Break(p, s)
    BY <1>1, <2>10, BreakLockstep
  <2> QED
    BY <2>1, <2>2, <2>3, <2>4, <2>5, <2>6, <2>7, <2>8, <2>9, <2>10 DEF Control, Communicate
<1>3. \A q \in Party \ {p} : LockstepOf(q)'
  BY PeerLockstep
<1> QED
  BY <1>2, <1>3 DEF Lockstep

-----------------------------------------------------------------------------
(* What is left to do, step by step.                                       *)

\* The party that does not move has the same left of its current call.
LEMMA PeerLeft ==
    ASSUME TypeOK, NEW p \in Party, NEW s \in Strand, Control(p) \/ Communicate(p, s),
           NEW q \in Party \ {p}, NEW c
    PROVE  Left(q, c)' = Left(q, c) /\ gens'[q] = gens[q]
<1>1. UNCHANGED StateOf(q) /\ UNCHANGED ObjectsOf(q) /\ plan' = plan
  BY Untouched, PeerObjects
<1>2. Later(q)' = Later(q)
  BY <1>1 DEF Later, Generated, Entry, AfterGen, StateOf, ObjectsOf
<1> QED
  BY <1>1, <1>2 DEF Left, StateOf, ObjectsOf

\* What is left beyond the current call depends on the generations only.
LEMMA AheadKept ==
    ASSUME plan' = plan, gens' = gens, NEW p \in Party, NEW c
    PROVE  Ahead(p, c)' = Ahead(p, c)
BY PlanKept DEF Ahead, Steps

\* So what a party has to do is the same while what is left of its call is.
LEMMA TodoKept ==
    ASSUME plan' = plan, gens' = gens, NEW p \in Party, NEW c, Left(p, c)' = Left(p, c)
    PROVE  Todo(p, c)' = Todo(p, c)
<1>1. Ahead(p, c)' = Ahead(p, c)
  BY AheadKept
<1>2. Steps(Left(p, c), gens[p])' = Steps(Left(p, c), gens[p])
  BY DEF Steps
<1>3. Todo(p, c) = Steps(Left(p, c), gens[p]) \o Ahead(p, c)
  BY DEF Todo, Ahead
<1>4. Todo(p, c)' = Steps(Left(p, c), gens[p])' \o Ahead(p, c)'
  BY DEF Todo, Ahead
<1> QED
  BY <1>1, <1>2, <1>3, <1>4

\* A party that has nothing left of its current call.
LEMMA NothingLeft ==
    ASSUME NEW p \in Party, job[p] = Resting, ~Generated(p), NEW c
    PROVE  Left(p, c) = <<>>
<1>1. Later(p) = <<>> /\ job[p].main = <<>> /\ job[p].fork = <<>>
  BY DEF Later, Generated, Resting, Strand
<1>2. <<>> \o <<>> = <<>>
  BY StepAlgebra
<1> QED
  BY <1>1, <1>2 DEF Left

\* Control operations that begin no generation leave what is to be done.
LEMMA ControlLeft ==
    ASSUME TypeOK, Counters, Lockstep, NEW p \in Party, Control(p), ~Throw(p),
           ~GenSilentBaseOts(p), NEW c
    PROVE  Left(p, c)' = Left(p, c)
<1>1. LockstepOf(p) /\ CountersOf(p) /\ UNCHANGED <<plan, gens, forks>>
  BY DEF Lockstep, Counters, Control, Configure, EnterUnconfigured, EnterConfigured,
         SetSilentBaseOts, BeginExpand, EndExpand, Finish
<1>e. <<>> \o <<>> = <<>> /\ \A a \in Seq(Op) : <<>> \o a = a /\ a \o <<>> = a
  BY ConcatEmptySeq, EmptySeq
<1>2. CASE Configure(p) \/ EnterUnconfigured(p)
  <2>1. /\ stage[p] = "idle" /\ baseOts[p] = NoTag /\ job[p] = Resting
        /\ stage'[p] \in {"ready", "entered", "failed"} /\ baseOts'[p] = NoTag
        /\ UNCHANGED <<closed, job>>
    BY <1>1, <1>2 DEF Configure, EnterUnconfigured, SetConfiguration, TypeOK, CountersOf, Running
  <2>2. Left(p, c) = <<>>
    BY <2>1, NothingLeft DEF Generated
  <2>3. Later(p)' = <<>> /\ job'[p].main = <<>> /\ job'[p].fork = <<>>
    BY <2>1 DEF Later, Generated, Resting, Strand
  <2> QED
    BY <1>e, <2>2, <2>3 DEF Left
<1>3. CASE EnterConfigured(p)
  <2>1. /\ stage[p] \in {"ready", "based"} /\ stage'[p] = "entered"
        /\ UNCHANGED <<job, pos, baseOts>>
    BY <1>1, <1>3 DEF EnterConfigured, CallStage, TypeOK, LockstepOf, PlannedOf
  <2>2. stage[p] = "ready" <=> baseOts[p] = NoTag
    BY <1>1, <2>1 DEF CountersOf, Running
  <2>3. Later(p)' = Later(p)
    BY <1>1, <2>1, <2>2 DEF Later, Generated, AfterGen
  <2> QED
    BY <1>1, <2>1, <2>3 DEF Left
<1>4. CASE SetSilentBaseOts(p)
  <2>1. /\ stage[p] \in {"gen", "pregen"} /\ stage'[p] \in {"entered", "based"}
        /\ stage'[p] = "entered" => baseOts'[p] # NoTag
        /\ UNCHANGED <<job, pos>>
    <3>1. baseOts'[p] = TagOf(p, heard[p].main) /\ gens[p] >= 1 /\ gens[p] \in Nat
      BY <1>1, <1>4 DEF SetSilentBaseOts, TypeOK, CountersOf, Running
    <3>2. baseOts'[p][p] = gens[p] /\ NoTag[p] = 0
      BY <3>1 DEF TagOf, NoTag
    <3>3. baseOts'[p] # NoTag
      BY <3>1, <3>2
    <3> QED
      BY <1>4, <3>3 DEF SetSilentBaseOts, TypeOK
  <2>2. Later(p)' = Later(p)
    BY <1>1, <2>1 DEF Later, Generated, AfterGen
  <2> QED
    BY <1>1, <2>1, <2>2 DEF Left
<1>5. CASE BeginExpand(p)
  <2>1. /\ stage[p] = "entered" /\ baseOts[p] # NoTag /\ stage'[p] = "expand"
        /\ job'[p] = OnMain(Expansion(p)) /\ pos' = pos /\ job[p] = Resting
    BY <1>1, <1>5 DEF BeginExpand, TypeOK, CountersOf, Running
  <2> DEFINE v == Verification(p, plan[pos[p]])
  <2>2. Later(p) = Expansion(p) \o v /\ Later(p)' = v
    BY <1>1, <2>1 DEF Later, Generated, AfterGen, Entry
  <2>3. /\ job[p].main = <<>> /\ job[p].fork = <<>>
        /\ job'[p].main = Expansion(p) /\ job'[p].fork = <<>>
    BY <2>1 DEF Resting, OnMain, Strand
  <2>4. Later(p) \in Seq(Op)
    BY LeftType
  <2> HIDE DEF v
  <2>5. <<>> \o Later(p) = Later(p)
    BY <1>e, <2>4
  <2> QED
    BY <1>1, <2>2, <2>3, <2>5 DEF Left
<1>6. CASE EndExpand(p)
  <2>1. /\ stage[p] = "expand" /\ job[p] = Resting /\ stage'[p] = "verify"
        /\ job'[p] = OnMain(Verification(p, Entry(p)))
    BY <1>6 DEF EndExpand, TypeOK
  <2> DEFINE v == Verification(p, Entry(p))
  <2>2. Later(p) = v /\ Later(p)' = <<>>
    BY <2>1 DEF Later, Generated
  <2>3. /\ job[p].main = <<>> /\ job[p].fork = <<>>
        /\ job'[p].main = v /\ job'[p].fork = <<>>
    BY <2>1 DEF Resting, OnMain, Strand
  <2>4. v \in Seq(Op)
    BY <2>2, LeftType
  <2> HIDE DEF v
  <2>5. <<>> \o v = v /\ v \o <<>> = v
    BY <1>e, <2>4
  <2> QED
    BY <1>1, <2>2, <2>3, <2>5 DEF Left
<1>7. CASE Finish(p)
  <2>1. /\ stage[p] = "verify" /\ job[p] = Resting /\ stage'[p] = "idle" /\ job' = job
    BY <1>7 DEF Finish, TypeOK
  <2>2. Later(p) = <<>> /\ Later(p)' = <<>>
    BY <2>1 DEF Later, Generated
  <2> QED
    BY <1>1, <2>1, <2>2 DEF Left
<1> QED
  BY <1>2, <1>3, <1>4, <1>5, <1>6, <1>7 DEF Control

\* A generation begins with all that its call exchanges left to do.
LEMMA GenLeft ==
    ASSUME TypeOK, Counters, Lockstep, NEW p \in Party, GenSilentBaseOts(p),
           ~RefusesMalicious(p), NEW c
    PROVE  Left(p, c) = <<>> /\ Left(p, c)' = Script(p, gens[p] + 1, c)
<1> DEFINE g == gens[p] + 1
<1>1. /\ stage[p] \in {"entered", "ready"} /\ baseOts[p] = NoTag /\ job[p] = Resting
      /\ gens[p] \in Nat /\ g = pos[p]
      /\ stage'[p] \in {"gen", "pregen"} /\ gens'[p] = g
      /\ forks'[p] = ForksIn(g)
      /\ job'[p] = GenJob(p, TypeAt(g), ExtAt(g))
      /\ UNCHANGED <<plan, pos>>
  BY GenShape
<1>2. Left(p, c) = <<>>
  BY <1>1, NothingLeft DEF Generated
<1> HIDE DEF g
<1>3. Later(p)' = AfterGen(p, g)
  BY <1>1 DEF Later, Generated, AfterGen
<1>4. /\ job'[p].main = GenMain(p, TypeAt(g), ExtAt(g))
      /\ job'[p].fork = IF ForksAt(g) THEN GenFork(p, TypeAt(g), ExtAt(g)) ELSE <<>>
  BY <1>1 DEF GenJob, Strand, ForksAt
<1>5. Left(p, c)' = IF c = 0 THEN job'[p].main \o Later(p)'
                    ELSE IF c = forks'[p] THEN job'[p].fork ELSE <<>>
  BY DEF Left
<1>6. Left(p, c)' = Script(p, g, c)
  BY <1>1, <1>3, <1>4, <1>5 DEF Script
<1> QED
  BY <1>2, <1>6 DEF g

\* So both parties have that call more to do than before, or its peer, which has
\* begun it, had been waiting for it.
LEMMA GenTodo ==
    ASSUME TypeOK, Counters, Lockstep, NEW p \in Party, GenSilentBaseOts(p),
           ~RefusesMalicious(p), NEW c
    PROVE  LET g == gens[p] + 1
               more(r) == Steps(Script(r, g, c), g)
           IN  \/ \A r \in Party : Todo(r, c)' = Todo(r, c)
               \/ \A r \in Party : Todo(r, c)' = Todo(r, c) \o more(r)
<1> DEFINE q == Peer(p)
           g == gens[p] + 1
           more(r) == Steps(Script(r, g, c), g)
<1>0. q \in Party /\ q # p /\ Peer(q) = p /\ \A r \in Party : r = p \/ r = q
  BY PeerType
<1>1. gens[p] \in Nat /\ gens'[p] = g /\ gens[p] <= gens[q] /\ plan' = plan
  BY GenShape
<1>2. gens'[q] = gens[q] /\ gens[q] \in Nat /\ gens[q] <= gens[p] + 1
  <2>1. gens' = [gens EXCEPT ![p] = @ + 1]
    BY DEF GenSilentBaseOts
  <2>2. gens'[q] = gens[q] /\ gens[q] \in Nat
    BY <1>0, <2>1 DEF TypeOK
  <2>3. PaceOf(q)
    BY <1>0 DEF Lockstep, LockstepOf
  <2> QED
    BY <1>0, <2>2, <2>3 DEF PaceOf
<1>3. Left(p, c) = <<>> /\ Left(p, c)' = Script(p, g, c)
  BY GenLeft
<1>4. Left(q, c)' = Left(q, c)
  <2>1. Control(p) /\ "main" \in Strand /\ q \in Party \ {p}
    BY <1>0 DEF Control, Strand
  <2> QED
    BY <2>1, PeerLeft
<1>5. \A r, k : Script(r, k, c)' = Script(r, k, c)
  BY <1>1, PlanKept
<1>6. /\ Steps(<<>>, gens[p]) = <<>>
      /\ \A a \in Seq(Step) : a \o <<>> = a /\ <<>> \o a = a
      /\ <<>> \in Seq(Step)
  <2>1. Steps(<<>>, gens[p]) = <<>>
    BY <1>1, StepsConcat, EmptySeq
  <2> QED
    BY <2>1, StepAlgebra
<1>7. /\ Steps(Left(q, c), gens[q]) \in Seq(Step)
      /\ \A r \in Party : more(r) \in Seq(Step)
  <2>1. \A r \in Party : Script(r, g, c) \in Seq(Op)
    BY ScriptOpposite
  <2> QED
    BY <1>0, <1>1, <2>1, LeftType, StepsSeq
<1>8. /\ Todo(p, c) = Steps(Left(p, c), gens[p]) \o Ahead(p, c)
      /\ Todo(q, c) = Steps(Left(q, c), gens[q]) \o Ahead(q, c)
      /\ Todo(p, c)' = Steps(Left(p, c)', gens'[p]) \o Ahead(p, c)'
      /\ Todo(q, c)' = Steps(Left(q, c)', gens'[q]) \o Ahead(q, c)'
  BY DEF Todo, Ahead, Steps
<1>9. /\ Ahead(p, c) = IF gens[p] < gens[q] THEN more(p) ELSE <<>>
      /\ Ahead(q, c) = IF gens[q] < gens[p]
                       THEN Steps(Script(q, gens[q] + 1, c), gens[q] + 1) ELSE <<>>
      /\ Ahead(p, c)' = IF gens'[p] < gens'[q]
                        THEN Steps(Script(p, gens'[p] + 1, c), gens'[p] + 1) ELSE <<>>
      /\ Ahead(q, c)' = IF gens'[q] < gens'[p]
                        THEN Steps(Script(q, gens'[q] + 1, c), gens'[q] + 1) ELSE <<>>
  BY <1>0, <1>5 DEF Ahead
<1>10. CASE gens[p] = gens[q]
  <2>1. gens'[q] < gens'[p] /\ ~(gens'[p] < gens'[q]) /\ ~(gens[p] < gens[q])
        /\ ~(gens[q] < gens[p]) /\ gens'[q] + 1 = g
    BY <1>1, <1>2, <1>10
  <2>2. /\ Ahead(p, c) = <<>> /\ Ahead(q, c) = <<>> /\ Ahead(p, c)' = <<>>
        /\ Ahead(q, c)' = more(q)
    BY <1>9, <2>1
  <2> HIDE DEF more
  <2>3. Todo(p, c) = <<>> /\ Todo(q, c) = Steps(Left(q, c), gens[q])
    BY <1>3, <1>6, <1>7, <1>8, <2>2
  <2>4. Todo(p, c)' = more(p) /\ Todo(q, c)' = Steps(Left(q, c), gens[q]) \o more(q)
    <3>1. Steps(Left(p, c)', gens'[p]) = more(p)
      BY <1>1, <1>3 DEF more
    <3>2. Steps(Left(q, c)', gens'[q]) = Steps(Left(q, c), gens[q])
      BY <1>2, <1>4
    <3>3. more(p) \o <<>> = more(p)
      BY <1>6, <1>7
    <3> QED
      BY <1>8, <2>2, <3>1, <3>2, <3>3
  <2>5. Todo(p, c)' = Todo(p, c) \o more(p)
    BY <1>6, <1>7, <2>3, <2>4
  <2>6. Todo(q, c)' = Todo(q, c) \o more(q)
    BY <2>3, <2>4
  <2>7. \A r \in Party : Todo(r, c)' = Todo(r, c) \o more(r)
    BY <1>0, <2>5, <2>6
  <2> QED
    BY <2>7 DEF more
<1>11. CASE gens[p] # gens[q]
  <2>1. gens[p] < gens[q] /\ gens'[q] = g /\ ~(gens[q] < gens[p])
        /\ ~(gens'[p] < gens'[q]) /\ ~(gens'[q] < gens'[p])
    BY <1>1, <1>2, <1>11
  <2>2. /\ Ahead(p, c) = more(p) /\ Ahead(q, c) = <<>> /\ Ahead(p, c)' = <<>>
        /\ Ahead(q, c)' = <<>>
    BY <1>9, <2>1
  <2> HIDE DEF more
  <2>3. Todo(p, c) = more(p)
    BY <1>3, <1>6, <1>7, <1>8, <2>2
  <2>4. Todo(p, c)' = more(p)
    <3>1. Steps(Left(p, c)', gens'[p]) = more(p)
      BY <1>1, <1>3 DEF more
    <3>2. more(p) \o <<>> = more(p)
      BY <1>6, <1>7
    <3> QED
      BY <1>8, <2>2, <3>1, <3>2
  <2>5. Todo(q, c)' = Todo(q, c)
    <3>1. Steps(Left(q, c)', gens'[q]) = Steps(Left(q, c), gens[q])
      BY <1>2, <1>4
    <3> QED
      BY <1>8, <2>2, <3>1
  <2> QED
    BY <1>0, <2>3, <2>4, <2>5
<1> QED
  BY <1>10, <1>11

-----------------------------------------------------------------------------
(* The parties stay in step.                                               *)

\* Nothing is sent and nothing else to do.
LEMMA QuietInSync ==
    ASSUME InSync, UNCHANGED <<net, closed>>,
           \A p \in Party, c \in Channels : Todo(p, c)' = Todo(p, c)
    PROVE  InSync'
<1>1. \A p \in Party : Peer(p) \in Party
  BY PeerType
<1>2. \A c \in Channels : SyncOn(c) => SyncOn(c)'
  BY <1>1 DEF SyncOn
<1> QED
  BY <1>2 DEF InSync

\* A party closes its socket: the other still finds what it expects.
LEMMA ClosedInSync ==
    ASSUME TypeOK, InSync, NEW p \in Party, NEW s \in Strand, Control(p) \/ Communicate(p, s),
           p \in closed', gens' = gens, net'[Peer(p)] = net[Peer(p)]
    PROVE  InSync'
<1> DEFINE q == Peer(p)
<1>1. q \in Party \ {p} /\ \A r \in Party : r = p \/ r = q
  BY PeerType
<1>2. plan' = plan /\ (q \in closed' <=> q \in closed)
  BY <1>1, PeerObjects
<1>3. \A c : Todo(q, c)' = Todo(q, c)
  BY <1>1, <1>2, PeerLeft, TodoKept
<1> HIDE DEF q
<1>4. closed' # {}
  OBVIOUS
<1>5. ASSUME NEW r \in Party \ closed', NEW c \in Channels
      PROVE  Begins(Awaits(net[r][c]), Todo(r, c))'
  <2>1. r = q /\ q \notin closed
    BY <1>1, <1>2
  <2>2. Begins(Awaits(net[q][c]), Todo(q, c))
    BY <1>1, <2>1 DEF InSync
  <2>3. Awaits(net[q][c])' = Awaits(net[q][c])
    BY DEF q, Awaits
  <2>4. Todo(q, c)' = Todo(q, c)
    BY <1>3
  <2> QED
    BY <2>1, <2>2, <2>3, <2>4 DEF Begins
<1> QED
  BY <1>4, <1>5 DEF InSync

\* A control operation.
LEMMA ControlInSync ==
    ASSUME TypeOK, Counters, Lockstep, InSync, NEW p \in Party, Control(p)
    PROVE  InSync'
<1>0. "main" \in Strand /\ Peer(p) \in Party \ {p} /\ \A r \in Party : r = p \/ r = Peer(p)
  BY PeerType DEF Strand
<1>1. plan' = plan /\ net' = net
  BY DEF Control, Configure, EnterUnconfigured, EnterConfigured, GenSilentBaseOts,
         SetSilentBaseOts, BeginExpand, EndExpand, Finish
<1>2. CASE Throw(p)
  <2>1. p \in closed'
    BY <1>2 DEF Throw
  <2>2. gens' = gens
    <3>1. CASE GenSilentBaseOts(p)
      <4>1. RefusesMalicious(p)
        <5>1. stage'[p] = "failed"
          BY <1>2 DEF Throw, TypeOK
        <5> QED
          BY <3>1, <5>1, GenShape
      <4> QED
        BY <3>1, <4>1 DEF GenSilentBaseOts
    <3> QED
      BY <3>1 DEF Control, Configure, EnterUnconfigured, EnterConfigured,
                  SetSilentBaseOts, BeginExpand, EndExpand, Finish
  <2> QED
    BY <1>0, <1>1, <2>1, <2>2, ClosedInSync
<1>3. CASE ~Throw(p) /\ ~GenSilentBaseOts(p)
  <2>1. UNCHANGED <<gens, closed>>
    BY <1>3 DEF Control, Configure, EnterUnconfigured, EnterConfigured,
                SetSilentBaseOts, BeginExpand, EndExpand, Finish
  <2>2. ASSUME NEW r \in Party, NEW c \in Channels PROVE Todo(r, c)' = Todo(r, c)
    <3>1. Left(r, c)' = Left(r, c)
      BY <1>0, <1>3, ControlLeft, PeerLeft
    <3> QED
      BY <1>1, <2>1, <3>1, TodoKept
  <2> QED
    BY <1>1, <2>1, <2>2, QuietInSync
<1>4. CASE ~Throw(p) /\ GenSilentBaseOts(p)
  <2>1. ~RefusesMalicious(p) /\ UNCHANGED closed
    BY <1>4 DEF GenSilentBaseOts
  <2> DEFINE g == gens[p] + 1
             more(r, c) == Steps(Script(r, g, c), g)
             to(r, c) == Awaits(net[r][c])
  <2>2. \A c : \/ \A r \in Party : Todo(r, c)' = Todo(r, c)
               \/ \A r \in Party : Todo(r, c)' = Todo(r, c) \o more(r, c)
    BY <1>4, <2>1, GenTodo
  <2>3. \A r \in Party, c \in Channels :
           /\ more(r, c) \in Seq(Step) /\ Todo(r, c) \in Seq(Step) /\ to(r, c) \in Seq(Step)
           /\ Peer(r) \in Party
           /\ Opposite(more(Peer(r), c)) = more(r, c)
    <3> SUFFICES ASSUME NEW r \in Party, NEW c \in Channels
                 PROVE  /\ more(r, c) \in Seq(Step) /\ Todo(r, c) \in Seq(Step)
                        /\ to(r, c) \in Seq(Step) /\ Peer(r) \in Party
                        /\ Opposite(more(Peer(r), c)) = more(r, c)
      OBVIOUS
    <3>1. g \in Nat /\ Peer(r) \in Party /\ Peer(Peer(r)) = r
      BY PeerType DEF TypeOK
    <3>2. /\ Script(r, g, c) \in Seq(Op) /\ Script(Peer(r), g, c) \in Seq(Op)
          /\ Opposite(Script(Peer(r), g, c)) = Script(r, g, c)
      BY <3>1, ScriptOpposite
    <3>3. Steps(Opposite(Script(Peer(r), g, c)), g) = Opposite(Steps(Script(Peer(r), g, c), g))
      BY <3>1, <3>2, StepsConcat
    <3>4. Steps(Script(r, g, c), g) \in Seq(Step)
      BY <3>1, <3>2, StepsSeq
    <3> QED
      BY <3>1, <3>2, <3>3, <3>4, LeftType, InboxType
  <2>4. \A r \in Party, c \in Channels : to(r, c)' = to(r, c)
    BY <1>1
  <2> HIDE DEF g, more
  <2>5. ASSUME NEW c \in Channels, SyncOn(c) PROVE SyncOn(c)'
    <3>1. PICK r \in Party : Follows(Todo(r, c), to(r, c), Todo(Peer(r), c), to(Peer(r), c))
      BY <2>5 DEF SyncOn
    <3>2. CASE \A x \in Party : Todo(x, c)' = Todo(x, c)
      BY <2>3, <2>4, <3>1, <3>2 DEF SyncOn
    <3>3. CASE \A x \in Party : Todo(x, c)' = Todo(x, c) \o more(x, c)
      <4>1. Follows(Todo(r, c) \o Opposite(more(Peer(r), c)), to(r, c),
                    Todo(Peer(r), c) \o more(Peer(r), c), to(Peer(r), c))
        BY <2>3, <3>1, FollowsExtend
      <4>2. Todo(r, c)' = Todo(r, c) \o Opposite(more(Peer(r), c))
            /\ Todo(Peer(r), c)' = Todo(Peer(r), c) \o more(Peer(r), c)
        BY <2>3, <3>3
      <4>3. Follows(Todo(r, c)', to(r, c), Todo(Peer(r), c)', to(Peer(r), c))
        BY <4>1, <4>2
      <4> QED
        BY <2>3, <2>4, <4>3 DEF SyncOn
    <3> QED
      BY <2>2, <3>2, <3>3
  <2>6. ASSUME NEW r \in Party \ closed, NEW c \in Channels
        PROVE  Begins(Awaits(net[r][c]), Todo(r, c))'
    <3>1. Begins(to(r, c), Todo(r, c))
      BY DEF InSync
    <3>2. Begins(to(r, c), Todo(r, c) \o more(r, c))
      BY <2>3, <3>1, BeginsExtend
    <3>3. Begins(to(r, c), Todo(r, c)')
      BY <2>2, <3>1, <3>2
    <3> QED
      BY <1>1, <3>3 DEF Begins
  <2> QED
    BY <2>1, <2>5, <2>6 DEF InSync
<1> QED
  BY <1>2, <1>3, <1>4

\* What that means for what there is to do, with the generations as they are.
LEMMA AdvanceSteps ==
    ASSUME TypeOK, NEW p \in Party, NEW s \in Strand, Communicate(p, s),
           UNCHANGED <<plan, gens>>,
           NEW d, d = Channel(p, s),
           \A c : c = d => Left(p, c)' = LeftAfter(p, s),
           \A c : c # d => Left(p, c)' = Left(p, c)
    PROVE  /\ \A c : c = Channel(p, s) => Todo(p, c)' = TodoAfter(p, s)
           /\ \A c : c # Channel(p, s) => Todo(p, c)' = Todo(p, c)
           /\ \A c : Todo(Peer(p), c)' = Todo(Peer(p), c)
<1>1. Peer(p) \in Party \ {p}
  BY PeerType
<1>2. \A c : Ahead(p, c)' = Ahead(p, c)
  BY AheadKept
<1>3. \A c : Todo(p, c)' = Steps(Left(p, c)', gens[p]) \o Ahead(p, c)
  BY <1>2 DEF Todo, Ahead, Steps
<1>4. \A c : c = d => Todo(p, c)' = TodoAfter(p, s)
  BY <1>3 DEF TodoAfter
<1>5. \A c : c # d => Todo(p, c)' = Todo(p, c)
  BY TodoKept
<1>6. \A c : Todo(Peer(p), c)' = Todo(Peer(p), c)
  BY <1>1, PeerLeft, TodoKept
<1> QED
  BY <1>4, <1>5, <1>6

\* A channel operation takes the first step off what is left on its channel, and
\* nothing off what else there is to do.
LEMMA AdvanceTodo ==
    ASSUME TypeOK, Counters, Lockstep, NEW p \in Party, NEW s \in Strand,
           Communicate(p, s), job[p][s] # <<>>, Advance(p, s), stage' = stage
    PROVE  /\ \A c : c = Channel(p, s) => Todo(p, c)' = TodoAfter(p, s)
           /\ \A c : c # Channel(p, s) => Todo(p, c)' = Todo(p, c)
           /\ \A c : Todo(Peer(p), c)' = Todo(Peer(p), c)
<1>1. UNCHANGED <<plan, pos, baseOts, gens, forks>>
  BY DEF Communicate, Transmit, Receive, Break
<1>2. /\ job'[p][s] = Tail(job[p][s])
      /\ \A t \in Strand \ {s} : job'[p][t] = job[p][t]
  BY AdvanceShape
<1>3. Later(p)' = Later(p)
  BY <1>1 DEF Later, Generated, Entry, AfterGen
<1>4. \A c : Left(p, c)' = IF c = 0 THEN job'[p].main \o Later(p)
                           ELSE IF c = forks[p] THEN job'[p].fork ELSE <<>>
  BY <1>1, <1>3 DEF Left
<1>5. CASE s = "main"
  <2>1. /\ Channel(p, s) = 0 /\ job'[p].fork = job[p].fork
        /\ job'[p].main = Tail(job[p].main)
    BY <1>2, <1>5 DEF Channel, Strand
  <2>2. \A c : c = 0 => Left(p, c)' = LeftAfter(p, s)
    BY <1>4, <1>5, <2>1 DEF LeftAfter
  <2>3. \A c : c # 0 => Left(p, c)' = Left(p, c)
    BY <1>4, <2>1 DEF Left
  <2> QED
    BY <1>1, <2>1, <2>2, <2>3, AdvanceSteps
<1>6. CASE s = "fork"
  <2>1. /\ Channel(p, s) = forks[p] /\ job'[p].main = job[p].main
        /\ job'[p].fork = Tail(job[p].fork) /\ forks[p] # 0
    BY <1>2, <1>6, ForkedChannel, CountersType DEF Channel, Strand
  <2>2. \A c : c = forks[p] => Left(p, c)' = LeftAfter(p, s)
    BY <1>4, <1>6, <2>1 DEF LeftAfter
  <2>3. \A c : c # forks[p] => Left(p, c)' = Left(p, c)
    BY <1>4, <2>1 DEF Left
  <2> QED
    BY <1>1, <2>1, <2>2, <2>3, AdvanceSteps
<1> QED
  BY <1>5, <1>6 DEF Strand

\* A message is sent: its receiver will take it for the step it waits for.
LEMMA TransmitInSync ==
    ASSUME TypeOK, Counters, Lockstep, InSync, NEW p \in Party, NEW s \in Strand,
           Transmit(p, s)
    PROVE  InSync'
<1> DEFINE q == Peer(p)
           d == Channel(p, s)
           m == Outgoing(p, s)
           x == Mark(p, s)
           a == TodoAfter(p, s)
           to(r, c) == Awaits(net[r][c])
<1>0. q \in Party /\ q # p /\ Peer(q) = p /\ \A r \in Party : r = p \/ r = q
  BY PeerType
<1>1. /\ job[p][s] # <<>> /\ NextOp(p, s).io = "send" /\ p \notin closed /\ Advance(p, s)
      /\ UNCHANGED <<stage, closed>>
      /\ net' = IF closed # {} THEN net ELSE [net EXCEPT ![q][d] = Append(@, m)]
  BY DEF Transmit, Outgoing
<1>2. /\ \A c : c = d => Todo(p, c)' = a
      /\ \A c : c # d => Todo(p, c)' = Todo(p, c)
      /\ \A c : Todo(q, c)' = Todo(q, c)
  BY <1>1, AdvanceTodo DEF Communicate
<1>3. d \in Channels /\ x \in Step /\ a \in Seq(Step) /\ x.io = "send"
      /\ Todo(p, d) = <<x>> \o a
  BY <1>1, ActiveStrand, LeftActive DEF Mark
<1>4. \A r \in Party, c \in Channels :
         /\ Todo(r, c) \in Seq(Step) /\ to(r, c) \in Seq(Step) /\ AllRecv(to(r, c))
         /\ net[r][c] \in Seq(Message) /\ (to(r, c) = <<>> <=> net[r][c] = <<>>)
  BY LeftType, InboxType
<1>5. m \in Message /\ Await(m) = Flip(x)
  BY <1>1, <1>3, OutgoingIsWhole DEF Await, Outgoing, Mark, Flip, Step
<1> HIDE DEF q, d, m, x, a
<1>6. CASE closed # {}
  <2>1. net' = net
    BY <1>1, <1>6
  <2>2. to(p, d) = <<>>
    <3>1. Begins(to(p, d), <<x>> \o a)
      BY <1>1, <1>3 DEF InSync
    <3> HIDE DEF to
    <3> QED
      BY <1>3, <1>4, <3>1, BeginsNothing
  <2>3. ASSUME NEW r \in Party \ closed, NEW c \in Channels
        PROVE  Begins(to(r, c), Todo(r, c)')
    <3>1. Begins(to(r, c), Todo(r, c))
      BY DEF InSync
    <3>2. CASE r = p /\ c = d
      <4>1. Begins(<<>>, a)
        BY <1>3, <1>4, BeginsNothing
      <4> QED
        BY <1>2, <2>2, <3>2, <4>1
    <3>3. CASE ~(r = p /\ c = d)
      BY <1>0, <1>2, <3>1, <3>3
    <3> QED
      BY <3>2, <3>3
  <2> QED
    BY <1>1, <1>6, <2>1, <2>3 DEF InSync, Begins
<1>7. CASE closed = {}
  <2>1. /\ net'[q][d] = Append(net[q][d], m)
        /\ \A c \in Channels : c # d => net'[q][c] = net[q][c]
        /\ \A c \in Channels : net'[p][c] = net[p][c]
    BY <1>0, <1>1, <1>3, <1>7 DEF TypeOK
  <2>2. Awaits(Append(net[q][d], m)) = to(q, d) \o <<Flip(x)>>
    BY <1>0, <1>3, <1>4, <1>5, AwaitsSplit
  <2>3. Append(net[q][d], m) \in Seq(Message)
    BY <1>0, <1>3, <1>4, <1>5, AppendProperties
  <2>4. Follows(Todo(q, d), to(q, d) \o <<Flip(x)>>, a, to(p, d))
    <3>1. PICK r \in Party : Follows(Todo(r, d), to(r, d), Todo(Peer(r), d), to(Peer(r), d))
      BY <1>3, <1>7 DEF InSync, SyncOn
    <3> HIDE DEF to
    <3>2. \/ Follows(<<x>> \o a, to(p, d), Todo(q, d), to(q, d))
          \/ Follows(Todo(q, d), to(q, d), <<x>> \o a, to(p, d))
      BY <1>0, <1>3, <3>1 DEF q
    <3>3. /\ to(p, d) \in Seq(Step) /\ AllRecv(to(p, d)) /\ to(q, d) \in Seq(Step)
          /\ Todo(q, d) \in Seq(Step)
      BY <1>0, <1>3, <1>4
    <3> QED
      BY <1>3, <3>2, <3>3, FollowsSend
  <2>5. ASSUME NEW c \in Channels
        PROVE  \E r \in Party : Follows(Todo(r, c)', Awaits(net'[r][c]),
                                        Todo(Peer(r), c)', Awaits(net'[Peer(r)][c]))
    <3>1. CASE c = d
      <4>1. /\ Todo(q, c)' = Todo(q, d) /\ Todo(p, c)' = a
            /\ Awaits(net'[q][c]) = to(q, d) \o <<Flip(x)>> /\ Awaits(net'[p][c]) = to(p, d)
        BY <1>2, <1>3, <2>1, <2>2, <3>1
      <4> QED
        BY <1>0, <2>4, <4>1
    <3>2. CASE c # d
      <4>1. PICK r \in Party : Follows(Todo(r, c), to(r, c), Todo(Peer(r), c), to(Peer(r), c))
        BY <1>7 DEF InSync, SyncOn
      <4>2. Peer(r) \in Party
        BY PeerType
      <4>3. \A y \in Party : Todo(y, c)' = Todo(y, c) /\ Awaits(net'[y][c]) = to(y, c)
        BY <1>0, <1>2, <2>1, <3>2
      <4> QED
        BY <4>1, <4>2, <4>3
    <3> QED
      BY <3>1, <3>2
  <2>6. \A c \in Channels : SyncOn(c)'
    BY <2>5 DEF SyncOn
  <2>7. ASSUME NEW r \in Party, NEW c \in Channels
        PROVE  Begins(Awaits(net'[r][c]), Todo(r, c)')
    <3>1. CASE c = d
      <4>1. /\ to(p, d) \in Seq(Step) /\ to(q, d) \o <<Flip(x)>> \in Seq(Step)
            /\ Todo(q, d) \in Seq(Step)
        <5>1. <<Flip(x)>> \in Seq(Step) /\ to(q, d) \in Seq(Step)
          BY <1>0, <1>3, <1>4, StepAlgebra, Zenon
        <5> HIDE DEF to
        <5>2. to(q, d) \o <<Flip(x)>> \in Seq(Step)
          BY <5>1, StepAlgebra, Zenon
        <5> QED
          BY <1>0, <1>3, <1>4, <5>2
      <4>2. Begins(to(q, d) \o <<Flip(x)>>, Todo(q, d)) /\ Begins(to(p, d), a)
        BY <1>3, <2>4, <4>1, FollowsBegins
      <4>3. /\ Todo(q, c)' = Todo(q, d) /\ Todo(p, c)' = a
            /\ Awaits(net'[q][c]) = to(q, d) \o <<Flip(x)>> /\ Awaits(net'[p][c]) = to(p, d)
        BY <1>2, <1>3, <2>1, <2>2, <3>1
      <4>4. CASE r = p
        BY <4>2, <4>3, <4>4
      <4>5. CASE r = q
        BY <4>2, <4>3, <4>5
      <4> QED
        BY <1>0, <4>4, <4>5
    <3>2. CASE c # d
      <4>1. Begins(to(r, c), Todo(r, c))
        BY <1>7 DEF InSync
      <4>2. Todo(r, c)' = Todo(r, c) /\ Awaits(net'[r][c]) = to(r, c)
        BY <1>0, <1>2, <2>1, <3>2
      <4> QED
        BY <4>1, <4>2
    <3> QED
      BY <3>1, <3>2
  <2>8. \A r \in Party \ closed', c \in Channels : Begins(Awaits(net[r][c]), Todo(r, c))'
    BY <2>7 DEF Begins
  <2> QED
    BY <2>6, <2>8 DEF InSync
<1> QED
  BY <1>6, <1>7

\* A message is received: it was the one the party waited for.
LEMMA ReceiveInSync ==
    ASSUME TypeOK, Counters, Lockstep, InSync, NEW p \in Party, NEW s \in Strand,
           Receive(p, s)
    PROVE  InSync'
<1> DEFINE q == Peer(p)
           d == Channel(p, s)
           m == Head(Inbox(p, s))
           x == Mark(p, s)
           a == TodoAfter(p, s)
           to(r, c) == Awaits(net[r][c])
           rest == Awaits(Tail(net[p][d]))
<1>0. q \in Party /\ q # p /\ Peer(q) = p /\ \A r \in Party : r = p \/ r = q
  BY PeerType
<1>1. /\ job[p][s] # <<>> /\ NextOp(p, s).io = "recv" /\ p \notin closed
      /\ Inbox(p, s) # <<>> /\ d \in Channels /\ Inbox(p, s) = net[p][d]
      /\ net' = [net EXCEPT ![p][d] = Tail(@)]
      /\ gens' = gens
  BY ActiveStrand DEF Receive, Inbox
<1>2. /\ net'[p][d] = Tail(net[p][d])
      /\ \A c \in Channels : c # d => net'[p][c] = net[p][c]
      /\ net'[q] = net[q]
  BY <1>0, <1>1 DEF TypeOK
<1>3. CASE Refuses(p, m)
  <2>1. p \in closed'
    BY <1>3 DEF Receive, Throw
  <2> QED
    BY <1>1, <1>2, <2>1, ClosedInSync DEF Communicate
<1>4. CASE ~Refuses(p, m)
  <2>1. Advance(p, s) /\ UNCHANGED <<stage, closed>>
    BY <1>4 DEF Receive
  <2>2. /\ \A c : c = d => Todo(p, c)' = a
        /\ \A c : c # d => Todo(p, c)' = Todo(p, c)
        /\ \A c : Todo(q, c)' = Todo(q, c)
    BY <1>1, <2>1, AdvanceTodo DEF Communicate
  <2>3. x \in Step /\ a \in Seq(Step) /\ Todo(p, d) = <<x>> \o a
    BY <1>1, LeftActive
  <2>4. \A r \in Party, c \in Channels :
           /\ Todo(r, c) \in Seq(Step) /\ to(r, c) \in Seq(Step) /\ AllRecv(to(r, c))
           /\ net[r][c] \in Seq(Message) /\ (to(r, c) = <<>> <=> net[r][c] = <<>>)
    BY LeftType, InboxType
  <2>5. /\ Await(m) \in Step /\ rest \in Seq(Step)
        /\ to(p, d) = <<Await(m)>> \o rest
    <3>1. net[p][d] \in Seq(Message) /\ net[p][d] # <<>> /\ m = Head(net[p][d])
      BY <1>1, <2>4
    <3>2. Tail(net[p][d]) \in Seq(Message)
      BY <3>1, AwaitsSplit
    <3> QED
      BY <3>1, <3>2, AwaitsSplit, AwaitsSeq
  <2> DEFINE y == Await(m)
  <2> HIDE DEF q, d, m, x, a, y, rest
  <2>6. ASSUME NEW r \in Party \ closed', NEW c \in Channels
        PROVE  Begins(Awaits(net[r][c]), Todo(r, c))'
    <3>1. Begins(to(r, c), Todo(r, c))
      BY <2>1 DEF InSync
    <3>2. CASE r = p /\ c = d
      <4>1. Begins(<<y>> \o rest, <<x>> \o a)
        BY <2>3, <2>5, <3>1, <3>2 DEF y
      <4>2. Begins(rest, a)
        BY <2>3, <2>5, <4>1, BeginsReceive DEF y
      <4>3. Awaits(net'[r][c]) = rest /\ Todo(r, c)' = a
        BY <1>2, <2>2, <3>2 DEF rest
      <4> QED
        BY <4>2, <4>3 DEF Begins
    <3>3. CASE ~(r = p /\ c = d)
      <4>1. Todo(r, c)' = Todo(r, c) /\ Awaits(net'[r][c]) = to(r, c)
        BY <1>0, <1>2, <2>2, <3>3
      <4> QED
        BY <3>1, <4>1 DEF Begins
    <3> QED
      BY <3>2, <3>3
  <2>7. ASSUME closed = {}, NEW c \in Channels
        PROVE  \E r \in Party : Follows(Todo(r, c)', Awaits(net'[r][c]),
                                        Todo(Peer(r), c)', Awaits(net'[Peer(r)][c]))
    <3>1. PICK r \in Party : Follows(Todo(r, c), to(r, c), Todo(Peer(r), c), to(Peer(r), c))
      BY <2>7 DEF InSync, SyncOn
    <3>2. CASE c = d
      <4>1. r = p
        <5>1. to(p, d) # <<>>
          BY <1>0, <1>1, <2>4
        <5>2. r = q => to(p, d) = <<>>
          BY <1>0, <3>1, <3>2 DEF Follows
        <5> QED
          BY <1>0, <5>1, <5>2
      <4>2. Follows(<<x>> \o a, <<y>> \o rest, Todo(q, d), to(q, d))
        BY <2>3, <2>5, <3>1, <3>2, <4>1 DEF y, q
      <4>3. Todo(q, d) \in Seq(Step) /\ to(q, d) \in Seq(Step)
        BY <1>0, <1>1, <2>4
      <4> HIDE DEF to
      <4>4. Follows(a, rest, Todo(q, d), to(q, d))
        BY <2>3, <2>5, <4>2, <4>3, FollowsReceive DEF y
      <4>5. /\ Todo(q, c)' = Todo(q, d) /\ Todo(p, c)' = a
            /\ Awaits(net'[q][c]) = to(q, d) /\ Awaits(net'[p][c]) = rest
        BY <1>2, <2>2, <3>2 DEF rest, to
      <4> QED
        BY <4>4, <4>5 DEF q
    <3>3. CASE c # d
      <4>1. Peer(r) \in Party
        BY PeerType
      <4>2. \A z \in Party : Todo(z, c)' = Todo(z, c) /\ Awaits(net'[z][c]) = to(z, c)
        BY <1>0, <1>2, <2>2, <3>3
      <4> QED
        BY <3>1, <4>1, <4>2
    <3> QED
      BY <3>2, <3>3
  <2>8. closed = {} => \A c \in Channels : SyncOn(c)'
    BY <2>7 DEF SyncOn
  <2> QED
    BY <2>1, <2>6, <2>8 DEF InSync
<1> QED
  BY <1>3, <1>4

\* An operation throws.
LEMMA BreakInSync ==
    ASSUME TypeOK, Counters, Lockstep, InSync, NEW p \in Party, NEW s \in Strand, Break(p, s)
    PROVE  InSync'
<1>1. p \in closed' /\ gens' = gens /\ net' = net
  BY BreakClosed DEF Break
<1> QED
  BY <1>1, ClosedInSync DEF Communicate

\* Whatever a party does, both stay in step.
LEMMA SyncMoves ==
    ASSUME TypeOK, Counters, Lockstep, InSync, NEW p \in Party, NEW s \in Strand,
           Control(p) \/ Communicate(p, s)
    PROVE  InSync'
BY ControlInSync, TransmitInSync, ReceiveInSync, BreakInSync DEF Communicate

-----------------------------------------------------------------------------
(* The inductive invariant, and what follows from it.                      *)

InStep == TypeOK /\ Counters /\ Lockstep /\ InSync

\* Before the first call nothing is to be done.
LEMMA InStepInit == Init => InStep
<1> SUFFICES ASSUME Init PROVE InStep
  OBVIOUS
<1>1. TypeOK /\ Counters
  BY TypeInit
<1>2. \A p \in Party :
         /\ Peer(p) \in Party /\ Peer(Peer(p)) = p
         /\ pos[p] = 1 /\ stage[p] = "idle" /\ mState[p] = "Default" /\ baseOts[p] = NoTag
         /\ ext[p] = [main |-> "none", nv |-> "none"]
         /\ gens[p] = 0 /\ forks[p] = 0 /\ job[p] = Resting /\ out[p] = <<>>
         /\ \A s \in Strand : heard[p][s] = 0
         /\ \A c \in Channels : net[p][c] = <<>>
  BY PeerType DEF Init
<1>3. closed = {} /\ Len(<<>>) = 0 /\ DOMAIN <<>> = {}
  BY DEF Init
<1>4. Lockstep
  <2> SUFFICES ASSUME NEW p \in Party PROVE LockstepOf(p)
    BY DEF Lockstep
  <2>1. CallsOf(p)
    BY <1>2, <1>3 DEF CallsOf, Generated
  <2>2. PlannedOf(p)
    <3>1. ForksIn(gens[p]) = 0 /\ gens[p] + 1 = 1
      BY <1>2, ForksNext
    <3>2. ExtAt(1) = [main |-> "none", nv |-> "none"]
      BY DEF ExtAt
    <3>3. job[p].fork = <<>>
      BY <1>2 DEF Resting, Strand
    <3> QED
      BY <1>2, <3>1, <3>2, <3>3 DEF PlannedOf
  <2>3. StuckOf(p) /\ HoldsOf(p) /\ KindsOf(p)
    BY <1>2, <1>3 DEF StuckOf, HoldsOf, KindsOf
  <2>4. PaceOf(p)
    BY <1>2 DEF PaceOf
  <2>5. MailOf(p)
    BY <1>2, <1>3 DEF MailOf
  <2> QED
    BY <2>1, <2>2, <2>3, <2>4, <2>5 DEF LockstepOf
<1>5. InSync
  <2>1. \A p \in Party, c \in Channels : Todo(p, c) = <<>> /\ Awaits(net[p][c]) = <<>>
    <3> SUFFICES ASSUME NEW p \in Party, NEW c \in Channels
                 PROVE  Todo(p, c) = <<>> /\ Awaits(net[p][c]) = <<>>
      OBVIOUS
    <3>1. Left(p, c) = <<>>
      BY <1>2, NothingLeft DEF Generated
    <3>2. Ahead(p, c) = <<>>
      BY <1>2 DEF Ahead
    <3>3. gens[p] \in Nat /\ <<>> \in Seq(Op)
      BY <1>2, EmptySeq
    <3>4. Steps(<<>>, gens[p]) = <<>> /\ <<>> \o <<>> = <<>>
      BY <3>3, StepsConcat, StepAlgebra
    <3>5. Todo(p, c) = <<>>
      BY <3>1, <3>2, <3>4 DEF Todo, Ahead
    <3>6. Awaits(net[p][c]) = <<>>
      BY <1>1, <1>2, InboxType
    <3> QED
      BY <3>5, <3>6
  <2>2. /\ <<>> \o <<>> = <<>> /\ Opposite(<<>>) = <<>>
        /\ Begins(<<>>, <<>>)
    BY StepAlgebra, OppositeShort DEF Begins
  <2>3. Follows(<<>>, <<>>, <<>>, <<>>)
    BY <2>2 DEF Follows
  <2>4. ASSUME NEW c \in Channels PROVE SyncOn(c)
    <3>1. PICK p \in Party : TRUE
      BY DEF Party
    <3>2. /\ Todo(p, c) = <<>> /\ Awaits(net[p][c]) = <<>>
          /\ Todo(Peer(p), c) = <<>> /\ Awaits(net[Peer(p)][c]) = <<>>
      BY <1>2, <2>1
    <3>3. Follows(Todo(p, c), Awaits(net[p][c]), Todo(Peer(p), c), Awaits(net[Peer(p)][c]))
      BY <2>3, <3>2
    <3> QED
      BY <3>3 DEF SyncOn
  <2> QED
    BY <2>1, <2>2, <2>4 DEF InSync
<1> QED
  BY <1>1, <1>4, <1>5 DEF InStep

\* What the parties have to do when they do not move.
LEMMA StillInStep ==
    ASSUME InStep, UNCHANGED <<plan, pos, stage, mState, conf, baseOts, baseVole, ext,
                               gens, forks, forked, job, heard, noisy, net, out>>,
           closed' = closed \/ closed' = closed \cup {"link"}
    PROVE  Lockstep' /\ InSync'
<1>1. \A p \in Party : p \in closed' <=> p \in closed
  BY DEF Party
<1>2. Lockstep'
  <2> SUFFICES ASSUME NEW p \in Party PROVE LockstepOf(p)'
    BY DEF Lockstep
  <2>1. LockstepOf(p)
    BY DEF InStep, Lockstep
  <2>2. CallsOf(p)'
    BY <2>1 DEF LockstepOf, CallsOf, Generated, UniformVector, Uniform
  <2>3. PlannedOf(p)'
    BY <2>1, PlanKept DEF LockstepOf, PlannedOf
  <2>4. StuckOf(p)' /\ KindsOf(p)' /\ PaceOf(p)'
    BY <1>1, <2>1 DEF LockstepOf, StuckOf, KindsOf, PaceOf
  <2>5. HoldsOf(p)'
    BY <1>1, <2>1 DEF LockstepOf, HoldsOf, UniformVector, Uniform
  <2>6. MailOf(p)'
    BY <2>1 DEF LockstepOf, MailOf, UniformVector, Uniform
  <2> QED
    BY <2>2, <2>3, <2>4, <2>5, <2>6 DEF LockstepOf
<1>3. InSync'
  <2>1. \A p \in Party, c \in Channels : Todo(p, c)' = Todo(p, c)
    <3> SUFFICES ASSUME NEW p \in Party, NEW c \in Channels PROVE Todo(p, c)' = Todo(p, c)
      OBVIOUS
    <3>1. Left(p, c)' = Left(p, c)
      BY DEF Left, Later, Generated, Entry, AfterGen
    <3> QED
      BY <3>1, TodoKept
  <2>2. \A p \in Party : Peer(p) \in Party
    BY PeerType
  <2>3. \A c \in Channels : SyncOn(c) => SyncOn(c)'
    BY <2>1, <2>2 DEF SyncOn
  <2>4. closed' = {} => closed = {}
    OBVIOUS
  <2>5. ASSUME NEW p \in Party \ closed', NEW c \in Channels
        PROVE  Begins(Awaits(net[p][c]), Todo(p, c))'
    BY <1>1, <2>1 DEF InStep, InSync, Begins
  <2> QED
    BY <2>3, <2>4, <2>5 DEF InStep, InSync
<1> QED
  BY <1>2, <1>3

\* The invariant is inductive.
LEMMA InStepStep == InStep /\ [Next]_vars => InStep'
<1> SUFFICES ASSUME InStep, [Next]_vars PROVE InStep'
  OBVIOUS
<1>1. TypeOK' /\ Counters'
  BY TypeStep DEF InStep
<1>2. ASSUME NEW p \in Party, NEW s \in Strand, Control(p) \/ Communicate(p, s)
      PROVE  Lockstep' /\ InSync'
  BY <1>2, LockstepMoves, SyncMoves DEF InStep
<1>3. ASSUME Disconnect \/ UNCHANGED vars PROVE Lockstep' /\ InSync'
  BY <1>3, StillInStep DEF Disconnect, vars
<1>4. Lockstep' /\ InSync'
  <2>1. "main" \in Strand
    BY DEF Strand
  <2> QED
    BY <1>2, <1>3, <2>1 DEF Next, Joined
<1> QED
  BY <1>1, <1>4 DEF InStep

\* The invariant holds in every reachable state.
LEMMA InStepAlways == Spec => []InStep
<1>1. Init => InStep
  BY InStepInit
<1>2. InStep /\ [Next]_vars => InStep'
  BY InStepStep
<1> QED
  BY <1>1, <1>2, PTL DEF Spec

\* The two parties of a silent VOLE are in step in every reachable state, for all plans
\* of calls the callers agree on: each waits for exactly what is on its way to it and
\* then for the opposite of what the other has left to do, and its objects are as the
\* plan and its calls so far have made them.
THEOREM PartiesInStep == Spec => []InSync /\ []Lockstep
<1>1. InStep => InSync /\ Lockstep
  BY DEF InStep
<1> QED
  BY <1>1, InStepAlways, PTL

\* What a receive finds in its inbox has the kind it expects.
LEMMA InStepExpects == InStep => ExpectedMessage
BY Expected DEF InStep, ExpectedMessage

\* The two parties' channel operations pair up across sub-protocols, strands and calls
\* that reuse the socket pair: no receive ever finds another operation's message.
THEOREM EveryMessageIsExpected == Spec => []ExpectedMessage
BY InStepAlways, InStepExpects, PTL

\* Between two calls both parties have nothing to do, so nothing is on its way.
LEMMA InStepDrained == InStep => Drained
<1> SUFFICES ASSUME InStep, \A p \in Party : stage[p] = "idle", pos["sender"] = pos["receiver"],
                    NEW p \in Party, NEW c \in Channels
             PROVE  net[p][c] = <<>>
  BY DEF Drained
<1>1. \A r \in Party : LockstepOf(r) /\ CountersOf(r)
  BY DEF InStep, Lockstep, Counters
<1>2. \A r \in Party :
         /\ baseOts[r] = NoTag /\ job[r] = Resting /\ ~Generated(r)
         /\ gens[r] = pos[r] - 1 /\ r \notin closed
  BY <1>1 DEF CountersOf, Running, Generated, LockstepOf, CallsOf, StuckOf
<1>3. gens[p] = gens[Peer(p)] /\ gens[p] \in Nat
  BY <1>2 DEF Party, Peer, InStep, TypeOK
<1>4. Todo(p, c) = <<>>
  <2>1. Left(p, c) = <<>>
    BY <1>2, NothingLeft
  <2>2. Ahead(p, c) = <<>>
    BY <1>3 DEF Ahead
  <2>3. Steps(<<>>, gens[p]) = <<>> /\ <<>> \o <<>> = <<>>
    BY <1>3, StepsConcat, EmptySeq, StepAlgebra
  <2> QED
    BY <2>1, <2>2, <2>3 DEF Todo, Ahead
<1>5. Begins(Awaits(net[p][c]), <<>>)
  BY <1>2, <1>4 DEF InStep, InSync
<1>6. Awaits(net[p][c]) \in Seq(Step) /\ AllRecv(Awaits(net[p][c]))
  BY InboxType DEF InStep
<1> QED
  BY <1>5, <1>6, BeginsNothing, InboxType DEF InStep

\* Between two calls nothing is left in a channel that the next call would take for
\* its own.
THEOREM ChannelsAreDrained == Spec => []Drained
BY InStepAlways, InStepDrained, PTL

\* What a call returns was expanded from what both parties have computed for it.
LEMMA InStepWhole == InStep => SenderReturnsWhole /\ ReceiverReturnsWhole
<1> SUFFICES ASSUME InStep, NEW p \in Party PROVE ReturnsWhole(p)
  BY DEF SenderReturnsWhole, ReceiverReturnsWhole, Party
<1>1. CallsOf(p) /\ out[p] \in Seq(Output)
  BY DEF InStep, Lockstep, LockstepOf, TypeOK
<1>2. \A k \in DOMAIN out[p] : k \in Nat /\ k > 0
  BY <1>1, LenProperties
<1>3. \A k \in DOMAIN out[p] : WholeVector(UniformVector(k))
  BY <1>2 DEF WholeVector, Whole, UniformVector, Uniform
<1> QED
  BY <1>1, <1>3 DEF ReturnsWhole, CallsOf

\* setSilentBaseOts runs on uninitialised buffers when a protocol under when_all_ready
\* has failed, and the receiver then goes on to the expansion.  It never returns to its
\* caller with a vector expanded from them.
THEOREM ReceiverNeverReturnsJunk == Spec => []ReceiverReturnsWhole
<1>1. InStep => ReceiverReturnsWhole
  BY InStepWhole
<1> QED
  BY <1>1, InStepAlways, PTL

-----------------------------------------------------------------------------
(* The correlations the parties return.                                    *)

\* No party has got past configure() before its first call.
LEMMA EncodedInit == Init => Encoded
BY DEF Init, Encoded, EncodedOf

\* What a party returns it has made longer by nothing nobody has written.
LEMMA EncodedMoves ==
    ASSUME RequestsFit, InStep, Encoded, NEW p \in Party, NEW s \in Strand,
           Control(p) \/ Communicate(p, s)
    PROVE  EncodedOf(p)'
<1>1. /\ TypeOK /\ LockstepOf(p) /\ EncodedOf(p) /\ plan \in Plans
      /\ stage[p] \in Stage /\ out[p] \in Seq(Output)
  BY DEF InStep, Lockstep, Encoded, TypeOK
<1>2. CASE Configure(p)
  <2>1. /\ out' = out
        /\ conf'[p].req = Entry(p).req
        /\ stage'[p] = IF Configurable(Entry(p).req) THEN "ready" ELSE "failed"
    BY <1>1, <1>2 DEF Configure, SetConfiguration, TypeOK
  <2> QED
    BY <1>1, <2>1 DEF EncodedOf
<1>3. CASE EnterUnconfigured(p)
  <2>1. /\ out' = out
        /\ conf'[p].req = Entry(p).n
        /\ stage'[p] = IF Configurable(Entry(p).n) THEN "entered" ELSE "failed"
    BY <1>1, <1>3 DEF EnterUnconfigured, SetConfiguration, TypeOK, Throw
  <2> QED
    BY <1>1, <2>1 DEF EncodedOf
<1>4. CASE EnterConfigured(p)
  <2>1. stage[p] \notin {"idle", "failed"} /\ UNCHANGED <<conf, out>>
    BY <1>1, <1>4 DEF EnterConfigured, CallStage, LockstepOf, PlannedOf
  <2> QED
    BY <1>1, <2>1 DEF EncodedOf
<1>5. CASE GenSilentBaseOts(p) \/ SetSilentBaseOts(p) \/ BeginExpand(p) \/ EndExpand(p)
  <2>1. stage[p] \notin {"idle", "failed"} /\ UNCHANGED <<conf, out>>
    BY <1>5 DEF GenSilentBaseOts, SetSilentBaseOts, BeginExpand, EndExpand
  <2> QED
    BY <1>1, <2>1 DEF EncodedOf
<1>6. CASE Finish(p)
  <2>1. /\ stage[p] = "verify" /\ stage'[p] = "idle"
        /\ \E tail \in TailsOf(conf[p].req, Entry(p).n) :
              out' = [out EXCEPT ![p] = Append(@, [vector |-> noisy[p], tail |-> tail])]
    BY <1>1, <1>6 DEF Finish, TypeOK
  <2>2. ~Grows(conf[p].req)
    <3>1. pos[p] \in DOMAIN plan
      <4>1. pos[p] \in Nat \ {0} /\ pos[p] <= Len(plan) /\ plan \in Seq(Call)
        BY <1>1, <2>1 DEF InStep, Counters, CountersOf, TypeOK
      <4> QED
        BY <4>1, LenProperties
    <3>2. conf[p].req = RequestOf(plan[pos[p]]) /\ Configurable(conf[p].req)
      BY <1>1, <2>1 DEF LockstepOf, PlannedOf, EncodedOf, RequestAt, RequestOf
    <3> QED
      BY <1>1, <3>1, <3>2 DEF RequestsFit
  <2>3. PICK tail \in TailsOf(conf[p].req, Entry(p).n) :
           out' = [out EXCEPT ![p] = Append(@, [vector |-> noisy[p], tail |-> tail])]
    BY <2>1
  <2> DEFINE new == [vector |-> noisy[p], tail |-> tail]
  <2>4. new.tail # "junk" /\ new \in Output
    BY <1>1, <2>2 DEF TailsOf, TypeOK, Output, TailKind
  <2>5. out'[p] = Append(out[p], new)
    BY <1>1, <2>3 DEF TypeOK
  <2> HIDE DEF new
  <2>6. \A k \in DOMAIN Append(out[p], new) : Append(out[p], new)[k].tail # "junk"
    <3>1. /\ \A k \in 1 .. Len(out[p]) : Append(out[p], new)[k] = out[p][k]
          /\ Append(out[p], new)[Len(out[p]) + 1] = new
          /\ Append(out[p], new) \in Seq(Output)
          /\ Len(Append(out[p], new)) = Len(out[p]) + 1
      BY <1>1, <2>4, AppendProperties
    <3>2. /\ DOMAIN Append(out[p], new) = 1 .. Len(out[p]) + 1
          /\ DOMAIN out[p] = 1 .. Len(out[p]) /\ Len(out[p]) \in Nat
      BY <1>1, <3>1, LenProperties
    <3>3. \A k \in 1 .. Len(out[p]) : out[p][k].tail # "junk"
      BY <1>1, <3>2 DEF EncodedOf
    <3> QED
      BY <2>4, <3>1, <3>2, <3>3
  <2> QED
    BY <2>1, <2>5, <2>6 DEF EncodedOf
<1>7. CASE Communicate(p, s)
  <2>1. stage[p] \notin {"idle", "failed"} /\ UNCHANGED <<conf, out>>
    <3>1. job[p][s] # <<>>
      BY <1>7 DEF Communicate, Transmit, Receive, Break
    <3>2. stage[p] \in Running
      BY <3>1, ActiveStrand DEF InStep
    <3> QED
      BY <1>7, <3>2 DEF Communicate, Transmit, Receive, Break, Running
  <2> QED
    BY <1>1, <2>1 DEF EncodedOf
<1> QED
  BY <1>2, <1>3, <1>4, <1>5, <1>6, <1>7 DEF Control

\* So it stays, whichever party moves.
LEMMA EncodedStep ==
    ASSUME RequestsFit
    PROVE  InStep /\ Encoded /\ [Next]_vars => Encoded'
<1> SUFFICES ASSUME InStep, Encoded, [Next]_vars PROVE Encoded'
  OBVIOUS
<1>1. plan' = plan
  <2>1. ASSUME NEW p \in Party, Control(p) PROVE plan' = plan
    BY <2>1 DEF Control, Configure, EnterUnconfigured, EnterConfigured, GenSilentBaseOts,
                SetSilentBaseOts, BeginExpand, EndExpand, Finish
  <2>2. ASSUME NEW p \in Party, NEW s \in Strand, Communicate(p, s) PROVE plan' = plan
    BY <2>2 DEF Communicate, Transmit, Receive, Break
  <2>3. CASE Disconnect
    BY <2>3 DEF Disconnect
  <2>4. CASE Joined \/ UNCHANGED vars
    BY <2>4 DEF Joined, vars
  <2> QED
    BY <2>1, <2>2, <2>3, <2>4 DEF Next
<1>2. ASSUME NEW p \in Party, NEW s \in Strand, Control(p) \/ Communicate(p, s)
      PROVE  \A q \in Party : EncodedOf(q)'
  <2>1. EncodedOf(p)'
    BY <1>2, EncodedMoves
  <2>2. ASSUME NEW q \in Party \ {p} PROVE EncodedOf(q)'
    <3>1. UNCHANGED StateOf(q) /\ UNCHANGED ObjectsOf(q)
      BY <1>2, Untouched, PeerObjects DEF InStep
    <3> QED
      BY <3>1 DEF Encoded, EncodedOf, StateOf, ObjectsOf
  <2> QED
    BY <2>1, <2>2
<1>3. ASSUME Disconnect \/ UNCHANGED vars PROVE \A q \in Party : EncodedOf(q)'
  BY <1>3 DEF Disconnect, vars, Encoded, EncodedOf
<1>4. \A q \in Party : EncodedOf(q)'
  <2>1. "main" \in Strand
    BY DEF Strand
  <2> QED
    BY <1>2, <1>3, <2>1 DEF Next, Joined
<1> QED
  BY <1>1, <1>4 DEF Encoded

\* The call of either party returns the half of the same correlation.
LEMMA InStepCorrelated == InStep /\ Encoded => Correlated
BY DEF InStep, Lockstep, LockstepOf, CallsOf, Encoded, EncodedOf, Correlated, Party

\* mA = mB + mC * delta for the vectors both parties return from the same call, for all
\* plans whose requests the encoding does not make longer.
THEOREM CallsAreCorrelated ==
    ASSUME RequestsFit
    PROVE  Spec => []Correlated
<1>1. Init => Encoded
  BY EncodedInit
<1>2. InStep /\ Encoded /\ [Next]_vars => Encoded'
  BY EncodedStep
<1>3. Spec => []Encoded
  BY <1>1, <1>2, InStepAlways, PTL DEF Spec
<1> QED
  BY <1>3, InStepAlways, InStepCorrelated, PTL

-----------------------------------------------------------------------------
(* The refinement of VoleFunctionality.                                    *)

\* What a party has returned, as the functionality sees it.
Numbered(n) == [k \in 1 .. n |-> UniformVector(k)]

\* A party has returned the vectors of its calls so far.
LEMMA ReturnedNumbered ==
    ASSUME InStep, Encoded, NEW p \in Party
    PROVE  Returned(p) = Numbered(pos[p] - 1) /\ pos[p] \in Nat \ {0}
<1>1. /\ CallsOf(p) /\ EncodedOf(p) /\ out[p] \in Seq(Output) /\ pos[p] \in Nat \ {0}
  BY DEF InStep, Lockstep, LockstepOf, Encoded, TypeOK
<1>2. DOMAIN out[p] = 1 .. pos[p] - 1
  BY <1>1, LenProperties DEF CallsOf
<1> QED
  BY <1>1, <1>2 DEF Returned, Numbered, CallsOf, EncodedOf

\* And after a step.
LEMMA ReturnedAfter ==
    ASSUME InStep', Encoded', NEW p \in Party
    PROVE  Returned(p)' = Numbered(pos'[p] - 1)
<1>1. /\ CallsOf(p)' /\ EncodedOf(p)' /\ out'[p] \in Seq(Output) /\ pos'[p] \in Nat \ {0}
  BY DEF InStep, Lockstep, LockstepOf, Encoded, TypeOK
<1>2. /\ DOMAIN out'[p] = 1 .. pos'[p] - 1
      /\ \A k \in DOMAIN out'[p] : out'[p][k].vector = UniformVector(k) /\ out'[p][k].tail # "junk"
  BY <1>1, LenProperties DEF CallsOf, EncodedOf, UniformVector, Uniform
<1> QED
  BY <1>2 DEF Returned, Numbered

\* The sequences the functionality keeps.
LEMMA NumberedSeq ==
    ASSUME NEW n \in Nat
    PROVE  /\ Len(Numbered(n)) = n /\ DOMAIN Numbered(n) = 1 .. n
           /\ \A k \in 1 .. n : Numbered(n)[k] = UniformVector(k)
           /\ Numbered(n + 1) = Append(Numbered(n), UniformVector(n + 1))
<1> DEFINE S == {UniformVector(k) : k \in Nat}
           c == UniformVector(n + 1)
<1>1. \A m \in Nat : Numbered(m) \in Seq(S) /\ Len(Numbered(m)) = m
  <2> SUFFICES ASSUME NEW m \in Nat
               PROVE  Numbered(m) \in Seq(S) /\ Len(Numbered(m)) = m
    OBVIOUS
  <2>1. Numbered(m) \in [1 .. m -> S]
    BY DEF Numbered
  <2> HIDE DEF S
  <2>2. Numbered(m) \in Seq(S)
    BY <2>1, SeqDef
  <2> QED
    BY <2>1, <2>2, LenProperties
<1>2. c \in S /\ n + 1 \in Nat
  OBVIOUS
<1> HIDE DEF S
<1>3. /\ Append(Numbered(n), c) \in Seq(S) /\ Len(Append(Numbered(n), c)) = n + 1
      /\ \A k \in 1 .. n : Append(Numbered(n), c)[k] = Numbered(n)[k]
      /\ Append(Numbered(n), c)[n + 1] = c
  BY <1>1, <1>2, AppendProperties
<1>4. \A k \in 1 .. n + 1 : Numbered(n + 1)[k] = Append(Numbered(n), c)[k]
  <2>1. \A k \in 1 .. n + 1 : Numbered(n + 1)[k] = UniformVector(k)
    BY DEF Numbered
  <2>2. \A k \in 1 .. n : Numbered(n)[k] = UniformVector(k)
    BY DEF Numbered
  <2>3. \A k \in 1 .. n + 1 : k \in 1 .. n \/ k = n + 1
    OBVIOUS
  <2> QED
    BY <1>3, <2>1, <2>2, <2>3
<1>5. Numbered(n + 1) = Append(Numbered(n), c)
  BY <1>1, <1>2, <1>3, <1>4, SeqEqual
<1> QED
  BY <1>1, <1>5 DEF Numbered

\* Vectors of different calls differ.
LEMMA UniformDiffers ==
    \A j, k : UniformVector(j) = UniformVector(k) => j = k
<1> SUFFICES ASSUME NEW j, NEW k, UniformVector(j) = UniformVector(k) PROVE j = k
  OBVIOUS
<1>1. UniformVector(j).ots["sender"] = j /\ UniformVector(k).ots["sender"] = k
  BY DEF UniformVector, Uniform, Party
<1> QED
  BY <1>1

\* Whose calls have ended, and what they returned, in a step of the two parties.
LEMMA RefinedMoves ==
    ASSUME InStep, Encoded, NEW p \in Party, NEW s \in Strand,
           Control(p) \/ Communicate(p, s)
    PROVE  /\ stage[p] # "failed"
           /\ \A q \in Party \ {p} : stage'[q] = stage[q] /\ out'[q] = out[q]
           /\ \/ Finish(p)
              \/ out'[p] = out[p]
           /\ stage' \in [Party -> Stage]
<1>1. \A q \in Party \ {p} : stage'[q] = stage[q] /\ out'[q] = out[q]
  BY Untouched DEF InStep, StateOf
<1>2. stage[p] # "failed"
  <2>1. CASE Control(p)
    BY <2>1 DEF Control, Configure, EnterUnconfigured, EnterConfigured, GenSilentBaseOts,
                SetSilentBaseOts, BeginExpand, EndExpand, Finish, CallStage
  <2>2. CASE Communicate(p, s)
    <3>1. job[p][s] # <<>>
      BY <2>2 DEF Communicate, Transmit, Receive, Break
    <3> QED
      BY <3>1, ActiveStrand DEF InStep, Running
  <2> QED
    BY <2>1, <2>2
<1>3. Finish(p) \/ out'[p] = out[p]
  BY DEF Control, Configure, EnterUnconfigured, EnterConfigured, GenSilentBaseOts,
         SetSilentBaseOts, BeginExpand, EndExpand, Communicate, Transmit, Receive, Break
<1>4. stage' \in [Party -> Stage]
  <2>1. [Next]_vars
    BY DEF Next
  <2> QED
    BY <2>1, TypeStep DEF InStep, TypeOK
<1> QED
  BY <1>1, <1>2, <1>3, <1>4

\* Before the first call.
LEMMA RefinedInit == Init => Functionality!Init
<1> SUFFICES ASSUME Init PROVE Functionality!Init
  OBVIOUS
<1>1. \A p \in Party : stage[p] = "idle" /\ out[p] = <<>>
  BY DEF Init
<1>2. \A p \in Party : Returned(p) = <<>>
  BY <1>1 DEF Returned
<1> QED
  BY <1>1, <1>2 DEF Functionality!Init

\* A call that returns is one of the functionality's: it returns the vector of its own
\* number, which its peer has returned or can only return in the same call.
LEMMA FinishReturns ==
    ASSUME InStep, Encoded, Encoded', InStep', NEW p \in Party, Finish(p)
    PROVE  \E c \in [ots : WholeTags, vole : WholeTags] :
              Functionality!Return(p, Peer(p), c)
<1> DEFINE q == Peer(p)
           n == pos[p] - 1
           m == pos[q] - 1
           c == UniformVector(n + 1)
           got == [r \in Party |-> Returned(r)]
           next == [r \in Party |-> Returned(r)']
<1>0. q \in Party /\ q # p /\ \A r \in Party : r = p \/ r = q
  BY PeerType
<1>1. /\ stage[p] = "verify" /\ stage'[p] = "idle" /\ pos'[p] = pos[p] + 1
      /\ gens[p] = pos[p] /\ gens[p] <= gens[q]
      /\ pos[p] \in Nat \ {0} /\ pos[q] \in Nat \ {0} /\ gens[q] \in Nat
  BY <1>0, FinishShape DEF InStep, TypeOK
<1>2. gens[q] <= pos[q] /\ pos[p] <= Len(plan) /\ Len(plan) <= MaxCalls /\ Len(plan) \in Nat
  BY <1>0, <1>1, LenProperties DEF InStep, Counters, CountersOf, TypeOK
<1>3. n \in Nat /\ m \in Nat /\ n <= m /\ n + 1 = pos[p] /\ pos'[p] - 1 = n + 1
      /\ n + 1 \in 1 .. MaxCalls
  BY <1>1, <1>2, ConstantsAssumption
<1>4. pos'[q] = pos[q] /\ stage'[q] = stage[q]
  BY <1>0, <1>1 DEF Finish, InStep, TypeOK
<1>5. /\ got[p] = Numbered(n) /\ got[q] = Numbered(m)
      /\ got \in [Party -> {Numbered(n), Numbered(m)}]
  BY <1>0, ReturnedNumbered
<1>6. next[p] = Numbered(n + 1) /\ next[q] = Numbered(m)
  <2>1. \A r \in Party : Returned(r)' = Numbered(pos'[r] - 1)
    BY ReturnedAfter
  <2> QED
    BY <1>0, <1>3, <1>4, <2>1
<1>7. c \in [ots : WholeTags, vole : WholeTags]
  BY <1>3 DEF UniformVector, Uniform, WholeTags
<1> HIDE DEF n, m, c, q
<1>8. next = [got EXCEPT ![p] = Append(@, c)]
  <2>1. Numbered(n + 1) = Append(Numbered(n), c)
    BY <1>3, NumberedSeq DEF c
  <2>2. next[p] = Append(got[p], c) /\ next[q] = got[q]
    BY <1>5, <1>6, <2>1
  <2> QED
    BY <1>0, <2>2
<1>9. Len(got[p]) = n /\ Len(got[q]) = m /\ DOMAIN got[p] = 1 .. n
  BY <1>3, <1>5, NumberedSeq
<1>10. n < m => c = got[q][n + 1]
  <2>1. n < m => n + 1 \in 1 .. m
    BY <1>3
  <2> QED
    BY <1>3, <1>5, <2>1, NumberedSeq DEF c
<1>11. \A k \in 1 .. n : c # got[p][k]
  <2>1. \A k \in 1 .. n : k # n + 1
    BY <1>3
  <2>2. \A k \in 1 .. n : Numbered(n)[k] = UniformVector(k)
    BY <1>3, NumberedSeq
  <2>3. \A k \in 1 .. n : got[p][k] = UniformVector(k)
    BY <1>5, <2>2
  <2> QED
    BY <2>1, <2>3, UniformDiffers DEF c
<1>12. [r \in Party |-> stage[r] = "failed"]' = [r \in Party |-> stage[r] = "failed"]
  BY <1>0, <1>1, <1>4
<1>13. ~[r \in Party |-> stage[r] = "failed"][p]
  BY <1>1
<1>14. [r \in Party |-> Returned(r)]' = [got EXCEPT ![p] = Append(@, c)]
  BY <1>8
<1>15. Functionality!Return(p, q, c)
  BY <1>3, <1>9, <1>10, <1>11, <1>12, <1>13, <1>14 DEF Functionality!Return
<1> QED
  BY <1>7, <1>15 DEF q

\* Every other step stops a party or changes nothing the functionality sees.
LEMMA RefinedStep ==
    ASSUME RequestsFit
    PROVE  InStep /\ Encoded /\ [Next]_vars
              => [Functionality!Next]_<<[p \in Party |-> Returned(p)],
                                        [p \in Party |-> stage[p] = "failed"]>>
<1> DEFINE got == [p \in Party |-> Returned(p)]
           stopped == [p \in Party |-> stage[p] = "failed"]
<1> SUFFICES ASSUME InStep, Encoded, [Next]_vars
             PROVE  [Functionality!Next]_<<got, stopped>>
  OBVIOUS
<1>1. InStep' /\ Encoded'
  BY InStepStep, EncodedStep
<1>2. ASSUME NEW p \in Party, NEW s \in Strand, Control(p) \/ Communicate(p, s)
      PROVE  [Functionality!Next]_<<got, stopped>>
  <2>1. /\ stage[p] # "failed"
        /\ \A q \in Party \ {p} : stage'[q] = stage[q] /\ out'[q] = out[q]
        /\ Finish(p) \/ out'[p] = out[p]
        /\ stage' \in [Party -> Stage]
    BY <1>2, RefinedMoves
  <2>2. CASE Finish(p)
    <3>1. \E c \in [ots : WholeTags, vole : WholeTags] :
             Functionality!Return(p, Peer(p), c)
      BY <1>1, <2>2, FinishReturns
    <3>2. Peer(p) \in Party \ {p}
      BY PeerType
    <3> QED
      BY <3>1, <3>2 DEF Functionality!Next
  <2>3. CASE out'[p] = out[p]
    <3>1. \A q \in Party : out'[q] = out[q]
      BY <2>1, <2>3
    <3>2. \A q \in Party : Returned(q)' = Returned(q)
      BY <3>1 DEF Returned, Junk
    <3>3. got' = got
      BY <3>2
    <3>4. CASE stage'[p] = "failed"
      <4>1. stopped' = [stopped EXCEPT ![p] = TRUE]
        BY <2>1, <3>4
      <4>2. Functionality!Stop(p)
        BY <3>3, <4>1 DEF Functionality!Stop
      <4> QED
        BY <4>2 DEF Functionality!Next
    <3>5. CASE stage'[p] # "failed"
      <4>1. stopped' = stopped
        BY <2>1, <3>5
      <4> QED
        BY <3>3, <4>1
    <3> QED
      BY <3>4, <3>5
  <2> QED
    BY <2>1, <2>2, <2>3
<1>3. ASSUME Disconnect \/ UNCHANGED vars PROVE [Functionality!Next]_<<got, stopped>>
  <2>1. UNCHANGED <<out, stage>>
    BY <1>3 DEF Disconnect, vars
  <2>2. \A q \in Party : Returned(q)' = Returned(q)
    BY <2>1 DEF Returned, Junk
  <2>3. got' = got /\ stopped' = stopped
    BY <2>1, <2>2
  <2> QED
    BY <2>3
<1> QED
  <2>1. "main" \in Strand
    BY DEF Strand
  <2> QED
    BY <1>2, <1>3, <2>1 DEF Next, Joined

\* Every behaviour of the two parties, with its lost connections and exceptions, is one
\* of the ideal functionality, for all plans whose requests the encoding does not make
\* longer.
THEOREM CallsImplementFunctionality ==
    ASSUME RequestsFit
    PROVE  Spec => ImplementsFunctionality
<1>1. Init => Encoded /\ Functionality!Init
  BY EncodedInit, RefinedInit
<1>2. InStep /\ Encoded /\ [Next]_vars => Encoded'
  BY EncodedStep
<1>3. InStep /\ Encoded /\ [Next]_vars
         => [Functionality!Next]_<<[p \in Party |-> Returned(p)],
                                   [p \in Party |-> stage[p] = "failed"]>>
  BY RefinedStep
<1> QED
  BY <1>1, <1>2, <1>3, InStepAlways, PTL
     DEF Spec, ImplementsFunctionality, Functionality!Spec
=============================================================================
