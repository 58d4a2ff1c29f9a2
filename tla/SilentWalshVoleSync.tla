------------------------- MODULE SilentWalshVoleSync -------------------------
(***************************************************************************)
(* Why SilentWalshVole's parties stay together: the plan alone determines  *)
(* what every call exchanges, the two halves of a call are opposites,      *)
(* operation by operation, and what one party still has to do is what is   *)
(* on its way to it followed by the opposite of what the other still has   *)
(* to do.                                                                  *)
(***************************************************************************)
EXTENDS SilentWalshVole, FiniteSets

-----------------------------------------------------------------------------
(* What call k of the plan exchanges, if it gets so far.                   *)

TypeAt(k) == IF plan[k].type = "auto" THEN "BaseExtend" ELSE plan[k].type
RequestAt(k) == IF plan[k].type = "auto" THEN plan[k].n ELSE plan[k].req

\* The extension objects keep their seeds from the first call that has used them.
ExtAt(k) ==
    LET state == IF \E j \in 1 .. k - 1 : TypeAt(j) = "BaseExtend" THEN "seeded" ELSE "none"
    IN  [main |-> state, nv |-> state]

ForksAt(k) == MustFork(TypeAt(k), ExtAt(k))
ForksIn(k) == Cardinality({j \in 1 .. k : ForksAt(j)})

AfterGen(p, k) == Expansion(p) \o Verification(p, plan[k])

\* What p does for call k on channel c.
Script(p, k, c) ==
    IF c = 0 THEN GenMain(p, TypeAt(k), ExtAt(k)) \o AfterGen(p, k)
    ELSE IF ForksAt(k) /\ c = ForksIn(k) THEN GenFork(p, TypeAt(k), ExtAt(k))
    ELSE <<>>

-----------------------------------------------------------------------------
(* What the parties still have to do.                                      *)

\* The current call of p has begun its generation.
Generated(p) ==
    \/ stage[p] \in {"gen", "pregen", "based", "expand", "verify"}
    \/ stage[p] = "entered" /\ baseOts[p] # NoTag

\* What p will do in the current call after the strands it runs now.
Later(p) ==
    IF stage[p] = "expand" THEN Verification(p, Entry(p))
    ELSE IF Generated(p) /\ stage[p] # "verify" THEN AfterGen(p, pos[p])
    ELSE <<>>

\* What p has left of the current call on channel c.
Left(p, c) ==
    IF c = 0 THEN job[p].main \o Later(p)
    ELSE IF c = forks[p] THEN job[p].fork ELSE <<>>

\* An operation with the generation it belongs to.
Step == [io : {"send", "recv"}, kind : Kind, gen : Nat]

Steps(ops, g) ==
    [i \in DOMAIN ops |-> [io |-> ops[i].io, kind |-> ops[i].kind, gen |-> g]]

\* The receives that messages ask for.
Awaits(msgs) ==
    [i \in DOMAIN msgs |-> [io |-> "recv", kind |-> msgs[i].kind, gen |-> msgs[i].gen]]

\* The other side of steps.
Flip(x) == [x EXCEPT !.io = IF @ = "send" THEN "recv" ELSE "send"]
Opposite(steps) == [i \in DOMAIN steps |-> Flip(steps[i])]

\* What p has left to do on channel c to be where its peer is: a peer in a later
\* generation is in the next one.
Todo(p, c) ==
    Steps(Left(p, c), gens[p])
    \o (IF gens[p] < gens[Peer(p)]
        THEN Steps(Script(p, gens[p] + 1, c), gens[p] + 1) ELSE <<>>)

\* a waits for exactly the messages on their way to it and then for b, to which
\* nothing is on its way.
Follows(a, toA, b, toB) == toB = <<>> /\ a = toA \o Opposite(b)

Begins(a, b) == Len(a) <= Len(b) /\ \A i \in DOMAIN a : a[i] = b[i]

SyncOn(c) ==
    \E p \in Party :
        Follows(Todo(p, c), Awaits(net[p][c]), Todo(Peer(p), c), Awaits(net[Peer(p)][c]))

\* As long as nothing is closed the two parties are in step on every channel; after
\* that an open party still finds only messages it expects.
InSync ==
    /\ closed = {} => \A c \in Channels : SyncOn(c)
    /\ \A p \in Party \ closed, c \in Channels : Begins(Awaits(net[p][c]), Todo(p, c))

-----------------------------------------------------------------------------
(* What the calls of a party have made of its state.                       *)

Uniform(g) == [p \in Party |-> g]
UniformVector(g) == [ots |-> Uniform(g), vole |-> Uniform(g)]

\* Each call that returns has had one generation, and what it returns comes from
\* that generation of both parties.
CallsOf(p) ==
    /\ stage[p] # "failed" => gens[p] = IF Generated(p) THEN pos[p] ELSE pos[p] - 1
    /\ Len(out[p]) = pos[p] - 1
    /\ \A k \in DOMAIN out[p] : out[p][k].vector = UniformVector(k)

\* The objects of p are as the plan says.
PlannedOf(p) ==
    /\ stage[p] = "idle" => mState[p] = "Default"
    /\ stage[p] \notin {"idle", "failed"} =>
          conf[p].type = TypeAt(pos[p]) /\ conf[p].req = RequestAt(pos[p])
    /\ stage[p] # "failed" =>
          ext[p] = ExtAt(IF stage[p] \in {"gen", "pregen"} THEN gens[p] ELSE gens[p] + 1)
    /\ forks[p] = ForksIn(gens[p])
    /\ stage[p] \in {"gen", "pregen"} => forked[p] = ForksAt(gens[p])
    /\ job[p].fork # <<>> => stage[p] \in {"gen", "pregen"} /\ forked[p]

\* A party whose socket is closed gets no further than the expansion.
StuckOf(p) ==
    p \in closed =>
        \/ stage[p] \in {"gen", "pregen", "failed"}
        \/ stage[p] \in {"based", "entered"} /\ baseOts[p] # NoTag
        \/ stage[p] = "expand" /\ job[p].main # <<>>

Receives(ops) == \E i \in DOMAIN ops : ops[i].io = "recv"

\* What p holds in a generation comes from that generation of both parties.
HoldsOf(p) ==
    p \notin closed =>
        /\ stage[p] \in {"gen", "pregen"} =>
              \A s \in IF forked[p] THEN Strand ELSE {"main"} :
                 heard[p][s] = gens[p] \/ Receives(job[p][s])
        /\ stage[p] \in {"based", "entered"} /\ baseOts[p] # NoTag =>
              baseOts[p] = Uniform(gens[p]) /\ baseVole[p] = Uniform(gens[p])
        /\ stage[p] \in {"expand", "verify"} => noisy[p] = UniformVector(gens[p])

GenKind == {"base1", "base2", "seed", "expand", "corr", "chal", "resp", "noisy"}
VectorKind == {"tree", "rtBaseB", "malHash"}

\* The operations of genSilentBaseOts send nothing that is checked against mA.
KindsOf(p) ==
    stage[p] \in {"gen", "pregen"} =>
        \A s \in Strand : \A i \in DOMAIN job[p][s] : job[p][s][i].kind \in GenKind

\* p is at most in the generation after the peer's, and in no later one once
\* its genSilentBaseOts is through.
PaceOf(p) ==
    /\ gens[p] <= gens[Peer(p)] + 1
    /\ \/ stage[p] \in {"gen", "pregen", "failed"}
       \/ p \in closed
       \/ gens[p] <= gens[Peer(p)]
    /\ \A s \in Strand : heard[p][s] <= gens[Peer(p)]

\* A message to p was sent in a generation the peer has begun, and its vector is
\* that generation's.
MailOf(p) ==
    \A c \in Channels : \A i \in DOMAIN net[p][c] :
        /\ net[p][c][i].gen <= gens[Peer(p)]
        /\ net[p][c][i].kind \in VectorKind =>
              net[p][c][i].vector = UniformVector(net[p][c][i].gen)

LockstepOf(p) ==
    /\ CallsOf(p) /\ PlannedOf(p) /\ StuckOf(p) /\ HoldsOf(p)
    /\ KindsOf(p) /\ PaceOf(p) /\ MailOf(p)

Lockstep == \A p \in Party : LockstepOf(p)

-----------------------------------------------------------------------------
(* What the parties return.                                                *)

\* The calls are for lengths the encoding does not make longer, as far as
\* configure() accepts them.
RequestOf(call) == IF call.type = "auto" THEN call.n ELSE call.req
RequestsFit ==
    \A calls \in Plans : \A k \in DOMAIN calls :
        Configurable(RequestOf(calls[k])) => ~Grows(RequestOf(calls[k]))

\* A call that has got past configure() is for a length it accepts, and no call has
\* returned entries computed from memory nobody has written.
EncodedOf(p) ==
    /\ stage[p] \notin {"idle", "failed"} => Configurable(conf[p].req)
    /\ \A k \in DOMAIN out[p] : out[p][k].tail # "junk"

Encoded == plan \in Plans /\ \A p \in Party : EncodedOf(p)
=============================================================================
