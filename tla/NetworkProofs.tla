----------------------------- MODULE NetworkProofs -----------------------------
(***************************************************************************)
(* The acceptor pairs sockets and channels that arrive in any order, for   *)
(* any programs: no channel waits for a socket that is there, the promises *)
(* that stop() waits for are set at most once, and a channel gets only     *)
(* sockets that bear its names.                                            *)
(*                                                                         *)
(* First come the operators of Acceptor, each of which keeps what is true  *)
(* between two tasks; then the order of the tasks and of the attempts to   *)
(* connect; then the steps of Network.  For the names the same is done     *)
(* with the places of a socket, which is in one at a time: it waits for    *)
(* its name, in the pool, with a session, or it belongs to a channel.      *)
(***************************************************************************)
EXTENDS Network, FiniteSetTheorems, SequenceTheorems, WellFoundedInduction, TLAPS

-----------------------------------------------------------------------------
(* States of the acceptor                                                  *)

UsedClients == Used \cap Clients
ClientSessions == {plan.session[c] : c \in UsedClients}
Sock == [of : UsedClients, n : Nat]

Gift == [sock : Sock \cup {NoSock}, ok : BOOLEAN]
Group == [id : ClientSessions, sockets : Seq(Sock)]
Task ==
    [do : {"get", "cancel"}, of : UsedServers] \cup [do : {"set"}, of : Sock]
    \cup [do : {"unsubscribe"}, of : ServerSessions] \cup [do : {"stop", "start"}]

Names == [session |-> plan.session, local |-> plan.local, remote |-> plan.remote,
          servers |-> plan.servers]

State ==
    [plan : {Names}, strand : Seq(Task), given : [Used -> Seq(Gift)],
     listening : BOOLEAN, accepting : {"open", "aborted", "none"},
     backlog : SUBSET Sock, greeting : SUBSET Sock, naming : SUBSET Sock, closed : SUBSET Sock,
     stopped : BOOLEAN, emptied : Nat, released : Nat,
     groups : SUBSET ServerSessions, base : SUBSET ServerSessions,
     channels : [ServerSessions -> Seq(UsedServers)],
     sockets : [ServerSessions -> Seq(Sock)],
     sessionID : [ServerSessions -> ClientSessions \cup {NoSession}],
     unclaimed : SUBSET ServerSessions,
     claimed : [ClientSessions -> ServerSessions \cup {NoSession}],
     pool : Seq(Group)]

\* A group is one that somebody wants, and whoever waits or is claimed is in one.
Wanted(a) ==
    /\ a.base \subseteq a.groups /\ a.unclaimed \subseteq a.groups
    /\ \A t \in a.groups : Ac!hasSubscriptions(a, t)
    /\ \A t \in ServerSessions : a.channels[t] # <<>> => t \in a.groups
    /\ \A x \in ClientSessions : a.claimed[x] \in (a.groups \ a.unclaimed) \cup {NoSession}

\* The two promises of stop().
Released(a) == a.released = IF a.stopped /\ ~Ac!hasAnySubscriptions(a) THEN 1 ELSE 0
Emptying(a) ==
    /\ a.emptied = IF a.stopped /\ Ac!Pendings(a) = {} THEN 1 ELSE 0
    /\ a.stopped => ~a.listening /\ a.accepting # "open" /\ a.base = {}

\* A session without an ID has not been given sockets, and channels wait only for
\* sockets that are not there.
Unmatched(a) ==
    /\ \A t \in a.groups : a.sessionID[t] = NoSession <=> t \in a.unclaimed
    /\ \A t \in a.unclaimed : a.sockets[t] = <<>>
    /\ \A t \in a.groups : \A i \in DOMAIN a.channels[t] :
          /\ Ac!ServerSession(a, a.channels[t][i]) = t
          /\ \A k \in DOMAIN a.sockets[t] : ~Ac!Matches(a, a.sockets[t][k], a.channels[t][i])
          /\ t \in a.unclaimed =>
               \A g \in DOMAIN a.pool : \A k \in DOMAIN a.pool[g].sockets :
                   ~Ac!Matches(a, a.pool[g].sockets[k], a.channels[t][i])

\* A socket is accepted once, and named once.
Apart(a) ==
    /\ a.backlog \cap a.greeting = {} /\ a.backlog \cap a.naming = {}
    /\ a.greeting \cap a.naming = {}

-----------------------------------------------------------------------------
(* The acceptor's strand                                                   *)

At(i, task) == i \in DOMAIN acc.strand /\ acc.strand[i] = task

\* Channels are opened before their session is stopped, and ask for sockets before.
Unended == \A c \in UsedServers : ~Opened(c) => plan.session[c] \notin ending
GetsFirst ==
    \A i \in Nat, c \in UsedServers : At(i, Ac!GetTask(c)) =>
        /\ plan.session[c] \in acc.base
        /\ \A j \in Nat : At(j, Ac!UnsubscribeTask(plan.session[c])) => i < j

\* A session is stopped once, and subscribed until its task runs.
EndsOnce ==
    \A t \in ServerSessions :
        /\ t \notin ending => t \in acc.base /\ \A i \in Nat : ~At(i, Ac!UnsubscribeTask(t))
        /\ t \in ending => (t \in acc.base <=> \E i \in Nat : At(i, Ac!UnsubscribeTask(t)))
        /\ \A i, j \in Nat :
               At(i, Ac!UnsubscribeTask(t)) /\ At(j, Ac!UnsubscribeTask(t)) => i = j

\* The acceptor is stopped once, after all sessions.
StopsLast ==
    /\ acc.stopped => NoSession \in ending
    /\ \A i \in Nat : At(i, Ac!StopTask) =>
          /\ ~acc.stopped /\ NoSession \in ending
          /\ \A t \in acc.base : \E j \in Nat : j < i /\ At(j, Ac!UnsubscribeTask(t))
          /\ \A j \in Nat : At(j, Ac!StopTask) => i = j

\* A socket gets its name once.
NamesOnce ==
    \A s \in Sock : \A i, j \in Nat :
        At(i, Ac!SetTask(s)) => s \in acc.naming /\ (At(j, Ac!SetTask(s)) => i = j)

InOrder == Unended /\ GetsFirst /\ EndsOnce /\ StopsLast /\ NamesOnce

-----------------------------------------------------------------------------
(* Connecting                                                              *)

Op == [op : {"timeout", "connect", "retry", "read", "write"}, n : Nat,
       st : {"armed", "aborted", "canceled", "closed"}]
Conn == [n : Nat, first : BOOLEAN, late : BOOLEAN,
         ec : {"ok", "refused", "aborted"}, sock : Sock \cup {NoSock}, ops : SUBSET Op]

\* Each attempt connects one socket, whose number is not greater than n.
Attempted(n, ops) ==
    \A o, q \in ops : o.op = "connect" /\ q.op = "connect" => o.n <= n /\ (o.n = q.n => o = q)

\* The socket s does not belong to an attempt that is under way, or still to be made.
Past(k, s) == s.n <= k.n /\ \A o \in k.ops : o.op = "connect" => o.n # s.n

\* The sockets that have connected and have no name.
Unnamed(a) == a.backlog \cup a.greeting \cup a.naming

\* An attempt is made once, and its socket is new to the acceptor.
Attempts ==
    /\ conn \in [UsedClients -> Conn]
    /\ \A c \in UsedClients : Attempted(conn[c].n, conn[c].ops)
    /\ \A s \in Unnamed(acc) : Past(conn[s.of], s)

\* A state between two tasks.
Good(a) == a \in State /\ Wanted(a) /\ Released(a) /\ Emptying(a) /\ Unmatched(a)

AcceptorInv ==
    /\ plan \in Plans /\ pc \in [Used -> [at : Nat, half : BOOLEAN]]
    /\ Good(acc) /\ acc.given = [c \in Used |-> <<>>] /\ acc.closed = {} /\ Apart(acc)
    /\ InOrder /\ Attempts /\ ending \subseteq ServerSessions \cup {NoSession}

-----------------------------------------------------------------------------
(* Sequences                                                               *)

\* A set of natural numbers that is not empty has a least element.
LEMMA LeastNatural ==
    ASSUME NEW S \in SUBSET Nat, S # {}
    PROVE  \E i \in S : \A j \in S : i <= j
<1> DEFINE Below(i) == {j \in S : j <= i}
           T == {Below(i) : i \in S}
           R == StrictSubsetOrdering(S)
<1>1. T \subseteq FiniteSubsetsOf(S)
  <2>1. ASSUME NEW i \in S PROVE IsFiniteSet(Below(i))
    BY FS_BoundedSetOfNaturals
  <2>2. \A i \in S : Below(i) \in SUBSET S
    OBVIOUS
  <2> HIDE DEF Below
  <2> QED
    BY <2>1, <2>2 DEF FiniteSubsetsOf
<1>2. T # {}
  OBVIOUS
<1>3. IsWellFoundedOn(R, FiniteSubsetsOf(S))
  BY FS_StrictSubsetOrderingWellFounded
<1>4. PICK t \in T : \A u \in T : ~(<<u, t>> \in R)
  <2> HIDE DEF T, R
  <2> QED
    BY <1>1, <1>2, <1>3, WFMin
<1>5. PICK i \in S : t = Below(i)
  OBVIOUS
<1>6. ASSUME NEW j \in S, ~(i <= j) PROVE FALSE
  <2>1. Below(j) \subseteq Below(i) /\ Below(j) # Below(i)
    <3>1. i \in Below(i) /\ i \notin Below(j)
      BY <1>6
    <3>2. \A k \in S : k <= j => k <= i
      BY <1>6
    <3> QED
      BY <3>1, <3>2
  <2>2. Below(j) \in T /\ Below(i) \in SUBSET S /\ Below(j) \in SUBSET S
    OBVIOUS
  <2>3. <<Below(j), Below(i)>> \in R
    <3> HIDE DEF Below
    <3> QED
      BY <2>1, <2>2 DEF StrictSubsetOrdering
  <2> QED
    BY <1>4, <1>5, <2>2, <2>3
<1> QED
  BY <1>6

\* A sequence without one of its elements.
LEMMA WithoutOne ==
    ASSUME NEW S, NEW q \in Seq(S), NEW i \in DOMAIN q
    PROVE  /\ Ac!RemoveAt(q, i) \in Seq(S)
           /\ Len(Ac!RemoveAt(q, i)) = Len(q) - 1
           /\ \A j \in 1 .. Len(q) - 1 : Ac!RemoveAt(q, i)[j] = IF j < i THEN q[j] ELSE q[j + 1]
<1>1. i \in 1 .. Len(q) /\ Len(q) \in Nat
  OBVIOUS
<1>2. /\ SubSeq(q, 1, i - 1) \in Seq(S) /\ Len(SubSeq(q, 1, i - 1)) = i - 1
      /\ \A j \in 1 .. i - 1 : SubSeq(q, 1, i - 1)[j] = q[j]
  BY <1>1
<1>3. /\ SubSeq(q, i + 1, Len(q)) \in Seq(S) /\ Len(SubSeq(q, i + 1, Len(q))) = Len(q) - i
      /\ \A j \in 1 .. Len(q) - i : SubSeq(q, i + 1, Len(q))[j] = q[i + j]
  BY <1>1
<1> DEFINE left == SubSeq(q, 1, i - 1)
           right == SubSeq(q, i + 1, Len(q))
<1>4. Ac!RemoveAt(q, i) = left \o right
  BY DEF Ac!RemoveAt
<1>5. /\ left \in Seq(S) /\ right \in Seq(S) /\ Len(left) = i - 1 /\ Len(right) = Len(q) - i
      /\ \A j \in 1 .. i - 1 : left[j] = q[j]
      /\ \A j \in 1 .. Len(q) - i : right[j] = q[i + j]
  BY <1>2, <1>3
<1> HIDE DEF left, right
<1>6. left \o right \in Seq(S) /\ Len(left \o right) = Len(q) - 1
  BY <1>1, <1>5
<1>7. ASSUME NEW j \in 1 .. Len(q) - 1
      PROVE  (left \o right)[j] = IF j < i THEN q[j] ELSE q[j + 1]
  <2>1. CASE j < i
    BY <1>1, <1>5, <2>1
  <2>2. CASE ~(j < i)
    <3>1. j - (i - 1) \in 1 .. Len(q) - i /\ j > Len(left) /\ i + (j - (i - 1)) = j + 1
      BY <1>1, <1>5, <2>2
    <3>2. (left \o right)[j] = right[j - Len(left)]
      <4>1. j \in 1 .. Len(left) + Len(right)
        BY <1>1, <1>5
      <4> QED
        BY <1>5, <3>1, <4>1, ConcatProperties
    <3> QED
      BY <1>1, <1>5, <2>2, <3>1, <3>2
  <2> QED
    BY <2>1, <2>2
<1> QED
  BY <1>4, <1>6, <1>7

\* Its elements are elements of the sequence, at one place each.
LEMMA WithoutOneAt ==
    ASSUME NEW S, NEW q \in Seq(S), NEW i \in DOMAIN q, NEW j \in DOMAIN Ac!RemoveAt(q, i)
    PROVE  \E k \in DOMAIN q : k # i /\ Ac!RemoveAt(q, i)[j] = q[k]
<1>1. /\ Ac!RemoveAt(q, i) \in Seq(S) /\ Len(Ac!RemoveAt(q, i)) = Len(q) - 1
      /\ \A n \in 1 .. Len(q) - 1 : Ac!RemoveAt(q, i)[n] = IF n < i THEN q[n] ELSE q[n + 1]
  BY WithoutOne
<1> DEFINE r == Ac!RemoveAt(q, i)
<1> HIDE DEF r
<1>2. j \in 1 .. Len(q) - 1 /\ Len(q) \in Nat /\ i \in 1 .. Len(q) /\ DOMAIN q = 1 .. Len(q)
  <2>1. r \in Seq(S) /\ Len(r) = Len(q) - 1 /\ j \in DOMAIN r
    BY <1>1 DEF r
  <2> QED
    BY <2>1
<1>3. CASE j < i
  BY <1>1, <1>2, <1>3
<1>4. CASE ~(j < i)
  <2>1. j + 1 \in DOMAIN q /\ j + 1 # i /\ Ac!RemoveAt(q, i)[j] = q[j + 1]
    BY <1>1, <1>2, <1>4
  <2> QED
    BY <2>1
<1> QED
  BY <1>3, <1>4

-----------------------------------------------------------------------------
(* What is added to a group                                                *)

\* What the programs of a plan are.
LEMMA PlanType ==
    ASSUME plan \in Plans
    PROVE  /\ plan.session \in [Used -> Sessions]
           /\ plan.servers \in Seq(Sessions)
           /\ \A c \in UsedServers : c \in Used /\ plan.session[c] \in ServerSessions
           /\ \A c \in UsedClients : c \in Used /\ plan.session[c] \in ClientSessions
           /\ NoSession \notin ServerSessions /\ NoSession \notin ClientSessions
<1>1. /\ plan.session \in [Used -> Sessions] /\ plan.servers \in Seq(Sessions)
      /\ \A c \in UsedServers : plan.session[c] \in ServerSessions
  BY PlansAssumption DEF Used, UsedServers, ServerSessions
<1>2. ServerSessions \subseteq Sessions /\ ClientSessions \subseteq Sessions
  BY <1>1 DEF ServerSessions, Range, ClientSessions, UsedClients
<1> QED
  BY <1>1, <1>2, NoneAssumption DEF UsedServers, UsedClients, ClientSessions

\* Nothing but the channels, sockets and gifts of a session changes.
Frame(a, b) ==
    /\ b.plan = a.plan /\ b.strand = a.strand /\ b.listening = a.listening
    /\ b.accepting = a.accepting /\ b.backlog = a.backlog /\ b.greeting = a.greeting
    /\ b.naming = a.naming /\ b.closed = a.closed /\ b.stopped = a.stopped
    /\ b.emptied = a.emptied /\ b.released = a.released /\ b.groups = a.groups
    /\ b.base = a.base /\ b.sessionID = a.sessionID /\ b.unclaimed = a.unclaimed
    /\ b.claimed = a.claimed /\ b.pool = a.pool

\* The channel c is given s, and nothing else.
Gives(a, b, c, s, ok) ==
    /\ b.channels = a.channels /\ b.sockets = a.sockets
    /\ b.given = [a.given EXCEPT ![c] = Append(@, [sock |-> s, ok |-> ok])]

\* What a channel is given is all that changes.
LEMMA GiveIs ==
    ASSUME NEW a \in State, NEW c \in Used, NEW s \in Sock \cup {NoSock}, NEW ok \in BOOLEAN
    PROVE  LET b == Ac!Give(a, c, s, ok)
           IN  b \in State /\ Frame(a, b) /\ Gives(a, b, c, s, ok)
<1>1. [a.given EXCEPT ![c] = Append(@, [sock |-> s, ok |-> ok])] \in [Used -> Seq(Gift)]
  <2>1. a.given \in [Used -> Seq(Gift)] /\ [sock |-> s, ok |-> ok] \in Gift
    BY DEF State, Gift
  <2> QED
    BY <2>1
<1> DEFINE g == [a.given EXCEPT ![c] = Append(@, [sock |-> s, ok |-> ok])]
<1>2. Ac!Give(a, c, s, ok) = [a EXCEPT !.given = g]
  BY DEF Ac!Give
<1> HIDE DEF g
<1>3. [a EXCEPT !.given = g] \in State
  BY <1>1 DEF State, g
<1>4. Frame(a, [a EXCEPT !.given = g])
  BY DEF State, Frame
<1>5. [a EXCEPT !.given = g].given = g /\ [a EXCEPT !.given = g].channels = a.channels
      /\ [a EXCEPT !.given = g].sockets = a.sockets
  BY DEF State
<1> QED
  BY <1>2, <1>3, <1>4, <1>5 DEF g, Gives

\* The least index with a property.
LEMMA FirstIs ==
    ASSUME NEW q, NEW S, q \in Seq(S), NEW T \in SUBSET DOMAIN q,
           NEW n, n = IF T = {} THEN 0 ELSE CHOOSE i \in T : \A j \in T : i <= j
    PROVE  (n = 0 /\ T = {}) \/ (n # 0 /\ n \in T)
<1>1. CASE T = {}
  BY <1>1
<1>2. CASE T # {}
  <2>1. T \in SUBSET Nat /\ 0 \notin T
    OBVIOUS
  <2>2. \E i \in T : \A j \in T : i <= j
    BY <1>2, <2>1, LeastNatural
  <2>3. n \in T
    BY <1>2, <2>2
  <2> QED
    BY <2>1, <2>3
<1> QED
  BY <1>1, <1>2

\* The socket s waits, or is given to a channel that it fits.
SocketAdded(a, b, t, s) ==
    \/ /\ \A i \in DOMAIN a.channels[t] : ~Ac!Matches(a, s, a.channels[t][i])
       /\ b.channels = a.channels /\ b.given = a.given
       /\ b.sockets = [a.sockets EXCEPT ![t] = Append(@, s)]
    \/ \E i \in DOMAIN a.channels[t] :
          LET c == a.channels[t][i]
          IN  /\ Ac!Matches(a, s, c)
              /\ b.channels = [a.channels EXCEPT ![t] = Ac!RemoveAt(@, i)]
              /\ b.sockets = a.sockets
              /\ b.given = [a.given EXCEPT ![c] = Append(@, [sock |-> s, ok |-> TRUE])]

\* A socket goes to the first channel that it fits, or waits.
LEMMA AddSocketIs ==
    ASSUME plan \in Plans, NEW a \in State, NEW t \in ServerSessions, NEW s \in Sock
    PROVE  LET b == Ac!AddSocket(a, t, s)
           IN  b \in State /\ Frame(a, b) /\ SocketAdded(a, b, t, s)
<1> DEFINE T == {i \in DOMAIN a.channels[t] : Ac!Matches(a, s, a.channels[t][i])}
           n == IF T = {} THEN 0 ELSE CHOOSE i \in T : \A j \in T : i <= j
           waits == [a EXCEPT !.sockets[t] = Append(@, s)]
           left == [a EXCEPT !.channels[t] = Ac!RemoveAt(@, n)]
           b == Ac!AddSocket(a, t, s)
<1>1. b = IF n = 0 THEN waits ELSE Ac!Give(left, a.channels[t][n], s, TRUE)
  BY DEF Ac!AddSocket, Ac!FirstIndex
<1>2. a.channels \in [ServerSessions -> Seq(UsedServers)] /\ a.sockets \in [ServerSessions -> Seq(Sock)]
  BY DEF State
<1>3. a.channels[t] \in Seq(UsedServers)
  BY <1>2
<1>4. (n = 0 /\ T = {}) \/ (n # 0 /\ n \in T)
  <2>1. T \in SUBSET DOMAIN a.channels[t]
    OBVIOUS
  <2>2. n = IF T = {} THEN 0 ELSE CHOOSE i \in T : \A j \in T : i <= j
    OBVIOUS
  <2> HIDE DEF T, n
  <2> QED
    BY <1>3, <2>1, <2>2, FirstIs
<1>5. CASE n = 0 /\ T = {}
  <2>1. b = waits
    BY <1>1, <1>5
  <2>2. [a.sockets EXCEPT ![t] = Append(@, s)] \in [ServerSessions -> Seq(Sock)]
    BY <1>2
  <2>3. waits \in State
    BY <2>2 DEF State
  <2>4. Frame(a, waits)
    BY DEF State, Frame
  <2>5. /\ waits.channels = a.channels /\ waits.given = a.given
        /\ waits.sockets = [a.sockets EXCEPT ![t] = Append(@, s)]
    BY DEF State
  <2>6. \A i \in DOMAIN a.channels[t] : ~Ac!Matches(a, s, a.channels[t][i])
    BY <1>5
  <2> HIDE DEF waits, b, n, T
  <2> QED
    BY <2>1, <2>3, <2>4, <2>5, <2>6 DEF b, SocketAdded
<1>6. CASE n # 0 /\ n \in T
  <2> DEFINE c == a.channels[t][n]
  <2>1. b = Ac!Give(left, c, s, TRUE)
    BY <1>1, <1>6
  <2>2. n \in DOMAIN a.channels[t] /\ Ac!Matches(a, s, c)
    BY <1>6
  <2> HIDE DEF n, T
  <2>3. Ac!RemoveAt(a.channels[t], n) \in Seq(UsedServers)
    BY <1>3, <2>2, WithoutOne
  <2>4. [a.channels EXCEPT ![t] = Ac!RemoveAt(@, n)] \in [ServerSessions -> Seq(UsedServers)]
    BY <1>2, <2>3
  <2>5. left \in State
    BY <2>4 DEF State
  <2>6. Frame(a, left)
    BY DEF State, Frame
  <2>7. /\ left.channels = [a.channels EXCEPT ![t] = Ac!RemoveAt(@, n)]
        /\ left.sockets = a.sockets /\ left.given = a.given
    BY DEF State
  <2>8. c \in Used
    BY <1>3, <2>2, PlanType
  <2> HIDE DEF left, c, b, waits
  <2>9. b \in State /\ Frame(left, b) /\ Gives(left, b, c, s, TRUE)
    <3>1. s \in Sock \cup {NoSock} /\ TRUE \in BOOLEAN
      OBVIOUS
    <3> QED
      BY <2>1, <2>5, <2>8, <3>1, GiveIs, Zenon
  <2>10. Frame(a, b)
    BY <2>6, <2>9 DEF Frame
  <2> QED
    BY <2>2, <2>7, <2>9, <2>10 DEF c, b, SocketAdded, Gives
<1> QED
  BY <1>4, <1>5, <1>6

\* The channel c waits, or is given a socket that fits it.
ChannelAdded(a, b, t, c) ==
    \/ /\ \A k \in DOMAIN a.sockets[t] : ~Ac!Matches(a, a.sockets[t][k], c)
       /\ b.sockets = a.sockets /\ b.given = a.given
       /\ b.channels = [a.channels EXCEPT ![t] = Append(@, c)]
    \/ \E k \in DOMAIN a.sockets[t] :
          LET s == a.sockets[t][k]
          IN  /\ Ac!Matches(a, s, c)
              /\ b.sockets = [a.sockets EXCEPT ![t] = Ac!RemoveAt(@, k)]
              /\ b.channels = a.channels
              /\ b.given = [a.given EXCEPT ![c] = Append(@, [sock |-> s, ok |-> TRUE])]

\* A channel takes the first socket that fits it, or waits.
LEMMA AddChannelIs ==
    ASSUME plan \in Plans, NEW a \in State, NEW t \in ServerSessions, NEW c \in UsedServers
    PROVE  LET b == Ac!AddChannel(a, t, c)
           IN  b \in State /\ Frame(a, b) /\ ChannelAdded(a, b, t, c)
<1> DEFINE T == {k \in DOMAIN a.sockets[t] : Ac!Matches(a, a.sockets[t][k], c)}
           n == IF T = {} THEN 0 ELSE CHOOSE i \in T : \A j \in T : i <= j
           waits == [a EXCEPT !.channels[t] = Append(@, c)]
           left == [a EXCEPT !.sockets[t] = Ac!RemoveAt(@, n)]
           b == Ac!AddChannel(a, t, c)
<1>1. b = IF n = 0 THEN waits ELSE Ac!Give(left, c, a.sockets[t][n], TRUE)
  BY DEF Ac!AddChannel, Ac!FirstIndex
<1>2. a.channels \in [ServerSessions -> Seq(UsedServers)] /\ a.sockets \in [ServerSessions -> Seq(Sock)]
  BY DEF State
<1>3. a.sockets[t] \in Seq(Sock) /\ c \in Used
  BY <1>2, PlanType
<1>4. (n = 0 /\ T = {}) \/ (n # 0 /\ n \in T)
  <2>1. T \in SUBSET DOMAIN a.sockets[t] /\ a.sockets[t] \in Seq(Sock)
    BY <1>3
  <2>2. n = IF T = {} THEN 0 ELSE CHOOSE i \in T : \A j \in T : i <= j
    OBVIOUS
  <2> HIDE DEF T, n
  <2> QED
    BY <2>1, <2>2, FirstIs, Zenon
<1>5. CASE n = 0 /\ T = {}
  <2>1. b = waits
    BY <1>1, <1>5
  <2>2. [a.channels EXCEPT ![t] = Append(@, c)] \in [ServerSessions -> Seq(UsedServers)]
    BY <1>2
  <2>3. waits \in State
    BY <2>2 DEF State
  <2>4. Frame(a, waits)
    BY DEF State, Frame
  <2>5. /\ waits.sockets = a.sockets /\ waits.given = a.given
        /\ waits.channels = [a.channels EXCEPT ![t] = Append(@, c)]
    BY DEF State
  <2>6. \A k \in DOMAIN a.sockets[t] : ~Ac!Matches(a, a.sockets[t][k], c)
    BY <1>5
  <2> HIDE DEF waits, b, n, T
  <2> QED
    BY <2>1, <2>3, <2>4, <2>5, <2>6 DEF b, ChannelAdded
<1>6. CASE n # 0 /\ n \in T
  <2> DEFINE s == a.sockets[t][n]
  <2>1. b = Ac!Give(left, c, s, TRUE)
    BY <1>1, <1>6
  <2>2. n \in DOMAIN a.sockets[t] /\ Ac!Matches(a, s, c)
    BY <1>6
  <2> HIDE DEF n, T
  <2>3. Ac!RemoveAt(a.sockets[t], n) \in Seq(Sock)
    BY <1>3, <2>2, WithoutOne
  <2>4. [a.sockets EXCEPT ![t] = Ac!RemoveAt(@, n)] \in [ServerSessions -> Seq(Sock)]
    BY <1>2, <2>3
  <2>5. left \in State
    BY <2>4 DEF State
  <2>6. Frame(a, left)
    BY DEF State, Frame
  <2>7. /\ left.sockets = [a.sockets EXCEPT ![t] = Ac!RemoveAt(@, n)]
        /\ left.channels = a.channels /\ left.given = a.given
    BY DEF State
  <2>8. s \in Sock \cup {NoSock} /\ TRUE \in BOOLEAN
    BY <1>3, <2>2
  <2> HIDE DEF left, s, b, waits
  <2>9. b \in State /\ Frame(left, b) /\ Gives(left, b, c, s, TRUE)
    BY <1>3, <2>1, <2>5, <2>8, GiveIs, Zenon
  <2>10. Frame(a, b)
    BY <2>6, <2>9 DEF Frame
  <2> QED
    BY <2>2, <2>7, <2>9, <2>10 DEF s, b, ChannelAdded, Gives
<1> QED
  BY <1>4, <1>5, <1>6

-----------------------------------------------------------------------------
(* A group that nobody wants any more                                      *)

\* Nothing but who is claimed changes, whether the acceptor listens, and the promise.
Rest(a, b) ==
    /\ b.plan = a.plan /\ b.strand = a.strand /\ b.given = a.given
    /\ b.greeting = a.greeting /\ b.naming = a.naming /\ b.stopped = a.stopped
    /\ b.emptied = a.emptied /\ b.base = a.base /\ b.channels = a.channels
    /\ b.sockets = a.sockets /\ b.sessionID = a.sessionID /\ b.pool = a.pool
    /\ b.backlog \subseteq a.backlog

\* The acceptor stops to listen when nobody is left.
LEMMA StopListeningIs ==
    ASSUME NEW a \in State
    PROVE  LET b == Ac!stopListening(a)
           IN  /\ b \in State /\ Rest(a, b)
               /\ b.groups = a.groups /\ b.unclaimed = a.unclaimed /\ b.claimed = a.claimed
               /\ a.listening = FALSE => b.listening = FALSE
               /\ a.accepting # "open" => b.accepting = a.accepting
               /\ b.accepting = "none" <=> a.accepting = "none"
               /\ b.released = IF a.stopped /\ ~Ac!hasAnySubscriptions(a)
                               THEN a.released + 1 ELSE a.released
<1>1. CASE Ac!hasAnySubscriptions(a)
  BY <1>1 DEF Ac!stopListening, Rest
<1>2. CASE ~Ac!hasAnySubscriptions(a)
  <2> DEFINE l == IF a.accepting = "open" THEN "aborted" ELSE a.accepting
             d == a.closed \cup a.backlog
             r == IF a.stopped THEN a.released + 1 ELSE a.released
             b == [a EXCEPT !.listening = FALSE, !.accepting = l, !.closed = d,
                            !.backlog = {}, !.released = r]
  <2>1. Ac!stopListening(a) = b
    BY <1>2 DEF Ac!stopListening
  <2>2. l \in {"open", "aborted", "none"} /\ d \in SUBSET Sock /\ r \in Nat
    BY DEF State
  <2> HIDE DEF l, d, r
  <2>3. b \in State
    BY <2>2 DEF State
  <2>4. Rest(a, b) /\ b.groups = a.groups /\ b.unclaimed = a.unclaimed /\ b.claimed = a.claimed
    BY DEF State, Rest
  <2>5. b.listening = FALSE /\ b.accepting = l /\ b.released = r
    BY DEF State
  <2> HIDE DEF b
  <2> QED
    BY <1>2, <2>1, <2>3, <2>4, <2>5 DEF l, r
<1> QED
  BY <1>1, <1>2

\* A group is erased.
LEMMA RemoveGroupIs ==
    ASSUME NEW a \in State, NEW t \in ServerSessions
    PROVE  LET b == Ac!RemoveGroup(a, t)
           IN  /\ b \in State /\ Rest(a, b)
               /\ b.groups = a.groups \ {t} /\ b.unclaimed = a.unclaimed \ {t}
               /\ b.claimed = [x \in ClientSessions |->
                                   IF a.claimed[x] = t THEN NoSession ELSE a.claimed[x]]
               /\ b.listening = a.listening /\ b.accepting = a.accepting
               /\ b.released = a.released
<1> DEFINE g == a.groups \ {t}
           u == a.unclaimed \ {t}
           m == [x \in DOMAIN a.claimed |-> IF a.claimed[x] = t THEN NoSession ELSE a.claimed[x]]
           b == [a EXCEPT !.groups = g, !.unclaimed = u, !.claimed = m]
<1>1. Ac!RemoveGroup(a, t) = b
  BY DEF Ac!RemoveGroup
<1>2. g \in SUBSET ServerSessions /\ u \in SUBSET ServerSessions
  BY DEF State
<1>3. DOMAIN a.claimed = ClientSessions /\ m \in [ClientSessions -> ServerSessions \cup {NoSession}]
  BY DEF State
<1> HIDE DEF g, u, m
<1>4. b \in State
  BY <1>2, <1>3 DEF State
<1>5. Rest(a, b) /\ b.listening = a.listening /\ b.accepting = a.accepting /\ b.released = a.released
  BY DEF State, Rest
<1>6. b.groups = g /\ b.unclaimed = u /\ b.claimed = m
  BY DEF State
<1> HIDE DEF b
<1> QED
  BY <1>1, <1>3, <1>4, <1>5, <1>6 DEF g, u, m

\* As Wanted, but for one group.
WantedBut(a, t) ==
    /\ a.base \subseteq a.groups /\ a.unclaimed \subseteq a.groups
    /\ \A u \in a.groups \ {t} : Ac!hasSubscriptions(a, u)
    /\ \A u \in ServerSessions : a.channels[u] # <<>> => u \in a.groups
    /\ \A x \in ClientSessions : a.claimed[x] \in (a.groups \ a.unclaimed) \cup {NoSession}

\* What depends on what the sessions want only.
LEMMA RestKeeps ==
    ASSUME NEW a, NEW b, Rest(a, b)
    PROVE  /\ \A u : Ac!hasSubscriptions(b, u) <=> Ac!hasSubscriptions(a, u)
           /\ \A s, c : Ac!Matches(b, s, c) <=> Ac!Matches(a, s, c)
           /\ \A c : Ac!ServerSession(b, c) = Ac!ServerSession(a, c)
BY DEF Rest, Ac!hasSubscriptions, Ac!Matches, Ac!ServerSession

\* Erasing a group keeps what channels wait for.
LEMMA RestUnmatched ==
    ASSUME NEW a, NEW b, Rest(a, b), Unmatched(a), b.groups \subseteq a.groups,
           \A t \in b.groups : t \in b.unclaimed <=> t \in a.unclaimed,
           b.unclaimed \subseteq a.unclaimed
    PROVE  Unmatched(b)
<1>1. /\ b.channels = a.channels /\ b.sockets = a.sockets /\ b.sessionID = a.sessionID
      /\ b.pool = a.pool
  BY DEF Rest
<1>2. \A t \in b.groups : b.sessionID[t] = NoSession <=> t \in b.unclaimed
  BY <1>1 DEF Unmatched
<1>3. \A t \in b.unclaimed : b.sockets[t] = <<>>
  BY <1>1 DEF Unmatched
<1>4. ASSUME NEW t \in b.groups, NEW i \in DOMAIN b.channels[t]
      PROVE  /\ Ac!ServerSession(b, b.channels[t][i]) = t
             /\ \A k \in DOMAIN b.sockets[t] : ~Ac!Matches(b, b.sockets[t][k], b.channels[t][i])
             /\ t \in b.unclaimed =>
                  \A g \in DOMAIN b.pool : \A k \in DOMAIN b.pool[g].sockets :
                      ~Ac!Matches(b, b.pool[g].sockets[k], b.channels[t][i])
  BY <1>1, RestKeeps DEF Unmatched
<1> QED
  BY <1>2, <1>3, <1>4 DEF Unmatched

\* When the last one of a group has left, the group goes, and the acceptor sets its
\* promise if it was the last group.
LEMMA RemoveIdleKeeps ==
    ASSUME plan \in Plans, NEW a \in State, NEW t \in a.groups, WantedBut(a, t),
           a.released = 0, Emptying(a), Unmatched(a)
    PROVE  LET b == Ac!RemoveIdle(a, t)
           IN  /\ b \in State /\ Rest(a, b)
               /\ Wanted(b) /\ Released(b) /\ Emptying(b) /\ Unmatched(b)
<1> DEFINE g == Ac!RemoveGroup(a, t)
           b == Ac!stopListening(g)
<1>1. CASE Ac!hasSubscriptions(a, t)
  <2>1. Ac!RemoveIdle(a, t) = a
    BY <1>1 DEF Ac!RemoveIdle
  <2>2. Rest(a, a) /\ Wanted(a)
    BY <1>1 DEF Rest, Wanted, WantedBut
  <2>3. Released(a)
    BY <1>1 DEF Released, Ac!hasAnySubscriptions
  <2> QED
    BY <2>1, <2>2, <2>3
<1>2. CASE ~Ac!hasSubscriptions(a, t)
  <2>1. Ac!RemoveIdle(a, t) = b
    BY <1>2 DEF Ac!RemoveIdle
  <2>2. t \in ServerSessions /\ NoSession \notin ServerSessions
    BY PlanType DEF State
  <2>3. /\ g \in State /\ Rest(a, g)
        /\ g.groups = a.groups \ {t} /\ g.unclaimed = a.unclaimed \ {t}
        /\ g.claimed = [x \in ClientSessions |->
                            IF a.claimed[x] = t THEN NoSession ELSE a.claimed[x]]
        /\ g.listening = a.listening /\ g.accepting = a.accepting
        /\ g.released = a.released
    BY <2>2, RemoveGroupIs
  <2> HIDE DEF g
  <2>4. /\ b \in State /\ Rest(g, b)
        /\ b.groups = g.groups /\ b.unclaimed = g.unclaimed /\ b.claimed = g.claimed
        /\ g.listening = FALSE => b.listening = FALSE
        /\ g.accepting # "open" => b.accepting = g.accepting
        /\ b.accepting = "none" <=> g.accepting = "none"
        /\ b.released = IF g.stopped /\ ~Ac!hasAnySubscriptions(g)
                        THEN g.released + 1 ELSE g.released
    BY <2>3, StopListeningIs
  <2> HIDE DEF b
  <2>5. Rest(a, b)
    BY <2>3, <2>4 DEF Rest
  <2>6. t \notin a.base /\ a.channels[t] = <<>>
    BY <1>2 DEF Ac!hasSubscriptions
  <2>7. Wanted(b)
    <3>1. b.base \subseteq b.groups /\ b.unclaimed \subseteq b.groups
      BY <2>3, <2>4, <2>5, <2>6 DEF Rest, WantedBut
    <3>2. \A u \in b.groups : Ac!hasSubscriptions(b, u)
      BY <2>3, <2>4, <2>5, RestKeeps DEF WantedBut
    <3>3. \A u \in ServerSessions : b.channels[u] # <<>> => u \in b.groups
      BY <2>3, <2>4, <2>5, <2>6 DEF Rest, WantedBut
    <3>4. \A x \in ClientSessions : b.claimed[x] \in (b.groups \ b.unclaimed) \cup {NoSession}
      BY <2>3, <2>4 DEF WantedBut
    <3> QED
      BY <3>1, <3>2, <3>3, <3>4 DEF Wanted
  <2>8. Released(b)
    <3>1. Ac!hasAnySubscriptions(b) <=> Ac!hasAnySubscriptions(g)
      BY <2>4, RestKeeps DEF Ac!hasAnySubscriptions
    <3>2. b.stopped = g.stopped /\ g.released = 0
      BY <2>3, <2>4 DEF Rest
    <3> QED
      BY <2>4, <3>1, <3>2 DEF Released
  <2>9. Emptying(b)
    <3>1. Ac!Pendings(b) = Ac!Pendings(a)
      BY <2>3, <2>4, <2>5 DEF Ac!Pendings, Rest
    <3>2. a.stopped => ~b.listening /\ b.accepting # "open" /\ b.base = {}
      BY <2>3, <2>4, <2>5 DEF Emptying, Rest
    <3> QED
      BY <2>5, <3>1, <3>2 DEF Emptying, Rest
  <2>10. Unmatched(b)
    <3>1. /\ b.groups \subseteq a.groups /\ b.unclaimed \subseteq a.unclaimed
          /\ \A u \in b.groups : u \in b.unclaimed <=> u \in a.unclaimed
      BY <2>3, <2>4
    <3> QED
      BY <2>5, <3>1, RestUnmatched
  <2> QED
    BY <2>1, <2>4, <2>5, <2>7, <2>8, <2>9, <2>10
<1> QED
  BY <1>1, <1>2

-----------------------------------------------------------------------------
(* The sockets of a group, one after the other                             *)

\* The states on the way.
Adds(a, t, q, n, f) ==
    /\ f \in [0 .. n -> State] /\ f[0] = a
    /\ \A k \in 1 .. n : f[k] = Ac!AddSocket(f[k - 1], t, q[k])

\* There are such states.
LEMMA AddsExist ==
    ASSUME plan \in Plans, NEW a \in State, NEW t \in ServerSessions, NEW q \in Seq(Sock)
    PROVE  \E f : Adds(a, t, q, Len(q), f)
<1> DEFINE Bad == {n \in 0 .. Len(q) : ~\E f : Adds(a, t, q, n, f)}
<1>1. Len(q) \in Nat
  OBVIOUS
<1>2. ASSUME Bad # {} PROVE FALSE
  <2>1. Bad \in SUBSET Nat
    BY <1>1
  <2>2. PICK n \in Bad : \A m \in Bad : n <= m
    <3> HIDE DEF Bad
    <3> QED
      BY <1>2, <2>1, LeastNatural
  <2>3. n \in 0 .. Len(q) /\ ~\E f : Adds(a, t, q, n, f)
    OBVIOUS
  <2>4. n # 0
    <3> DEFINE f == [k \in 0 .. 0 |-> a]
    <3>1. Adds(a, t, q, 0, f)
      BY DEF Adds
    <3> QED
      BY <2>3, <3>1
  <2>5. n - 1 \in 0 .. Len(q) /\ n - 1 \notin Bad
    BY <1>1, <2>2, <2>3, <2>4
  <2>6. PICK f : Adds(a, t, q, n - 1, f)
    BY <2>5
  <2> HIDE DEF Bad
  <2> DEFINE last == Ac!AddSocket(f[n - 1], t, q[n])
             g == [k \in 0 .. n |-> IF k = n THEN last ELSE f[k]]
  <2>7. n \in 1 .. Len(q) /\ n - 1 \in 0 .. n - 1
    BY <1>1, <2>3, <2>4
  <2>8. f \in [0 .. n - 1 -> State] /\ f[n - 1] \in State /\ q[n] \in Sock
    BY <2>6, <2>7 DEF Adds
  <2>9. last \in State
    BY <2>8, AddSocketIs
  <2>10. \A k \in 1 .. n : g[k] = Ac!AddSocket(g[k - 1], t, q[k])
    <3> SUFFICES ASSUME NEW k \in 1 .. n PROVE g[k] = Ac!AddSocket(g[k - 1], t, q[k])
      OBVIOUS
    <3>1. k - 1 \in 0 .. n /\ k \in 0 .. n /\ k - 1 # n /\ g[k - 1] = f[k - 1]
      BY <2>7
    <3>2. CASE k = n
      BY <3>1, <3>2
    <3>3. CASE k # n
      <4>1. k \in 1 .. n - 1
        BY <2>7, <3>3
      <4>2. f[k] = Ac!AddSocket(f[k - 1], t, q[k])
        BY <2>6, <4>1 DEF Adds
      <4> QED
        BY <3>1, <3>3, <4>2
    <3> QED
      BY <3>2, <3>3
  <2>11. g[0] = a
    BY <2>6, <2>7 DEF Adds
  <2>12. g \in [0 .. n -> State]
    <3> HIDE DEF last
    <3>1. ASSUME NEW k \in 0 .. n, k # n PROVE f[k] \in State
      BY <2>7, <2>8, <3>1
    <3> QED
      BY <2>9, <3>1
  <2> HIDE DEF g
  <2>13. Adds(a, t, q, n, g)
    BY <2>10, <2>11, <2>12 DEF Adds
  <2> QED
    BY <2>3, <2>13
<1>3. Len(q) \in 0 .. Len(q)
  BY <1>1
<1> QED
  BY <1>2, <1>3

\* SessionGroup::merge goes through them.
LEMMA AddSocketsIs ==
    ASSUME plan \in Plans, NEW a \in State, NEW t \in ServerSessions, NEW q \in Seq(Sock)
    PROVE  \E f : Adds(a, t, q, Len(q), f) /\ Ac!AddSockets(a, t, q) = f[Len(q)]
<1> DEFINE G(h) == [k \in 0 .. Len(q) |-> IF k = 0 THEN a ELSE Ac!AddSocket(h[k - 1], t, q[k])]
           upTo == CHOOSE h : h = G(h)
<1>1. PICK f : Adds(a, t, q, Len(q), f)
  BY AddsExist
<1>2. f = G(f)
  <2>1. f \in [0 .. Len(q) -> State]
    BY <1>1 DEF Adds
  <2>2. ASSUME NEW k \in 0 .. Len(q) PROVE f[k] = G(f)[k]
    <3>1. CASE k = 0
      BY <1>1, <3>1 DEF Adds
    <3>2. CASE k # 0
      <4>1. k \in 1 .. Len(q)
        BY <3>2
      <4> QED
        BY <1>1, <3>2, <4>1 DEF Adds
    <3> QED
      BY <3>1, <3>2
  <2>3. DOMAIN G(f) = 0 .. Len(q) /\ G(f) = [k \in 0 .. Len(q) |-> G(f)[k]]
    OBVIOUS
  <2> HIDE DEF G
  <2> QED
    BY <2>1, <2>2, <2>3
<1>3. upTo = G(upTo)
  <2> HIDE DEF G
  <2> QED
    BY <1>2
<1>4. Ac!AddSockets(a, t, q) = upTo[Len(q)]
  BY DEF Ac!AddSockets
<1> HIDE DEF upTo
<1>5. /\ upTo[0] = a
      /\ \A k \in 1 .. Len(q) : upTo[k] = Ac!AddSocket(upTo[k - 1], t, q[k])
  <2>1. \A k \in 0 .. Len(q) : upTo[k] = G(upTo)[k]
    <3> HIDE DEF G
    <3> QED
      BY <1>3
  <2>2. Len(q) \in Nat
    OBVIOUS
  <2> QED
    BY <2>1, <2>2
<1> HIDE DEF G
<1> DEFINE Bad == {k \in 0 .. Len(q) : upTo[k] # f[k]}
<1>6. ASSUME Bad # {} PROVE FALSE
  <2>1. Bad \in SUBSET Nat
    OBVIOUS
  <2>2. PICK n \in Bad : \A m \in Bad : n <= m
    <3> HIDE DEF Bad
    <3> QED
      BY <1>6, <2>1, LeastNatural
  <2>3. n # 0
    BY <1>1, <1>5 DEF Adds
  <2>4. n - 1 \in 0 .. Len(q) /\ n \in 1 .. Len(q) /\ n - 1 \notin Bad
    BY <2>2, <2>3
  <2>5. upTo[n - 1] = f[n - 1]
    BY <2>4
  <2>6. upTo[n] = f[n]
    BY <1>1, <1>5, <2>4, <2>5 DEF Adds
  <2> QED
    BY <2>6
<1>7. upTo[Len(q)] = f[Len(q)]
  <2>1. Len(q) \in 0 .. Len(q)
    OBVIOUS
  <2> QED
    BY <1>6, <2>1
<1> QED
  BY <1>1, <1>4, <1>7

\* Of the session t only, sockets may come and channels go.
Fewer(a, b, t) ==
    /\ Frame(a, b)
    /\ \A u \in ServerSessions \ {t} :
          b.channels[u] = a.channels[u] /\ b.sockets[u] = a.sockets[u]
    /\ \A i \in DOMAIN b.channels[t] :
          \E j \in DOMAIN a.channels[t] : b.channels[t][i] = a.channels[t][j]

NoMatch(a, t) ==
    \A i \in DOMAIN a.channels[t], k \in DOMAIN a.sockets[t] :
        ~Ac!Matches(a, a.sockets[t][k], a.channels[t][i])

\* A socket that is added waits only if no channel does that it fits.
LEMMA AddSocketKeeps ==
    ASSUME plan \in Plans, NEW a \in State, NEW t \in ServerSessions, NEW s \in Sock
    PROVE  LET b == Ac!AddSocket(a, t, s)
           IN  b \in State /\ Fewer(a, b, t) /\ (NoMatch(a, t) => NoMatch(b, t))
<1> DEFINE b == Ac!AddSocket(a, t, s)
<1>1. b \in State /\ Frame(a, b) /\ SocketAdded(a, b, t, s)
  BY AddSocketIs
<1> HIDE DEF b
<1>2. a.channels \in [ServerSessions -> Seq(UsedServers)] /\ a.sockets \in [ServerSessions -> Seq(Sock)]
  BY DEF State
<1>3. \A r, c : Ac!Matches(b, r, c) <=> Ac!Matches(a, r, c)
  BY <1>1 DEF Frame, Ac!Matches
<1>4. a.channels[t] \in Seq(UsedServers) /\ a.sockets[t] \in Seq(Sock)
  BY <1>2
<1>5. CASE /\ \A i \in DOMAIN a.channels[t] : ~Ac!Matches(a, s, a.channels[t][i])
           /\ b.channels = a.channels
           /\ b.sockets = [a.sockets EXCEPT ![t] = Append(@, s)]
  <2>1. b.sockets[t] = Append(a.sockets[t], s)
    BY <1>2, <1>5
  <2>2. \A k \in DOMAIN b.sockets[t] : b.sockets[t][k] = s \/ (k \in DOMAIN a.sockets[t]
                                                              /\ b.sockets[t][k] = a.sockets[t][k])
    BY <1>4, <2>1
  <2>3. Fewer(a, b, t)
    BY <1>1, <1>2, <1>5 DEF Fewer
  <2>4. NoMatch(a, t) => NoMatch(b, t)
    BY <1>3, <1>5, <2>2 DEF NoMatch
  <2> QED
    BY <1>1, <2>3, <2>4 DEF b
<1>6. CASE \E i \in DOMAIN a.channels[t] :
              /\ b.channels = [a.channels EXCEPT ![t] = Ac!RemoveAt(@, i)]
              /\ b.sockets = a.sockets
  <2>1. PICK i \in DOMAIN a.channels[t] :
              /\ b.channels = [a.channels EXCEPT ![t] = Ac!RemoveAt(@, i)]
              /\ b.sockets = a.sockets
    BY <1>6
  <2>2. b.channels[t] = Ac!RemoveAt(a.channels[t], i)
    BY <1>2, <2>1
  <2>3. \A j \in DOMAIN b.channels[t] :
          \E k \in DOMAIN a.channels[t] : b.channels[t][j] = a.channels[t][k]
    BY <1>4, <2>2, WithoutOneAt
  <2>4. Fewer(a, b, t)
    BY <1>1, <1>2, <2>1, <2>3 DEF Fewer
  <2>5. NoMatch(a, t) => NoMatch(b, t)
    BY <1>3, <2>1, <2>3 DEF NoMatch
  <2> QED
    BY <1>1, <2>4, <2>5 DEF b
<1> QED
  BY <1>1, <1>5, <1>6 DEF SocketAdded

\* Neither do the sockets of a group.
LEMMA AddSocketsKeep ==
    ASSUME plan \in Plans, NEW a \in State, NEW t \in ServerSessions, NEW q \in Seq(Sock),
           NoMatch(a, t)
    PROVE  LET b == Ac!AddSockets(a, t, q)
           IN  b \in State /\ Fewer(a, b, t) /\ NoMatch(b, t)
<1>1. PICK f : Adds(a, t, q, Len(q), f) /\ Ac!AddSockets(a, t, q) = f[Len(q)]
  BY AddSocketsIs
<1> DEFINE Bad == {k \in 0 .. Len(q) : ~(f[k] \in State /\ Fewer(a, f[k], t) /\ NoMatch(f[k], t))}
<1>2. ASSUME Bad # {} PROVE FALSE
  <2>1. Bad \in SUBSET Nat
    OBVIOUS
  <2>2. PICK n \in Bad : \A m \in Bad : n <= m
    <3> HIDE DEF Bad
    <3> QED
      BY <1>2, <2>1, LeastNatural
  <2>3. n # 0
    <3>1. Fewer(a, a, t)
      BY DEF Fewer, Frame
    <3> QED
      BY <1>1, <3>1 DEF Adds
  <2>4. n - 1 \in 0 .. Len(q) /\ n \in 1 .. Len(q) /\ n - 1 \notin Bad
    BY <2>2, <2>3
  <2>5. f[n - 1] \in State /\ Fewer(a, f[n - 1], t) /\ NoMatch(f[n - 1], t)
    BY <2>4
  <2>6. f[n] = Ac!AddSocket(f[n - 1], t, q[n]) /\ q[n] \in Sock
    BY <1>1, <2>4 DEF Adds
  <2>7. f[n] \in State /\ Fewer(f[n - 1], f[n], t) /\ NoMatch(f[n], t)
    BY <2>5, <2>6, AddSocketKeeps
  <2>8. Fewer(a, f[n], t)
    <3>1. Frame(a, f[n])
      BY <2>5, <2>7 DEF Fewer, Frame
    <3>2. \A i \in DOMAIN f[n].channels[t] :
            \E j \in DOMAIN a.channels[t] : f[n].channels[t][i] = a.channels[t][j]
      <4>1. ASSUME NEW i \in DOMAIN f[n].channels[t]
            PROVE  \E j \in DOMAIN a.channels[t] : f[n].channels[t][i] = a.channels[t][j]
        <5>1. PICK j \in DOMAIN f[n - 1].channels[t] : f[n].channels[t][i] = f[n - 1].channels[t][j]
          BY <2>7 DEF Fewer
        <5>2. PICK l \in DOMAIN a.channels[t] : f[n - 1].channels[t][j] = a.channels[t][l]
          BY <2>5 DEF Fewer
        <5> QED
          BY <5>1, <5>2
      <4> QED
        BY <4>1
    <3>3. \A u \in ServerSessions \ {t} :
            f[n].channels[u] = a.channels[u] /\ f[n].sockets[u] = a.sockets[u]
      BY <2>5, <2>7 DEF Fewer
    <3> QED
      BY <3>1, <3>2, <3>3 DEF Fewer
  <2> QED
    BY <2>7, <2>8
<1>3. Len(q) \in 0 .. Len(q)
  OBVIOUS
<1> QED
  BY <1>1, <1>2, <1>3

-----------------------------------------------------------------------------
(* Tasks of the acceptor                                                   *)

\* What no task but those that end sessions, the acceptor, or the naming of a socket change.
Same(a, b) ==
    /\ b.plan = a.plan /\ b.strand = a.strand /\ b.stopped = a.stopped
    /\ b.greeting = a.greeting /\ b.naming = a.naming /\ b.base = a.base
    /\ b.backlog \subseteq a.backlog

\* What depends on the rest of the acceptor only.
LEMMA FrameKeeps ==
    ASSUME NEW a, NEW b, Frame(a, b)
    PROVE  /\ Same(a, b)
           /\ \A s, c : Ac!Matches(b, s, c) <=> Ac!Matches(a, s, c)
           /\ \A c : Ac!ServerSession(b, c) = Ac!ServerSession(a, c)
           /\ Emptying(a) => Emptying(b)
<1>1. Ac!Pendings(b) = Ac!Pendings(a)
  BY DEF Ac!Pendings, Frame
<1> QED
  BY <1>1 DEF Frame, Same, Ac!Matches, Ac!ServerSession, Emptying

\* As Unmatched, but the session t may wait for sockets of group i.
UnmatchedBut(a, t, i) ==
    /\ \A u \in a.groups : a.sessionID[u] = NoSession <=> u \in a.unclaimed
    /\ \A u \in a.unclaimed : a.sockets[u] = <<>>
    /\ \A u \in a.groups : \A j \in DOMAIN a.channels[u] :
          /\ Ac!ServerSession(a, a.channels[u][j]) = u
          /\ \A k \in DOMAIN a.sockets[u] : ~Ac!Matches(a, a.sockets[u][k], a.channels[u][j])
          /\ u \in a.unclaimed \ {t} =>
               \A g \in DOMAIN a.pool \ {i} : \A k \in DOMAIN a.pool[g].sockets :
                   ~Ac!Matches(a, a.pool[g].sockets[k], a.channels[u][j])

\* A session that takes a group of sockets gets all that fit it.
LEMMA MergeKeeps ==
    ASSUME plan \in Plans, NEW a \in State, NEW t \in a.unclaimed, NEW i \in DOMAIN a.pool,
           Wanted(a), Released(a), Emptying(a), UnmatchedBut(a, t, i)
    PROVE  LET b == Ac!Merge(a, t, i)
           IN  Good(b) /\ Same(a, b)
<1> DEFINE x == a.pool[i].id
           ids == [a.sessionID EXCEPT ![t] = x]
           pool == Ac!RemoveAt(a.pool, i)
           taken == [a EXCEPT !.sessionID = ids, !.pool = pool]
           added == Ac!AddSockets(taken, t, a.pool[i].sockets)
           un == added.unclaimed \ {t}
           cl == [added.claimed EXCEPT ![x] = t]
           put == [added EXCEPT !.unclaimed = un, !.claimed = cl]
           b == Ac!RemoveIdle(put, t)
<1>1. Ac!Merge(a, t, i) = b
  BY DEF Ac!Merge
<1>2. /\ a.pool \in Seq(Group) /\ a.unclaimed \in SUBSET ServerSessions
      /\ a.sessionID \in [ServerSessions -> ClientSessions \cup {NoSession}]
      /\ a.sockets \in [ServerSessions -> Seq(Sock)]
  BY DEF State
<1>3. a.pool[i] \in Group /\ t \in ServerSessions /\ t \in a.groups
  BY <1>2 DEF Wanted
<1>4. x \in ClientSessions /\ a.pool[i].sockets \in Seq(Sock)
  BY <1>3 DEF Group
<1>5. ids \in [ServerSessions -> ClientSessions \cup {NoSession}]
  BY <1>2, <1>3, <1>4
<1>6. /\ pool \in Seq(Group)
      /\ \A g \in DOMAIN pool : \E h \in DOMAIN a.pool \ {i} : pool[g] = a.pool[h]
  <2>1. pool \in Seq(Group)
    BY <1>2, WithoutOne
  <2>2. \A g \in DOMAIN pool : \E h \in DOMAIN a.pool : h # i /\ pool[g] = a.pool[h]
    BY <1>2, WithoutOneAt
  <2> HIDE DEF pool
  <2> QED
    BY <2>1, <2>2
<1>7. x # NoSession /\ ids[t] = x /\ \A u \in ServerSessions \ {t} : ids[u] = a.sessionID[u]
  BY <1>2, <1>3, <1>4, PlanType
<1> HIDE DEF ids, pool, x
<1>8. taken \in State
  BY <1>5, <1>6 DEF State
<1>9. /\ taken.sessionID = ids /\ taken.pool = pool /\ Same(a, taken)
      /\ taken.groups = a.groups /\ taken.unclaimed = a.unclaimed /\ taken.claimed = a.claimed
      /\ taken.channels = a.channels /\ taken.sockets = a.sockets
      /\ taken.released = a.released /\ taken.listening = a.listening
      /\ taken.accepting = a.accepting /\ taken.emptied = a.emptied
  BY DEF State, Same
<1> HIDE DEF taken
<1>10. NoMatch(taken, t)
  BY <1>9 DEF NoMatch, UnmatchedBut
<1>11. added \in State /\ Fewer(taken, added, t) /\ NoMatch(added, t)
  BY <1>3, <1>4, <1>8, <1>10, AddSocketsKeep
<1> HIDE DEF added
<1>12. Frame(taken, added)
  BY <1>11 DEF Fewer
<1>13. un \in SUBSET ServerSessions /\ cl \in [ClientSessions -> ServerSessions \cup {NoSession}]
  BY <1>3, <1>4, <1>11 DEF State
<1>14. /\ un = a.unclaimed \ {t} /\ cl[x] = t
       /\ \A y \in ClientSessions \ {x} : cl[y] = a.claimed[y]
  <2>1. added.unclaimed = a.unclaimed /\ added.claimed = a.claimed
    BY <1>9, <1>12 DEF Frame
  <2>2. added.claimed \in [ClientSessions -> ServerSessions \cup {NoSession}]
    BY <1>11 DEF State
  <2> QED
    BY <1>4, <2>1, <2>2
<1> HIDE DEF un, cl
<1>15. put \in State
  BY <1>11, <1>13 DEF State
<1>16. /\ put.unclaimed = un /\ put.claimed = cl /\ put.channels = added.channels
       /\ put.sockets = added.sockets /\ put.groups = added.groups
       /\ put.sessionID = added.sessionID /\ put.pool = added.pool
       /\ put.released = added.released /\ put.listening = added.listening
       /\ put.accepting = added.accepting /\ put.emptied = added.emptied
       /\ Same(added, put)
  BY <1>11 DEF State, Same
<1> HIDE DEF put
<1>17. /\ put.groups = a.groups /\ put.sessionID = ids /\ put.pool = pool
       /\ put.released = a.released /\ put.listening = a.listening
       /\ put.accepting = a.accepting /\ put.emptied = a.emptied /\ Same(a, put)
  <2>1. Same(taken, added)
    BY <1>12, FrameKeeps
  <2>2. /\ added.groups = taken.groups /\ added.sessionID = taken.sessionID
        /\ added.pool = taken.pool /\ added.released = taken.released
        /\ added.listening = taken.listening /\ added.accepting = taken.accepting
        /\ added.emptied = taken.emptied
    BY <1>12 DEF Frame
  <2>3. Same(a, put)
    BY <1>9, <1>16, <2>1 DEF Same
  <2> QED
    BY <1>9, <1>16, <2>2, <2>3
<1>18. \A u \in ServerSessions \ {t} :
          put.channels[u] = a.channels[u] /\ put.sockets[u] = a.sockets[u]
  BY <1>9, <1>11, <1>16 DEF Fewer
<1>19. \A j \in DOMAIN put.channels[t] :
          \E l \in DOMAIN a.channels[t] : put.channels[t][j] = a.channels[t][l]
  BY <1>9, <1>11, <1>16 DEF Fewer
<1>20. put.channels[t] # <<>> => a.channels[t] # <<>>
  <2>1. put.channels[t] \in Seq(UsedServers) /\ a.channels[t] \in Seq(UsedServers)
    BY <1>3, <1>15 DEF State
  <2>2. put.channels[t] # <<>> => 1 \in DOMAIN put.channels[t]
    BY <2>1
  <2> QED
    BY <1>19, <2>2
<1>21. \A s, c : Ac!Matches(put, s, c) <=> Ac!Matches(a, s, c)
  BY <1>17 DEF Same, Ac!Matches
<1>22. \A c : Ac!ServerSession(put, c) = Ac!ServerSession(a, c)
  BY <1>17 DEF Same, Ac!ServerSession
<1>23. WantedBut(put, t)
  <2>1. put.base \subseteq put.groups /\ put.unclaimed \subseteq put.groups
    BY <1>14, <1>16, <1>17 DEF Wanted, Same
  <2>2. \A u \in put.groups \ {t} : Ac!hasSubscriptions(put, u)
    <3>1. put.groups \subseteq ServerSessions
      BY <1>15 DEF State
    <3> QED
      BY <1>17, <1>18, <3>1 DEF Wanted, Same, Ac!hasSubscriptions
  <2>3. \A u \in ServerSessions : put.channels[u] # <<>> => u \in put.groups
    BY <1>3, <1>17, <1>18, <1>20 DEF Wanted
  <2>4. \A y \in ClientSessions : put.claimed[y] \in (put.groups \ put.unclaimed) \cup {NoSession}
    BY <1>3, <1>14, <1>16, <1>17 DEF Wanted
  <2> QED
    BY <2>1, <2>2, <2>3, <2>4 DEF WantedBut
<1>24. put.released = 0
  <2>1. Ac!hasAnySubscriptions(a)
    BY <1>3 DEF Wanted, Ac!hasAnySubscriptions
  <2> QED
    BY <1>17, <2>1 DEF Released
<1>25. Emptying(put)
  <2>1. Ac!Pendings(put) = Ac!Pendings(a)
    BY <1>17 DEF Ac!Pendings, Same
  <2> QED
    BY <1>17, <2>1 DEF Emptying, Same
<1>26. Unmatched(put)
  <2>1. \A u \in put.groups : put.sessionID[u] = NoSession <=> u \in put.unclaimed
    <3>1. a.groups \subseteq ServerSessions
      BY DEF State
    <3> QED
      BY <1>7, <1>14, <1>16, <1>17, <3>1 DEF UnmatchedBut
  <2>2. \A u \in put.unclaimed : put.sockets[u] = <<>>
    BY <1>2, <1>14, <1>16, <1>18 DEF UnmatchedBut
  <2>3. ASSUME NEW u \in put.groups, NEW j \in DOMAIN put.channels[u]
        PROVE  /\ Ac!ServerSession(put, put.channels[u][j]) = u
               /\ \A k \in DOMAIN put.sockets[u] :
                      ~Ac!Matches(put, put.sockets[u][k], put.channels[u][j])
               /\ u \in put.unclaimed =>
                      \A g \in DOMAIN put.pool : \A k \in DOMAIN put.pool[g].sockets :
                          ~Ac!Matches(put, put.pool[g].sockets[k], put.channels[u][j])
    <3>1. CASE u = t
      <4>1. u \notin put.unclaimed
        BY <1>14, <1>16, <3>1
      <4>2. \A k \in DOMAIN put.sockets[u] :
                ~Ac!Matches(put, put.sockets[u][k], put.channels[u][j])
        <5>1. \A s, c : Ac!Matches(put, s, c) <=> Ac!Matches(added, s, c)
          BY <1>16 DEF Same, Ac!Matches
        <5> QED
          BY <1>11, <1>16, <3>1, <5>1 DEF NoMatch
      <4>3. Ac!ServerSession(put, put.channels[u][j]) = u
        <5>1. PICK l \in DOMAIN a.channels[t] : put.channels[t][j] = a.channels[t][l]
          BY <1>19, <3>1
        <5> QED
          BY <1>3, <1>22, <3>1, <5>1 DEF UnmatchedBut
      <4> QED
        BY <4>1, <4>2, <4>3
    <3>2. CASE u # t
      <4>1. u \in ServerSessions \ {t} /\ u \in a.groups
        BY <1>15, <1>17, <3>2 DEF State
      <4>2. put.channels[u] = a.channels[u] /\ put.sockets[u] = a.sockets[u]
        BY <1>18, <4>1
      <4>3. ASSUME u \in put.unclaimed, NEW g \in DOMAIN put.pool,
                   NEW k \in DOMAIN put.pool[g].sockets
            PROVE  ~Ac!Matches(put, put.pool[g].sockets[k], put.channels[u][j])
        <5>1. PICK h \in DOMAIN a.pool \ {i} : put.pool[g] = a.pool[h]
          BY <1>6, <1>17
        <5>2. u \in a.unclaimed \ {t}
          BY <1>14, <1>16, <4>3
        <5> QED
          BY <1>21, <4>1, <4>2, <5>1, <5>2 DEF UnmatchedBut
      <4> QED
        BY <1>21, <1>22, <4>1, <4>2, <4>3 DEF UnmatchedBut
    <3> QED
      BY <3>1, <3>2
  <2> QED
    BY <2>1, <2>2, <2>3 DEF Unmatched
<1>27. /\ b \in State /\ Rest(put, b)
       /\ Wanted(b) /\ Released(b) /\ Emptying(b) /\ Unmatched(b)
  <2>1. t \in put.groups
    BY <1>3, <1>17
  <2> QED
    BY <1>15, <1>23, <1>24, <1>25, <1>26, <2>1, RemoveIdleKeeps
<1> HIDE DEF b
<1>28. Same(a, b)
  BY <1>17, <1>27 DEF Same, Rest
<1> QED
  BY <1>1, <1>27, <1>28 DEF Good

\* A state of the acceptor in which a session has not got more to wait for.
LEMMA RemoveIdleGood ==
    ASSUME plan \in Plans, NEW a \in State, NEW t \in a.groups, WantedBut(a, t),
           a.released = 0, Emptying(a), Unmatched(a)
    PROVE  Good(Ac!RemoveIdle(a, t)) /\ Same(a, Ac!RemoveIdle(a, t))
BY RemoveIdleKeeps DEF Good, Same, Rest

\* A channel that asks for a socket gets one that fits, or there is none.
LEMMA GetSocketKeeps ==
    ASSUME plan \in Plans, NEW a, Good(a), NEW c \in UsedServers, plan.session[c] \in a.base
    PROVE  LET b == Ac!GetSocket(a, c)
           IN  Good(b) /\ Same(a, b)
<1> DEFINE t == Ac!ServerSession(a, c)
           added == Ac!AddChannel(a, t, c)
           T == {i \in DOMAIN added.pool :
                    \E k \in DOMAIN added.pool[i].sockets :
                        Ac!Matches(a, added.pool[i].sockets[k], c)}
           i == IF T = {} THEN 0 ELSE CHOOSE j \in T : \A l \in T : j <= l
           b == Ac!GetSocket(a, c)
<1>1. b = CASE a.sessionID[t] # NoSession -> Ac!RemoveIdle(added, t)
            [] a.sessionID[t] = NoSession /\ i # 0 -> Ac!Merge(added, t, i)
            [] OTHER -> added
  BY DEF Ac!GetSocket, Ac!FirstIndex
<1>2. a \in State /\ Wanted(a) /\ Released(a) /\ Emptying(a) /\ Unmatched(a)
  BY DEF Good
<1>3. t = plan.session[c] /\ t \in ServerSessions /\ t \in a.groups /\ t \in a.base
  <2>1. a.plan = Names
    BY <1>2 DEF State
  <2> QED
    BY <1>2, <2>1, PlanType DEF Names, Ac!ServerSession, Wanted
<1> HIDE DEF b, t
<1>4. added \in State /\ Frame(a, added) /\ ChannelAdded(a, added, t, c)
  BY <1>2, <1>3, AddChannelIs
<1> HIDE DEF added
<1>5. /\ a.channels \in [ServerSessions -> Seq(UsedServers)]
      /\ a.sockets \in [ServerSessions -> Seq(Sock)] /\ added.pool \in Seq(Group)
      /\ added.channels \in [ServerSessions -> Seq(UsedServers)]
  BY <1>2, <1>4 DEF State
<1>6. (i = 0 /\ T = {}) \/ (i # 0 /\ i \in T)
  <2>1. T \in SUBSET DOMAIN added.pool
    OBVIOUS
  <2>2. i = IF T = {} THEN 0 ELSE CHOOSE j \in T : \A l \in T : j <= l
    OBVIOUS
  <2> HIDE DEF T, i
  <2> QED
    BY <1>5, <2>1, <2>2, FirstIs, Zenon
<1>7. /\ \A s, d : Ac!Matches(added, s, d) <=> Ac!Matches(a, s, d)
      /\ \A d : Ac!ServerSession(added, d) = Ac!ServerSession(a, d)
      /\ Emptying(added) /\ Same(a, added)
  BY <1>2, <1>4, FrameKeeps
<1>8. /\ added.groups = a.groups /\ added.unclaimed = a.unclaimed /\ added.pool = a.pool
      /\ added.sessionID = a.sessionID /\ added.claimed = a.claimed /\ added.base = a.base
      /\ added.released = a.released
  BY <1>4 DEF Frame
<1>9. \A u \in ServerSessions \ {t} :
          added.channels[u] = a.channels[u] /\ added.sockets[u] = a.sockets[u]
  BY <1>5, <1>4 DEF ChannelAdded
<1>10. \/ /\ \A k \in DOMAIN a.sockets[t] : ~Ac!Matches(a, a.sockets[t][k], c)
          /\ added.sockets = a.sockets
          /\ added.channels[t] = Append(a.channels[t], c)
       \/ /\ a.sockets[t] # <<>>
          /\ added.channels[t] = a.channels[t]
          /\ \A j \in DOMAIN added.sockets[t] :
                \E k \in DOMAIN a.sockets[t] : added.sockets[t][j] = a.sockets[t][k]
  <2>1. CASE /\ \A k \in DOMAIN a.sockets[t] : ~Ac!Matches(a, a.sockets[t][k], c)
             /\ added.sockets = a.sockets
             /\ added.channels = [a.channels EXCEPT ![t] = Append(@, c)]
    BY <1>3, <1>5, <2>1
  <2>2. CASE \E k \in DOMAIN a.sockets[t] :
                 /\ added.sockets = [a.sockets EXCEPT ![t] = Ac!RemoveAt(@, k)]
                 /\ added.channels = a.channels
    <3>1. PICK k \in DOMAIN a.sockets[t] :
                 /\ added.sockets = [a.sockets EXCEPT ![t] = Ac!RemoveAt(@, k)]
                 /\ added.channels = a.channels
      BY <2>2
    <3>2. a.sockets[t] \in Seq(Sock) /\ added.sockets[t] = Ac!RemoveAt(a.sockets[t], k)
      BY <1>3, <1>5, <3>1
    <3>3. a.sockets[t] # <<>>
      BY <3>1, <3>2
    <3>4. \A j \in DOMAIN added.sockets[t] :
              \E l \in DOMAIN a.sockets[t] : added.sockets[t][j] = a.sockets[t][l]
      BY <3>2, WithoutOneAt
    <3> QED
      BY <3>1, <3>3, <3>4
  <2> QED
    BY <1>4, <2>1, <2>2 DEF ChannelAdded
<1>11. Wanted(added)
  <2>1. \A u \in added.groups : Ac!hasSubscriptions(added, u)
    <3>1. added.groups \subseteq ServerSessions
      BY <1>4 DEF State
    <3> QED
      BY <1>2, <1>3, <1>8, <1>9, <3>1 DEF Wanted, Ac!hasSubscriptions
  <2>2. \A u \in ServerSessions : added.channels[u] # <<>> => u \in added.groups
    BY <1>2, <1>3, <1>8, <1>9 DEF Wanted
  <2> QED
    BY <1>2, <1>8, <2>1, <2>2 DEF Wanted
<1>12. added.released = 0 /\ Released(added)
  <2>1. Ac!hasAnySubscriptions(a) /\ Ac!hasAnySubscriptions(added)
    BY <1>2, <1>3, <1>8, <1>11 DEF Wanted, Ac!hasAnySubscriptions
  <2> QED
    BY <1>2, <1>8, <2>1 DEF Released
<1>13. /\ \A u \in added.groups : added.sessionID[u] = NoSession <=> u \in added.unclaimed
       /\ \A u \in added.unclaimed : added.sockets[u] = <<>>
  <2>1. added.unclaimed \subseteq ServerSessions
    BY <1>4 DEF State
  <2>2. t \in a.unclaimed => added.sockets[t] = <<>>
    BY <1>2, <1>10 DEF Unmatched
  <2> QED
    BY <1>2, <1>8, <1>9, <2>1, <2>2 DEF Unmatched
<1>14. \A u \in added.groups : \A j \in DOMAIN added.channels[u] :
           /\ Ac!ServerSession(added, added.channels[u][j]) = u
           /\ \A k \in DOMAIN added.sockets[u] :
                  ~Ac!Matches(added, added.sockets[u][k], added.channels[u][j])
           /\ u \in added.unclaimed \ {t} =>
                \A g \in DOMAIN added.pool : \A k \in DOMAIN added.pool[g].sockets :
                    ~Ac!Matches(added, added.pool[g].sockets[k], added.channels[u][j])
  <2> SUFFICES ASSUME NEW u \in added.groups, NEW j \in DOMAIN added.channels[u]
      PROVE  /\ Ac!ServerSession(added, added.channels[u][j]) = u
             /\ \A k \in DOMAIN added.sockets[u] :
                    ~Ac!Matches(added, added.sockets[u][k], added.channels[u][j])
             /\ u \in added.unclaimed \ {t} =>
                  \A g \in DOMAIN added.pool : \A k \in DOMAIN added.pool[g].sockets :
                      ~Ac!Matches(added, added.pool[g].sockets[k], added.channels[u][j])
    OBVIOUS
  <2>1. CASE u # t
    <3>1. u \in ServerSessions \ {t} /\ u \in a.groups
      BY <1>4, <1>8, <2>1 DEF State
    <3>2. added.channels[u] = a.channels[u] /\ added.sockets[u] = a.sockets[u]
      BY <1>9, <3>1
    <3> QED
      BY <1>2, <1>7, <1>8, <3>1, <3>2 DEF Unmatched
  <2>2. CASE u = t
    <3>1. Ac!ServerSession(added, c) = t
      BY <1>7 DEF t
    <3>2. CASE /\ \A k \in DOMAIN a.sockets[t] : ~Ac!Matches(a, a.sockets[t][k], c)
               /\ added.sockets = a.sockets
               /\ added.channels[t] = Append(a.channels[t], c)
      <4>1. \/ added.channels[t][j] = c
            \/ j \in DOMAIN a.channels[t] /\ added.channels[t][j] = a.channels[t][j]
        <5>1. a.channels[t] \in Seq(UsedServers)
          BY <1>3, <1>5
        <5> QED
          BY <2>2, <3>2, <5>1
      <4> QED
        BY <1>2, <1>3, <1>7, <2>2, <3>1, <3>2, <4>1 DEF Unmatched
    <3>3. CASE /\ added.channels[t] = a.channels[t]
               /\ \A l \in DOMAIN added.sockets[t] :
                     \E k \in DOMAIN a.sockets[t] : added.sockets[t][l] = a.sockets[t][k]
      <4>1. Ac!ServerSession(added, added.channels[u][j]) = u
        BY <1>2, <1>3, <1>7, <2>2, <3>3 DEF Unmatched
      <4>2. ASSUME NEW k \in DOMAIN added.sockets[u]
            PROVE  ~Ac!Matches(added, added.sockets[u][k], added.channels[u][j])
        <5>1. PICK l \in DOMAIN a.sockets[t] : added.sockets[t][k] = a.sockets[t][l]
          BY <2>2, <3>3
        <5> QED
          BY <1>2, <1>3, <1>7, <2>2, <3>3, <5>1 DEF Unmatched
      <4> QED
        BY <2>2, <4>1, <4>2
    <3> QED
      BY <1>10, <3>2, <3>3
  <2> QED
    BY <2>1, <2>2
<1>15. CASE a.sessionID[t] # NoSession
  <2>1. b = Ac!RemoveIdle(added, t)
    BY <1>1, <1>15
  <2>2. t \notin added.unclaimed
    BY <1>2, <1>3, <1>8, <1>15 DEF Unmatched
  <2>3. Unmatched(added)
    BY <1>13, <1>14, <2>2 DEF Unmatched
  <2>4. WantedBut(added, t) /\ t \in added.groups
    BY <1>3, <1>8, <1>11 DEF Wanted, WantedBut
  <2>5. Good(Ac!RemoveIdle(added, t)) /\ Same(added, Ac!RemoveIdle(added, t))
    BY <1>4, <1>7, <1>12, <2>3, <2>4, RemoveIdleGood
  <2> QED
    BY <1>7, <2>1, <2>5 DEF Same, b
<1>16. CASE a.sessionID[t] = NoSession /\ i # 0
  <2>1. b = Ac!Merge(added, t, i)
    <3> HIDE DEF i
    <3> QED
      BY <1>1, <1>16
  <2>2. t \in added.unclaimed
    BY <1>2, <1>3, <1>8, <1>16 DEF Unmatched
  <2>3. i \in DOMAIN added.pool
    BY <1>6, <1>16
  <2> HIDE DEF i, T
  <2>4. UnmatchedBut(added, t, i)
    BY <1>13, <1>14 DEF UnmatchedBut
  <2>5. Good(Ac!Merge(added, t, i)) /\ Same(added, Ac!Merge(added, t, i))
    BY <1>4, <1>7, <1>11, <1>12, <2>2, <2>3, <2>4, MergeKeeps
  <2> QED
    BY <1>7, <2>1, <2>5 DEF Same, b
<1>17. CASE a.sessionID[t] = NoSession /\ i = 0
  <2>1. b = added
    <3> HIDE DEF i
    <3> QED
      BY <1>1, <1>17
  <2>2. T = {}
    BY <1>6, <1>17
  <2> HIDE DEF i
  <2>3. \A g \in DOMAIN added.pool : \A k \in DOMAIN added.pool[g].sockets :
            ~Ac!Matches(a, added.pool[g].sockets[k], c)
    BY <2>2
  <2> HIDE DEF T
  <2>4. t \in a.unclaimed /\ a.sockets[t] = <<>>
    BY <1>2, <1>3, <1>17 DEF Unmatched
  <2>5. added.channels[t] = Append(a.channels[t], c)
    BY <1>10, <2>4
  <2>6. ASSUME NEW j \in DOMAIN added.channels[t]
        PROVE  \A g \in DOMAIN added.pool : \A k \in DOMAIN added.pool[g].sockets :
                   ~Ac!Matches(added, added.pool[g].sockets[k], added.channels[t][j])
    <3>1. \/ added.channels[t][j] = c
          \/ j \in DOMAIN a.channels[t] /\ added.channels[t][j] = a.channels[t][j]
      <4>1. a.channels[t] \in Seq(UsedServers)
        BY <1>3, <1>5
      <4> QED
        BY <2>5, <4>1
    <3>2. CASE added.channels[t][j] = c
      BY <1>7, <2>3, <3>2
    <3>3. CASE j \in DOMAIN a.channels[t] /\ added.channels[t][j] = a.channels[t][j]
      BY <1>2, <1>3, <1>7, <1>8, <2>4, <3>3 DEF Unmatched
    <3> QED
      BY <3>1, <3>2, <3>3
  <2>7. Unmatched(added)
    BY <1>13, <1>14, <2>6 DEF Unmatched
  <2> QED
    BY <1>4, <1>7, <1>11, <1>12, <2>1, <2>7 DEF Good, b
<1> QED
  BY <1>15, <1>16, <1>17 DEF b

\* The pool changes, and nothing else.
LEMMA PoolIs ==
    ASSUME NEW a \in State, NEW p \in Seq(Group)
    PROVE  LET b == [a EXCEPT !.pool = p]
           IN  /\ b \in State /\ b.pool = p /\ Same(a, b)
               /\ b.groups = a.groups /\ b.unclaimed = a.unclaimed /\ b.claimed = a.claimed
               /\ b.channels = a.channels /\ b.sockets = a.sockets /\ b.sessionID = a.sessionID
               /\ b.given = a.given
               /\ \A s, c : Ac!Matches(b, s, c) <=> Ac!Matches(a, s, c)
               /\ \A c : Ac!ServerSession(b, c) = Ac!ServerSession(a, c)
               /\ Wanted(a) => Wanted(b)
               /\ Released(a) => Released(b)
               /\ Emptying(a) => Emptying(b)
<1> DEFINE b == [a EXCEPT !.pool = p]
<1>1. b \in State
  BY DEF State
<1>2. /\ b.pool = p /\ Same(a, b) /\ b.groups = a.groups /\ b.unclaimed = a.unclaimed
      /\ b.claimed = a.claimed /\ b.channels = a.channels /\ b.sockets = a.sockets
      /\ b.sessionID = a.sessionID /\ b.given = a.given /\ b.released = a.released
      /\ b.emptied = a.emptied /\ b.listening = a.listening /\ b.accepting = a.accepting
  BY DEF State, Same
<1> HIDE DEF b
<1>3. /\ \A s, c : Ac!Matches(b, s, c) <=> Ac!Matches(a, s, c)
      /\ \A c : Ac!ServerSession(b, c) = Ac!ServerSession(a, c)
      /\ \A u : Ac!hasSubscriptions(b, u) <=> Ac!hasSubscriptions(a, u)
      /\ Ac!Pendings(b) = Ac!Pendings(a)
  BY <1>2 DEF Same, Ac!Matches, Ac!ServerSession, Ac!hasSubscriptions, Ac!Pendings
<1>4. Ac!hasAnySubscriptions(b) <=> Ac!hasAnySubscriptions(a)
  BY <1>2, <1>3 DEF Ac!hasAnySubscriptions
<1>5. Wanted(a) => Wanted(b)
  BY <1>2, <1>3 DEF Wanted, Same
<1>6. Released(a) => Released(b)
  BY <1>2, <1>4 DEF Released, Same
<1>7. Emptying(a) => Emptying(b)
  BY <1>2, <1>3 DEF Emptying, Same
<1> QED
  BY <1>1, <1>2, <1>3, <1>5, <1>6, <1>7 DEF b

\* The group of a client's session is in the pool, or comes to it empty.
LEMMA PooledIs ==
    ASSUME NEW a \in State, NEW x \in ClientSessions
    PROVE  \E p \in Seq(Group) :
               /\ Ac!Pooled(a, x) = [a EXCEPT !.pool = p]
               /\ \E g \in DOMAIN p : p[g].id = x
               /\ \A g \in DOMAIN p :
                     p[g].sockets = <<>> \/ (g \in DOMAIN a.pool /\ p[g] = a.pool[g])
<1>1. a.pool \in Seq(Group)
  BY DEF State
<1>2. CASE \E i \in DOMAIN a.pool : a.pool[i].id = x
  <2>1. Ac!Pooled(a, x) = a
    BY <1>2 DEF Ac!Pooled
  <2>2. a = [a EXCEPT !.pool = a.pool]
    BY DEF State
  <2> QED
    BY <1>1, <1>2, <2>1, <2>2
<1>3. CASE ~\E i \in DOMAIN a.pool : a.pool[i].id = x
  <2> DEFINE e == [id |-> x, sockets |-> <<>>]
             p == Append(a.pool, e)
  <2>1. Ac!Pooled(a, x) = [a EXCEPT !.pool = p]
    BY <1>3 DEF Ac!Pooled
  <2>2. e \in Group /\ e.id = x /\ e.sockets = <<>>
    BY DEF Group
  <2> HIDE DEF e
  <2>3. p \in Seq(Group) /\ p[Len(a.pool) + 1] = e /\ Len(a.pool) + 1 \in DOMAIN p
    BY <1>1, <2>2
  <2>4. \A g \in DOMAIN p : p[g] = e \/ (g \in DOMAIN a.pool /\ p[g] = a.pool[g])
    BY <1>1, <2>2
  <2> HIDE DEF p
  <2> QED
    BY <2>1, <2>2, <2>3, <2>4
<1> QED
  BY <1>2, <1>3

\* A socket that has got its name goes to the first channel that it fits, or there is none.
LEMMA SetSocketKeeps ==
    ASSUME plan \in Plans, NEW a, Good(a), NEW s \in Sock
    PROVE  LET b == Ac!SetSocket(a, s)
           IN  Good(b) /\ Same(a, b)
<1> DEFINE x == Ac!ClientSession(a, s)
           t == a.claimed[x]
           pooled == Ac!Pooled(a, x)
           S == {l \in DOMAIN pooled.pool : pooled.pool[l].id = x}
           i == IF S = {} THEN 0 ELSE CHOOSE l \in S : \A m \in S : l <= m
           put == [pooled EXCEPT !.pool[i].sockets = Append(@, s)]
           T == {l \in DOMAIN a.plan.servers :
                    /\ a.plan.servers[l] \in a.unclaimed
                    /\ \E k \in DOMAIN a.channels[a.plan.servers[l]] :
                           Ac!Matches(a, s, a.channels[a.plan.servers[l]][k])}
           j == IF T = {} THEN 0 ELSE CHOOSE l \in T : \A m \in T : l <= m
           b == Ac!SetSocket(a, s)
<1>1. b = CASE t # NoSession -> Ac!RemoveIdle(Ac!AddSocket(a, t, s), t)
            [] t = NoSession /\ j # 0 -> Ac!Merge(put, a.plan.servers[j], i)
            [] OTHER -> put
  BY DEF Ac!SetSocket, Ac!FirstIndex
<1>2. a \in State /\ Wanted(a) /\ Released(a) /\ Emptying(a) /\ Unmatched(a)
  BY DEF Good
<1>3. x \in ClientSessions
  <2>1. a.plan = Names /\ s.of \in UsedClients
    BY <1>2 DEF State, Sock
  <2> QED
    BY <2>1, PlanType DEF Names, Ac!ClientSession
<1>4. a.plan.servers \in Seq(Sessions) /\ ServerSessions = Range(a.plan.servers)
  <2>1. a.plan = Names
    BY <1>2 DEF State
  <2> QED
    BY <2>1, PlanType DEF Names, ServerSessions
<1> HIDE DEF b, x
<1>5. CASE t # NoSession
  <2> DEFINE added == Ac!AddSocket(a, t, s)
  <2>1. b = Ac!RemoveIdle(added, t)
    BY <1>1, <1>5
  <2>2. t \in a.groups \ a.unclaimed /\ t \in ServerSessions
    BY <1>2, <1>3, <1>5 DEF Wanted, State
  <2>3. NoMatch(a, t)
    BY <1>2, <2>2 DEF NoMatch, Unmatched
  <2> HIDE DEF t
  <2>4. added \in State /\ Fewer(a, added, t) /\ NoMatch(added, t)
    BY <1>2, <2>2, <2>3, AddSocketKeeps
  <2> HIDE DEF added
  <2>5. Frame(a, added)
    BY <2>4 DEF Fewer
  <2>6. /\ \A r, c : Ac!Matches(added, r, c) <=> Ac!Matches(a, r, c)
        /\ \A c : Ac!ServerSession(added, c) = Ac!ServerSession(a, c)
        /\ Emptying(added) /\ Same(a, added)
    BY <1>2, <2>5, FrameKeeps
  <2>7. /\ added.groups = a.groups /\ added.unclaimed = a.unclaimed /\ added.pool = a.pool
        /\ added.sessionID = a.sessionID /\ added.claimed = a.claimed /\ added.base = a.base
        /\ added.released = a.released
    BY <2>5 DEF Frame
  <2>8. \A u \in ServerSessions \ {t} :
            added.channels[u] = a.channels[u] /\ added.sockets[u] = a.sockets[u]
    BY <2>4 DEF Fewer
  <2>9. \A k \in DOMAIN added.channels[t] :
            \E l \in DOMAIN a.channels[t] : added.channels[t][k] = a.channels[t][l]
    BY <2>4 DEF Fewer
  <2>10. WantedBut(added, t)
    <3>1. \A u \in added.groups \ {t} : Ac!hasSubscriptions(added, u)
      <4>1. added.groups \subseteq ServerSessions
        BY <2>4 DEF State
      <4> QED
        BY <1>2, <2>7, <2>8, <4>1 DEF Wanted, Ac!hasSubscriptions
    <3>2. \A u \in ServerSessions : added.channels[u] # <<>> => u \in added.groups
      BY <1>2, <2>2, <2>7, <2>8 DEF Wanted
    <3> QED
      BY <1>2, <2>7, <3>1, <3>2 DEF Wanted, WantedBut
  <2>11. added.released = 0
    <3>1. Ac!hasAnySubscriptions(a)
      BY <1>2, <2>2 DEF Wanted, Ac!hasAnySubscriptions
    <3> QED
      BY <1>2, <2>7, <3>1 DEF Released
  <2>12. Unmatched(added)
    <3>1. \A u \in added.groups : added.sessionID[u] = NoSession <=> u \in added.unclaimed
      BY <1>2, <2>7 DEF Unmatched
    <3>2. \A u \in added.unclaimed : added.sockets[u] = <<>>
      <4>1. added.unclaimed \subseteq ServerSessions \ {t}
        BY <2>2, <2>4, <2>7 DEF State
      <4> QED
        BY <1>2, <2>7, <2>8, <4>1 DEF Unmatched
    <3>3. ASSUME NEW u \in added.groups, NEW k \in DOMAIN added.channels[u]
          PROVE  /\ Ac!ServerSession(added, added.channels[u][k]) = u
                 /\ \A l \in DOMAIN added.sockets[u] :
                        ~Ac!Matches(added, added.sockets[u][l], added.channels[u][k])
                 /\ u \in added.unclaimed =>
                        \A g \in DOMAIN added.pool : \A l \in DOMAIN added.pool[g].sockets :
                            ~Ac!Matches(added, added.pool[g].sockets[l], added.channels[u][k])
      <4>1. CASE u = t
        <5>1. PICK l \in DOMAIN a.channels[t] : added.channels[t][k] = a.channels[t][l]
          BY <2>9, <4>1
        <5>2. Ac!ServerSession(added, added.channels[u][k]) = u
          BY <1>2, <2>2, <2>6, <4>1, <5>1 DEF Unmatched
        <5> QED
          BY <2>2, <2>4, <2>7, <4>1, <5>2 DEF NoMatch
      <4>2. CASE u # t
        <5>1. u \in ServerSessions \ {t} /\ u \in a.groups
          BY <2>4, <2>7, <4>2 DEF State
        <5>2. added.channels[u] = a.channels[u] /\ added.sockets[u] = a.sockets[u]
          BY <2>8, <5>1
        <5> QED
          BY <1>2, <2>6, <2>7, <5>1, <5>2 DEF Unmatched
      <4> QED
        BY <4>1, <4>2
    <3> QED
      BY <3>1, <3>2, <3>3 DEF Unmatched
  <2>13. t \in added.groups
    BY <2>2, <2>7
  <2>14. Good(Ac!RemoveIdle(added, t)) /\ Same(added, Ac!RemoveIdle(added, t))
    BY <2>4, <2>6, <2>10, <2>11, <2>12, <2>13, RemoveIdleGood
  <2> QED
    BY <2>1, <2>6, <2>14 DEF Same, b
<1>6. CASE t = NoSession
  <2>1. PICK p \in Seq(Group) :
               /\ pooled = [a EXCEPT !.pool = p]
               /\ \E g \in DOMAIN p : p[g].id = x
               /\ \A g \in DOMAIN p :
                     p[g].sockets = <<>> \/ (g \in DOMAIN a.pool /\ p[g] = a.pool[g])
    BY <1>2, <1>3, PooledIs
  <2>2. pooled \in State /\ pooled.pool = p
    BY <1>2, <2>1, PoolIs
  <2>3. i \in DOMAIN p
    <3>1. S \in SUBSET DOMAIN p /\ S # {}
      BY <2>1, <2>2
    <3>2. i = IF S = {} THEN 0 ELSE CHOOSE l \in S : \A m \in S : l <= m
      OBVIOUS
    <3> HIDE DEF S, i
    <3>3. (i = 0 /\ S = {}) \/ (i # 0 /\ i \in S)
      BY <3>1, <3>2, FirstIs, Zenon
    <3> QED
      BY <3>1, <3>3
  <2> HIDE DEF i, S
  <2> DEFINE q == [p EXCEPT ![i].sockets = Append(@, s)]
  <2>4. p[i] \in Group /\ p[i].sockets \in Seq(Sock)
    <3>1. p[i] \in Group
      <4> HIDE DEF put, q
      <4> QED
        BY <2>3
    <3> QED
      BY <3>1 DEF Group
  <2>5. [p[i] EXCEPT !.sockets = Append(@, s)] \in Group
    <3>1. Append(p[i].sockets, s) \in Seq(Sock)
      BY <2>4
    <3> QED
      BY <2>4, <3>1 DEF Group
  <2>6. q \in Seq(Group) /\ DOMAIN q = DOMAIN p
    BY <2>3, <2>5
  <2>7. /\ \A g \in DOMAIN q \ {i} : q[g] = p[g]
        /\ q[i].sockets = Append(p[i].sockets, s)
    BY <2>3, <2>4 DEF Group
  <2>8. put = [a EXCEPT !.pool = q]
    <3>1. put = [pooled EXCEPT !.pool = q]
      BY <2>2
    <3>2. [pooled EXCEPT !.pool = q] = [a EXCEPT !.pool = q]
      <4> HIDE DEF q, pooled
      <4> QED
        BY <1>2, <2>1 DEF State
    <3> QED
      BY <3>1, <3>2
  <2> HIDE DEF q
  <2>9. /\ put \in State /\ put.pool = q /\ Same(a, put)
        /\ put.groups = a.groups /\ put.unclaimed = a.unclaimed /\ put.claimed = a.claimed
        /\ put.channels = a.channels /\ put.sockets = a.sockets
        /\ put.sessionID = a.sessionID
        /\ \A r, c : Ac!Matches(put, r, c) <=> Ac!Matches(a, r, c)
        /\ \A c : Ac!ServerSession(put, c) = Ac!ServerSession(a, c)
        /\ Wanted(put) /\ Released(put) /\ Emptying(put)
    <3> HIDE DEF put
    <3> QED
      BY <1>2, <2>6, <2>8, PoolIs
  <2> HIDE DEF put, pooled
  <2>10. (j = 0 /\ T = {}) \/ (j # 0 /\ j \in T)
    <3> DEFINE r == a.plan.servers
    <3>1. T \in SUBSET DOMAIN r
      OBVIOUS
    <3>2. j = IF T = {} THEN 0 ELSE CHOOSE l \in T : \A m \in T : l <= m
      OBVIOUS
    <3>3. r \in Seq(Sessions)
      BY <1>4
    <3> HIDE DEF T, r
    <3>4. \A n : n = (IF T = {} THEN 0 ELSE CHOOSE l \in T : \A m \in T : l <= m)
                 => (n = 0 /\ T = {}) \/ (n # 0 /\ n \in T)
      BY <3>1, <3>3, FirstIs
    <3> QED
      BY <3>2, <3>4
  <2>11. \A u \in put.groups : \A l \in DOMAIN put.channels[u] :
             /\ Ac!ServerSession(put, put.channels[u][l]) = u
             /\ \A k \in DOMAIN put.sockets[u] :
                    ~Ac!Matches(put, put.sockets[u][k], put.channels[u][l])
             /\ u \in put.unclaimed =>
                  \A g \in DOMAIN put.pool \ {i} : \A k \in DOMAIN put.pool[g].sockets :
                      ~Ac!Matches(put, put.pool[g].sockets[k], put.channels[u][l])
    <3> SUFFICES ASSUME NEW u \in put.groups, NEW l \in DOMAIN put.channels[u]
        PROVE  /\ Ac!ServerSession(put, put.channels[u][l]) = u
               /\ \A k \in DOMAIN put.sockets[u] :
                      ~Ac!Matches(put, put.sockets[u][k], put.channels[u][l])
               /\ u \in put.unclaimed =>
                    \A g \in DOMAIN put.pool \ {i} : \A k \in DOMAIN put.pool[g].sockets :
                        ~Ac!Matches(put, put.pool[g].sockets[k], put.channels[u][l])
      OBVIOUS
    <3>1. ASSUME u \in put.unclaimed, NEW g \in DOMAIN put.pool \ {i},
                 NEW k \in DOMAIN put.pool[g].sockets
          PROVE  ~Ac!Matches(put, put.pool[g].sockets[k], put.channels[u][l])
      <4>1. g \in DOMAIN p /\ put.pool[g] = p[g] /\ p[g].sockets # <<>>
        BY <2>6, <2>7, <2>9, <3>1
      <4>2. g \in DOMAIN a.pool /\ p[g] = a.pool[g]
        BY <2>1, <4>1
      <4> QED
        BY <1>2, <2>9, <3>1, <4>1, <4>2 DEF Unmatched
    <3> QED
      BY <1>2, <2>9, <3>1 DEF Unmatched
  <2>12. /\ \A u \in put.groups : put.sessionID[u] = NoSession <=> u \in put.unclaimed
         /\ \A u \in put.unclaimed : put.sockets[u] = <<>>
    BY <1>2, <2>9 DEF Unmatched
  <2>13. CASE j # 0 /\ j \in T
    <3> DEFINE u == a.plan.servers[j]
    <3>1. b = Ac!Merge(put, u, i)
      <4> HIDE DEF t, j
      <4> QED
        BY <1>1, <1>6, <2>13
    <3>2. u \in put.unclaimed
      BY <2>9, <2>13
    <3> HIDE DEF u, j, T
    <3>3. UnmatchedBut(put, u, i)
      BY <2>11, <2>12 DEF UnmatchedBut
    <3>4. i \in DOMAIN put.pool
      BY <2>3, <2>6, <2>9
    <3>5. Good(Ac!Merge(put, u, i)) /\ Same(put, Ac!Merge(put, u, i))
      BY <2>9, <3>2, <3>3, <3>4, MergeKeeps
    <3> QED
      BY <2>9, <3>1, <3>5 DEF Same, b
  <2>14. CASE j = 0 /\ T = {}
    <3>1. b = put
      <4> HIDE DEF t, j
      <4> QED
        BY <1>1, <1>6, <2>14
    <3>2. \A u \in put.unclaimed : \A l \in DOMAIN put.channels[u] :
              ~Ac!Matches(a, s, put.channels[u][l])
      <4> SUFFICES ASSUME NEW u \in put.unclaimed PROVE
              \A l \in DOMAIN put.channels[u] : ~Ac!Matches(a, s, put.channels[u][l])
        OBVIOUS
      <4>1. u \in ServerSessions
        BY <2>9 DEF State
      <4>2. PICK l \in DOMAIN a.plan.servers : a.plan.servers[l] = u
        BY <1>4, <4>1 DEF Range
      <4> QED
        BY <2>9, <2>14, <4>2
    <3> HIDE DEF T, j
    <3>3. ASSUME NEW u \in put.groups, NEW l \in DOMAIN put.channels[u], u \in put.unclaimed,
                 NEW k \in DOMAIN put.pool[i].sockets
          PROVE  ~Ac!Matches(put, put.pool[i].sockets[k], put.channels[u][l])
      <4>1. put.pool[i].sockets = Append(p[i].sockets, s)
        BY <2>7, <2>9
      <4>2. CASE put.pool[i].sockets[k] = s
        BY <2>9, <3>2, <3>3, <4>2
      <4>3. CASE k \in DOMAIN p[i].sockets /\ put.pool[i].sockets[k] = p[i].sockets[k]
        <5>1. i \in DOMAIN a.pool /\ p[i] = a.pool[i]
          <6>1. p[i].sockets # <<>>
            BY <2>4, <4>3
          <6> QED
            BY <2>1, <2>3, <6>1
        <5> QED
          BY <1>2, <2>9, <3>3, <4>3, <5>1 DEF Unmatched
      <4> QED
        BY <2>4, <3>3, <4>1, <4>2, <4>3
    <3>4. Unmatched(put)
      BY <2>11, <2>12, <3>3 DEF Unmatched
    <3> QED
      BY <2>9, <3>1, <3>4 DEF Good, b
  <2> QED
    BY <2>10, <2>13, <2>14
<1> QED
  BY <1>5, <1>6

\* The promise that all sockets have been named or erased is set when that is so.
LEMMA EmptiedKeeps ==
    ASSUME NEW a \in State, Wanted(a), Released(a), Unmatched(a), a.emptied = 0,
           a.stopped => ~a.listening /\ a.accepting # "open" /\ a.base = {}
    PROVE  Good(Ac!Emptied(a)) /\ Same(a, Ac!Emptied(a))
<1> DEFINE b == Ac!Emptied(a)
<1>1. CASE ~(a.stopped /\ Ac!Pendings(a) = {})
  <2>1. b = a
    BY <1>1 DEF Ac!Emptied
  <2> QED
    BY <1>1, <2>1 DEF Good, Emptying, Same
<1>2. CASE a.stopped /\ Ac!Pendings(a) = {}
  <2>1. b = [a EXCEPT !.emptied = 1]
    <3>1. b = [a EXCEPT !.emptied = @ + 1]
      BY <1>2 DEF Ac!Emptied
    <3> QED
      BY <3>1
  <2>2. b \in State
    <3>1. [a EXCEPT !.emptied = 1] \in State
      BY DEF State
    <3> HIDE DEF b
    <3> QED
      BY <2>1, <3>1
  <2>3. /\ Same(a, b) /\ b.groups = a.groups /\ b.unclaimed = a.unclaimed
        /\ b.claimed = a.claimed /\ b.channels = a.channels /\ b.sockets = a.sockets
        /\ b.sessionID = a.sessionID /\ b.pool = a.pool /\ b.released = a.released
        /\ b.listening = a.listening /\ b.accepting = a.accepting /\ b.emptied = 1
    BY <2>1 DEF State, Same
  <2> HIDE DEF b
  <2>4. /\ \A s, c : Ac!Matches(b, s, c) <=> Ac!Matches(a, s, c)
        /\ \A c : Ac!ServerSession(b, c) = Ac!ServerSession(a, c)
        /\ \A u : Ac!hasSubscriptions(b, u) <=> Ac!hasSubscriptions(a, u)
        /\ Ac!Pendings(b) = Ac!Pendings(a)
    BY <2>3 DEF Same, Ac!Matches, Ac!ServerSession, Ac!hasSubscriptions, Ac!Pendings
  <2>5. Wanted(b)
    BY <2>3, <2>4 DEF Wanted, Same
  <2>6. Released(b)
    BY <2>3, <2>4 DEF Released, Same, Ac!hasAnySubscriptions
  <2>7. Emptying(b)
    BY <1>2, <2>3, <2>4 DEF Emptying, Same
  <2>8. Unmatched(b)
    BY <2>3, <2>4 DEF Unmatched
  <2> QED
    BY <2>2, <2>3, <2>5, <2>6, <2>7, <2>8 DEF Good, b
<1> QED
  BY <1>1, <1>2

\* The pending sockets are g and n, d are closed, and r is what the acceptor accepts.
Pending(a, g, n, d, r) ==
    [a EXCEPT !.greeting = g, !.naming = n, !.closed = d, !.accepting = r]

\* The pending sockets, and what is closed, change; whoever waits does not.
LEMMA PendingChanges ==
    ASSUME NEW a \in State, NEW g \in SUBSET Sock, NEW n \in SUBSET Sock, NEW d \in SUBSET Sock,
           NEW r \in {"open", "aborted", "none"}
    PROVE  LET b == Pending(a, g, n, d, r)
           IN  /\ b \in State
               /\ b.plan = a.plan /\ b.strand = a.strand /\ b.backlog = a.backlog
               /\ b.listening = a.listening /\ b.stopped = a.stopped /\ b.emptied = a.emptied
               /\ b.base = a.base
               /\ b.greeting = g /\ b.naming = n /\ b.closed = d /\ b.accepting = r
               /\ Wanted(a) => Wanted(b)
               /\ Released(a) => Released(b)
               /\ Unmatched(a) => Unmatched(b)
<1> DEFINE b == Pending(a, g, n, d, r)
<1>1. b \in State
  BY DEF State, Pending
<1>2. /\ b.plan = a.plan /\ b.strand = a.strand /\ b.backlog = a.backlog
      /\ b.listening = a.listening /\ b.stopped = a.stopped /\ b.emptied = a.emptied
      /\ b.greeting = g /\ b.naming = n /\ b.closed = d /\ b.accepting = r
  BY DEF State, Pending
<1>3. /\ b.base = a.base /\ b.groups = a.groups /\ b.unclaimed = a.unclaimed
      /\ b.claimed = a.claimed /\ b.channels = a.channels /\ b.sockets = a.sockets
      /\ b.sessionID = a.sessionID /\ b.pool = a.pool /\ b.released = a.released
  BY DEF State, Pending
<1> HIDE DEF b
<1>4. /\ \A s, c : Ac!Matches(b, s, c) <=> Ac!Matches(a, s, c)
      /\ \A c : Ac!ServerSession(b, c) = Ac!ServerSession(a, c)
      /\ \A u : Ac!hasSubscriptions(b, u) <=> Ac!hasSubscriptions(a, u)
  BY <1>2, <1>3 DEF Ac!Matches, Ac!ServerSession, Ac!hasSubscriptions
<1>5. Wanted(a) => Wanted(b)
  BY <1>3, <1>4 DEF Wanted
<1>6. Released(a) => Released(b)
  BY <1>2, <1>3, <1>4 DEF Released, Ac!hasAnySubscriptions
<1>7. Unmatched(a) => Unmatched(b)
  BY <1>3, <1>4 DEF Unmatched
<1> QED
  BY <1>1, <1>2, <1>3, <1>5, <1>6, <1>7 DEF b

\* What a task leaves as it is that takes a socket from those that are pending.
Left(a, b) ==
    /\ b.plan = a.plan /\ b.strand = a.strand /\ b.stopped = a.stopped /\ b.base = a.base
    /\ b.backlog \subseteq a.backlog

\* The socket s is not pending any more.
Gone(a, b, s) == b.greeting = a.greeting \ {s} /\ b.naming = a.naming \ {s}

\* The pending socket s, or an accept, has ended.
Without(a, s, d, r) == Ac!Emptied(Pending(a, a.greeting \ {s}, a.naming \ {s}, d, r))

\* A socket leaves those that are pending, or the accept that was aborted ends.
LEMMA PendingEnds ==
    ASSUME NEW a, Good(a), Ac!Pendings(a) # {}, NEW d \in SUBSET Sock,
           NEW s, NEW r, r = "none" \/ r = a.accepting
    PROVE  LET b == Without(a, s, d, r)
           IN  Good(b) /\ Left(a, b) /\ Gone(a, b, s)
<1> DEFINE g == a.greeting \ {s}
           n == a.naming \ {s}
           c == Pending(a, g, n, d, r)
<1>1. a \in State /\ Wanted(a) /\ Released(a) /\ Emptying(a) /\ Unmatched(a)
  BY DEF Good
<1>2. g \in SUBSET Sock /\ n \in SUBSET Sock /\ r \in {"open", "aborted", "none"}
  BY <1>1 DEF State
<1>3. Without(a, s, d, r) = Ac!Emptied(c)
  BY DEF Without
<1> HIDE DEF g, n
<1>4. /\ c \in State
      /\ c.plan = a.plan /\ c.strand = a.strand /\ c.backlog = a.backlog
      /\ c.listening = a.listening /\ c.stopped = a.stopped /\ c.emptied = a.emptied
      /\ c.base = a.base /\ c.greeting = g /\ c.naming = n /\ c.accepting = r
      /\ Wanted(c) /\ Released(c) /\ Unmatched(c)
  BY <1>1, <1>2, PendingChanges
<1> HIDE DEF c
<1>5. /\ c.emptied = 0
      /\ c.stopped => ~c.listening /\ c.accepting # "open" /\ c.base = {}
  BY <1>1, <1>4 DEF Emptying
<1>6. Good(Ac!Emptied(c)) /\ Same(c, Ac!Emptied(c))
  BY <1>4, <1>5, EmptiedKeeps
<1>7. Left(a, Ac!Emptied(c)) /\ Ac!Emptied(c).greeting = g /\ Ac!Emptied(c).naming = n
  BY <1>4, <1>6 DEF Left, Same
<1> QED
  BY <1>3, <1>6, <1>7 DEF g, n, Gone

\* A socket that is erased is not pending any more.
LEMMA EraseKeeps ==
    ASSUME NEW a, Good(a), NEW s \in a.greeting \cup a.naming
    PROVE  LET b == Ac!Erase(a, s)
           IN  Good(b) /\ Left(a, b) /\ Gone(a, b, s)
<1> DEFINE d == a.closed \cup {s}
<1>1. a \in State
  BY DEF Good
<1>2. d \in SUBSET Sock
  BY <1>1 DEF State
<1>3. Ac!Pendings(a) # {}
  BY DEF Ac!Pendings
<1>4. Ac!Erase(a, s) = Without(a, s, d, a.accepting)
  <2>1. [a EXCEPT !.greeting = @ \ {s}, !.naming = @ \ {s}, !.closed = @ \cup {s}]
        = Pending(a, a.greeting \ {s}, a.naming \ {s}, d, a.accepting)
    BY <1>1 DEF State, Pending
  <2> QED
    BY <2>1 DEF Ac!Erase, Without
<1> HIDE DEF d
<1> QED
  BY <1>2, <1>3, <1>4, PendingEnds

\* An accept that was aborted is not pending any more.
LEMMA EndAcceptKeeps ==
    ASSUME NEW a, Good(a), a.accepting = "aborted"
    PROVE  LET b == Ac!EndAccept(a)
           IN  Good(b) /\ Left(a, b) /\ b.greeting = a.greeting /\ b.naming = a.naming
<1>1. a \in State
  BY DEF Good
<1>2. a.closed \in SUBSET Sock /\ a.greeting \in SUBSET Sock /\ a.naming \in SUBSET Sock
  BY <1>1 DEF State
<1>3. NoSock \notin Sock
  BY NoneAssumption DEF Sock, UsedClients
<1>4. a.greeting \ {NoSock} = a.greeting /\ a.naming \ {NoSock} = a.naming
  BY <1>2, <1>3
<1>5. Ac!Pendings(a) # {}
  BY DEF Ac!Pendings
<1>6. Ac!EndAccept(a) = Without(a, NoSock, a.closed, "none")
  <2>1. [a EXCEPT !.accepting = "none"] = Pending(a, a.greeting, a.naming, a.closed, "none")
    BY <1>1 DEF State, Pending
  <2> QED
    BY <1>4, <2>1 DEF Ac!EndAccept, Without
<1> DEFINE e == Without(a, NoSock, a.closed, "none")
<1>7. Good(e) /\ Left(a, e) /\ Gone(a, e, NoSock)
  BY <1>2, <1>5, PendingEnds
<1> HIDE DEF e
<1> QED
  BY <1>4, <1>6, <1>7 DEF Gone, e

\* A socket that has got its name is not pending any more.
LEMMA NameKeeps ==
    ASSUME plan \in Plans, NEW a, Good(a), NEW s \in a.naming, s \notin a.greeting
    PROVE  LET b == Ac!Name(a, s)
           IN  /\ Good(b) /\ Left(a, b)
               /\ b.greeting = a.greeting /\ b.naming = a.naming \ {s}
<1> DEFINE b == Ac!SetSocket(a, s)
<1>1. s \in Sock
  BY DEF Good, State
<1>2. Good(b) /\ Same(a, b)
  BY <1>1, SetSocketKeeps
<1> HIDE DEF b
<1>3. b \in State /\ b.greeting = a.greeting /\ b.naming = a.naming
  BY <1>2 DEF Good, Same
<1>4. b.greeting \ {s} = b.greeting
  BY <1>3
<1>5. Ac!Pendings(b) # {} /\ b.closed \in SUBSET Sock
  BY <1>3 DEF Ac!Pendings, State
<1> DEFINE e == Without(b, s, b.closed, b.accepting)
<1>6. Ac!Name(a, s) = e
  <2>1. [b EXCEPT !.naming = @ \ {s}]
        = Pending(b, b.greeting \ {s}, b.naming \ {s}, b.closed, b.accepting)
    BY <1>3, <1>4 DEF State, Pending
  <2> QED
    BY <2>1 DEF Ac!Name, Without, b
<1>7. Good(e) /\ Left(b, e) /\ Gone(b, e, s)
  BY <1>2, <1>5, PendingEnds
<1> HIDE DEF e
<1>8. Left(a, e)
  BY <1>2, <1>7 DEF Left, Same
<1> QED
  BY <1>3, <1>4, <1>6, <1>7, <1>8 DEF Gone

\* What a channel is given does not matter to the acceptor any more.
LEMMA GiveKeeps ==
    ASSUME NEW a, Good(a), NEW c \in Used, NEW s \in Sock \cup {NoSock}, NEW ok \in BOOLEAN
    PROVE  LET b == Ac!Give(a, c, s, ok)
           IN  Good(b) /\ Same(a, b)
<1> DEFINE b == Ac!Give(a, c, s, ok)
<1>1. a \in State /\ Wanted(a) /\ Released(a) /\ Emptying(a) /\ Unmatched(a)
  BY DEF Good
<1>2. b \in State /\ Frame(a, b) /\ b.channels = a.channels /\ b.sockets = a.sockets
  <2>1. b \in State /\ Frame(a, b) /\ Gives(a, b, c, s, ok)
    BY <1>1, GiveIs
  <2> QED
    BY <2>1 DEF Gives
<1> HIDE DEF b
<1>3. /\ Same(a, b) /\ Emptying(b)
      /\ \A r, d : Ac!Matches(b, r, d) <=> Ac!Matches(a, r, d)
      /\ \A d : Ac!ServerSession(b, d) = Ac!ServerSession(a, d)
  BY <1>1, <1>2, FrameKeeps
<1>4. \A u : Ac!hasSubscriptions(b, u) <=> Ac!hasSubscriptions(a, u)
  BY <1>2 DEF Frame, Ac!hasSubscriptions
<1>5. Wanted(b)
  BY <1>1, <1>2, <1>4 DEF Wanted, Frame
<1>6. Released(b)
  BY <1>1, <1>2, <1>4 DEF Released, Frame, Ac!hasAnySubscriptions
<1>7. Unmatched(b)
  BY <1>1, <1>2, <1>3 DEF Unmatched, Frame
<1> QED
  BY <1>2, <1>3, <1>5, <1>6, <1>7 DEF Good, b

\* The acceptor listens while a session may want sockets, and accepts the next one then.
LEMMA StartKeeps ==
    ASSUME NEW a, Good(a)
    PROVE  Good(Ac!Start(a)) /\ Same(a, Ac!Start(a))
<1> DEFINE b == Pending(a, a.greeting, a.naming, a.closed, "open")
<1>1. a \in State /\ Wanted(a) /\ Released(a) /\ Emptying(a) /\ Unmatched(a)
  BY DEF Good
<1>2. CASE ~a.listening
  BY <1>2 DEF Ac!Start, Same
<1>3. CASE a.listening
  <2>1. Ac!Start(a) = b
    BY <1>1, <1>3 DEF Ac!Start, State, Pending
  <2>2. a.greeting \in SUBSET Sock /\ a.naming \in SUBSET Sock /\ a.closed \in SUBSET Sock
    BY <1>1 DEF State
  <2>3. /\ b \in State
        /\ b.plan = a.plan /\ b.strand = a.strand /\ b.backlog = a.backlog
        /\ b.stopped = a.stopped /\ b.emptied = a.emptied
        /\ b.base = a.base /\ b.greeting = a.greeting /\ b.naming = a.naming
        /\ Wanted(b) /\ Released(b) /\ Unmatched(b)
    BY <1>1, <2>2, PendingChanges
  <2> HIDE DEF b
  <2>4. ~a.stopped /\ a.emptied = 0
    BY <1>1, <1>3 DEF Emptying
  <2>5. Emptying(b)
    BY <2>3, <2>4 DEF Emptying
  <2> QED
    BY <2>1, <2>3, <2>5 DEF Good, Same
<1> QED
  BY <1>2, <1>3

\* A channel that waits no more leaves the others as they are.
LEMMA CancelChannelKeeps ==
    ASSUME plan \in Plans, NEW a, Good(a), NEW c \in UsedServers
    PROVE  LET b == Ac!CancelChannel(a, c)
           IN  Good(b) /\ Same(a, b)
<1> DEFINE t == Ac!ServerSession(a, c)
           T == {j \in DOMAIN a.channels[t] : a.channels[t][j] = c}
           i == IF T = {} THEN 0 ELSE CHOOSE j \in T : \A l \in T : j <= l
           ch == [a.channels EXCEPT ![t] = Ac!RemoveAt(@, i)]
           less == [a EXCEPT !.channels = ch]
           idle == Ac!RemoveIdle(less, t)
           rest == IF i = 0 THEN a ELSE idle
           b == Ac!CancelChannel(a, c)
<1>1. b = Ac!Give(rest, c, NoSock, FALSE)
  BY DEF Ac!CancelChannel, Ac!FirstIndex
<1>2. a \in State /\ Wanted(a) /\ Released(a) /\ Emptying(a) /\ Unmatched(a)
  BY DEF Good
<1>3. t \in ServerSessions /\ c \in Used
  <2>1. a.plan = Names
    BY <1>2 DEF State
  <2> QED
    BY <2>1, PlanType DEF Names, Ac!ServerSession
<1>4. a.channels \in [ServerSessions -> Seq(UsedServers)] /\ a.channels[t] \in Seq(UsedServers)
  BY <1>2, <1>3 DEF State
<1>5. (i = 0 /\ T = {}) \/ (i # 0 /\ i \in T)
  <2> DEFINE q == a.channels[t]
  <2>1. T \in SUBSET DOMAIN q
    OBVIOUS
  <2>2. q \in Seq(UsedServers)
    BY <1>4
  <2> HIDE DEF T, q, t
  <2>3. \A n : n = (IF T = {} THEN 0 ELSE CHOOSE j \in T : \A l \in T : j <= l)
               => (n = 0 /\ T = {}) \/ (n # 0 /\ n \in T)
    BY <2>1, <2>2, FirstIs
  <2> QED
    BY <2>3
<1> HIDE DEF b
<1>6. Good(rest) /\ Same(a, rest)
  <2>1. CASE i = 0
    <3>1. rest = a
      BY <2>1
    <3> HIDE DEF rest
    <3> QED
      BY <1>2, <3>1 DEF Good, Same
  <2>2. CASE i # 0
    <3>1. rest = idle
      BY <2>2
    <3>2. i \in DOMAIN a.channels[t]
      BY <1>5, <2>2
    <3> HIDE DEF rest, i, T, t
    <3>3. /\ Ac!RemoveAt(a.channels[t], i) \in Seq(UsedServers)
          /\ \A j \in DOMAIN Ac!RemoveAt(a.channels[t], i) :
                \E k \in DOMAIN a.channels[t] : Ac!RemoveAt(a.channels[t], i)[j] = a.channels[t][k]
      BY <1>4, <3>2, WithoutOne, WithoutOneAt
    <3>4. /\ ch \in [ServerSessions -> Seq(UsedServers)]
          /\ ch[t] = Ac!RemoveAt(a.channels[t], i)
          /\ \A u \in ServerSessions \ {t} : ch[u] = a.channels[u]
      BY <1>3, <1>4, <3>3
    <3> HIDE DEF ch
    <3>5. less \in State
      BY <1>2, <3>4 DEF State
    <3>6. /\ Same(a, less) /\ less.channels = ch /\ less.groups = a.groups
          /\ less.unclaimed = a.unclaimed /\ less.claimed = a.claimed
          /\ less.sockets = a.sockets /\ less.sessionID = a.sessionID /\ less.pool = a.pool
          /\ less.released = a.released /\ less.emptied = a.emptied
          /\ less.listening = a.listening /\ less.accepting = a.accepting
      BY <1>2 DEF State, Same
    <3> HIDE DEF less
    <3>7. t \in a.groups
      <4>1. a.channels[t] # <<>>
        BY <1>4, <3>2
      <4> QED
        BY <1>2, <1>3, <4>1 DEF Wanted
    <3>8. WantedBut(less, t)
      <4>1. \A u \in less.groups \ {t} : Ac!hasSubscriptions(less, u)
        <5>1. less.groups \subseteq ServerSessions
          BY <3>5 DEF State
        <5> QED
          BY <1>2, <3>4, <3>6, <5>1 DEF Wanted, Ac!hasSubscriptions, Same
      <4>2. \A u \in ServerSessions : less.channels[u] # <<>> => u \in less.groups
        BY <1>2, <3>4, <3>6, <3>7 DEF Wanted
      <4> QED
        BY <1>2, <3>6, <4>1, <4>2 DEF Wanted, WantedBut, Same
    <3>9. less.released = 0
      <4>1. Ac!hasAnySubscriptions(a)
        BY <1>2, <3>7 DEF Wanted, Ac!hasAnySubscriptions
      <4> QED
        BY <1>2, <3>6, <4>1 DEF Released
    <3>10. Emptying(less)
      <4>1. Ac!Pendings(less) = Ac!Pendings(a)
        BY <3>6 DEF Ac!Pendings, Same
      <4> QED
        BY <1>2, <3>6, <4>1 DEF Emptying, Same
    <3>11. Unmatched(less)
      <4>1. /\ \A r, d : Ac!Matches(less, r, d) <=> Ac!Matches(a, r, d)
            /\ \A d : Ac!ServerSession(less, d) = Ac!ServerSession(a, d)
        BY <3>6 DEF Same, Ac!Matches, Ac!ServerSession
      <4>2. \A u \in less.groups : \A j \in DOMAIN less.channels[u] :
                \E k \in DOMAIN a.channels[u] : less.channels[u][j] = a.channels[u][k]
        <5>1. less.groups \subseteq ServerSessions
          BY <3>5 DEF State
        <5>2. less.channels[t] = Ac!RemoveAt(a.channels[t], i)
          BY <3>4, <3>6
        <5>3. ASSUME NEW j \in DOMAIN less.channels[t]
              PROVE  \E k \in DOMAIN a.channels[t] : less.channels[t][j] = a.channels[t][k]
          BY <3>3, <5>2
        <5>4. ASSUME NEW u \in less.groups, u # t PROVE less.channels[u] = a.channels[u]
          BY <3>4, <3>6, <5>1, <5>4
        <5> QED
          BY <5>3, <5>4
      <4>3. ASSUME NEW u \in less.groups, NEW j \in DOMAIN less.channels[u]
            PROVE  /\ Ac!ServerSession(less, less.channels[u][j]) = u
                   /\ \A k \in DOMAIN less.sockets[u] :
                          ~Ac!Matches(less, less.sockets[u][k], less.channels[u][j])
                   /\ u \in less.unclaimed =>
                          \A g \in DOMAIN less.pool : \A k \in DOMAIN less.pool[g].sockets :
                              ~Ac!Matches(less, less.pool[g].sockets[k], less.channels[u][j])
        <5>1. PICK k \in DOMAIN a.channels[u] : less.channels[u][j] = a.channels[u][k]
          BY <4>2
        <5> QED
          BY <1>2, <3>6, <4>1, <5>1 DEF Unmatched
      <4> QED
        BY <1>2, <3>6, <4>3 DEF Unmatched
    <3>12. Good(idle) /\ Same(less, idle)
      BY <3>5, <3>6, <3>7, <3>8, <3>9, <3>10, <3>11, RemoveIdleGood
    <3> HIDE DEF idle
    <3> QED
      BY <3>1, <3>6, <3>12 DEF Same
  <2> QED
    BY <2>1, <2>2
<1> HIDE DEF rest
<1>7. NoSock \in Sock \cup {NoSock} /\ FALSE \in BOOLEAN
  OBVIOUS
<1>8. Good(b) /\ Same(rest, b)
  BY <1>1, <1>3, <1>6, <1>7, GiveKeeps
<1> QED
  BY <1>6, <1>8 DEF Same, b

\* A session that is ended is kept while a channel of it waits.
LEMMA UnsubscribeKeeps ==
    ASSUME plan \in Plans, NEW a, Good(a), NEW t \in a.base
    PROVE  LET b == Ac!Unsubscribe(a, t)
           IN  /\ Good(b) /\ ~b.stopped /\ ~a.stopped
               /\ b.plan = a.plan /\ b.strand = a.strand
               /\ b.greeting = a.greeting /\ b.naming = a.naming
               /\ b.base = a.base \ {t} /\ b.backlog \subseteq a.backlog
<1> DEFINE bs == a.base \ {t}
           c == [a EXCEPT !.base = bs]
           b == Ac!RemoveIdle(c, t)
<1>1. a \in State /\ Wanted(a) /\ Released(a) /\ Emptying(a) /\ Unmatched(a)
  BY DEF Good
<1>2. ~a.stopped /\ a.released = 0 /\ a.emptied = 0
  BY <1>1 DEF Emptying, Released
<1>3. bs \in SUBSET ServerSessions
  BY <1>1 DEF State
<1> HIDE DEF bs
<1>4. c \in State
  BY <1>1, <1>3 DEF State
<1>5. /\ c.base = bs /\ c.plan = a.plan /\ c.strand = a.strand /\ c.stopped = a.stopped
      /\ c.greeting = a.greeting /\ c.naming = a.naming /\ c.backlog = a.backlog
      /\ c.groups = a.groups /\ c.unclaimed = a.unclaimed /\ c.claimed = a.claimed
      /\ c.channels = a.channels /\ c.sockets = a.sockets /\ c.sessionID = a.sessionID
      /\ c.pool = a.pool /\ c.released = a.released /\ c.emptied = a.emptied
  BY <1>1 DEF State
<1>6. Ac!Unsubscribe(a, t) = b
  <2>1. Ac!Unsubscribe(a, t)
        = Ac!stopListening(IF Ac!hasSubscriptions(c, t) THEN c ELSE Ac!RemoveGroup(c, t))
    BY DEF Ac!Unsubscribe, bs
  <2>2. CASE Ac!hasSubscriptions(c, t)
    <3>1. Ac!hasAnySubscriptions(c)
      BY <1>1, <1>5, <2>2 DEF Ac!hasAnySubscriptions, Wanted
    <3>2. Ac!stopListening(c) = c
      BY <3>1 DEF Ac!stopListening
    <3> QED
      BY <2>1, <2>2, <3>2 DEF Ac!RemoveIdle
  <2>3. CASE ~Ac!hasSubscriptions(c, t)
    BY <2>1, <2>3 DEF Ac!RemoveIdle
  <2> QED
    BY <2>2, <2>3
<1> HIDE DEF c
<1>7. WantedBut(c, t)
  <2>1. \A u \in c.groups \ {t} : Ac!hasSubscriptions(c, u)
    BY <1>1, <1>5 DEF Wanted, Ac!hasSubscriptions, bs
  <2> QED
    BY <1>1, <1>5, <2>1 DEF Wanted, WantedBut, bs
<1>8. Emptying(c)
  BY <1>2, <1>5 DEF Emptying
<1>9. Unmatched(c)
  <2>1. /\ \A r, d : Ac!Matches(c, r, d) <=> Ac!Matches(a, r, d)
        /\ \A d : Ac!ServerSession(c, d) = Ac!ServerSession(a, d)
    BY <1>5 DEF Ac!Matches, Ac!ServerSession
  <2> QED
    BY <1>1, <1>5, <2>1 DEF Unmatched
<1>10. t \in c.groups
  BY <1>1, <1>5 DEF Wanted
<1>11. Good(b) /\ Same(c, b)
  BY <1>2, <1>4, <1>5, <1>7, <1>8, <1>9, <1>10, RemoveIdleGood
<1> HIDE DEF b
<1> QED
  BY <1>2, <1>5, <1>6, <1>11 DEF Same, bs

\* stop() sets the promises of what has ended already.
LEMMA StopKeeps ==
    ASSUME NEW a, Good(a), ~a.stopped, a.base = {}
    PROVE  LET b == Ac!Stop(a)
           IN  /\ Good(b) /\ b.stopped
               /\ b.plan = a.plan /\ b.strand = a.strand
               /\ b.greeting = a.greeting /\ b.naming = a.naming
               /\ b.base = a.base /\ b.backlog \subseteq a.backlog
<1> DEFINE r == IF a.accepting = "open" THEN "aborted" ELSE a.accepting
           d == a.closed \cup a.backlog \cup a.greeting \cup a.naming
           n == IF Ac!hasAnySubscriptions(a) THEN a.released ELSE a.released + 1
           b == [a EXCEPT !.stopped = TRUE, !.listening = FALSE, !.accepting = r,
                          !.closed = d, !.backlog = {}, !.released = n]
<1>1. a \in State /\ Wanted(a) /\ Released(a) /\ Emptying(a) /\ Unmatched(a)
  BY DEF Good
<1>2. a.released = 0 /\ a.emptied = 0
  BY <1>1 DEF Emptying, Released
<1>3. r \in {"open", "aborted", "none"} /\ r # "open" /\ d \in SUBSET Sock /\ n \in Nat
  BY <1>1 DEF State
<1>4. Ac!Stop(a) = Ac!Emptied(b)
  <2> DEFINE c == [a EXCEPT !.stopped = TRUE, !.listening = FALSE, !.accepting = r,
                            !.closed = d, !.backlog = {}]
  <2>1. Ac!Stop(a) = Ac!Emptied([c EXCEPT !.released = IF Ac!hasAnySubscriptions(c) THEN @ ELSE @ + 1])
    BY DEF Ac!Stop
  <2>2. c.groups = a.groups /\ c.channels = a.channels /\ c.base = a.base /\ c.released = a.released
    BY <1>1 DEF State
  <2>3. Ac!hasAnySubscriptions(c) <=> Ac!hasAnySubscriptions(a)
    <3> HIDE DEF c
    <3> QED
      BY <2>2 DEF Ac!hasAnySubscriptions, Ac!hasSubscriptions
  <2>4. [c EXCEPT !.released = n] = b
    <3> HIDE DEF r, d, n
    <3> QED
      BY <1>1 DEF State
  <2>5. [c EXCEPT !.released = IF Ac!hasAnySubscriptions(c) THEN @ ELSE @ + 1]
        = [c EXCEPT !.released = n]
    <3> HIDE DEF c
    <3> QED
      BY <2>2, <2>3
  <2> QED
    BY <2>1, <2>4, <2>5
<1>5. n = IF Ac!hasAnySubscriptions(a) THEN 0 ELSE 1
  BY <1>2
<1> HIDE DEF r, d, n
<1>6. b \in State
  BY <1>1, <1>3 DEF State
<1>7. /\ b.stopped = TRUE /\ b.listening = FALSE /\ b.accepting = r /\ b.backlog = {}
      /\ b.released = n /\ b.emptied = a.emptied /\ b.plan = a.plan /\ b.strand = a.strand
      /\ b.greeting = a.greeting /\ b.naming = a.naming /\ b.base = a.base
      /\ b.groups = a.groups /\ b.unclaimed = a.unclaimed /\ b.claimed = a.claimed
      /\ b.channels = a.channels /\ b.sockets = a.sockets /\ b.sessionID = a.sessionID
      /\ b.pool = a.pool
  BY <1>1 DEF State
<1> HIDE DEF b
<1>8. /\ \A s, c : Ac!Matches(b, s, c) <=> Ac!Matches(a, s, c)
      /\ \A c : Ac!ServerSession(b, c) = Ac!ServerSession(a, c)
      /\ \A u : Ac!hasSubscriptions(b, u) <=> Ac!hasSubscriptions(a, u)
  BY <1>7 DEF Ac!Matches, Ac!ServerSession, Ac!hasSubscriptions
<1>9. Wanted(b)
  BY <1>1, <1>7, <1>8 DEF Wanted
<1>10. Released(b)
  BY <1>5, <1>7, <1>8 DEF Released, Ac!hasAnySubscriptions
<1>11. Unmatched(b)
  BY <1>1, <1>7, <1>8 DEF Unmatched
<1> DEFINE e == Ac!Emptied(b)
<1>12. Good(e) /\ Same(b, e)
  BY <1>2, <1>3, <1>6, <1>7, <1>9, <1>10, <1>11, EmptiedKeeps
<1> HIDE DEF e
<1> QED
  BY <1>4, <1>7, <1>12 DEF Same, e

-----------------------------------------------------------------------------
(* Steps of the acceptor                                                   *)

\* Between two tasks nothing is given, and nothing closed.
Between(a) == Good(a) /\ a.given = [c \in Used |-> <<>>] /\ a.closed = {}

\* While the plan does not change, neither does what a state of the acceptor is.
LEMMA PlanKept ==
    ASSUME plan' = plan
    PROVE  /\ Used' = Used /\ UsedServers' = UsedServers /\ UsedClients' = UsedClients
           /\ ServerSessions' = ServerSessions /\ ClientSessions' = ClientSessions
           /\ Sock' = Sock /\ State' = State
<1>1. /\ Used' = Used /\ UsedServers' = UsedServers /\ UsedClients' = UsedClients
      /\ ServerSessions' = ServerSessions
  BY DEF Used, UsedServers, UsedClients, ServerSessions
<1>2. ClientSessions' = ClientSessions /\ Sock' = Sock
  BY <1>1 DEF ClientSessions, Sock
<1>3. Gift' = Gift /\ Group' = Group /\ Task' = Task /\ Names' = Names
  BY <1>1, <1>2 DEF Gift, Group, Task, Names
<1> QED
  BY <1>1, <1>2, <1>3 DEF State

\* The state after a step, as seen after it.
LEMMA GoodKept ==
    ASSUME plan' = plan, Good(acc')
    PROVE  Good(acc)'
<1>1. /\ ServerSessions' = ServerSessions /\ ClientSessions' = ClientSessions
      /\ State' = State
  BY PlanKept
<1> QED
  BY <1>1 DEF Good, Wanted, Released, Emptying, Unmatched

\* The channels are told what they are given, and the acceptor is between two tasks.
LEMMA AcceptedKeeps ==
    ASSUME plan' = plan, NEW a, Good(a), Accepted(a)
    PROVE  Between(acc)' /\ Same(a, acc') /\ acc'.accepting = a.accepting
<1> DEFINE g == [c \in Used |-> <<>>]
           b == [a EXCEPT !.given = g, !.closed = {}]
<1>1. a \in State /\ Wanted(a) /\ Released(a) /\ Emptying(a) /\ Unmatched(a)
  BY DEF Good
<1>2. acc' = b
  BY DEF Accepted
<1>3. g \in [Used -> Seq(Gift)]
  OBVIOUS
<1> HIDE DEF g
<1>4. b \in State
  BY <1>1, <1>3 DEF State
<1>5. b.channels = a.channels /\ b.sockets = a.sockets /\ b.given = g /\ b.closed = {}
  BY <1>1 DEF State
<1>6. /\ Same(a, b) /\ b.groups = a.groups /\ b.unclaimed = a.unclaimed
      /\ b.claimed = a.claimed /\ b.sessionID = a.sessionID /\ b.pool = a.pool
      /\ b.released = a.released /\ b.emptied = a.emptied /\ b.listening = a.listening
      /\ b.accepting = a.accepting
  BY <1>1 DEF State, Same
<1> HIDE DEF b
<1>7. /\ \A s, c : Ac!Matches(b, s, c) <=> Ac!Matches(a, s, c)
      /\ \A c : Ac!ServerSession(b, c) = Ac!ServerSession(a, c)
      /\ \A u : Ac!hasSubscriptions(b, u) <=> Ac!hasSubscriptions(a, u)
      /\ Ac!Pendings(b) = Ac!Pendings(a)
  BY <1>5, <1>6 DEF Same, Ac!Matches, Ac!ServerSession, Ac!hasSubscriptions, Ac!Pendings
<1>8. Wanted(b)
  BY <1>1, <1>5, <1>6, <1>7 DEF Wanted, Same
<1>9. Released(b)
  BY <1>1, <1>6, <1>7 DEF Released, Same, Ac!hasAnySubscriptions
<1>10. Emptying(b)
  BY <1>1, <1>6, <1>7 DEF Emptying, Same
<1>11. Unmatched(b)
  BY <1>1, <1>5, <1>6, <1>7 DEF Unmatched
<1>12. Good(acc)'
  BY <1>2, <1>4, <1>8, <1>9, <1>10, <1>11, GoodKept DEF Good
<1>13. Used' = Used
  BY PlanKept
<1> QED
  BY <1>2, <1>5, <1>6, <1>12, <1>13 DEF Between, g

\* A task is told the acceptor.
LEMMA TellKeeps ==
    ASSUME plan' = plan, Between(acc), NEW task \in Task, Tell(task)
    PROVE  /\ Between(acc)'
           /\ acc'.strand = Append(acc.strand, task)
           /\ acc'.stopped = acc.stopped /\ acc'.base = acc.base
           /\ acc'.greeting = acc.greeting /\ acc'.naming = acc.naming
           /\ acc'.backlog = acc.backlog
<1> DEFINE q == Append(acc.strand, task)
           b == [acc EXCEPT !.strand = q]
<1>1. /\ acc \in State /\ Wanted(acc) /\ Released(acc) /\ Emptying(acc) /\ Unmatched(acc)
      /\ acc.given = [c \in Used |-> <<>>] /\ acc.closed = {}
  BY DEF Good, Between
<1>2. acc' = b
  BY DEF Tell
<1>3. q \in Seq(Task)
  BY <1>1 DEF State
<1> HIDE DEF q
<1>4. b \in State
  BY <1>1, <1>3 DEF State
<1>5. /\ b.strand = q /\ b.given = acc.given /\ b.closed = acc.closed /\ b.plan = acc.plan
      /\ b.stopped = acc.stopped /\ b.base = acc.base /\ b.greeting = acc.greeting
      /\ b.naming = acc.naming /\ b.backlog = acc.backlog
      /\ b.groups = acc.groups /\ b.unclaimed = acc.unclaimed /\ b.claimed = acc.claimed
      /\ b.channels = acc.channels /\ b.sockets = acc.sockets
      /\ b.sessionID = acc.sessionID /\ b.pool = acc.pool
      /\ b.released = acc.released /\ b.emptied = acc.emptied /\ b.listening = acc.listening
      /\ b.accepting = acc.accepting
  BY <1>1 DEF State
<1> HIDE DEF b
<1>6. Good(b)
  <2>1. /\ \A s, c : Ac!Matches(b, s, c) <=> Ac!Matches(acc, s, c)
        /\ \A c : Ac!ServerSession(b, c) = Ac!ServerSession(acc, c)
        /\ \A u : Ac!hasSubscriptions(b, u) <=> Ac!hasSubscriptions(acc, u)
        /\ Ac!Pendings(b) = Ac!Pendings(acc)
    BY <1>5 DEF Ac!Matches, Ac!ServerSession, Ac!hasSubscriptions, Ac!Pendings
  <2>2. Wanted(b)
    BY <1>1, <1>5, <2>1 DEF Wanted
  <2>3. Released(b)
    BY <1>1, <1>5, <2>1 DEF Released, Ac!hasAnySubscriptions
  <2>4. Emptying(b)
    BY <1>1, <1>5, <2>1 DEF Emptying
  <2>5. Unmatched(b)
    BY <1>1, <1>5, <2>1 DEF Unmatched
  <2> QED
    BY <1>4, <2>2, <2>3, <2>4, <2>5 DEF Good
<1>7. Good(acc)'
  BY <1>2, <1>6, GoodKept
<1>8. Used' = Used
  BY PlanKept
<1> QED
  BY <1>1, <1>2, <1>5, <1>7, <1>8 DEF Between, q

-----------------------------------------------------------------------------
(* The order of the tasks                                                  *)

\* Tasks of two kinds, or for two of a kind, are two.
LEMMA TasksDiffer ==
    /\ \A c, d : Ac!GetTask(c) = Ac!GetTask(d) => c = d
    /\ \A t, u : Ac!UnsubscribeTask(t) = Ac!UnsubscribeTask(u) => t = u
    /\ \A s, r : Ac!SetTask(s) = Ac!SetTask(r) => s = r
    /\ \A c, t : Ac!GetTask(c) # Ac!UnsubscribeTask(t)
    /\ \A c, s : Ac!GetTask(c) # Ac!SetTask(s)
    /\ \A s, t : Ac!SetTask(s) # Ac!UnsubscribeTask(t)
    /\ \A c : Ac!StopTask # Ac!GetTask(c)
    /\ \A t : Ac!StopTask # Ac!UnsubscribeTask(t)
    /\ \A s : Ac!StopTask # Ac!SetTask(s)
<1>1. /\ \A c : Ac!GetTask(c).do = "get" /\ Ac!GetTask(c).of = c
      /\ \A t : Ac!UnsubscribeTask(t).do = "unsubscribe" /\ Ac!UnsubscribeTask(t).of = t
      /\ \A s : Ac!SetTask(s).do = "set" /\ Ac!SetTask(s).of = s
      /\ Ac!StopTask.do = "stop"
  BY DEF Ac!GetTask, Ac!UnsubscribeTask, Ac!SetTask, Ac!StopTask
<1>2. \A c, d : Ac!GetTask(c) = Ac!GetTask(d) => c = d
  BY <1>1
<1>3. \A t, u : Ac!UnsubscribeTask(t) = Ac!UnsubscribeTask(u) => t = u
  BY <1>1
<1>4. \A s, r : Ac!SetTask(s) = Ac!SetTask(r) => s = r
  BY <1>1
<1>5. /\ \A c, t : Ac!GetTask(c) # Ac!UnsubscribeTask(t)
      /\ \A c, s : Ac!GetTask(c) # Ac!SetTask(s)
      /\ \A s, t : Ac!SetTask(s) # Ac!UnsubscribeTask(t)
  BY <1>1
<1>6. /\ \A c : Ac!StopTask # Ac!GetTask(c)
      /\ \A t : Ac!StopTask # Ac!UnsubscribeTask(t)
      /\ \A s : Ac!StopTask # Ac!SetTask(s)
  BY <1>1
<1> QED
  BY <1>2, <1>3, <1>4, <1>5, <1>6

\* Channels stay open.
StaysOpen == \A c \in UsedServers : Opened(c) => Opened(c)'

\* A step that leaves the strand alone, and the names that are on it.
LEMMA InOrderStays ==
    ASSUME plan' = plan, InOrder, StaysOpen, ending' = ending,
           acc'.strand = acc.strand, acc'.base = acc.base, acc'.stopped = acc.stopped,
           \A s \in Sock : (\E i \in Nat : At(i, Ac!SetTask(s))) => s \in acc'.naming
    PROVE  InOrder'
<1>1. \A i, task : At(i, task)' <=> At(i, task)
  BY DEF At
<1>2. UsedServers' = UsedServers /\ ServerSessions' = ServerSessions /\ Sock' = Sock
  BY PlanKept
<1>3. Unended'
  BY <1>2 DEF InOrder, Unended, StaysOpen
<1>4. GetsFirst' /\ EndsOnce' /\ StopsLast'
  BY <1>1, <1>2 DEF InOrder, GetsFirst, EndsOnce, StopsLast
<1>5. NamesOnce'
  BY <1>1, <1>2 DEF InOrder, NamesOnce
<1> QED
  BY <1>3, <1>4, <1>5 DEF InOrder

\* A step that puts a task at the end of the strand.
LEMMA InOrderTold ==
    ASSUME plan' = plan, InOrder, Unended', NEW task,
           acc.strand \in Seq(Task), acc'.strand = Append(acc.strand, task),
           acc'.base = acc.base, acc'.stopped = acc.stopped, acc'.naming = acc.naming,
           \A c \in UsedServers : task = Ac!GetTask(c) =>
               plan.session[c] \in ServerSessions \ ending,
           \A s \in Sock : task = Ac!SetTask(s) =>
               s \in acc.naming /\ \A i \in Nat : ~At(i, task),
           \/ ending' = ending /\ task # Ac!StopTask
              /\ \A t \in ServerSessions : task # Ac!UnsubscribeTask(t)
           \/ \E t \in ServerSessions \ ending :
                 ending' = ending \cup {t} /\ task = Ac!UnsubscribeTask(t)
           \/ /\ ending' = ending \cup {NoSession} /\ task = Ac!StopTask
              /\ NoSession \notin ending /\ ServerSessions \subseteq ending,
           NoSession \notin ServerSessions, acc.base \subseteq ServerSessions
    PROVE  InOrder'
<1> DEFINE n == Len(acc.strand) + 1
<1>1. n \in Nat /\ \A i, k : At(i, k) => i \in Nat /\ i < n
  BY DEF At
<1>2. \A i, k : At(i, k)' <=> At(i, k) \/ (i = n /\ k = task)
  <2>1. /\ DOMAIN acc'.strand = 1 .. n /\ acc'.strand[n] = task
        /\ \A i \in 1 .. n - 1 : acc'.strand[i] = acc.strand[i]
        /\ DOMAIN acc.strand = 1 .. n - 1
    OBVIOUS
  <2> QED
    BY <1>1, <2>1 DEF At
<1> HIDE DEF n
<1>3. UsedServers' = UsedServers /\ ServerSessions' = ServerSessions /\ Sock' = Sock
  BY PlanKept
<1>4. GetsFirst'
  <2> SUFFICES ASSUME NEW i \in Nat, NEW c \in UsedServers, At(i, Ac!GetTask(c))'
      PROVE  /\ plan.session[c] \in acc.base
             /\ \A j \in Nat : At(j, Ac!UnsubscribeTask(plan.session[c]))' => i < j
    BY <1>3 DEF GetsFirst
  <2>1. CASE At(i, Ac!GetTask(c))
    <3>1. i < n /\ plan.session[c] \in acc.base
      BY <1>1, <2>1 DEF InOrder, GetsFirst
    <3> QED
      BY <1>2, <2>1, <3>1 DEF InOrder, GetsFirst
  <2>2. CASE i = n /\ Ac!GetTask(c) = task
    <3>1. plan.session[c] \in ServerSessions \ ending
      BY <2>2
    <3>2. /\ plan.session[c] \in acc.base
          /\ \A j \in Nat : ~At(j, Ac!UnsubscribeTask(plan.session[c]))
      BY <3>1 DEF InOrder, EndsOnce
    <3> QED
      BY <1>2, <2>2, <3>2, TasksDiffer
  <2> QED
    BY <1>2, <2>1, <2>2
<1>5. EndsOnce'
  <2> SUFFICES ASSUME NEW t \in ServerSessions
      PROVE  /\ t \notin ending' => t \in acc.base
                                    /\ \A i \in Nat : ~At(i, Ac!UnsubscribeTask(t))'
             /\ t \in ending' => (t \in acc.base <=> \E i \in Nat : At(i, Ac!UnsubscribeTask(t))')
             /\ \A i, j \in Nat :
                    At(i, Ac!UnsubscribeTask(t))' /\ At(j, Ac!UnsubscribeTask(t))' => i = j
    BY <1>3 DEF EndsOnce
  <2>1. CASE task = Ac!UnsubscribeTask(t)
    <3>1. t \notin ending /\ t \in ending'
      BY <2>1, TasksDiffer
    <3>2. t \in acc.base /\ \A i \in Nat : ~At(i, Ac!UnsubscribeTask(t))
      BY <3>1 DEF InOrder, EndsOnce
    <3>3. \A i : At(i, Ac!UnsubscribeTask(t))' <=> i = n
      BY <1>1, <1>2, <2>1, <3>2
    <3> QED
      BY <1>1, <3>1, <3>2, <3>3
  <2>2. CASE task # Ac!UnsubscribeTask(t)
    <3>1. t \in ending' <=> t \in ending
      BY <2>2
    <3>2. \A i : At(i, Ac!UnsubscribeTask(t))' <=> At(i, Ac!UnsubscribeTask(t))
      BY <1>2, <2>2
    <3> QED
      BY <3>1, <3>2 DEF InOrder, EndsOnce
  <2> QED
    BY <2>1, <2>2
<1>6. StopsLast'
  <2>1. acc.stopped => NoSession \in ending'
    BY DEF InOrder, StopsLast
  <2>2. ASSUME NEW i \in Nat, At(i, Ac!StopTask)'
        PROVE  /\ ~acc.stopped /\ NoSession \in ending'
               /\ \A t \in acc.base : \E j \in Nat : j < i /\ At(j, Ac!UnsubscribeTask(t))'
               /\ \A j \in Nat : At(j, Ac!StopTask)' => i = j
    <3>1. CASE task # Ac!StopTask
      <4>1. \A j : At(j, Ac!StopTask)' <=> At(j, Ac!StopTask)
        BY <1>2, <3>1
      <4>2. At(i, Ac!StopTask)
        BY <2>2, <4>1
      <4>3. /\ ~acc.stopped /\ NoSession \in ending
            /\ \A t \in acc.base : \E j \in Nat : j < i /\ At(j, Ac!UnsubscribeTask(t))
            /\ \A j \in Nat : At(j, Ac!StopTask) => i = j
        BY <4>2 DEF InOrder, StopsLast
      <4>4. NoSession \in ending'
        BY <4>3
      <4> QED
        BY <1>2, <4>1, <4>3, <4>4
    <3>2. CASE task = Ac!StopTask
      <4>1. /\ ending' = ending \cup {NoSession}
            /\ NoSession \notin ending /\ ServerSessions \subseteq ending
        BY <3>2, TasksDiffer
      <4>2. ~acc.stopped /\ \A j \in Nat : ~At(j, Ac!StopTask)
        BY <4>1 DEF InOrder, StopsLast
      <4>3. i = n /\ \A j \in Nat : At(j, Ac!StopTask)' => j = n
        BY <1>2, <2>2, <4>2
      <4>4. ASSUME NEW t \in acc.base
            PROVE  \E j \in Nat : j < i /\ At(j, Ac!UnsubscribeTask(t))'
        <5>1. t \in ServerSessions /\ t \in ending
          BY <4>1
        <5>2. PICK j \in Nat : At(j, Ac!UnsubscribeTask(t))
          BY <5>1 DEF InOrder, EndsOnce
        <5> QED
          BY <1>1, <1>2, <4>3, <5>2
      <4> QED
        BY <4>1, <4>2, <4>3, <4>4
    <3> QED
      BY <3>1, <3>2
  <2> QED
    BY <2>1, <2>2 DEF StopsLast
<1>7. NamesOnce'
  <2> SUFFICES ASSUME NEW s \in Sock, NEW i \in Nat, NEW j \in Nat, At(i, Ac!SetTask(s))'
      PROVE  s \in acc.naming /\ (At(j, Ac!SetTask(s))' => i = j)
    BY <1>3 DEF NamesOnce
  <2>1. CASE task = Ac!SetTask(s)
    <3>1. s \in acc.naming /\ \A k \in Nat : ~At(k, Ac!SetTask(s))
      BY <2>1
    <3> QED
      BY <1>2, <3>1
  <2>2. CASE task # Ac!SetTask(s)
    BY <1>2, <2>2 DEF InOrder, NamesOnce
  <2> QED
    BY <2>1, <2>2
<1> QED
  BY <1>4, <1>5, <1>6, <1>7 DEF InOrder

\* A step that does the first task of the strand.
LEMMA InOrderDone ==
    ASSUME plan' = plan, InOrder, StaysOpen, ending' = ending,
           acc.strand \in Seq(Task), acc.strand # <<>>, acc'.strand = Tail(acc.strand),
           \A t : t \in acc'.base <=> t \in acc.base /\ Head(acc.strand) # Ac!UnsubscribeTask(t),
           acc'.stopped <=> acc.stopped \/ Head(acc.strand) = Ac!StopTask,
           \A s \in acc.naming : Head(acc.strand) # Ac!SetTask(s) => s \in acc'.naming
    PROVE  InOrder'
<1> DEFINE task == Head(acc.strand)
<1>1. \A k : \A i \in Nat : At(i, k)' => At(i + 1, k) /\ i + 1 # 1
  BY DEF At
<1>2. \A k : At(1, k) <=> task = k
  BY DEF At
<1>3. \A k : \A i \in Nat : At(i, k) /\ i # 1 => i - 1 \in Nat /\ At(i - 1, k)'
  BY DEF At
<1>4. UsedServers' = UsedServers /\ ServerSessions' = ServerSessions /\ Sock' = Sock
  BY PlanKept
<1> HIDE DEF task
<1>5. Unended'
  BY <1>4 DEF InOrder, Unended, StaysOpen
<1>6. GetsFirst'
  <2> SUFFICES ASSUME NEW i \in Nat, NEW c \in UsedServers, At(i, Ac!GetTask(c))'
      PROVE  /\ plan.session[c] \in acc'.base
             /\ \A j \in Nat : At(j, Ac!UnsubscribeTask(plan.session[c]))' => i < j
    BY <1>4 DEF GetsFirst
  <2>1. At(i + 1, Ac!GetTask(c))
    BY <1>1
  <2>2. /\ plan.session[c] \in acc.base
        /\ \A j \in Nat : At(j, Ac!UnsubscribeTask(plan.session[c])) => i + 1 < j
    BY <2>1 DEF InOrder, GetsFirst
  <2>3. task # Ac!UnsubscribeTask(plan.session[c])
    BY <1>2, <2>2
  <2>4. ASSUME NEW j \in Nat, At(j, Ac!UnsubscribeTask(plan.session[c]))' PROVE i < j
    <3>1. At(j + 1, Ac!UnsubscribeTask(plan.session[c]))
      BY <1>1, <2>4
    <3>2. i + 1 < j + 1
      BY <2>2, <3>1
    <3> QED
      BY <3>2
  <2> QED
    BY <2>2, <2>3, <2>4 DEF task
<1>7. EndsOnce'
  <2> SUFFICES ASSUME NEW t \in ServerSessions
      PROVE  /\ t \notin ending => t \in acc'.base
                                   /\ \A i \in Nat : ~At(i, Ac!UnsubscribeTask(t))'
             /\ t \in ending => (t \in acc'.base <=> \E i \in Nat : At(i, Ac!UnsubscribeTask(t))')
             /\ \A i, j \in Nat :
                    At(i, Ac!UnsubscribeTask(t))' /\ At(j, Ac!UnsubscribeTask(t))' => i = j
    BY <1>4 DEF EndsOnce
  <2>1. CASE task = Ac!UnsubscribeTask(t)
    <3>1. At(1, Ac!UnsubscribeTask(t)) /\ t \notin acc'.base
      BY <1>2, <2>1 DEF task
    <3>2. t \in ending
      BY <3>1 DEF InOrder, EndsOnce
    <3>3. \A i \in Nat : ~At(i, Ac!UnsubscribeTask(t))'
      <4>1. ASSUME NEW i \in Nat, At(i, Ac!UnsubscribeTask(t))' PROVE FALSE
        <5>1. At(i + 1, Ac!UnsubscribeTask(t)) /\ i + 1 # 1 /\ i + 1 \in Nat /\ 1 \in Nat
          BY <1>1, <4>1
        <5> QED
          BY <3>1, <5>1 DEF InOrder, EndsOnce
      <4> QED
        BY <4>1
    <3> QED
      BY <3>1, <3>2, <3>3
  <2>2. CASE task # Ac!UnsubscribeTask(t)
    <3>1. t \in acc'.base <=> t \in acc.base
      BY <2>2 DEF task
    <3>2. (\E i \in Nat : At(i, Ac!UnsubscribeTask(t))')
          <=> (\E i \in Nat : At(i, Ac!UnsubscribeTask(t)))
      <4>1. ASSUME NEW i \in Nat, At(i, Ac!UnsubscribeTask(t))
            PROVE  \E j \in Nat : At(j, Ac!UnsubscribeTask(t))'
        <5>1. i # 1
          BY <1>2, <2>2, <4>1
        <5> QED
          BY <1>3, <4>1, <5>1
      <4>2. ASSUME NEW i \in Nat, At(i, Ac!UnsubscribeTask(t))'
            PROVE  \E j \in Nat : At(j, Ac!UnsubscribeTask(t))
        BY <1>1, <4>2
      <4> QED
        BY <4>1, <4>2
    <3>3. ASSUME NEW i \in Nat, NEW j \in Nat,
                 At(i, Ac!UnsubscribeTask(t))', At(j, Ac!UnsubscribeTask(t))'
          PROVE  i = j
      <4>1. /\ At(i + 1, Ac!UnsubscribeTask(t)) /\ At(j + 1, Ac!UnsubscribeTask(t))
            /\ i + 1 \in Nat /\ j + 1 \in Nat
        BY <1>1, <3>3
      <4>2. i + 1 = j + 1
        BY <4>1 DEF InOrder, EndsOnce
      <4> QED
        BY <4>2
    <3>4. /\ t \notin ending => t \in acc.base /\ \A i \in Nat : ~At(i, Ac!UnsubscribeTask(t))
          /\ t \in ending => (t \in acc.base <=> \E i \in Nat : At(i, Ac!UnsubscribeTask(t)))
      BY DEF InOrder, EndsOnce
    <3> QED
      BY <3>1, <3>2, <3>3, <3>4
  <2> QED
    BY <2>1, <2>2
<1>8. StopsLast'
  <2>1. acc'.stopped => NoSession \in ending
    <3>1. CASE task = Ac!StopTask
      BY <1>2, <3>1 DEF InOrder, StopsLast
    <3>2. CASE task # Ac!StopTask
      BY <3>2 DEF InOrder, StopsLast, task
    <3> QED
      BY <3>1, <3>2
  <2>2. ASSUME NEW i \in Nat, At(i, Ac!StopTask)'
        PROVE  /\ ~acc'.stopped /\ NoSession \in ending
               /\ \A t \in acc'.base : \E j \in Nat : j < i /\ At(j, Ac!UnsubscribeTask(t))'
               /\ \A j \in Nat : At(j, Ac!StopTask)' => i = j
    <3>1. At(i + 1, Ac!StopTask) /\ i + 1 # 1 /\ i + 1 \in Nat /\ 1 \in Nat
      BY <1>1, <2>2
    <3>2. /\ ~acc.stopped /\ NoSession \in ending
          /\ \A t \in acc.base : \E j \in Nat : j < i + 1 /\ At(j, Ac!UnsubscribeTask(t))
          /\ \A j \in Nat : At(j, Ac!StopTask) => i + 1 = j
      BY <3>1 DEF InOrder, StopsLast
    <3>3. task # Ac!StopTask
      BY <1>2, <3>1, <3>2
    <3>4. ASSUME NEW t \in acc'.base
          PROVE  \E j \in Nat : j < i /\ At(j, Ac!UnsubscribeTask(t))'
      <4>1. t \in acc.base /\ task # Ac!UnsubscribeTask(t)
        BY DEF task
      <4>2. PICK j \in Nat : j < i + 1 /\ At(j, Ac!UnsubscribeTask(t))
        BY <3>2, <4>1
      <4>3. j # 1
        BY <1>2, <4>1, <4>2
      <4>4. j - 1 \in Nat /\ At(j - 1, Ac!UnsubscribeTask(t))' /\ j - 1 < i
        BY <1>3, <4>2, <4>3
      <4> QED
        BY <4>4
    <3>5. ASSUME NEW j \in Nat, At(j, Ac!StopTask)' PROVE i = j
      <4>1. At(j + 1, Ac!StopTask) /\ j + 1 \in Nat
        BY <1>1, <3>5
      <4>2. i + 1 = j + 1
        BY <3>2, <4>1
      <4> QED
        BY <4>2
    <3> QED
      BY <3>2, <3>3, <3>4, <3>5 DEF task
  <2> QED
    BY <2>1, <2>2 DEF StopsLast
<1>9. NamesOnce'
  <2> SUFFICES ASSUME NEW s \in Sock, NEW i \in Nat, NEW j \in Nat, At(i, Ac!SetTask(s))'
      PROVE  s \in acc'.naming /\ (At(j, Ac!SetTask(s))' => i = j)
    BY <1>4 DEF NamesOnce
  <2>1. At(i + 1, Ac!SetTask(s)) /\ i + 1 # 1 /\ i + 1 \in Nat /\ 1 \in Nat
    BY <1>1
  <2>2. s \in acc.naming /\ \A k \in Nat : At(k, Ac!SetTask(s)) => i + 1 = k
    BY <2>1 DEF InOrder, NamesOnce
  <2>3. task # Ac!SetTask(s)
    BY <1>2, <2>1, <2>2
  <2>4. At(j, Ac!SetTask(s))' => i = j
    <3>1. At(j, Ac!SetTask(s))' => At(j + 1, Ac!SetTask(s)) /\ j + 1 \in Nat
      BY <1>1
    <3>2. At(j, Ac!SetTask(s))' => i + 1 = j + 1
      BY <2>2, <3>1
    <3> QED
      BY <3>2
  <2> QED
    BY <2>2, <2>3, <2>4 DEF task
<1> QED
  BY <1>5, <1>6, <1>7, <1>8, <1>9 DEF InOrder

-----------------------------------------------------------------------------
(* Attempts                                                                *)

\* No attempt is made, from one set of operations to another.
NoMore(A, B) ==
    /\ B \in SUBSET Op
    /\ \A n \in Nat : Attempted(n, A) => Attempted(n, B)
    /\ \A o \in B : o.op = "connect" => \E q \in A : q.op = "connect" /\ q.n = o.n

\* Twice no attempt is made.
LEMMA NoMoreTwice ==
    ASSUME NEW A, NEW B, NEW C, NoMore(A, B), NoMore(B, C)
    PROVE  NoMore(A, C)
<1>1. ASSUME NEW o \in C, o.op = "connect"
      PROVE  \E q \in A : q.op = "connect" /\ q.n = o.n
  <2>1. PICK p \in B : p.op = "connect" /\ p.n = o.n
    BY <1>1 DEF NoMore
  <2>2. PICK q \in A : q.op = "connect" /\ q.n = p.n
    BY <2>1 DEF NoMore
  <2> QED
    BY <2>1, <2>2
<1> QED
  BY <1>1 DEF NoMore

\* Operations end, and others than attempts begin.
LEMMA NoMoreBut ==
    ASSUME NEW A \in SUBSET Op, NEW B \in SUBSET Op, NEW C \in SUBSET Op,
           B \subseteq A \cup C, \A o \in C : o.op # "connect"
    PROVE  NoMore(A, B)
BY DEF NoMore, Attempted

\* Operations end.
LEMMA NoMoreLess ==
    ASSUME NEW A \in SUBSET Op, NEW B, B \subseteq A
    PROVE  NoMore(A, B)
BY DEF NoMore, Attempted

\* Another one than an attempt begins.
LEMMA NoMoreAdd ==
    ASSUME NEW A \in SUBSET Op, NEW o \in Op, o.op # "connect"
    PROVE  NoMore(A, A \cup {o})
BY NoMoreBut, A \cup {o} \in SUBSET Op, {o} \in SUBSET Op

\* A handler waits for what is not an attempt.
LEMMA WaitIs ==
    ASSUME NEW op \in {"timeout", "connect", "retry", "read", "write"}, NEW n \in Nat
    PROVE  Wait(op, n) \in Op /\ Wait(op, n).op = op /\ Wait(op, n).n = n
BY DEF Wait, Op

\* The timer is canceled.
LEMMA AbortedIs ==
    ASSUME NEW A \in SUBSET Op
    PROVE  NoMore(A, Aborted(A))
<1> DEFINE f(o) == IF o.op \in {"timeout", "retry"} THEN [o EXCEPT !.st = "aborted"] ELSE o
<1>1. Aborted(A) = {f(o) : o \in A}
  BY DEF Aborted
<1>2. \A o \in A : f(o) \in Op /\ (f(o).op = "connect" => f(o) = o)
  BY DEF Op
<1> HIDE DEF f
<1>3. Aborted(A) \in SUBSET Op
  BY <1>1, <1>2
<1>4. \A o \in Aborted(A) : o.op = "connect" => o \in A
  BY <1>1, <1>2
<1> QED
  BY <1>3, <1>4 DEF NoMore, Attempted

\* A socket is canceled, or closed.
LEMMA InterruptedIs ==
    ASSUME NEW A \in SUBSET Op, NEW s, NEW how \in {"canceled", "closed"}
    PROVE  NoMore(A, Interrupted(A, s, how))
<1> DEFINE f(o) == IF o.op \in {"connect", "read", "write"} /\ s # NoSock /\ o.n = s.n
                   THEN [o EXCEPT !.st = IF @ = "closed" THEN @ ELSE how] ELSE o
<1>1. Interrupted(A, s, how) = {f(o) : o \in A}
  BY DEF Interrupted
<1>2. \A o \in A : f(o) \in Op /\ f(o).op = o.op /\ f(o).n = o.n
  <2> SUFFICES ASSUME NEW o \in A PROVE f(o) \in Op /\ f(o).op = o.op /\ f(o).n = o.n
    OBVIOUS
  <2> DEFINE w == IF o.st = "closed" THEN o.st ELSE how
  <2>1. o \in Op /\ w \in {"armed", "aborted", "canceled", "closed"}
    BY DEF Op
  <2>2. f(o) = IF o.op \in {"connect", "read", "write"} /\ s # NoSock /\ o.n = s.n
               THEN [o EXCEPT !.st = w] ELSE o
    OBVIOUS
  <2> HIDE DEF w, f
  <2>3. [o EXCEPT !.st = w] \in Op /\ [o EXCEPT !.st = w].op = o.op /\ [o EXCEPT !.st = w].n = o.n
    BY <2>1 DEF Op
  <2> QED
    BY <2>1, <2>2, <2>3
<1> HIDE DEF f
<1>3. Interrupted(A, s, how) \in SUBSET Op
  BY <1>1, <1>2
<1>4. ASSUME NEW n \in Nat, Attempted(n, A) PROVE Attempted(n, Interrupted(A, s, how))
  <2> SUFFICES ASSUME NEW o \in A, NEW q \in A, f(o).op = "connect", f(q).op = "connect"
      PROVE  f(o).n <= n /\ (f(o).n = f(q).n => f(o) = f(q))
    BY <1>1 DEF Attempted
  <2>1. o.op = "connect" /\ q.op = "connect" /\ f(o).n = o.n /\ f(q).n = q.n
    BY <1>2
  <2> QED
    BY <1>4, <2>1 DEF Attempted
<1>5. \A o \in Interrupted(A, s, how) : o.op = "connect" =>
          \E q \in A : q.op = "connect" /\ q.n = o.n
  BY <1>1, <1>2
<1> QED
  BY <1>3, <1>4, <1>5 DEF NoMore

\* What the record of a channel that connects is.
Made(z) == z = [k |-> z.k, b |-> z.b, shut |-> z.shut] /\ z.k \in Conn

\* A handler that makes no attempt.
Quiet(y, z) == Made(z) /\ z.k.n = y.k.n /\ NoMore(y.k.ops, z.k.ops)

\* Two parts of a handler, one after the other.
LEMMA QuietTwice ==
    ASSUME NEW x, NEW y, NEW z, Quiet(x, y), Quiet(y, z)
    PROVE  Quiet(x, z)
BY NoMoreTwice DEF Quiet

\* The operations of a channel change, and the rest of its record does not.
LEMMA OpsChange ==
    ASSUME NEW k \in Conn, NEW A \in SUBSET Op
    PROVE  LET l == [k EXCEPT !.ops = A]
           IN  /\ l \in Conn /\ l.n = k.n /\ l.ops = A /\ l.sock = k.sock /\ l.ec = k.ec
               /\ l.first = k.first /\ l.late = k.late
BY DEF Conn

\* Nothing has begun.
LEMMA SameOps ==
    ASSUME NEW A \in SUBSET Op
    PROVE  NoMore(A, A)
BY DEF NoMore

\* A record of a channel that connects, from its parts.
LEMMA PartsMake ==
    ASSUME NEW z, Made(z), NEW A, NoMore(z.k.ops, A), NEW b, NEW s
    PROVE  Quiet(z, [k |-> [z.k EXCEPT !.ops = A], b |-> b, shut |-> s])
<1> DEFINE l == [z.k EXCEPT !.ops = A]
           w == [k |-> l, b |-> b, shut |-> s]
<1>1. z.k \in Conn /\ A \in SUBSET Op
  BY DEF Made, NoMore
<1>2. l \in Conn /\ l.n = z.k.n /\ l.ops = A
  BY <1>1, OpsChange
<1> HIDE DEF l
<1>3. w.k = l /\ w = [k |-> w.k, b |-> w.b, shut |-> w.shut]
  OBVIOUS
<1> HIDE DEF w
<1>4. Quiet(z, w)
  BY <1>2, <1>3 DEF Quiet, Made
<1> QED
  BY <1>4 DEF w, l

\* All parts of such a record change.
Turned(z, l, b, s) == [z EXCEPT !.k = l, !.shut = s, !.b = b]

\* Such a record, part by part.
LEMMA PartsChange ==
    ASSUME NEW z, Made(z), NEW l, NEW b, NEW s
    PROVE  Turned(z, l, b, s) = [k |-> l, b |-> b, shut |-> s]
<1> DEFINE w == [z EXCEPT !.k = l, !.shut = s, !.b = b]
<1>1. DOMAIN z = {"k", "b", "shut"}
  BY DEF Made
<1>2. DOMAIN w = {"k", "b", "shut"} /\ w.k = l /\ w.b = b /\ w.shut = s
  BY <1>1
<1>3. w = [x \in DOMAIN w |-> w[x]]
  OBVIOUS
<1> HIDE DEF w
<1>4. w = [k |-> l, b |-> b, shut |-> s]
  BY <1>2, <1>3
<1> QED
  BY <1>4 DEF w, Turned

\* The channel is told that it gets no socket.
LEMMA GiveUpQuiet ==
    ASSUME NEW z, Made(z)
    PROVE  Quiet(z, GiveUp(z))
<1> DEFINE b == Ch!Post(z.b, <<Ch!SocketTask(NoSock, FALSE)>>)
           w == [k |-> z.k, b |-> b, shut |-> z.shut]
<1>1. GiveUp(z) = [z EXCEPT !.b = b]
  BY DEF GiveUp
<1> HIDE DEF b
<1>2. z = [k |-> z.k, b |-> z.b, shut |-> z.shut] /\ z.k \in Conn
  BY DEF Made
<1>3. [z EXCEPT !.b = b] = w
  BY <1>2
<1>4. w.k = z.k /\ w = [k |-> w.k, b |-> w.b, shut |-> w.shut]
  OBVIOUS
<1> HIDE DEF w
<1>5. NoMore(z.k.ops, z.k.ops)
  BY <1>2, SameOps DEF Conn
<1> QED
  BY <1>1, <1>2, <1>3, <1>4, <1>5 DEF Quiet, Made

\* An attempt that failed is tried again later, or given up.
LEMMA RetryConnectQuiet ==
    ASSUME NEW z, Made(z), NEW ec
    PROVE  Quiet(z, RetryConnect(z, ec))
<1>1. CASE z.b.canceled \/ ec = "aborted"
  BY <1>1, GiveUpQuiet DEF RetryConnect
<1>2. CASE ~(z.b.canceled \/ ec = "aborted")
  <2> DEFINE A == Interrupted(z.k.ops, z.k.sock, "closed")
             B == Aborted(A)
             C == B \cup {Wait("retry", z.k.n)}
             b == [z.b EXCEPT !.faults = @ \cup Ch!When(z.k.sock = NoSock, "no socket")]
             s == z.shut \cup Ends(z.k.sock, "client")
             w == [k |-> [z.k EXCEPT !.ops = C], b |-> b, shut |-> s]
  <2>1. z = [k |-> z.k, b |-> z.b, shut |-> z.shut] /\ z.k \in Conn
    BY DEF Made
  <2>2. z.k.ops \in SUBSET Op /\ z.k.n \in Nat
    BY <2>1 DEF Conn
  <2>3. RetryConnect(z, ec) = [z EXCEPT !.k.ops = C, !.shut = s, !.b = b]
    BY <1>2 DEF RetryConnect
  <2>4. NoMore(z.k.ops, A)
    BY <2>2, InterruptedIs
  <2> HIDE DEF A
  <2>5. NoMore(A, B)
    BY <2>4, AbortedIs DEF NoMore
  <2> HIDE DEF B
  <2>6. NoMore(B, C)
    <3>1. Wait("retry", z.k.n) \in Op /\ Wait("retry", z.k.n).op = "retry"
      BY <2>2, WaitIs
    <3>2. B \in SUBSET Op
      BY <2>5 DEF NoMore
    <3> QED
      BY <3>1, <3>2, NoMoreAdd
  <2> HIDE DEF C
  <2>7. NoMore(z.k.ops, C)
    BY <2>4, <2>5, <2>6, NoMoreTwice
  <2> HIDE DEF b, s
  <2>8. [z EXCEPT !.k.ops = C, !.shut = s, !.b = b] = w
    <3> DEFINE l == [z.k EXCEPT !.ops = C]
    <3>1. [z EXCEPT !.k.ops = C, !.shut = s, !.b = b] = Turned(z, l, b, s)
      BY DEF Turned
    <3> QED
      BY <3>1, PartsChange
  <2> QED
    BY <2>3, <2>7, <2>8, PartsMake
<1> QED
  BY <1>1, <1>2

\* An operation that is no attempt begins.
LEMMA WaitQuiet ==
    ASSUME NEW z, Made(z), NEW op \in {"timeout", "retry", "read", "write"}
    PROVE  /\ Quiet(z, [z EXCEPT !.k.ops = @ \cup {Wait(op, z.k.n)}])
           /\ \A n \in Nat : Quiet(z, [z EXCEPT !.k.ops = @ \cup {Wait(op, n)}])
<1>1. z = [k |-> z.k, b |-> z.b, shut |-> z.shut] /\ z.k \in Conn
  BY DEF Made
<1>2. z.k.ops \in SUBSET Op /\ z.k.n \in Nat
  BY <1>1 DEF Conn
<1>3. ASSUME NEW n \in Nat
      PROVE  Quiet(z, [z EXCEPT !.k.ops = @ \cup {Wait(op, n)}])
  <2> DEFINE C == z.k.ops \cup {Wait(op, n)}
             l == [z.k EXCEPT !.ops = C]
  <2>1. NoMore(z.k.ops, C)
    <3>1. Wait(op, n) \in Op /\ Wait(op, n).op = op /\ op # "connect"
      BY WaitIs
    <3> QED
      BY <1>2, <3>1, NoMoreAdd
  <2>2. [z EXCEPT !.k.ops = @ \cup {Wait(op, n)}] = [z EXCEPT !.k = l]
    OBVIOUS
  <2> HIDE DEF C
  <2>3. Quiet(z, [k |-> l, b |-> z.b, shut |-> z.shut])
    BY <2>1, PartsMake
  <2> HIDE DEF l
  <2>4. [z EXCEPT !.k = l] = [k |-> l, b |-> z.b, shut |-> z.shut]
    BY <1>1
  <2> QED
    BY <2>2, <2>3, <2>4
<1> QED
  BY <1>2, <1>3

\* A socket that has connected waits for the greeting.
LEMMA ConnectCallbackQuiet ==
    ASSUME NEW z, Made(z), NEW ec
    PROVE  Quiet(z, ConnectCallback(z, ec))
<1> DEFINE w == [z EXCEPT !.k.ops = @ \cup {Wait("read", z.k.n)}]
<1>1. /\ Quiet(z, RetryConnect(z, ec)) /\ Quiet(z, RetryConnect(z, "failed")) /\ Quiet(z, w)
  BY RetryConnectQuiet, WaitQuiet
<1>2. ConnectCallback(z, ec) \in {RetryConnect(z, ec), RetryConnect(z, "failed"), w}
  BY DEF ConnectCallback
<1> HIDE DEF w
<1> QED
  BY <1>1, <1>2

\* What a channel does to connect changes.
Part(z, l) == [z EXCEPT !.k = l]

\* What it does to connect is no attempt.
LEMMA PartQuiet ==
    ASSUME NEW z, Made(z), NEW l \in Conn, l.n = z.k.n, NoMore(z.k.ops, l.ops)
    PROVE  Quiet(z, Part(z, l)) /\ Part(z, l).k = l /\ Part(z, l).b = z.b
<1> DEFINE w == [k |-> l, b |-> z.b, shut |-> z.shut]
<1>1. z = [k |-> z.k, b |-> z.b, shut |-> z.shut]
  BY DEF Made
<1>2. [z EXCEPT !.k = l] = w
  BY <1>1
<1>3. w.k = l /\ w.b = z.b /\ w = [k |-> w.k, b |-> w.b, shut |-> w.shut]
  OBVIOUS
<1> HIDE DEF w
<1> QED
  BY <1>2, <1>3 DEF Quiet, Made, Part

\* The attempt takes too long, or has ended.
LEMMA TimedOutQuiet ==
    ASSUME NEW z, Made(z)
    PROVE  Quiet(z, TimedOut(z))
<1>1. CASE z.k.first
  <2> DEFINE A == Interrupted(z.k.ops, z.k.sock, "canceled")
             l == [z.k EXCEPT !.ops = A, !.first = FALSE]
  <2>1. z.k \in Conn /\ z.k.ops \in SUBSET Op
    BY DEF Made, Conn
  <2>2. NoMore(z.k.ops, A)
    BY <2>1, InterruptedIs
  <2>3. TimedOut(z) = Part(z, l)
    BY <1>1 DEF TimedOut, Part
  <2> HIDE DEF A
  <2>4. l \in Conn /\ l.n = z.k.n /\ l.ops = A
    BY <2>1, <2>2 DEF Conn, NoMore
  <2> HIDE DEF l
  <2> QED
    BY <2>2, <2>3, <2>4, PartQuiet
<1>2. CASE ~z.k.first
  BY <1>2, ConnectCallbackQuiet DEF TimedOut
<1> QED
  BY <1>1, <1>2

\* The socket has connected, or has not, in time or late.
LEMMA ConnectedQuiet ==
    ASSUME NEW z, Made(z), NEW ec \in {"ok", "refused", "aborted"}
    PROVE  Quiet(z, Connected(z, ec))
<1> DEFINE l == [z.k EXCEPT !.ec = ec]
           told == Part(z, l)
<1>1. z.k \in Conn /\ z.k.ops \in SUBSET Op
  BY DEF Made, Conn
<1>2. l \in Conn /\ l.n = z.k.n /\ l.ops = z.k.ops
  BY <1>1 DEF Conn
<1>3. Connected(z, ec) = IF z.k.first THEN [told EXCEPT !.k.ops = Aborted(@), !.k.first = FALSE]
                                      ELSE RetryConnect(told, "timed out")
  BY DEF Connected, Part
<1> HIDE DEF l
<1>4. Quiet(z, told) /\ told.k = l
  BY <1>1, <1>2, SameOps, PartQuiet
<1> HIDE DEF told
<1>5. Made(told)
  BY <1>4 DEF Quiet
<1>6. CASE z.k.first
  <2> DEFINE A == Aborted(told.k.ops)
             m == [told.k EXCEPT !.ops = A, !.first = FALSE]
  <2>1. Connected(z, ec) = Part(told, m)
    BY <1>3, <1>6 DEF Part
  <2>2. NoMore(told.k.ops, A)
    BY <1>1, <1>2, <1>4, AbortedIs
  <2> HIDE DEF A
  <2>3. m \in Conn /\ m.n = told.k.n /\ m.ops = A
    BY <1>2, <1>4, <2>2 DEF Conn, NoMore
  <2> HIDE DEF m
  <2>4. Quiet(told, Part(told, m))
    BY <1>5, <2>2, <2>3, PartQuiet
  <2> QED
    BY <1>4, <2>1, <2>4, QuietTwice
<1>7. CASE ~z.k.first
  <2> DEFINE r == RetryConnect(told, "timed out")
  <2>1. Quiet(told, r)
    BY <1>5, RetryConnectQuiet
  <2>2. Connected(z, ec) = r
    BY <1>3, <1>7
  <2> HIDE DEF r
  <2>3. Quiet(z, r)
    BY <1>4, <2>1, QuietTwice
  <2> QED
    BY <2>2, <2>3
<1> QED
  BY <1>6, <1>7

\* A handler that ran second may be followed late by what it writes.
LEMMA SettledQuiet ==
    ASSUME NEW y, NEW z, Quiet(y, z), NEW before
    PROVE  Quiet(y, Settled(z, before))
<1>1. CASE before.first
  BY <1>1 DEF Settled
<1>2. CASE ~before.first
  <2> DEFINE f == plan.workers > 1
             l == [z.k EXCEPT !.late = f]
  <2>1. Made(z) /\ z.k \in Conn /\ z.k.ops \in SUBSET Op
    BY DEF Quiet, Made, Conn
  <2>2. Settled(z, before) = Part(z, l)
    BY <1>2 DEF Settled, Part
  <2>3. f \in BOOLEAN
    OBVIOUS
  <2> HIDE DEF f
  <2>4. l \in Conn /\ l.n = z.k.n /\ l.ops = z.k.ops
    BY <2>1, <2>3 DEF Conn
  <2> HIDE DEF l
  <2>5. Quiet(z, Part(z, l))
    BY <2>1, <2>4, SameOps, PartQuiet
  <2> QED
    BY <2>2, <2>5, QuietTwice
<1> QED
  BY <1>1, <1>2

\* The handler of an operation ends the operation.
LEMMA HandlerQuiet ==
    ASSUME NEW c, conn[c] \in Conn, NEW o
    PROVE  /\ Made(Handler(c, o)) /\ Handler(c, o).k.n = conn[c].n
           /\ NoMore(conn[c].ops, Handler(c, o).k.ops)
           /\ Handler(c, o).k.ops = conn[c].ops \ {o}
           /\ Handler(c, o).k.sock = conn[c].sock
<1> DEFINE A == conn[c].ops \ {o}
           l == [conn[c] EXCEPT !.ops = A]
           w == [k |-> l, b |-> base[c], shut |-> {}]
<1>1. Handler(c, o) = w
  BY DEF Handler
<1>2. conn[c].ops \in SUBSET Op
  BY DEF Conn
<1>3. NoMore(conn[c].ops, A)
  BY <1>2, NoMoreLess
<1> HIDE DEF A
<1>4. l \in Conn /\ l.n = conn[c].n /\ l.ops = A /\ l.sock = conn[c].sock
  BY <1>3, OpsChange DEF NoMore
<1> HIDE DEF l
<1>5. w.k = l /\ w = [k |-> w.k, b |-> w.b, shut |-> w.shut]
  OBVIOUS
<1> HIDE DEF w
<1> QED
  BY <1>1, <1>3, <1>4, <1>5 DEF Made, A

\* Attempts may be made, with numbers that have not been used.
Tried(k, l) ==
    /\ l \in Conn /\ k.n <= l.n
    /\ Attempted(k.n, k.ops) => Attempted(l.n, l.ops)
    /\ \A o \in l.ops : o.op = "connect" =>
          o.n > k.n \/ \E q \in k.ops : q.op = "connect" /\ q.n = o.n

\* What makes no attempt makes none with a number that has been used.
LEMMA QuietTries ==
    ASSUME NEW y, NEW z, y.k \in Conn, Quiet(y, z)
    PROVE  Tried(y.k, z.k)
<1>1. y.k.n \in Nat /\ z.k.n = y.k.n
  BY DEF Quiet, Conn
<1> QED
  BY <1>1 DEF Quiet, Made, NoMore, Tried

\* The handler of an operation, and whatever quiet step it leads to.
LEMMA HandlerTries ==
    ASSUME NEW c, conn[c] \in Conn, NEW o, NEW z, Quiet(Handler(c, o), z)
    PROVE  Tried(conn[c], z.k)
<1> DEFINE h == Handler(c, o)
<1>1. h.k.n = conn[c].n /\ NoMore(conn[c].ops, h.k.ops)
  BY HandlerQuiet
<1> HIDE DEF h
<1>2. z.k \in Conn /\ z.k.n = h.k.n /\ NoMore(h.k.ops, z.k.ops)
  BY DEF Quiet, Made, h
<1>3. NoMore(conn[c].ops, z.k.ops) /\ conn[c].n \in Nat
  BY <1>1, <1>2, NoMoreTwice DEF Conn
<1> QED
  BY <1>1, <1>2, <1>3 DEF NoMore, Tried

\* A new socket has a new number.
LEMMA AttemptTries ==
    ASSUME NEW c \in UsedClients, NEW z, Made(z)
    PROVE  Tried(z.k, Attempt(c, z).k) /\ Made(Attempt(c, z))
<1> DEFINE n == z.k.n + 1
           s == [of |-> c, n |-> n]
           A == Interrupted(z.k.ops, z.k.sock, "closed")
           B == Aborted(A)
           C == B \cup {Wait("timeout", n), Wait("connect", n)}
           l == [z.k EXCEPT !.n = n, !.first = TRUE, !.sock = s, !.ops = C]
           shut == z.shut \cup Ends(z.k.sock, "client")
           w == [k |-> l, b |-> z.b, shut |-> shut]
<1>1. z = [k |-> z.k, b |-> z.b, shut |-> z.shut] /\ z.k \in Conn
  BY DEF Made
<1>2. z.k.ops \in SUBSET Op /\ z.k.n \in Nat /\ n \in Nat /\ z.k.n <= n /\ n > z.k.n
  BY <1>1 DEF Conn
<1>3. s \in Sock
  BY <1>2 DEF Sock
<1>4. Attempt(c, z) = [z EXCEPT !.k = l, !.shut = shut]
  BY DEF Attempt
<1>5. NoMore(z.k.ops, A)
  BY <1>2, InterruptedIs
<1> HIDE DEF A
<1>6. NoMore(A, B)
  BY <1>5, AbortedIs DEF NoMore
<1> HIDE DEF B
<1>7. NoMore(z.k.ops, B)
  BY <1>5, <1>6, NoMoreTwice
<1>8. /\ Wait("timeout", n) \in Op /\ Wait("timeout", n).op = "timeout"
      /\ Wait("connect", n) \in Op /\ Wait("connect", n).n = n
  BY <1>2, WaitIs
<1>9. /\ C \in SUBSET Op
      /\ \A o \in C : o.op = "connect" => o \in B \/ o = Wait("connect", n)
  BY <1>7, <1>8 DEF NoMore
<1> HIDE DEF C, n, s
<1>10. l \in Conn /\ l.n = n /\ l.ops = C
  BY <1>1, <1>2, <1>3, <1>9 DEF Conn
<1>11. ASSUME Attempted(z.k.n, z.k.ops) PROVE Attempted(n, C)
  <2>1. \A o \in B : o.op = "connect" => o.n <= z.k.n
    BY <1>2, <1>7, <1>11 DEF NoMore, Attempted
  <2>2. \A o \in B : o.op = "connect" => o.n \in Nat /\ o.n <= n /\ o.n # n
    BY <1>2, <1>7, <2>1 DEF NoMore, Op, n
  <2>3. Attempted(z.k.n, B)
    BY <1>2, <1>7, <1>11 DEF NoMore
  <2> QED
    BY <1>2, <1>8, <1>9, <2>2, <2>3 DEF Attempted
<1>12. \A o \in C : o.op = "connect" =>
           o.n > z.k.n \/ \E q \in z.k.ops : q.op = "connect" /\ q.n = o.n
  BY <1>2, <1>7, <1>8, <1>9 DEF NoMore
<1> HIDE DEF l, shut
<1>13. [z EXCEPT !.k = l, !.shut = shut] = w
  <2>1. [z EXCEPT !.k = l, !.shut = shut] = Turned(z, l, z.b, shut)
    BY <1>1 DEF Turned
  <2> QED
    BY <2>1, PartsChange
<1>14. w.k = l /\ w = [k |-> w.k, b |-> w.b, shut |-> w.shut]
  OBVIOUS
<1> HIDE DEF w
<1> QED
  BY <1>2, <1>4, <1>10, <1>11, <1>12, <1>13, <1>14 DEF Tried, Made

-----------------------------------------------------------------------------
(* Steps that the acceptor does not notice                                 *)

\* A client that does nothing makes no attempt.
LEMMA NothingTried ==
    ASSUME NEW k \in Conn
    PROVE  Tried(k, k)
BY DEF Tried, Conn

\* Every client makes the attempts that it may make.
Trying == \A c \in UsedClients : Tried(conn[c], conn'[c])

\* So do those that do nothing.
LEMMA QuietIsTrying ==
    ASSUME Attempts, conn' = conn
    PROVE  Trying
BY NothingTried DEF Attempts, Trying

\* The sockets that the acceptor knows remain those of past attempts.
LEMMA PastKept ==
    ASSUME Attempts, acc \in State, \A c \in UsedClients : Tried(conn[c], conn'[c]),
           NEW s \in Unnamed(acc)
    PROVE  Past(conn'[s.of], s)
<1>1. s \in Sock
  BY DEF State, Unnamed
<1>2. s.of \in UsedClients /\ s.n \in Nat
  BY <1>1 DEF Sock
<1> DEFINE k == conn[s.of]
           l == conn'[s.of]
<1>3. k \in Conn /\ Tried(k, l) /\ Past(k, s)
  BY <1>2 DEF Attempts
<1> HIDE DEF k, l
<1>4. s.n <= k.n /\ k.n <= l.n /\ k.n \in Nat /\ l.n \in Nat /\ l \in Conn
  BY <1>3 DEF Past, Tried, Conn
<1>5. ASSUME NEW o \in l.ops, o.op = "connect" PROVE o.n # s.n
  <2>1. o.n \in Nat
    BY <1>4 DEF Conn, Op
  <2>2. o.n > k.n \/ \E q \in k.ops : q.op = "connect" /\ q.n = o.n
    BY <1>3, <1>5 DEF Tried
  <2> QED
    BY <1>2, <1>3, <1>4, <2>1, <2>2 DEF Past
<1> QED
  BY <1>2, <1>4, <1>5 DEF Past, l

\* Attempts remain single while the acceptor learns of no new socket.
LEMMA AttemptsKept ==
    ASSUME plan' = plan, Attempts, acc \in State,
           conn' \in [UsedClients -> Conn], \A c \in UsedClients : Tried(conn[c], conn'[c]),
           Unnamed(acc') \subseteq Unnamed(acc)
    PROVE  Attempts'
<1>1. UsedClients' = UsedClients /\ Conn' = Conn
  BY PlanKept DEF Conn
<1>2. Unnamed(acc)' = Unnamed(acc')
  BY DEF Unnamed
<1>3. \A s \in Unnamed(acc') : Past(conn'[s.of], s)
  BY PastKept
<1>4. \A c \in UsedClients : Attempted(conn'[c].n, conn'[c].ops)
  BY DEF Attempts, Tried
<1> QED
  BY <1>1, <1>2, <1>3, <1>4 DEF Attempts, Past, Attempted

\* The calls that the thread of a channel has made, and whether one is half done.
Place == [at : Nat, half : BOOLEAN]

\* The invariant after a step that leaves the acceptor alone.
LEMMA AcceptorAlone ==
    ASSUME AcceptorInv, plan' = plan, acc' = acc, ending' = ending,
           pc' \in [Used -> Place], StaysOpen,
           conn' \in [UsedClients -> Conn], \A c \in UsedClients : Tried(conn[c], conn'[c])
    PROVE  AcceptorInv'
<1>1. Used' = Used /\ ServerSessions' = ServerSessions
  BY PlanKept
<1>2. Good(acc)'
  BY GoodKept DEF AcceptorInv
<1>3. InOrder'
  BY InOrderStays DEF AcceptorInv, InOrder, NamesOnce
<1>4. Attempts'
  BY AttemptsKept DEF AcceptorInv, Good, Unnamed
<1> QED
  BY <1>1, <1>2, <1>3, <1>4 DEF AcceptorInv, Place, Apart

\* Nor do the clients make attempts.
LEMMA AcceptorQuiet ==
    ASSUME AcceptorInv, plan' = plan, acc' = acc, ending' = ending, conn' = conn,
           pc' \in [Used -> Place], StaysOpen
    PROVE  AcceptorInv'
BY AcceptorAlone, NothingTried DEF AcceptorInv, Attempts

-----------------------------------------------------------------------------
(* Steps of a client                                                       *)

\* One client makes attempts, the others nothing.
LEMMA OneTries ==
    ASSUME AcceptorInv, NEW c \in UsedClients, NEW l, Tried(conn[c], l),
           conn' = [conn EXCEPT ![c] = l],
           plan' = plan, acc' = acc, ending' = ending, pc' = pc
    PROVE  AcceptorInv' /\ Trying
<1>1. conn \in [UsedClients -> Conn] /\ l \in Conn
  BY DEF AcceptorInv, Attempts, Tried
<1>2. conn' \in [UsedClients -> Conn]
  BY <1>1
<1>3. \A d \in UsedClients : Tried(conn[d], conn'[d])
  BY <1>1, NothingTried
<1>4. pc' \in [Used -> Place] /\ StaysOpen
  BY DEF AcceptorInv, Place, StaysOpen, Opened
<1> QED
  BY <1>2, <1>3, <1>4, AcceptorAlone DEF Trying

\* The handler of an operation that makes no attempt.
LEMMA HandlerKeeps ==
    ASSUME AcceptorInv, NEW c \in UsedClients, NEW o, NEW z, Quiet(Handler(c, o), z),
           conn' = [conn EXCEPT ![c] = z.k],
           plan' = plan, acc' = acc, ending' = ending, pc' = pc
    PROVE  AcceptorInv' /\ Trying
<1>1. conn[c] \in Conn
  BY DEF AcceptorInv, Attempts
<1>2. Tried(conn[c], z.k)
  BY <1>1, HandlerTries
<1> QED
  BY <1>2, OneTries

\* The timer of an attempt.
LEMMA TimeoutKeeps ==
    ASSUME AcceptorInv, NEW c \in UsedClients, Timeout(c)
    PROVE  AcceptorInv' /\ Trying
<1>1. PICK o \in conn[c].ops : /\ Handled(c, Settled(TimedOut(Handler(c, o)), conn[c]), {})
                               /\ UNCHANGED <<plan, pc, acc, ending>>
  BY DEF Timeout
<1> DEFINE h == Handler(c, o)
           t == TimedOut(h)
           z == Settled(t, conn[c])
<1>2. Made(h)
  BY HandlerQuiet DEF AcceptorInv, Attempts
<1>3. conn' = [conn EXCEPT ![c] = z.k]
  BY <1>1 DEF Handled
<1> HIDE DEF h
<1>4. Quiet(h, t)
  BY <1>2, TimedOutQuiet
<1> HIDE DEF t
<1>5. Quiet(h, z)
  BY <1>4, SettledQuiet
<1> HIDE DEF z
<1> QED
  BY <1>1, <1>3, <1>5, HandlerKeeps DEF h

\* The second of the two handlers has returned.
LEMMA LateKeeps ==
    ASSUME AcceptorInv, NEW c \in UsedClients, Late(c)
    PROVE  AcceptorInv' /\ Trying
<1> DEFINE l == [conn[c] EXCEPT !.late = FALSE, !.first = FALSE]
<1>1. conn \in [UsedClients -> Conn] /\ conn[c] \in Conn
  BY DEF AcceptorInv, Attempts
<1>2. conn' = [conn EXCEPT ![c] = l] /\ UNCHANGED <<plan, pc, acc, ending>>
  BY <1>1 DEF Late
<1>3. l \in Conn /\ l.n = conn[c].n /\ l.ops = conn[c].ops
  BY <1>1 DEF Conn
<1> HIDE DEF l
<1>4. Tried(conn[c], l)
  BY <1>1, <1>3 DEF Tried, Conn
<1> QED
  BY <1>2, <1>4, OneTries

\* The timer of retryConnect.
LEMMA RetryKeeps ==
    ASSUME AcceptorInv, NEW c \in UsedClients, Retry(c)
    PROVE  AcceptorInv' /\ Trying
<1>1. PICK o \in conn[c].ops :
          /\ Handled(c, IF o.st = "aborted" THEN GiveUp(Handler(c, o))
                                            ELSE Attempt(c, Handler(c, o)), {})
          /\ UNCHANGED <<plan, pc, acc, ending>>
  BY DEF Retry
<1> DEFINE h == Handler(c, o)
           z == IF o.st = "aborted" THEN GiveUp(h) ELSE Attempt(c, h)
<1>2. conn[c] \in Conn
  BY DEF AcceptorInv, Attempts
<1>3. Made(h) /\ h.k.n = conn[c].n /\ NoMore(conn[c].ops, h.k.ops)
  BY <1>2, HandlerQuiet
<1>4. conn' = [conn EXCEPT ![c] = z.k]
  BY <1>1 DEF Handled
<1>5. Tried(conn[c], z.k)
  <2>1. CASE o.st = "aborted"
    <3> DEFINE g == GiveUp(h)
    <3>1. z = g
      BY <2>1
    <3>2. Quiet(h, g)
      <4> HIDE DEF h
      <4> QED
        BY <1>3, GiveUpQuiet
    <3> HIDE DEF g
    <3>3. Tried(conn[c], g.k)
      BY <1>2, <3>2, HandlerTries DEF h
    <3> HIDE DEF z
    <3> QED
      BY <3>1, <3>3
  <2>2. CASE o.st # "aborted"
    <3> DEFINE g == Attempt(c, h)
    <3>1. z = g
      BY <2>2
    <3>2. Tried(h.k, g.k)
      <4> HIDE DEF h
      <4> QED
        BY <1>3, AttemptTries
    <3> HIDE DEF g, z, h
    <3>3. g.k \in Conn /\ conn[c].n \in Nat
      BY <1>2, <3>2 DEF Tried, Conn
    <3>4. conn[c].n <= g.k.n /\ (Attempted(conn[c].n, conn[c].ops) => Attempted(g.k.n, g.k.ops))
      BY <1>3, <3>2, <3>3 DEF Tried, NoMore
    <3>5. \A p \in g.k.ops : p.op = "connect" =>
              p.n > conn[c].n \/ \E q \in conn[c].ops : q.op = "connect" /\ q.n = p.n
      <4>1. \A p \in g.k.ops : p.op = "connect" =>
                p.n > conn[c].n \/ \E q \in h.k.ops : q.op = "connect" /\ q.n = p.n
        BY <1>3, <3>2 DEF Tried
      <4>2. \A q \in h.k.ops : q.op = "connect" =>
                \E r \in conn[c].ops : r.op = "connect" /\ r.n = q.n
        BY <1>3 DEF NoMore
      <4> QED
        BY <4>1, <4>2
    <3> QED
      BY <3>1, <3>3, <3>4, <3>5 DEF Tried
  <2> QED
    BY <2>1, <2>2
<1> HIDE DEF z
<1> QED
  BY <1>1, <1>4, <1>5, OneTries

\* The greeting has come, or does not come.
LEMMA ReadKeeps ==
    ASSUME AcceptorInv, NEW c \in UsedClients, Read(c)
    PROVE  AcceptorInv' /\ Trying
<1>1. PICK o \in conn[c].ops :
          /\ \/ Handled(c, [Handler(c, o) EXCEPT !.k.ops = @ \cup {Wait("write", o.n)}], {})
             \/ Handled(c, RetryConnect(Handler(c, o), "failed"), {})
             \/ Handled(c, RetryConnect(Handler(c, o), "aborted"), {})
          /\ UNCHANGED <<plan, pc, acc, ending>>
  BY DEF Read
<1> DEFINE h == Handler(c, o)
           w == [h EXCEPT !.k.ops = @ \cup {Wait("write", o.n)}]
<1>2. Made(h) /\ o.n \in Nat
  BY HandlerQuiet DEF AcceptorInv, Attempts, Conn, Op
<1>3. \E z \in {w, RetryConnect(h, "failed"), RetryConnect(h, "aborted")} :
          conn' = [conn EXCEPT ![c] = z.k]
  BY <1>1 DEF Handled
<1> HIDE DEF h
<1>4. Quiet(h, w) /\ Quiet(h, RetryConnect(h, "failed")) /\ Quiet(h, RetryConnect(h, "aborted"))
  BY <1>2, WaitQuiet, RetryConnectQuiet
<1> HIDE DEF w
<1>5. PICK z : Quiet(h, z) /\ conn' = [conn EXCEPT ![c] = z.k]
  BY <1>3, <1>4
<1> QED
  BY <1>1, <1>5, HandlerKeeps DEF h

\* A socket that is handed to the channel does not belong to the attempt any more.
LEMMA HandedQuiet ==
    ASSUME NEW z, Made(z), NEW b
    PROVE  Quiet(z, [z EXCEPT !.k.sock = NoSock, !.b = b])
<1> DEFINE l == [z.k EXCEPT !.sock = NoSock]
           w == [k |-> l, b |-> b, shut |-> z.shut]
<1>1. z = [k |-> z.k, b |-> z.b, shut |-> z.shut] /\ z.k \in Conn
  BY DEF Made
<1>2. l \in Conn /\ l.n = z.k.n /\ l.ops = z.k.ops /\ z.k.ops \in SUBSET Op
  BY <1>1 DEF Conn
<1>3. [z EXCEPT !.k.sock = NoSock, !.b = b] = [z EXCEPT !.k = l, !.b = b]
  OBVIOUS
<1> HIDE DEF l
<1>4. [z EXCEPT !.k = l, !.b = b] = w
  <2>1. [z EXCEPT !.k = l] = [k |-> l, b |-> z.b, shut |-> z.shut]
    BY <1>1
  <2> DEFINE y == [k |-> l, b |-> z.b, shut |-> z.shut]
  <2>2. [y EXCEPT !.b = b] = w
    OBVIOUS
  <2>3. [z EXCEPT !.k = l, !.b = b] = [[z EXCEPT !.k = l] EXCEPT !.b = b]
    OBVIOUS
  <2> QED
    BY <2>1, <2>2, <2>3
<1>5. w.k = l /\ w = [k |-> w.k, b |-> w.b, shut |-> w.shut]
  OBVIOUS
<1> HIDE DEF w
<1> QED
  BY <1>2, <1>3, <1>4, <1>5, SameOps DEF Quiet, Made

\* The names have been sent, or cannot be.
LEMMA WriteKeeps ==
    ASSUME AcceptorInv, NEW c \in UsedClients, Write(c)
    PROVE  AcceptorInv' /\ Trying
<1>1. PICK o \in conn[c].ops :
          /\ \/ Handled(c, [Handler(c, o) EXCEPT !.k.sock = NoSock,
                   !.b = Ch!Post(@, <<Ch!SocketTask([of |-> c, n |-> o.n], TRUE)>>)], {})
             \/ Handled(c, RetryConnect(Handler(c, o), "failed"), {})
             \/ Handled(c, RetryConnect(Handler(c, o), "aborted"), {})
          /\ UNCHANGED <<plan, pc, acc, ending>>
  BY DEF Write
<1> DEFINE h == Handler(c, o)
           b == Ch!Post(h.b, <<Ch!SocketTask([of |-> c, n |-> o.n], TRUE)>>)
           w == [h EXCEPT !.k.sock = NoSock, !.b = b]
<1>2. Made(h)
  BY HandlerQuiet DEF AcceptorInv, Attempts
<1>3. \E z \in {w, RetryConnect(h, "failed"), RetryConnect(h, "aborted")} :
          conn' = [conn EXCEPT ![c] = z.k]
  BY <1>1 DEF Handled
<1> HIDE DEF h, b
<1>4. Quiet(h, w) /\ Quiet(h, RetryConnect(h, "failed")) /\ Quiet(h, RetryConnect(h, "aborted"))
  BY <1>2, HandedQuiet, RetryConnectQuiet
<1> HIDE DEF w
<1>5. PICK z : Quiet(h, z) /\ conn' = [conn EXCEPT ![c] = z.k]
  BY <1>3, <1>4
<1> QED
  BY <1>1, <1>5, HandlerKeeps DEF h

-----------------------------------------------------------------------------
(* Steps that move sockets to the acceptor and within it                   *)

\* Sockets and tasks move; whoever waits for a socket does not.
Moved(a, b) ==
    /\ b.plan = a.plan /\ b.given = a.given /\ b.closed = a.closed
    /\ b.stopped = a.stopped /\ b.listening = a.listening
    /\ b.emptied = a.emptied /\ b.released = a.released
    /\ b.groups = a.groups /\ b.base = a.base
    /\ b.channels = a.channels /\ b.sockets = a.sockets /\ b.sessionID = a.sessionID
    /\ b.unclaimed = a.unclaimed /\ b.claimed = a.claimed /\ b.pool = a.pool

\* Such a step keeps what the acceptor is between two tasks.
LEMMA MovedKeeps ==
    ASSUME NEW a, NEW b, Good(a), b \in State, Moved(a, b), Emptying(b)
    PROVE  Good(b)
<1>1. a \in State /\ Wanted(a) /\ Released(a) /\ Unmatched(a)
  BY DEF Good
<1>2. /\ \A s, c : Ac!Matches(b, s, c) <=> Ac!Matches(a, s, c)
      /\ \A c : Ac!ServerSession(b, c) = Ac!ServerSession(a, c)
      /\ \A u : Ac!hasSubscriptions(b, u) <=> Ac!hasSubscriptions(a, u)
  BY DEF Moved, Ac!Matches, Ac!ServerSession, Ac!hasSubscriptions
<1>3. Wanted(b)
  BY <1>1, <1>2 DEF Wanted, Moved
<1>4. Released(b)
  BY <1>1, <1>2 DEF Released, Ac!hasAnySubscriptions, Moved
<1>5. Unmatched(b)
  BY <1>1, <1>2 DEF Unmatched, Moved
<1> QED
  BY <1>3, <1>4, <1>5 DEF Good

\* An attempt connects a socket that the acceptor does not know.
LEMMA SocketIsNew ==
    ASSUME AcceptorInv, NEW c \in UsedClients, NEW o \in conn[c].ops, o.op = "connect",
           NEW z, Quiet(Handler(c, o), z)
    PROVE  LET s == [of |-> c, n |-> o.n]
           IN  s \in Sock /\ s \notin Unnamed(acc) /\ Past(z.k, s)
<1> DEFINE s == [of |-> c, n |-> o.n]
<1>1. conn[c] \in Conn /\ Attempted(conn[c].n, conn[c].ops)
  BY DEF AcceptorInv, Attempts
<1>2. o.n \in Nat /\ conn[c].n \in Nat /\ o.n <= conn[c].n
  BY <1>1 DEF Conn, Op, Attempted
<1>3. s \in Sock /\ s.of = c /\ s.n = o.n
  BY <1>2 DEF Sock
<1>4. s \notin Unnamed(acc)
  BY <1>3 DEF AcceptorInv, Attempts, Past
<1>5. Past(z.k, s)
  <2> DEFINE h == Handler(c, o)
  <2>1. h.k.n = conn[c].n /\ h.k.ops = conn[c].ops \ {o}
    BY <1>1, HandlerQuiet
  <2>2. z.k.n = h.k.n /\ \A p \in z.k.ops : p.op = "connect" =>
                             \E q \in h.k.ops : q.op = "connect" /\ q.n = p.n
    BY DEF Quiet, NoMore
  <2> HIDE DEF h
  <2>3. ASSUME NEW p \in z.k.ops, p.op = "connect" PROVE p.n # s.n
    <3>1. PICK q \in conn[c].ops : q # o /\ q.op = "connect" /\ q.n = p.n
      BY <2>1, <2>2, <2>3
    <3> QED
      BY <1>1, <1>3, <3>1 DEF Attempted
  <2> QED
    BY <1>2, <1>3, <2>1, <2>2, <2>3 DEF Past
<1> QED
  BY <1>3, <1>4, <1>5

\* A connection waits to be accepted.
LEMMA BacklogKeeps ==
    ASSUME AcceptorInv, NEW s \in Sock, s \notin Unnamed(acc), plan' = plan,
           acc' = [acc EXCEPT !.backlog = @ \cup {s}]
    PROVE  /\ Between(acc)' /\ Apart(acc)' /\ Unnamed(acc') = Unnamed(acc) \cup {s}
           /\ acc'.strand = acc.strand /\ acc'.stopped = acc.stopped
           /\ acc'.base = acc.base /\ acc'.naming = acc.naming
<1> DEFINE q == acc.backlog \cup {s}
           b == [acc EXCEPT !.backlog = q]
<1>1. acc \in State /\ Good(acc) /\ Emptying(acc) /\ Apart(acc)
      /\ acc.given = [c \in Used |-> <<>>] /\ acc.closed = {}
  BY DEF AcceptorInv, Good
<1>2. q \in SUBSET Sock
  BY <1>1 DEF State
<1> HIDE DEF q
<1>3. b \in State
  BY <1>1, <1>2 DEF State
<1>4. /\ Moved(acc, b) /\ b.backlog = q /\ b.accepting = acc.accepting
      /\ b.greeting = acc.greeting /\ b.naming = acc.naming /\ b.strand = acc.strand
  BY <1>1 DEF State, Moved
<1> HIDE DEF b
<1>5. Emptying(b)
  BY <1>1, <1>4 DEF Emptying, Moved, Ac!Pendings
<1>6. Good(b)
  BY <1>1, <1>3, <1>4, <1>5, MovedKeeps
<1>7. acc' = b
  BY DEF q, b
<1>8. Good(acc)' /\ Used' = Used
  BY <1>6, <1>7, GoodKept, PlanKept
<1>9. Apart(acc')
  BY <1>1, <1>4, <1>7 DEF Apart, Unnamed, q
<1> QED
  BY <1>1, <1>4, <1>7, <1>8, <1>9 DEF Between, Apart, Unnamed, Moved, q

\* An attempt ends: with a connection, or without.
LEMMA ConnectKeeps ==
    ASSUME AcceptorInv, NEW c \in UsedClients, Connect(c)
    PROVE  AcceptorInv' /\ Trying
<1>1. PICK o \in conn[c].ops, ec \in {"ok", "refused", "aborted"} :
          /\ o.op = "connect"
          /\ acc' = IF ec = "ok" THEN [acc EXCEPT !.backlog = @ \cup {[of |-> c, n |-> o.n]}]
                                 ELSE acc
          /\ Handled(c, Settled(Connected(Handler(c, o), ec), conn[c]),
                     IF ec = "ok" THEN {[of |-> c, n |-> o.n]} ELSE {})
          /\ UNCHANGED <<plan, pc, ending>>
  BY DEF Connect
<1> DEFINE h == Handler(c, o)
           t == Connected(h, ec)
           z == Settled(t, conn[c])
           s == [of |-> c, n |-> o.n]
<1>2. Made(h)
  BY HandlerQuiet DEF AcceptorInv, Attempts
<1>3. conn' = [conn EXCEPT ![c] = z.k]
  BY <1>1 DEF Handled
<1> HIDE DEF h
<1>4. Quiet(h, t)
  BY <1>2, ConnectedQuiet
<1> HIDE DEF t
<1>5. Quiet(h, z)
  BY <1>4, SettledQuiet
<1> HIDE DEF z
<1>6. CASE ec # "ok"
  BY <1>1, <1>3, <1>5, <1>6, HandlerKeeps DEF h
<1>7. CASE ec = "ok"
  <2>1. s \in Sock /\ s \notin Unnamed(acc) /\ Past(z.k, s)
    BY <1>1, <1>5, SocketIsNew DEF h
  <2>2. s.of = c
    OBVIOUS
  <2>3. acc' = [acc EXCEPT !.backlog = @ \cup {s}]
    BY <1>1, <1>7
  <2> HIDE DEF s
  <2>4. /\ Between(acc)' /\ Apart(acc)' /\ Unnamed(acc') = Unnamed(acc) \cup {s}
        /\ acc'.strand = acc.strand /\ acc'.stopped = acc.stopped
        /\ acc'.base = acc.base /\ acc'.naming = acc.naming
    BY <1>1, <2>1, <2>3, BacklogKeeps
  <2>5. /\ UsedClients' = UsedClients /\ Used' = Used /\ ServerSessions' = ServerSessions
        /\ Conn' = Conn
    BY <1>1, PlanKept DEF Conn
  <2>6. InOrder'
    BY <1>1, <2>4, InOrderStays DEF AcceptorInv, InOrder, NamesOnce, StaysOpen, Opened
  <2>7. conn \in [UsedClients -> Conn] /\ conn[c] \in Conn
    BY DEF AcceptorInv, Attempts
  <2>8. Tried(conn[c], z.k) /\ z.k \in Conn
    BY <1>5, <2>7, HandlerTries DEF h, Tried
  <2>9. Attempts' /\ Trying
    <3>1. conn' \in [UsedClients -> Conn] /\ conn'[c] = z.k
      BY <1>3, <2>7, <2>8
    <3>2. \A d \in UsedClients : Tried(conn[d], conn'[d])
      BY <1>3, <2>7, <2>8, NothingTried
    <3>3. \A d \in UsedClients : Attempted(conn'[d].n, conn'[d].ops)
      BY <3>2 DEF AcceptorInv, Attempts, Tried
    <3>4. ASSUME NEW r \in Unnamed(acc) PROVE Past(conn'[r.of], r)
      BY <3>1, <3>2, PastKept DEF AcceptorInv, Good
    <3>5. Past(conn'[s.of], s)
      BY <2>1, <2>2, <3>1
    <3>6. Unnamed(acc)' = Unnamed(acc) \cup {s}
      BY <2>4 DEF Unnamed
    <3> QED
      BY <2>5, <3>1, <3>2, <3>3, <3>4, <3>5, <3>6 DEF Attempts, Past, Attempted, Trying
  <2> QED
    BY <1>1, <2>4, <2>5, <2>6, <2>9 DEF AcceptorInv, Between
<1> QED
  BY <1>6, <1>7

-----------------------------------------------------------------------------
(* Steps of the programs and of the channels                               *)

\* The start of a client's channel is canceled: its socket is closed, its timers end.
LEMMA CancelStartKeeps ==
    ASSUME AcceptorInv, NEW c \in UsedClients, NEW late, late \subseteq {o \in conn[c].ops : o.op = "retry"},
           conn' = [conn EXCEPT ![c].ops =
               Aborted(Interrupted(conn[c].ops, conn[c].sock, "closed") \ late) \cup late],
           plan' = plan, acc' = acc, ending' = ending, pc' = pc
    PROVE  AcceptorInv' /\ Trying
<1> DEFINE k == conn[c]
           A == Interrupted(k.ops, k.sock, "closed")
           B == A \ late
           C == Aborted(B)
           D == C \cup late
           l == [k EXCEPT !.ops = D]
<1>1. conn \in [UsedClients -> Conn] /\ k \in Conn
  BY DEF AcceptorInv, Attempts
<1>2. conn' = [conn EXCEPT ![c] = l]
  OBVIOUS
<1>3. /\ k.ops \in SUBSET Op /\ k.n \in Nat
      /\ late \in SUBSET Op /\ \A o \in late : o.op # "connect"
  BY <1>1 DEF Conn
<1> HIDE DEF k
<1>4. NoMore(k.ops, A)
  BY <1>3, InterruptedIs
<1> HIDE DEF A
<1>5. NoMore(A, B)
  BY <1>4, NoMoreLess DEF NoMore
<1> HIDE DEF B
<1>6. NoMore(B, C)
  BY <1>5, AbortedIs DEF NoMore
<1> HIDE DEF C
<1>7. NoMore(C, D)
  <2>1. C \in SUBSET Op
    BY <1>6 DEF NoMore
  <2>2. D \in SUBSET Op /\ D \subseteq C \cup late
    BY <1>3, <2>1
  <2> QED
    BY <1>3, <2>1, <2>2, NoMoreBut
<1> HIDE DEF D
<1>8. NoMore(k.ops, B) /\ NoMore(B, D)
  BY <1>4, <1>5, <1>6, <1>7, NoMoreTwice
<1>9. NoMore(k.ops, D)
  BY <1>8, NoMoreTwice
<1>10. l \in Conn /\ l.n = k.n /\ l.ops = D
  BY <1>1, <1>9, OpsChange DEF NoMore
<1> HIDE DEF l
<1>11. Tried(k, l)
  BY <1>3, <1>9, <1>10 DEF Tried, NoMore
<1> QED
  BY <1>2, <1>11, OneTries DEF k

\* The acceptor is told something by the strand, the session or the thread of a channel.
LEMMA TellStep ==
    ASSUME AcceptorInv, NEW task \in Task, Tell(task), plan' = plan, conn' = conn,
           pc' \in [Used -> Place], ending' \subseteq ServerSessions \cup {NoSession}, InOrder'
    PROVE  AcceptorInv'
<1>1. Between(acc)
  BY DEF AcceptorInv, Between
<1>2. /\ Between(acc)' /\ acc'.greeting = acc.greeting /\ acc'.naming = acc.naming
      /\ acc'.backlog = acc.backlog
  BY <1>1, TellKeeps
<1>3. Apart(acc)' /\ Unnamed(acc') = Unnamed(acc)
  BY <1>2 DEF Apart, Unnamed, AcceptorInv
<1>4. Attempts'
  BY <1>3, AttemptsKept, NothingTried DEF AcceptorInv, Good, Attempts
<1>5. Used' = Used /\ ServerSessions' = ServerSessions
  BY PlanKept
<1> QED
  BY <1>2, <1>3, <1>4, <1>5 DEF AcceptorInv, Between, Place

\* The strand after such a step.
LEMMA TellOrder ==
    ASSUME AcceptorInv, plan' = plan, NEW task \in Task, Tell(task)
    PROVE  /\ acc.strand \in Seq(Task) /\ acc'.strand = Append(acc.strand, task)
           /\ acc'.base = acc.base /\ acc'.stopped = acc.stopped /\ acc'.naming = acc.naming
           /\ NoSession \notin ServerSessions /\ acc.base \subseteq ServerSessions
<1>1. Between(acc) /\ acc \in State
  BY DEF AcceptorInv, Between, Good
<1>2. NoSession \notin ServerSessions
  BY PlanType DEF AcceptorInv
<1> QED
  BY <1>1, <1>2, TellKeeps DEF State

\* A task of a channel.
LEMMA ChannelTaskKeeps ==
    ASSUME AcceptorInv, NEW c \in Used, ChannelTask(c)
    PROVE  AcceptorInv' /\ Trying
<1>1. UNCHANGED <<plan, pc, ending>>
  BY DEF ChannelTask
<1>2. pc' \in [Used -> Place] /\ StaysOpen
  BY <1>1 DEF AcceptorInv, Place, StaysOpen, Opened
<1>3. UNCHANGED <<conn, acc>> \/ \E b : CancelStart(c, b)
  BY DEF ChannelTask
<1>4. CASE UNCHANGED <<conn, acc>>
  BY <1>1, <1>2, <1>4, AcceptorQuiet, QuietIsTrying DEF AcceptorInv
<1>5. ASSUME NEW b, CancelStart(c, b) PROVE AcceptorInv' /\ Trying
  <2>1. CASE c \in Clients
    <3>1. PICK late \in SUBSET {o \in conn[c].ops : o.op = "retry"} :
              /\ conn' = [conn EXCEPT ![c].ops =
                     Aborted(Interrupted(conn[c].ops, conn[c].sock, "closed") \ late) \cup late]
              /\ acc' = acc
      BY <1>5, <2>1 DEF CancelStart
    <3>2. c \in UsedClients
      BY <2>1 DEF UsedClients
    <3> QED
      BY <1>1, <3>1, <3>2, CancelStartKeeps
  <2>2. CASE c \notin Clients
    <3> DEFINE task == Ac!CancelChannelTask(c)
    <3>1. Tell(task) /\ conn' = conn
      BY <1>5, <2>2 DEF CancelStart
    <3>2. c \in UsedServers
      BY <2>2 DEF UsedServers
    <3>3. task \in Task /\ task.do = "cancel"
      BY <3>2 DEF Task, Ac!CancelChannelTask
    <3>4. /\ \A d : task # Ac!GetTask(d)
          /\ \A s : task # Ac!SetTask(s)
          /\ \A t : task # Ac!UnsubscribeTask(t)
          /\ task # Ac!StopTask
      <4> HIDE DEF task
      <4> QED
        BY <3>3 DEF Ac!GetTask, Ac!SetTask, Ac!UnsubscribeTask, Ac!StopTask
    <3> HIDE DEF task
    <3>5. InOrder'
      <4>1. Unended'
        BY <1>1, PlanKept DEF AcceptorInv, InOrder, Unended, Opened
      <4>2. InOrder
        BY DEF AcceptorInv
      <4> QED
        BY <1>1, <3>1, <3>3, <3>4, <4>1, <4>2, TellOrder, InOrderTold
    <3> QED
      BY <1>1, <1>2, <3>1, <3>3, <3>5, TellStep, QuietIsTrying DEF AcceptorInv
  <2> QED
    BY <2>1, <2>2
<1> QED
  BY <1>3, <1>4, <1>5

\* A channel is opened: a client tries to connect, a server's asks for a socket.
LEMMA OpenKeeps ==
    ASSUME AcceptorInv, NEW c \in Used, Open(c)
    PROVE  AcceptorInv' /\ Trying
<1>1. ~Opened(c) /\ pc' = [pc EXCEPT ![c].at = 1] /\ plan' = plan /\ ending' = ending
  BY DEF Open
<1>2. pc \in [Used -> Place]
  BY DEF AcceptorInv, Place
<1>3. pc[c] \in Place /\ [pc[c] EXCEPT !.at = 1] \in Place
  BY <1>2 DEF Place
<1>4. pc' \in [Used -> Place] /\ pc'[c].at = 1 /\ \A d \in Used \ {c} : pc'[d] = pc[d]
  BY <1>1, <1>2, <1>3 DEF Place
<1>5. StaysOpen
  BY <1>4 DEF StaysOpen, Opened, UsedServers
<1>6. CASE c \in Clients
  <2> DEFINE y == [k |-> conn[c], b |-> base[c], shut |-> {}]
             l == Attempt(c, y).k
  <2>1. c \in UsedClients
    BY <1>6 DEF UsedClients
  <2>2. conn \in [UsedClients -> Conn] /\ conn[c] \in Conn
    BY <2>1 DEF AcceptorInv, Attempts
  <2>3. conn' = [conn EXCEPT ![c] = l] /\ acc' = acc
    BY <1>6 DEF Open
  <2>4. Made(y) /\ y.k = conn[c]
    BY <2>2 DEF Made
  <2> HIDE DEF y
  <2>5. Tried(conn[c], l) /\ l \in Conn
    BY <2>1, <2>4, AttemptTries DEF Tried
  <2> HIDE DEF l
  <2>6. conn' \in [UsedClients -> Conn] /\ \A d \in UsedClients : Tried(conn[d], conn'[d])
    BY <2>2, <2>3, <2>5, NothingTried
  <2> QED
    BY <1>1, <1>4, <1>5, <2>3, <2>6, AcceptorAlone DEF Trying
<1>7. CASE c \notin Clients
  <2> DEFINE task == Ac!GetTask(c)
  <2>1. Tell(task) /\ conn' = conn
    BY <1>7 DEF Open
  <2>2. c \in UsedServers
    BY <1>7 DEF UsedServers
  <2>3. task \in Task
    BY <2>2 DEF Task, Ac!GetTask
  <2>4. /\ \A d \in UsedServers : task = Ac!GetTask(d) => d = c
        /\ \A s : task # Ac!SetTask(s)
        /\ \A t : task # Ac!UnsubscribeTask(t)
        /\ task # Ac!StopTask
    BY TasksDiffer
  <2>5. plan.session[c] \in ServerSessions \ ending
    BY <1>1, <2>2, PlanType DEF AcceptorInv, InOrder, Unended
  <2> HIDE DEF task
  <2>6. InOrder'
    <3>1. Unended'
      BY <1>1, <1>5, PlanKept DEF AcceptorInv, InOrder, Unended, StaysOpen
    <3>2. InOrder
      BY DEF AcceptorInv
    <3> QED
      BY <1>1, <2>1, <2>3, <2>4, <2>5, <3>1, <3>2, TellOrder, InOrderTold
  <2> QED
    BY <1>1, <1>4, <2>1, <2>3, <2>6, TellStep, QuietIsTrying DEF AcceptorInv
<1> QED
  BY <1>6, <1>7

\* The calls that a program makes after that.
LEMMA ProgramKeeps ==
    ASSUME AcceptorInv, NEW c \in Used, Program(c)
    PROVE  AcceptorInv'
<1>1. CASE Open(c)
  BY <1>1, OpenKeeps
<1>2. CASE ~Open(c)
  <2>1. pc \in [Used -> Place]
    BY DEF AcceptorInv, Place
  <2>2. UNCHANGED <<plan, conn, acc, ending>>
    BY <1>2 DEF Program, Send, Recv, Skip, Close, CloseRecv, Cancel, Call
  <2>3. Done(c) \/ pc' = [pc EXCEPT ![c].half = TRUE]
    BY <1>2 DEF Program, Send, Recv, Skip, Close, CloseRecv, Cancel
  <2>4. /\ pc[c] \in Place
        /\ [at |-> pc[c].at + 1, half |-> FALSE] \in Place
        /\ [pc[c] EXCEPT !.half = TRUE] \in Place
        /\ [pc[c] EXCEPT !.half = TRUE].at = pc[c].at
    <3>1. ASSUME NEW p \in Place
          PROVE  /\ [at |-> p.at + 1, half |-> FALSE] \in Place
                 /\ [p EXCEPT !.half = TRUE] \in Place
                 /\ [p EXCEPT !.half = TRUE].at = p.at
      <4>1. p.at + 1 \in Nat
        BY DEF Place
      <4>2. [at |-> p.at + 1, half |-> FALSE] \in Place
        BY <4>1 DEF Place
      <4> QED
        BY <4>2 DEF Place
    <3>2. pc[c] \in Place
      BY <2>1
    <3> QED
      BY <3>1, <3>2
  <2>5. \E p \in Place : pc' = [pc EXCEPT ![c] = p] /\ p.at >= pc[c].at
    <3>1. CASE Done(c)
      <4> DEFINE p == [at |-> pc[c].at + 1, half |-> FALSE]
      <4>1. pc' = [pc EXCEPT ![c] = p]
        BY <3>1 DEF Done
      <4>2. p.at >= pc[c].at
        BY <2>4 DEF Place
      <4> QED
        BY <2>4, <4>1, <4>2
    <3>2. CASE pc' = [pc EXCEPT ![c].half = TRUE]
      <4> DEFINE p == [pc[c] EXCEPT !.half = TRUE]
      <4>1. pc' = [pc EXCEPT ![c] = p]
        BY <3>2
      <4>2. p.at >= pc[c].at
        BY <2>4 DEF Place
      <4> QED
        BY <2>4, <4>1, <4>2
    <3> QED
      BY <2>3, <3>1, <3>2
  <2>6. pc' \in [Used -> Place] /\ StaysOpen
    BY <2>1, <2>5 DEF StaysOpen, Opened, UsedServers, Place
  <2> QED
    BY <2>2, <2>6, AcceptorQuiet
<1> QED
  BY <1>1, <1>2

\* A message has been sent or received, or will not be.
LEMMA IoKeeps ==
    ASSUME AcceptorInv, NEW c \in Used, SendDone(c) \/ RecvHeader(c) \/ RecvDone(c)
    PROVE  AcceptorInv'
<1>1. UNCHANGED <<plan, pc, conn, acc, ending>>
  BY DEF SendDone, RecvHeader, RecvDone
<1>2. pc' \in [Used -> Place] /\ StaysOpen
  BY <1>1 DEF AcceptorInv, Place, StaysOpen, Opened
<1> QED
  BY <1>1, <1>2, AcceptorQuiet

-----------------------------------------------------------------------------
(* Steps of the acceptor and of the server's program                       *)

\* A session is stopped when its channels have been opened.
LEMMA StopSessionKeeps ==
    ASSUME AcceptorInv, NEW t \in ServerSessions, StopSession(t)
    PROVE  AcceptorInv'
<1> DEFINE task == Ac!UnsubscribeTask(t)
<1>1. /\ t \notin ending /\ ending' = ending \cup {t} /\ Tell(task)
      /\ UNCHANGED <<plan, pc, conn>>
      /\ \A c \in UsedServers : plan.session[c] = t => Opened(c)
  BY DEF StopSession, End, UsedServers
<1>2. task \in Task
  BY DEF Task, Ac!UnsubscribeTask
<1>3. (\A c : task # Ac!GetTask(c)) /\ (\A s : task # Ac!SetTask(s))
  BY TasksDiffer
<1>4. Unended'
  <2>1. UsedServers' = UsedServers
    BY <1>1, PlanKept
  <2> QED
    BY <1>1, <2>1 DEF AcceptorInv, InOrder, Unended, Opened
<1>5. InOrder /\ t \in ServerSessions \ ending
  BY <1>1 DEF AcceptorInv
<1>6. \E u \in ServerSessions \ ending :
          ending' = ending \cup {u} /\ task = Ac!UnsubscribeTask(u)
  BY <1>1, <1>5
<1> HIDE DEF task
<1>7. InOrder'
  BY <1>1, <1>2, <1>3, <1>4, <1>5, <1>6, TellOrder, InOrderTold
<1>8. ending' \subseteq ServerSessions \cup {NoSession} /\ pc' \in [Used -> Place]
  BY <1>1 DEF AcceptorInv, Place
<1> QED
  BY <1>1, <1>2, <1>7, <1>8, TellStep

\* The acceptor is stopped when all sessions have been.
LEMMA StopAcceptorKeeps ==
    ASSUME AcceptorInv, StopAcceptor
    PROVE  AcceptorInv'
<1> DEFINE task == Ac!StopTask
<1>1. /\ NoSession \notin ending /\ ending' = ending \cup {NoSession} /\ Tell(task)
      /\ ServerSessions \subseteq ending /\ UNCHANGED <<plan, pc, conn>>
  BY DEF StopAcceptor, End
<1>2. task \in Task
  BY DEF Task, Ac!StopTask
<1>3. /\ \A c : task # Ac!GetTask(c)
      /\ \A s : task # Ac!SetTask(s)
  BY TasksDiffer
<1>4. NoSession \notin ServerSessions /\ \A c \in UsedServers : plan.session[c] \in ServerSessions
  BY PlanType DEF AcceptorInv
<1>5. Unended'
  <2>1. UsedServers' = UsedServers
    BY <1>1, PlanKept
  <2> QED
    BY <1>1, <1>4, <2>1 DEF AcceptorInv, InOrder, Unended, Opened
<1>6. InOrder /\ task = Ac!StopTask
  BY DEF AcceptorInv
<1> HIDE DEF task
<1>7. InOrder'
  BY <1>1, <1>2, <1>3, <1>5, <1>6, TellOrder, InOrderTold
<1>8. ending' \subseteq ServerSessions \cup {NoSession} /\ pc' \in [Used -> Place]
  BY <1>1 DEF AcceptorInv, Place
<1> QED
  BY <1>1, <1>2, <1>7, <1>8, TellStep

\* A connection is accepted: it is greeted next, and another one waited for later.
LEMMA AcceptKeeps ==
    ASSUME AcceptorInv, Accept
    PROVE  AcceptorInv'
<1>1. PICK s \in acc.backlog :
          /\ acc' = [acc EXCEPT !.backlog = @ \ {s}, !.greeting = @ \cup {s},
                                !.accepting = "none", !.strand = Append(@, Ac!StartTask)]
          /\ acc.accepting = "open" /\ UNCHANGED <<plan, pc, conn, ending>>
  BY DEF Accept
<1> DEFINE task == Ac!StartTask
           q == Append(acc.strand, task)
           l == acc.backlog \ {s}
           g == acc.greeting \cup {s}
           b == [acc EXCEPT !.backlog = l, !.greeting = g, !.accepting = "none", !.strand = q]
<1>2. acc \in State /\ Good(acc) /\ Emptying(acc) /\ Apart(acc)
      /\ acc.given = [c \in Used |-> <<>>] /\ acc.closed = {}
  BY DEF AcceptorInv, Good
<1>3. acc' = b
  BY <1>1
<1>4. task \in Task /\ task.do = "start"
  BY DEF Task, Ac!StartTask
<1>5. /\ \A c : task # Ac!GetTask(c)
      /\ \A r : task # Ac!SetTask(r)
      /\ \A t : task # Ac!UnsubscribeTask(t)
      /\ task # Ac!StopTask
  <2> HIDE DEF task
  <2> QED
    BY <1>4 DEF Ac!GetTask, Ac!SetTask, Ac!UnsubscribeTask, Ac!StopTask
<1> HIDE DEF task
<1>6. q \in Seq(Task) /\ l \in SUBSET Sock /\ g \in SUBSET Sock
  BY <1>2, <1>4 DEF State
<1> HIDE DEF q, l, g
<1>7. b \in State
  BY <1>2, <1>6 DEF State
<1>8. /\ Moved(acc, b) /\ b.backlog = l /\ b.accepting = "none"
      /\ b.greeting = g /\ b.naming = acc.naming /\ b.strand = q
  BY <1>2 DEF State, Moved
<1> HIDE DEF b
<1>9. Emptying(b)
  <2>1. ~acc.stopped /\ acc.emptied = 0
    BY <1>1, <1>2 DEF Emptying
  <2> QED
    BY <1>8, <2>1 DEF Emptying, Moved
<1>10. Good(b)
  BY <1>2, <1>7, <1>8, <1>9, MovedKeeps
<1>11. Good(acc)' /\ Used' = Used /\ ServerSessions' = ServerSessions
  BY <1>1, <1>3, <1>10, GoodKept, PlanKept
<1>12. Apart(acc') /\ Unnamed(acc') = Unnamed(acc)
  BY <1>2, <1>3, <1>8 DEF Apart, Unnamed, l, g
<1>13. InOrder'
  <2>1. Unended'
    BY <1>1, PlanKept DEF AcceptorInv, InOrder, Unended, Opened
  <2>2. InOrder /\ acc.strand \in Seq(Task) /\ acc.base \subseteq ServerSessions
        /\ NoSession \notin ServerSessions
    BY <1>2, PlanType DEF AcceptorInv, State
  <2>3. /\ acc'.strand = Append(acc.strand, task)
        /\ acc'.base = acc.base /\ acc'.stopped = acc.stopped /\ acc'.naming = acc.naming
    BY <1>3, <1>8 DEF Moved, q
  <2> QED
    BY <1>1, <1>5, <2>1, <2>2, <2>3, InOrderTold
<1>14. Attempts'
  BY <1>1, <1>2, <1>12, AttemptsKept, NothingTried DEF AcceptorInv, Attempts
<1> QED
  BY <1>1, <1>2, <1>3, <1>8, <1>11, <1>12, <1>13, <1>14 DEF AcceptorInv, Apart, Moved

\* The invariant after a step in which channels may be told of sockets.
LEMMA AcceptedStep ==
    ASSUME AcceptorInv, NEW a, Good(a), Accepted(a), UNCHANGED <<plan, pc, conn, ending>>,
           Unnamed(a) \subseteq Unnamed(acc),
           a.greeting \subseteq acc.greeting, a.naming \subseteq acc.naming,
           a.backlog \subseteq acc.backlog,
           InOrder'
    PROVE  AcceptorInv'
<1>1. Between(acc)' /\ Same(a, acc')
  BY AcceptedKeeps
<1>2. /\ acc'.greeting = a.greeting /\ acc'.naming = a.naming /\ acc'.backlog \subseteq a.backlog
  BY <1>1 DEF Same
<1>3. Apart(acc)' /\ Unnamed(acc') \subseteq Unnamed(acc)
  BY <1>2 DEF Apart, Unnamed, AcceptorInv
<1>4. Attempts'
  BY <1>3, AttemptsKept, NothingTried DEF AcceptorInv, Good, Attempts
<1>5. Used' = Used /\ ServerSessions' = ServerSessions
  BY PlanKept
<1>6. pc' \in [Used -> Place]
  BY DEF AcceptorInv, Place
<1> QED
  BY <1>1, <1>3, <1>4, <1>5, <1>6 DEF AcceptorInv, Between, Place

\* An accept ends that was aborted.
LEMMA AcceptAbortedKeeps ==
    ASSUME AcceptorInv, AcceptAborted
    PROVE  AcceptorInv'
<1> DEFINE a == Ac!EndAccept(acc)
<1>1. acc.accepting = "aborted" /\ Accepted(a) /\ UNCHANGED <<plan, pc, conn, ending>>
  BY DEF AcceptAborted
<1>2. Good(acc) /\ InOrder
  BY DEF AcceptorInv
<1>3. Good(a) /\ Left(acc, a) /\ a.greeting = acc.greeting /\ a.naming = acc.naming
  BY <1>1, <1>2, EndAcceptKeeps
<1> HIDE DEF a
<1>4. Same(a, acc')
  BY <1>1, <1>3, AcceptedKeeps
<1>5. InOrder'
  BY <1>1, <1>2, <1>3, <1>4, InOrderStays DEF Left, Same, StaysOpen, Opened, InOrder, NamesOnce
<1> QED
  BY <1>1, <1>3, <1>5, AcceptedStep DEF Left, Unnamed

\* A socket that is erased before it has a name has no task.
LEMMA ErasedStep ==
    ASSUME AcceptorInv, NEW s \in acc.greeting \cup acc.naming,
           Ac!SetTask(s) \notin Range(acc.strand), Accepted(Ac!Erase(acc, s)),
           UNCHANGED <<plan, pc, conn, ending>>
    PROVE  AcceptorInv'
<1> DEFINE a == Ac!Erase(acc, s)
<1>1. Good(acc) /\ InOrder
  BY DEF AcceptorInv
<1>2. Good(a) /\ Left(acc, a) /\ Gone(acc, a, s) /\ Accepted(a)
  BY <1>1, EraseKeeps
<1> HIDE DEF a
<1>3. Same(a, acc')
  BY <1>2, AcceptedKeeps
<1>4. ASSUME NEW r \in Sock, NEW i \in Nat, At(i, Ac!SetTask(r)) PROVE r \in acc'.naming
  <2>1. r \in acc.naming
    BY <1>1, <1>4 DEF InOrder, NamesOnce
  <2>2. r # s
    BY <1>4 DEF At, Range
  <2> QED
    BY <1>2, <1>3, <2>1, <2>2 DEF Gone, Same
<1>5. InOrder'
  BY <1>1, <1>2, <1>3, <1>4, InOrderStays DEF Left, Same, StaysOpen, Opened
<1> QED
  BY <1>2, <1>5, AcceptedStep DEF Left, Gone, Unnamed

\* A greeting has been sent, or cannot be.
LEMMA GreetedKeeps ==
    ASSUME AcceptorInv, Greeted
    PROVE  AcceptorInv'
<1>1. PICK s \in acc.greeting :
          /\ \/ acc' = [acc EXCEPT !.greeting = @ \ {s}, !.naming = @ \cup {s}]
             \/ Accepted(Ac!Erase(acc, s))
          /\ UNCHANGED <<plan, pc, conn, ending>>
  BY DEF Greeted
<1>2. acc \in State /\ Good(acc) /\ Emptying(acc) /\ Apart(acc) /\ InOrder
      /\ acc.given = [c \in Used |-> <<>>] /\ acc.closed = {}
  BY DEF AcceptorInv, Good
<1>3. CASE Accepted(Ac!Erase(acc, s))
  <2>1. s \in Sock /\ s \notin acc.naming
    BY <1>2 DEF State, Apart
  <2>2. ASSUME Ac!SetTask(s) \in Range(acc.strand) PROVE FALSE
    <3>1. PICK i \in DOMAIN acc.strand : acc.strand[i] = Ac!SetTask(s)
      BY <2>2 DEF Range
    <3>2. i \in Nat /\ At(i, Ac!SetTask(s))
      BY <1>2, <3>1 DEF At, State
    <3> QED
      BY <1>2, <2>1, <3>2 DEF InOrder, NamesOnce
  <2> QED
    BY <1>1, <1>3, <2>2, ErasedStep
<1>4. CASE acc' = [acc EXCEPT !.greeting = @ \ {s}, !.naming = @ \cup {s}]
  <2> DEFINE g == acc.greeting \ {s}
             n == acc.naming \cup {s}
             b == [acc EXCEPT !.greeting = g, !.naming = n]
  <2>1. acc' = b
    BY <1>4
  <2>2. g \in SUBSET Sock /\ n \in SUBSET Sock
    BY <1>2 DEF State
  <2> HIDE DEF g, n
  <2>3. b \in State
    BY <1>2, <2>2 DEF State
  <2>4. /\ Moved(acc, b) /\ b.backlog = acc.backlog /\ b.accepting = acc.accepting
        /\ b.greeting = g /\ b.naming = n /\ b.strand = acc.strand
    BY <1>2 DEF State, Moved
  <2> HIDE DEF b
  <2>5. Ac!Pendings(b) = Ac!Pendings(acc)
    BY <2>4 DEF Ac!Pendings, g, n
  <2>6. Emptying(b)
    BY <1>2, <2>4, <2>5 DEF Emptying, Moved
  <2>7. Good(b)
    BY <1>2, <2>3, <2>4, <2>6, MovedKeeps
  <2>8. Good(acc)' /\ Used' = Used /\ ServerSessions' = ServerSessions
    BY <1>1, <2>1, <2>7, GoodKept, PlanKept
  <2>9. Apart(acc') /\ Unnamed(acc') = Unnamed(acc)
    BY <1>2, <2>1, <2>4 DEF Apart, Unnamed, g, n
  <2>10. InOrder'
    BY <1>1, <1>2, <2>1, <2>4, InOrderStays
       DEF Moved, StaysOpen, Opened, InOrder, NamesOnce, n
  <2>11. Attempts'
    BY <1>1, <1>2, <2>9, AttemptsKept, NothingTried DEF AcceptorInv, Attempts
  <2> QED
    BY <1>1, <1>2, <2>1, <2>4, <2>8, <2>9, <2>10, <2>11 DEF AcceptorInv, Apart, Moved
<1> QED
  BY <1>1, <1>3, <1>4

\* A name has come, or will not come.
LEMMA NameReadKeeps ==
    ASSUME AcceptorInv, NameRead
    PROVE  AcceptorInv'
<1>1. PICK s \in acc.naming :
          /\ Ac!SetTask(s) \notin Range(acc.strand)
          /\ Tell(Ac!SetTask(s)) \/ Accepted(Ac!Erase(acc, s))
          /\ UNCHANGED <<plan, pc, conn, ending>>
  BY DEF NameRead
<1>2. CASE Accepted(Ac!Erase(acc, s))
  BY <1>1, <1>2, ErasedStep
<1>3. CASE Tell(Ac!SetTask(s))
  <2> DEFINE task == Ac!SetTask(s)
  <2>1. s \in Sock /\ Tell(task)
    BY <1>3 DEF AcceptorInv, Good, State
  <2>2. task \in Task
    BY <2>1 DEF Task, Ac!SetTask
  <2>3. /\ \A c : task # Ac!GetTask(c)
        /\ \A r : task = Ac!SetTask(r) => r = s
        /\ \A t : task # Ac!UnsubscribeTask(t)
        /\ task # Ac!StopTask
    BY TasksDiffer
  <2>4. \A i \in Nat : ~At(i, task)
    BY <1>1 DEF At, Range
  <2> HIDE DEF task
  <2>5. InOrder'
    <3>1. Unended'
      BY <1>1, PlanKept DEF AcceptorInv, InOrder, Unended, Opened
    <3>2. InOrder
      BY DEF AcceptorInv
    <3> QED
      BY <1>1, <2>1, <2>2, <2>3, <2>4, <3>1, <3>2, TellOrder, InOrderTold
  <2>6. pc' \in [Used -> Place] /\ ending' \subseteq ServerSessions \cup {NoSession}
    BY <1>1 DEF AcceptorInv, Place
  <2> QED
    BY <1>1, <2>1, <2>2, <2>5, <2>6, TellStep
<1> QED
  BY <1>1, <1>2, <1>3

-----------------------------------------------------------------------------
(* The strand of the acceptor                                              *)

\* The strand without the task that is done first.
Shortened == [acc EXCEPT !.strand = Tail(@)]

\* The acceptor that does a task is between two tasks but for its strand.
LEMMA ShortenedIs ==
    ASSUME AcceptorInv, acc.strand # <<>>
    PROVE  /\ Good(Shortened) /\ Shortened.strand = Tail(acc.strand)
           /\ Shortened.base = acc.base /\ Shortened.stopped = acc.stopped
           /\ Shortened.greeting = acc.greeting /\ Shortened.naming = acc.naming
           /\ Shortened.backlog = acc.backlog
<1> DEFINE q == Tail(acc.strand)
           b == [acc EXCEPT !.strand = q]
<1>1. acc \in State /\ Good(acc) /\ Emptying(acc)
  BY DEF AcceptorInv, Good
<1>2. q \in Seq(Task)
  BY <1>1 DEF State
<1>3. Shortened = b
  BY DEF Shortened
<1> HIDE DEF q
<1>4. b \in State
  BY <1>1, <1>2 DEF State
<1>5. /\ Moved(acc, b) /\ b.backlog = acc.backlog /\ b.accepting = acc.accepting
      /\ b.greeting = acc.greeting /\ b.naming = acc.naming /\ b.strand = q
  BY <1>1 DEF State, Moved
<1> HIDE DEF b
<1>6. Emptying(b)
  BY <1>1, <1>5 DEF Emptying, Moved, Ac!Pendings
<1>7. Good(b)
  BY <1>1, <1>4, <1>5, <1>6, MovedKeeps
<1> QED
  BY <1>3, <1>5, <1>7 DEF Moved, q

\* The invariant after a task of the acceptor.
LEMMA TaskStep ==
    ASSUME AcceptorInv, acc.strand # <<>>, NEW b, Good(b), Accepted(b),
           UNCHANGED <<plan, pc, conn, ending>>, b.strand = Tail(acc.strand),
           b.greeting \subseteq acc.greeting, b.naming \subseteq acc.naming,
           b.backlog \subseteq acc.backlog,
           \A t : t \in b.base <=> t \in acc.base /\ Head(acc.strand) # Ac!UnsubscribeTask(t),
           b.stopped <=> acc.stopped \/ Head(acc.strand) = Ac!StopTask,
           \A s \in acc.naming : Head(acc.strand) # Ac!SetTask(s) => s \in b.naming
    PROVE  AcceptorInv'
<1>1. Same(b, acc')
  BY AcceptedKeeps
<1>2. /\ acc'.strand = Tail(acc.strand) /\ acc'.base = b.base /\ acc'.stopped = b.stopped
      /\ acc'.naming = b.naming
  BY <1>1 DEF Same
<1>3. acc.strand \in Seq(Task) /\ InOrder /\ StaysOpen
  BY DEF AcceptorInv, Good, State, StaysOpen, Opened
<1>4. InOrder'
  BY <1>2, <1>3, InOrderDone
<1>5. Unnamed(b) \subseteq Unnamed(acc)
  BY DEF Unnamed
<1> QED
  BY <1>4, <1>5, AcceptedStep

\* A task other than those that stop the acceptor or a session, or name a socket.
LEMMA PlainTaskStep ==
    ASSUME AcceptorInv, acc.strand # <<>>, NEW b, Good(b), Same(Shortened, b), Accepted(b),
           UNCHANGED <<plan, pc, conn, ending>>,
           Head(acc.strand).do \in {"get", "cancel", "start"}
    PROVE  AcceptorInv'
<1> DEFINE task == Head(acc.strand)
<1>1. /\ \A s : task # Ac!SetTask(s)
      /\ \A t : task # Ac!UnsubscribeTask(t)
      /\ task # Ac!StopTask
  <2>1. task.do \in {"get", "cancel", "start"}
    OBVIOUS
  <2> HIDE DEF task
  <2> QED
    BY <2>1 DEF Ac!SetTask, Ac!UnsubscribeTask, Ac!StopTask
<1>2. /\ b.strand = Tail(acc.strand) /\ b.greeting = acc.greeting /\ b.naming = acc.naming
      /\ b.backlog \subseteq acc.backlog /\ b.base = acc.base /\ b.stopped = acc.stopped
  BY ShortenedIs DEF Same
<1> QED
  BY <1>1, <1>2, TaskStep

\* Tasks are told apart by what they do.
LEMMA TaskForms ==
    ASSUME NEW task \in Task
    PROVE  /\ task.do \in {"get", "cancel"} => task.of \in UsedServers
           /\ task.do = "get" => task = Ac!GetTask(task.of)
           /\ task.do = "set" => task.of \in Sock /\ task = Ac!SetTask(task.of)
           /\ task.do = "unsubscribe" =>
                  task.of \in ServerSessions /\ task = Ac!UnsubscribeTask(task.of)
           /\ task.do = "stop" => task = Ac!StopTask
<1>1. CASE task \in [do : {"get", "cancel"}, of : UsedServers]
  BY <1>1 DEF Ac!GetTask
<1>2. CASE task \in [do : {"set"}, of : Sock]
  BY <1>2 DEF Ac!SetTask
<1>3. CASE task \in [do : {"unsubscribe"}, of : ServerSessions]
  BY <1>3 DEF Ac!UnsubscribeTask
<1>4. CASE task \in [do : {"stop", "start"}]
  BY <1>4 DEF Ac!StopTask
<1> QED
  BY <1>1, <1>2, <1>3, <1>4 DEF Task

\* A task of the acceptor.
LEMMA AcceptorTaskKeeps ==
    ASSUME AcceptorInv, AcceptorTask
    PROVE  AcceptorInv'
<1> DEFINE task == Head(acc.strand)
           a == Shortened
<1>1. /\ acc.strand # <<>> /\ UNCHANGED <<plan, pc, conn, ending>>
      /\ \/ task.do = "get" /\ Accepted(Ac!GetSocket(a, task.of))
         \/ task.do = "cancel" /\ Accepted(Ac!CancelChannel(a, task.of))
         \/ task.do = "set" /\ Accepted(Ac!Name(a, task.of))
         \/ task.do = "unsubscribe" /\ Accepted(Ac!Unsubscribe(a, task.of))
         \/ task.do = "stop" /\ Accepted(Ac!Stop(a))
         \/ task.do = "start" /\ Accepted(Ac!Start(a))
  BY DEF AcceptorTask, Shortened
<1>2. /\ Good(a) /\ a.strand = Tail(acc.strand)
      /\ a.base = acc.base /\ a.stopped = acc.stopped
      /\ a.greeting = acc.greeting /\ a.naming = acc.naming /\ a.backlog = acc.backlog
  BY <1>1, ShortenedIs
<1>3. plan \in Plans /\ acc \in State /\ InOrder /\ Apart(acc) /\ a.plan = Names
  BY <1>2 DEF AcceptorInv, Good, State
<1>4. task \in Task /\ At(1, task) /\ 1 \in Nat
  BY <1>1, <1>3 DEF State, At
<1>5. CASE task.do = "get" /\ Accepted(Ac!GetSocket(a, task.of))
  <2>1. task.of \in UsedServers /\ task = Ac!GetTask(task.of)
    BY <1>4, <1>5, TaskForms
  <2>2. plan.session[task.of] \in acc.base
    BY <1>3, <1>4, <2>1 DEF InOrder, GetsFirst
  <2>3. plan.session[task.of] \in a.base
    BY <1>2, <2>2
  <2> HIDE DEF a
  <2>4. Good(Ac!GetSocket(a, task.of)) /\ Same(a, Ac!GetSocket(a, task.of))
    BY <1>2, <1>3, <2>1, <2>3, GetSocketKeeps
  <2> QED
    BY <1>1, <1>5, <2>4, PlainTaskStep DEF a
<1>6. CASE task.do = "cancel" /\ Accepted(Ac!CancelChannel(a, task.of))
  <2>1. task.of \in UsedServers
    BY <1>4, <1>6, TaskForms
  <2> HIDE DEF a
  <2>2. Good(Ac!CancelChannel(a, task.of)) /\ Same(a, Ac!CancelChannel(a, task.of))
    BY <1>2, <1>3, <2>1, CancelChannelKeeps
  <2> QED
    BY <1>1, <1>6, <2>2, PlainTaskStep DEF a
<1>7. CASE task.do = "start" /\ Accepted(Ac!Start(a))
  <2> HIDE DEF a
  <2>1. Good(Ac!Start(a)) /\ Same(a, Ac!Start(a))
    BY <1>2, StartKeeps
  <2> QED
    BY <1>1, <1>7, <2>1, PlainTaskStep DEF a
<1>8. CASE task.do = "set" /\ Accepted(Ac!Name(a, task.of))
  <2> DEFINE b == Ac!Name(a, task.of)
  <2>1. task.of \in Sock /\ task = Ac!SetTask(task.of)
    BY <1>4, <1>8, TaskForms
  <2>2. task.of \in a.naming /\ task.of \notin a.greeting
    BY <1>2, <1>3, <1>4, <2>1 DEF InOrder, NamesOnce, Apart
  <2> HIDE DEF a
  <2>3. /\ Good(b) /\ Left(a, b) /\ b.greeting = a.greeting /\ b.naming = a.naming \ {task.of}
    BY <1>2, <1>3, <2>2, NameKeeps
  <2>4. (\A t : task # Ac!UnsubscribeTask(t)) /\ task # Ac!StopTask
    BY <2>1, TasksDiffer
  <2>5. \A s \in acc.naming : task # Ac!SetTask(s) => s \in b.naming
    BY <1>2, <2>1, <2>3
  <2>6. Accepted(b)
    BY <1>8
  <2> HIDE DEF b
  <2> QED
    BY <1>1, <1>2, <2>3, <2>4, <2>5, <2>6, TaskStep DEF Left
<1>9. CASE task.do = "unsubscribe" /\ Accepted(Ac!Unsubscribe(a, task.of))
  <2> DEFINE t == task.of
             b == Ac!Unsubscribe(a, t)
  <2>1. t \in ServerSessions /\ task = Ac!UnsubscribeTask(t)
    BY <1>4, <1>9, TaskForms
  <2>2. t \in acc.base
    BY <1>3, <1>4, <2>1 DEF InOrder, EndsOnce
  <2>3. Accepted(b)
    BY <1>9
  <2> HIDE DEF a, t
  <2>4. /\ Good(b) /\ ~b.stopped /\ ~a.stopped /\ b.strand = a.strand
        /\ b.greeting = a.greeting /\ b.naming = a.naming
        /\ b.base = a.base \ {t} /\ b.backlog \subseteq a.backlog
    BY <1>2, <1>3, <2>2, UnsubscribeKeeps
  <2>5. (\A u : task = Ac!UnsubscribeTask(u) <=> u = t) /\ task # Ac!StopTask
        /\ \A s : task # Ac!SetTask(s)
    BY <2>1, TasksDiffer
  <2>6. \A u : u \in b.base <=> u \in acc.base /\ task # Ac!UnsubscribeTask(u)
    BY <1>2, <2>4, <2>5
  <2>7. b.stopped <=> acc.stopped \/ task = Ac!StopTask
    BY <1>2, <2>4, <2>5
  <2> HIDE DEF b
  <2> QED
    BY <1>1, <1>2, <2>3, <2>4, <2>6, <2>7, TaskStep
<1>10. CASE task.do = "stop" /\ Accepted(Ac!Stop(a))
  <2> DEFINE b == Ac!Stop(a)
  <2>1. task = Ac!StopTask
    BY <1>4, <1>10, TaskForms
  <2>2. ~acc.stopped /\ acc.base = {}
    <3>1. ~acc.stopped /\ \A t \in acc.base : \E j \in Nat : j < 1 /\ At(j, Ac!UnsubscribeTask(t))
      BY <1>3, <1>4, <2>1 DEF InOrder, StopsLast
    <3>2. \A k : \A j \in Nat : At(j, k) => j >= 1
      BY <1>3 DEF At, State
    <3> QED
      BY <3>1, <3>2
  <2>3. Accepted(b)
    BY <1>10
  <2> HIDE DEF a
  <2>4. /\ Good(b) /\ b.stopped /\ b.strand = a.strand
        /\ b.greeting = a.greeting /\ b.naming = a.naming
        /\ b.base = a.base /\ b.backlog \subseteq a.backlog
    BY <1>2, <2>2, StopKeeps
  <2>5. \A t : task # Ac!UnsubscribeTask(t)
    BY <2>1, TasksDiffer
  <2>6. \A t : t \in b.base <=> t \in acc.base /\ task # Ac!UnsubscribeTask(t)
    BY <1>2, <2>4, <2>5
  <2> HIDE DEF b
  <2> QED
    BY <1>1, <1>2, <2>1, <2>3, <2>4, <2>6, TaskStep
<1> QED
  BY <1>1, <1>5, <1>6, <1>7, <1>8, <1>9, <1>10

-----------------------------------------------------------------------------
(* The invariant                                                           *)

\* The acceptor listens, its sessions have subscribed and nobody has connected.
LEMMA AcceptorInit ==
    ASSUME Init
    PROVE  AcceptorInv
<1> DEFINE b == Ac!AcceptorOf(Names, ClientSessions)
<1>1. plan \in Plans
  BY DEF Init
<1>2. acc = b
  <2>1. {plan.session[c] : c \in Used \cap Clients} = ClientSessions
    BY DEF ClientSessions, UsedClients
  <2> QED
    BY <2>1 DEF Init, Names
<1> DEFINE g == [c \in DOMAIN plan.session |-> <<>>]
           q == [t \in ServerSessions |-> <<>>]
           ids == [t \in ServerSessions |-> NoSession]
           of == [x \in ClientSessions |-> NoSession]
<1>3. b = [plan |-> Names, strand |-> <<>>, listening |-> TRUE, given |-> g,
           accepting |-> "open",
           backlog |-> {}, greeting |-> {}, naming |-> {}, closed |-> {},
           stopped |-> FALSE, emptied |-> 0, released |-> 0,
           groups |-> ServerSessions, base |-> ServerSessions,
           channels |-> q, sockets |-> q, sessionID |-> ids,
           unclaimed |-> ServerSessions, claimed |-> of, pool |-> <<>>]
  <2>1. Ac!Range(Names.servers) = ServerSessions /\ Names.session = plan.session
    BY DEF Ac!Range, Range, ServerSessions, Names
  <2> QED
    BY <2>1 DEF Ac!AcceptorOf
<1>4. DOMAIN plan.session = Used
  BY <1>1, PlanType
<1>5. b \in State
  <2>1. <<>> \in Seq(Task) /\ <<>> \in Seq(Group)
    OBVIOUS
  <2>2. g \in [Used -> Seq(Gift)]
    BY <1>4
  <2>3. q \in [ServerSessions -> Seq(UsedServers)] /\ q \in [ServerSessions -> Seq(Sock)]
    OBVIOUS
  <2>4. ids \in [ServerSessions -> ClientSessions \cup {NoSession}]
    OBVIOUS
  <2>5. of \in [ClientSessions -> ServerSessions \cup {NoSession}]
    OBVIOUS
  <2> HIDE DEF g, q, ids, of, b
  <2> QED
    BY <1>3, <2>1, <2>2, <2>3, <2>4, <2>5 DEF State
<1> HIDE DEF b
<1>6. NoSock \notin Sock /\ NoSession \notin ServerSessions
  BY <1>1, PlanType, NoneAssumption DEF Sock, UsedClients
<1>7. Wanted(b)
  BY <1>3 DEF Wanted, Ac!hasSubscriptions
<1>8. Released(b) /\ Emptying(b)
  BY <1>3 DEF Released, Emptying
<1>9. Unmatched(b)
  BY <1>3 DEF Unmatched
<1>10. Good(acc) /\ acc.given = [c \in Used |-> <<>>] /\ acc.closed = {} /\ Apart(acc)
  BY <1>2, <1>3, <1>4, <1>5, <1>7, <1>8, <1>9 DEF Good, Apart
<1>11. ending = {} /\ \A i, k : ~At(i, k)
  <2>1. acc.strand = <<>>
    BY <1>2, <1>3
  <2>2. \A i : i \notin DOMAIN acc.strand
    BY <2>1
  <2> QED
    BY <2>2 DEF Init, At
<1>12. InOrder
  BY <1>2, <1>3, <1>11
     DEF InOrder, Unended, GetsFirst, EndsOnce, StopsLast, NamesOnce
<1>13. Attempts
  <2>1. Unconnected \in Conn /\ Unconnected.ops = {}
    BY DEF Unconnected, Conn
  <2>2. conn = [c \in UsedClients |-> Unconnected]
    BY DEF Init, UsedClients
  <2>3. Unnamed(acc) = {}
    BY <1>2, <1>3 DEF Unnamed
  <2> QED
    BY <2>1, <2>2, <2>3 DEF Attempts, Attempted
<1>14. pc \in [Used -> [at : Nat, half : BOOLEAN]]
  BY DEF Init
<1> QED
  BY <1>1, <1>10, <1>11, <1>12, <1>13, <1>14 DEF AcceptorInv

\* Every step of the system keeps it.
LEMMA AcceptorNext ==
    ASSUME AcceptorInv, [Next]_vars
    PROVE  AcceptorInv'
<1>1. CASE UNCHANGED vars
  <2>1. UNCHANGED <<plan, pc, conn, acc, ending>>
    BY <1>1 DEF vars
  <2>2. pc' \in [Used -> Place] /\ StaysOpen
    BY <2>1 DEF AcceptorInv, Place, StaysOpen, Opened
  <2> QED
    BY <2>1, <2>2, AcceptorQuiet
<1>2. ASSUME NEW c \in Used,
             Program(c) \/ ChannelTask(c) \/ SendDone(c) \/ RecvHeader(c) \/ RecvDone(c)
      PROVE  AcceptorInv'
  BY <1>2, ProgramKeeps, ChannelTaskKeeps, IoKeeps
<1>3. ASSUME NEW c \in Used \cap Clients, ClientStep(c)
      PROVE  AcceptorInv'
  <2>1. c \in UsedClients
    BY DEF UsedClients
  <2> QED
    BY <1>3, <2>1, TimeoutKeeps, ConnectKeeps, LateKeeps, RetryKeeps, ReadKeeps, WriteKeeps
       DEF ClientStep
<1>4. CASE AcceptorStep
  BY <1>4, AcceptKeeps, AcceptAbortedKeeps, GreetedKeeps, NameReadKeeps, AcceptorTaskKeeps
     DEF AcceptorStep
<1>5. ASSUME NEW t \in ServerSessions, StopSession(t)
      PROVE  AcceptorInv'
  BY <1>5, StopSessionKeeps
<1>6. CASE StopAcceptor
  BY <1>6, StopAcceptorKeeps
<1> QED
  BY <1>1, <1>2, <1>3, <1>4, <1>5, <1>6 DEF Next, Run

\* Whatever the programs do, the acceptor is between two tasks in a state in which its
\* groups are wanted, whoever waits does so in vain, and tasks, attempts and sockets are
\* in order.
THEOREM AcceptorIsInOrder == Spec => []AcceptorInv
<1>1. Init => AcceptorInv
  BY AcceptorInit
<1>2. AcceptorInv /\ [Next]_vars => AcceptorInv'
  BY AcceptorNext
<1> QED
  BY <1>1, <1>2, PTL DEF Spec

\* The promises that stop() waits for are set at most once (Acceptor.cpp), whatever the
\* programs, the sessions and the order in which they end.
THEOREM PromisesAreSetOnce == Spec => []PromisedOnce
<1>1. AcceptorInv => PromisedOnce
  BY DEF AcceptorInv, Good, Released, Emptying, PromisedOnce
<1> QED
  BY <1>1, AcceptorIsInOrder, PTL

\* A channel never waits for a socket that its session has, nor for one in the pool while
\* its session has no ID: sockets and channels are paired in whatever order they come.
THEOREM NoMatchIsMissed == Spec => []NoMissedMatch
<1>1. AcceptorInv => NoMissedMatch
  BY DEF AcceptorInv, Good, Unmatched, NoMissedMatch
<1> QED
  BY <1>1, AcceptorIsInOrder, PTL

-----------------------------------------------------------------------------
(* Where the sockets are                                                   *)

\* The sockets that a channel is being given, or has: H is what the channels have.
GivenTo(a, c) == {a.given[c][k].sock : k \in DOMAIN a.given[c]}
Own(a, H, c) == (H[c] \cup GivenTo(a, c)) \ {NoSock}

\* The sockets that wait with a session, and in the pool.
Waits(a, s) == \E t \in ServerSessions : \E k \in DOMAIN a.sockets[t] : s = a.sockets[t][k]
InPool(a, s) ==
    \E g \in DOMAIN a.pool : \E k \in DOMAIN a.pool[g].sockets : s = a.pool[g].sockets[k]
Owned(a, H, s) == \E c \in UsedServers : s \in Own(a, H, c)
Known(a, H, s) == Owned(a, H, s) \/ Waits(a, s) \/ InPool(a, s)

\* A channel has sockets that bear its names and come from the session that its session
\* belongs to, as do the sockets that wait with the session or in a group of the pool.
Fitting(a, H) ==
    /\ \A c \in UsedServers : \A s \in Own(a, H, c) :
          /\ s \in Sock /\ Ac!Matches(a, s, c)
          /\ a.sessionID[plan.session[c]] = plan.session[s.of]
    /\ \A t \in ServerSessions : \A k \in DOMAIN a.sockets[t] :
          a.sessionID[t] = plan.session[a.sockets[t][k].of]
    /\ \A g \in DOMAIN a.pool : \A k \in DOMAIN a.pool[g].sockets :
          a.pool[g].id = plan.session[a.pool[g].sockets[k].of]
    /\ \A x \in ClientSessions : a.claimed[x] # NoSession => a.sessionID[a.claimed[x]] = x

\* Nowhere is a socket twice, and U are the sockets that have no name.
InOnePlace(a, H, U) ==
    /\ \A c, d \in UsedServers : \A s \in Own(a, H, c) : s \in Own(a, H, d) => c = d
    /\ \A t, u \in ServerSessions : \A k \in DOMAIN a.sockets[t], l \in DOMAIN a.sockets[u] :
          a.sockets[t][k] = a.sockets[u][l] => t = u /\ k = l
    /\ \A g, h \in DOMAIN a.pool :
          \A k \in DOMAIN a.pool[g].sockets, l \in DOMAIN a.pool[h].sockets :
              a.pool[g].sockets[k] = a.pool[h].sockets[l] => g = h /\ k = l
    /\ \A s \in Sock :
          /\ ~(Owned(a, H, s) /\ Waits(a, s)) /\ ~(Owned(a, H, s) /\ InPool(a, s))
          /\ ~(Waits(a, s) /\ InPool(a, s))
          /\ s \in U => ~Owned(a, H, s) /\ ~Waits(a, s) /\ ~InPool(a, s)

Paired(a, H, U) == Fitting(a, H) /\ InOnePlace(a, H, U)

\* A socket that is nowhere.
Free(a, H, U, s) == s \notin U /\ ~Known(a, H, s)

\* The sockets of the server's channels.
HeldBy == [c \in UsedServers |-> Held(c)]

\* All sockets that the acceptor has ever seen belong to attempts that are over.
KnownArePast ==
    \A s \in Sock : Known(acc, HeldBy, s) => Past(conn[s.of], s)

-----------------------------------------------------------------------------
(* Channels                                                                *)

IsSeq(q) == q \in Seq(Range(q))

\* Tasks that are for a queue name it.
Aimed(q) == \A i \in DOMAIN q : q[i].do \in {"start", "handle"} => q[i].dir \in Ch!Dir

\* The parts of a channel that say which sockets it has.
Shape(b) ==
    /\ {"strand", "handle", "queue"} \subseteq DOMAIN b
    /\ IsSeq(b.strand) /\ Aimed(b.strand) /\ Ch!Dir \subseteq DOMAIN b.queue
    /\ \A d \in Ch!Dir : IsSeq(b.queue[d])

Shapes == base = [c \in Used |-> base[c]] /\ \A c \in UsedServers : Shape(base[c])

PairingInv ==
    /\ AcceptorInv /\ Shapes
    /\ Paired(acc, HeldBy, Unnamed(acc)) /\ KnownArePast

-----------------------------------------------------------------------------
(* Places that sockets leave                                               *)

\* No socket comes to a place, and no session gets another ID.
Leaves(a, b, H, K) ==
    /\ b.plan = a.plan /\ b.sockets = a.sockets /\ b.sessionID = a.sessionID /\ b.pool = a.pool
    /\ \A c \in UsedServers : Own(b, K, c) \subseteq Own(a, H, c)
    /\ \A x \in ClientSessions : b.claimed[x] \in {a.claimed[x], NoSession}

\* That leaves the others where they are.
LEMMA LeavesPaired ==
    ASSUME NEW a, NEW b, NEW H, NEW K, NEW U, NEW V,
           Leaves(a, b, H, K), Paired(a, H, U), V \subseteq U
    PROVE  /\ Paired(b, K, V)
           /\ \A s : Free(a, H, U, s) => Free(b, K, V, s)
           /\ \A s : Known(b, K, s) => Known(a, H, s)
<1>1. /\ \A s : Waits(b, s) <=> Waits(a, s)
      /\ \A s : InPool(b, s) <=> InPool(a, s)
      /\ \A s : Owned(b, K, s) => Owned(a, H, s)
  BY DEF Leaves, Waits, InPool, Owned
<1>2. Fitting(b, K)
  BY DEF Leaves, Paired, Fitting, Ac!Matches
<1>3. InOnePlace(b, K, V)
  <2>1. \A c, d \in UsedServers : \A s \in Own(b, K, c) : s \in Own(b, K, d) => c = d
    BY DEF Leaves, Paired, InOnePlace
  <2>2. \A s \in Sock :
          /\ ~(Owned(b, K, s) /\ Waits(b, s)) /\ ~(Owned(b, K, s) /\ InPool(b, s))
          /\ ~(Waits(b, s) /\ InPool(b, s))
          /\ s \in V => ~Owned(b, K, s) /\ ~Waits(b, s) /\ ~InPool(b, s)
    BY <1>1 DEF Paired, InOnePlace
  <2> QED
    BY <2>1, <2>2 DEF Leaves, Paired, InOnePlace
<1> QED
  BY <1>1, <1>2, <1>3 DEF Paired, Free, Known

\* Such steps follow each other.
LEMMA LeavesTwice ==
    ASSUME NEW a, NEW b, NEW c, NEW H, NEW K, NEW L, Leaves(a, b, H, K), Leaves(b, c, K, L)
    PROVE  Leaves(a, c, H, L)
BY DEF Leaves

\* What is given to a channel, and to no other.
LEMMA GivenIs ==
    ASSUME NEW a \in State, NEW b, NEW c \in UsedServers, NEW s \in Sock \cup {NoSock}, NEW ok,
           b.given = [a.given EXCEPT ![c] = Append(@, [sock |-> s, ok |-> ok])]
    PROVE  /\ GivenTo(b, c) = GivenTo(a, c) \cup {s}
           /\ \A d \in UsedServers \ {c} : GivenTo(b, d) = GivenTo(a, d)
<1>1. a.given \in [Used -> Seq(Gift)] /\ c \in Used
  BY DEF State, UsedServers
<1> DEFINE g == [sock |-> s, ok |-> ok]
           q == a.given[c]
<1>2. b.given[c] = Append(q, g) /\ \A d \in UsedServers \ {c} : b.given[d] = a.given[d]
  BY <1>1 DEF UsedServers
<1>3. q \in Seq(Gift) /\ g.sock = s
  BY <1>1
<1> HIDE DEF g, q
<1>4. /\ DOMAIN Append(q, g) = 1 .. Len(q) + 1 /\ DOMAIN q = 1 .. Len(q) /\ Len(q) \in Nat
      /\ Append(q, g)[Len(q) + 1] = g
      /\ \A k \in 1 .. Len(q) : Append(q, g)[k] = q[k]
  BY <1>3
<1>5. \A r : (\E k \in DOMAIN Append(q, g) : r = Append(q, g)[k].sock)
                 <=> (\E k \in DOMAIN q : r = q[k].sock) \/ r = s
  BY <1>3, <1>4
<1>6. GivenTo(b, c) = {Append(q, g)[k].sock : k \in DOMAIN Append(q, g)}
  BY <1>2 DEF GivenTo
<1>7. GivenTo(a, c) = {q[k].sock : k \in DOMAIN q}
  BY DEF GivenTo, q
<1>8. \A d \in UsedServers \ {c} : GivenTo(b, d) = GivenTo(a, d)
  BY <1>2 DEF GivenTo
<1>9. \A r : r \in GivenTo(b, c) <=> r \in GivenTo(a, c) \cup {s}
  BY <1>5, <1>6, <1>7
<1> QED
  BY <1>8, <1>9

-----------------------------------------------------------------------------
(* Places that sockets come to                                             *)

\* Nothing but who has a socket, and who waits, changes.
Moves(a, b) ==
    /\ b.plan = a.plan /\ b.sessionID = a.sessionID /\ b.pool = a.pool /\ b.claimed = a.claimed

\* The socket s may come to session t.
Comes(a, H, U, t, s) ==
    s \in Sock /\ Free(a, H, U, s) /\ a.sessionID[t] = plan.session[s.of]

\* Nothing comes but s.
Only(a, b, H, U, s) ==
    /\ \A r : Free(a, H, U, r) /\ r # s => Free(b, H, U, r)
    /\ \A r : Known(b, H, r) => Known(a, H, r) \/ r = s

\* A free socket is given to a channel that bears its names.
LEMMA GivePairs ==
    ASSUME NEW a \in State, NEW b, NEW H, NEW U, NEW c \in UsedServers, NEW s,
           Paired(a, H, U), Comes(a, H, U, plan.session[c], s), Ac!Matches(a, s, c),
           Moves(a, b), b.sockets = a.sockets,
           b.given = [a.given EXCEPT ![c] = Append(@, [sock |-> s, ok |-> TRUE])]
    PROVE  Paired(b, H, U) /\ Only(a, b, H, U, s)
<1>1. /\ GivenTo(b, c) = GivenTo(a, c) \cup {s}
      /\ \A d \in UsedServers \ {c} : GivenTo(b, d) = GivenTo(a, d)
  BY GivenIs DEF Comes
<1>2. /\ \A d \in UsedServers \ {c} : Own(b, H, d) = Own(a, H, d)
      /\ \A r \in Own(b, H, c) : r \in Own(a, H, c) \/ r = s
  BY <1>1 DEF Own
<1>3. /\ \A r : Waits(b, r) <=> Waits(a, r)
      /\ \A r : InPool(b, r) <=> InPool(a, r)
      /\ \A r : Owned(b, H, r) => Owned(a, H, r) \/ r = s
  BY <1>2 DEF Moves, Waits, InPool, Owned
<1>4. /\ s \notin U /\ \A d \in UsedServers : s \notin Own(a, H, d)
      /\ ~Waits(a, s) /\ ~InPool(a, s)
  BY DEF Comes, Free, Known, Owned
<1>5. Fitting(b, H)
  <2>1. ASSUME NEW d \in UsedServers, NEW r \in Own(b, H, d)
        PROVE  /\ r \in Sock /\ Ac!Matches(b, r, d)
               /\ b.sessionID[plan.session[d]] = plan.session[r.of]
    <3>1. CASE r \in Own(a, H, d)
      BY <3>1 DEF Paired, Fitting, Moves, Ac!Matches
    <3>2. CASE r = s /\ d = c
      BY <3>2 DEF Comes, Moves, Ac!Matches
    <3> QED
      BY <1>2, <3>1, <3>2
  <2> QED
    BY <2>1 DEF Paired, Fitting, Moves
<1>6. InOnePlace(b, H, U)
  <2>1. \A d, e \in UsedServers : \A r \in Own(b, H, d) : r \in Own(b, H, e) => d = e
    BY <1>2, <1>4 DEF Paired, InOnePlace
  <2>2. \A r \in Sock :
          /\ ~(Owned(b, H, r) /\ Waits(b, r)) /\ ~(Owned(b, H, r) /\ InPool(b, r))
          /\ ~(Waits(b, r) /\ InPool(b, r))
          /\ r \in U => ~Owned(b, H, r) /\ ~Waits(b, r) /\ ~InPool(b, r)
    BY <1>3, <1>4 DEF Paired, InOnePlace
  <2> QED
    BY <2>1, <2>2 DEF Paired, InOnePlace, Moves
<1> QED
  BY <1>3, <1>5, <1>6 DEF Paired, Only, Free, Known

\* A free socket waits with a session.
LEMMA WaitPairs ==
    ASSUME NEW a \in State, NEW b, NEW H, NEW U, NEW t \in ServerSessions, NEW s,
           Paired(a, H, U), Comes(a, H, U, t, s),
           Moves(a, b), b.given = a.given,
           b.sockets = [a.sockets EXCEPT ![t] = Append(@, s)]
    PROVE  Paired(b, H, U) /\ Only(a, b, H, U, s)
<1> DEFINE q == a.sockets[t]
           n == Len(a.sockets[t])
<1>1. /\ a.sockets \in [ServerSessions -> Seq(Sock)]
      /\ s \in Sock /\ q \in Seq(Sock) /\ n \in Nat
  BY DEF State, Comes
<1>2. /\ DOMAIN q = 1 .. n /\ DOMAIN Append(q, s) = 1 .. n + 1
      /\ Append(q, s)[n + 1] = s /\ \A k \in 1 .. n : Append(q, s)[k] = q[k]
  BY <1>1
<1>3. b.sockets[t] = Append(q, s) /\ \A u \in ServerSessions \ {t} : b.sockets[u] = a.sockets[u]
  BY <1>1
<1> HIDE DEF n
<1>4. /\ \A u \in ServerSessions : \A k \in DOMAIN b.sockets[u] :
            \/ k \in DOMAIN a.sockets[u] /\ b.sockets[u][k] = a.sockets[u][k]
            \/ u = t /\ k = n + 1 /\ b.sockets[u][k] = s
  <2>1. \A k \in DOMAIN Append(q, s) :
          (k \in DOMAIN q /\ Append(q, s)[k] = q[k]) \/ (k = n + 1 /\ Append(q, s)[k] = s)
    BY <1>1, <1>2
  <2> QED
    BY <1>3, <2>1
<1>5. /\ \A c \in UsedServers : Own(b, H, c) = Own(a, H, c)
      /\ \A r : InPool(b, r) <=> InPool(a, r)
      /\ \A r : Owned(b, H, r) <=> Owned(a, H, r)
      /\ \A r : Waits(b, r) => Waits(a, r) \/ r = s
  <2>1. /\ \A c \in UsedServers : Own(b, H, c) = Own(a, H, c)
        /\ \A r : InPool(b, r) <=> InPool(a, r)
    BY DEF Own, GivenTo, InPool, Moves
  <2>2. \A r : Waits(b, r) => Waits(a, r) \/ r = s
    BY <1>4 DEF Waits
  <2> QED
    BY <2>1, <2>2 DEF Owned
<1>6. s \notin U /\ ~Owned(a, H, s) /\ ~Waits(a, s) /\ ~InPool(a, s)
  BY DEF Comes, Free, Known
<1>7. Fitting(b, H)
  <2>1. \A u \in ServerSessions : \A k \in DOMAIN b.sockets[u] :
          b.sessionID[u] = plan.session[b.sockets[u][k].of]
    BY <1>4 DEF Paired, Fitting, Moves, Comes
  <2> QED
    BY <1>5, <2>1 DEF Paired, Fitting, Moves, Ac!Matches
<1>8. InOnePlace(b, H, U)
  <2>1. ASSUME NEW u \in ServerSessions, NEW v \in ServerSessions,
               NEW k \in DOMAIN b.sockets[u], NEW l \in DOMAIN b.sockets[v],
               b.sockets[u][k] = b.sockets[v][l]
        PROVE  u = v /\ k = l
    <3>1. \A w \in ServerSessions : \A m \in DOMAIN a.sockets[w] : a.sockets[w][m] # s
      BY <1>6 DEF Waits
    <3> QED
      BY <1>4, <2>1, <3>1 DEF Paired, InOnePlace
  <2>2. \A r \in Sock :
          /\ ~(Owned(b, H, r) /\ Waits(b, r)) /\ ~(Owned(b, H, r) /\ InPool(b, r))
          /\ ~(Waits(b, r) /\ InPool(b, r))
          /\ r \in U => ~Owned(b, H, r) /\ ~Waits(b, r) /\ ~InPool(b, r)
    BY <1>5, <1>6 DEF Paired, InOnePlace
  <2> QED
    BY <1>5, <2>1, <2>2 DEF Paired, InOnePlace, Moves
<1> QED
  BY <1>5, <1>7, <1>8 DEF Paired, Only, Free, Known

\* A socket that waited leaves.
LEMMA TakePairs ==
    ASSUME NEW a \in State, NEW b, NEW H, NEW U, NEW t \in ServerSessions,
           NEW k \in DOMAIN a.sockets[t],
           Paired(a, H, U), Moves(a, b), b.given = a.given,
           b.sockets = [a.sockets EXCEPT ![t] = Ac!RemoveAt(@, k)]
    PROVE  LET s == a.sockets[t][k]
           IN  /\ Paired(b, H, U) /\ Comes(b, H, U, t, s)
               /\ \A r : Known(b, H, r) => Known(a, H, r)
<1> DEFINE s == a.sockets[t][k]
           q == a.sockets[t]
           n == Len(a.sockets[t])
           p == Ac!RemoveAt(q, k)
           Was(l) == IF l < k THEN l ELSE l + 1
<1>1. /\ a.sockets \in [ServerSessions -> Seq(Sock)]
      /\ q \in Seq(Sock) /\ n \in Nat /\ k \in DOMAIN q
  BY DEF State
<1>2. k \in 1 .. n /\ DOMAIN q = 1 .. n /\ s \in Sock
  BY <1>1
<1>3. /\ p \in Seq(Sock) /\ Len(p) = n - 1
      /\ \A l \in 1 .. n - 1 : p[l] = IF l < k THEN q[l] ELSE q[l + 1]
  BY <1>1, WithoutOne
<1>4. b.sockets[t] = p /\ \A u \in ServerSessions \ {t} : b.sockets[u] = a.sockets[u]
  BY <1>1
<1> HIDE DEF n, p
<1>5. DOMAIN p = 1 .. n - 1
  BY <1>1, <1>3
<1>6. /\ \A l \in DOMAIN p : Was(l) \in DOMAIN q /\ Was(l) # k /\ p[l] = q[Was(l)]
      /\ \A l, m \in DOMAIN p : Was(l) = Was(m) => l = m
  BY <1>1, <1>2, <1>3, <1>5
<1> HIDE DEF Was
<1>7. /\ \A u \in ServerSessions : \A l \in DOMAIN b.sockets[u] :
            \E m \in DOMAIN a.sockets[u] : /\ b.sockets[u][l] = a.sockets[u][m]
                                           /\ u = t => m # k
      /\ \A u \in ServerSessions : \A l, m \in DOMAIN b.sockets[u] :
            b.sockets[u][l] = b.sockets[u][m] => l = m
  <2>1. ASSUME NEW l \in DOMAIN p, NEW m \in DOMAIN p, p[l] = p[m] PROVE l = m
    <3>1. q[Was(l)] = q[Was(m)] /\ Was(l) \in DOMAIN q /\ Was(m) \in DOMAIN q
      BY <1>6, <2>1
    <3>2. Was(l) = Was(m)
      BY <3>1 DEF Paired, InOnePlace
    <3> QED
      BY <1>6, <3>2
  <2>2. \A l \in DOMAIN p : \E m \in DOMAIN q : p[l] = q[m] /\ m # k
    BY <1>6
  <2> HIDE DEF q
  <2>3. \A u \in ServerSessions \ {t} : \A l, m \in DOMAIN b.sockets[u] :
            b.sockets[u][l] = b.sockets[u][m] => l = m
    BY <1>4 DEF Paired, InOnePlace
  <2>4. \A u \in ServerSessions \ {t} : \A l \in DOMAIN b.sockets[u] :
            \E m \in DOMAIN a.sockets[u] : b.sockets[u][l] = a.sockets[u][m]
    BY <1>4
  <2>5. /\ \A l \in DOMAIN b.sockets[t] : \E m \in DOMAIN a.sockets[t] :
              b.sockets[t][l] = a.sockets[t][m] /\ m # k
        /\ \A l, m \in DOMAIN b.sockets[t] : b.sockets[t][l] = b.sockets[t][m] => l = m
    BY <1>4, <2>1, <2>2 DEF q
  <2> QED
    BY <2>3, <2>4, <2>5
<1>8. /\ \A c : Own(b, H, c) = Own(a, H, c)
      /\ \A r : InPool(b, r) <=> InPool(a, r)
      /\ \A r : Owned(b, H, r) <=> Owned(a, H, r)
      /\ \A r : Waits(b, r) => Waits(a, r)
  <2>1. /\ \A c : Own(b, H, c) = Own(a, H, c)
        /\ \A r : InPool(b, r) <=> InPool(a, r)
    BY DEF Own, GivenTo, InPool, Moves
  <2>2. \A r : Waits(b, r) => Waits(a, r)
    BY <1>7 DEF Waits
  <2> QED
    BY <2>1, <2>2 DEF Owned
<1>9. Waits(a, s) /\ ~Waits(b, s)
  <2>1. Waits(a, s)
    BY DEF Waits
  <2>2. ASSUME NEW u \in ServerSessions, NEW l \in DOMAIN b.sockets[u], s = b.sockets[u][l]
        PROVE  FALSE
    <3>1. PICK m \in DOMAIN a.sockets[u] : b.sockets[u][l] = a.sockets[u][m] /\ (u = t => m # k)
      BY <1>7
    <3>2. a.sockets[t][k] = a.sockets[u][m]
      BY <2>2, <3>1
    <3> QED
      BY <3>1, <3>2 DEF Paired, InOnePlace
  <2> QED
    BY <2>1, <2>2 DEF Waits
<1>10. s \notin U /\ ~Owned(b, H, s) /\ ~InPool(b, s)
  BY <1>2, <1>8, <1>9 DEF Paired, InOnePlace
<1>11. Fitting(b, H)
  <2>1. \A u \in ServerSessions : \A l \in DOMAIN b.sockets[u] :
          b.sessionID[u] = plan.session[b.sockets[u][l].of]
    BY <1>7 DEF Paired, Fitting, Moves
  <2> QED
    BY <1>8, <2>1 DEF Paired, Fitting, Moves, Ac!Matches
<1>12. InOnePlace(b, H, U)
  <2>1. ASSUME NEW u \in ServerSessions, NEW v \in ServerSessions,
               NEW l \in DOMAIN b.sockets[u], NEW m \in DOMAIN b.sockets[v],
               b.sockets[u][l] = b.sockets[v][m]
        PROVE  u = v /\ l = m
    <3>1. PICK i \in DOMAIN a.sockets[u] : b.sockets[u][l] = a.sockets[u][i]
      BY <1>7
    <3>2. PICK j \in DOMAIN a.sockets[v] : b.sockets[v][m] = a.sockets[v][j]
      BY <1>7
    <3>3. u = v
      BY <2>1, <3>1, <3>2 DEF Paired, InOnePlace
    <3> QED
      BY <1>7, <2>1, <3>3
  <2>2. \A r \in Sock :
          /\ ~(Owned(b, H, r) /\ Waits(b, r)) /\ ~(Owned(b, H, r) /\ InPool(b, r))
          /\ ~(Waits(b, r) /\ InPool(b, r))
          /\ r \in U => ~Owned(b, H, r) /\ ~Waits(b, r) /\ ~InPool(b, r)
    BY <1>8 DEF Paired, InOnePlace
  <2> QED
    BY <1>8, <2>1, <2>2 DEF Paired, InOnePlace, Moves
<1>13. b.sessionID[t] = plan.session[s.of]
  BY DEF Paired, Fitting, Moves
<1> QED
  BY <1>2, <1>8, <1>9, <1>10, <1>11, <1>12, <1>13 DEF Paired, Comes, Free, Known

\* The channels that wait with a session are its own.
Mine(a, t) == \A i \in DOMAIN a.channels[t] : plan.session[a.channels[t][i]] = t

\* SessionGroup::add of a socket pairs it with a channel, or lets it wait.
LEMMA AddSocketPairs ==
    ASSUME plan \in Plans, NEW a \in State, NEW t \in ServerSessions, NEW s \in Sock, NEW H, NEW U,
           Paired(a, H, U), Comes(a, H, U, t, s), Mine(a, t)
    PROVE  LET b == Ac!AddSocket(a, t, s)
           IN  Paired(b, H, U) /\ Only(a, b, H, U, s)
<1> DEFINE b == Ac!AddSocket(a, t, s)
<1>1. b \in State /\ Frame(a, b) /\ SocketAdded(a, b, t, s)
  BY AddSocketIs
<1> HIDE DEF b
<1>2. Moves(a, b)
  BY <1>1 DEF Frame, Moves
<1>3. CASE /\ b.given = a.given
           /\ b.sockets = [a.sockets EXCEPT ![t] = Append(@, s)]
  BY <1>2, <1>3, WaitPairs DEF b
<1>4. ASSUME NEW i \in DOMAIN a.channels[t], Ac!Matches(a, s, a.channels[t][i]),
             b.sockets = a.sockets,
             b.given = [a.given EXCEPT ![a.channels[t][i]] =
                           Append(@, [sock |-> s, ok |-> TRUE])]
      PROVE  Paired(b, H, U) /\ Only(a, b, H, U, s)
  <2> DEFINE c == a.channels[t][i]
  <2>1. c \in UsedServers /\ plan.session[c] = t
    <3>1. a.channels[t] \in Seq(UsedServers)
      BY DEF State
    <3> QED
      BY <3>1 DEF Mine
  <2> HIDE DEF c
  <2>2. /\ Ac!Matches(a, s, c)
        /\ b.given = [a.given EXCEPT ![c] = Append(@, [sock |-> s, ok |-> TRUE])]
    BY <1>4 DEF c
  <2> QED
    BY <1>2, <1>4, <2>1, <2>2, GivePairs
<1> QED
  BY <1>1, <1>3, <1>4 DEF SocketAdded, b

\* SessionGroup::add of a channel pairs it with a socket that waits, or lets it wait.
LEMMA AddChannelPairs ==
    ASSUME plan \in Plans, NEW a \in State, NEW c \in UsedServers, NEW H, NEW U, Paired(a, H, U)
    PROVE  LET b == Ac!AddChannel(a, plan.session[c], c)
           IN  Paired(b, H, U) /\ \A r : Known(b, H, r) => Known(a, H, r)
<1> DEFINE t == plan.session[c]
           b == Ac!AddChannel(a, t, c)
<1>0. t \in ServerSessions
  BY PlanType
<1> HIDE DEF t
<1>1. b \in State /\ Frame(a, b) /\ ChannelAdded(a, b, t, c)
  BY <1>0, AddChannelIs
<1> HIDE DEF b
<1>2. Moves(a, b)
  BY <1>1 DEF Frame, Moves
<1>3. CASE b.sockets = a.sockets /\ b.given = a.given
  <2>1. Leaves(a, b, H, H)
    BY <1>2, <1>3 DEF Leaves, Moves, Own, GivenTo
  <2>2. Paired(b, H, U) /\ \A r : Known(b, H, r) => Known(a, H, r)
    BY <2>1, LeavesPaired, U \subseteq U
  <2> QED
    BY <2>2 DEF b, t
<1>4. ASSUME NEW k \in DOMAIN a.sockets[t], Ac!Matches(a, a.sockets[t][k], c),
             b.sockets = [a.sockets EXCEPT ![t] = Ac!RemoveAt(@, k)],
             b.given = [a.given EXCEPT ![c] = Append(@, [sock |-> a.sockets[t][k], ok |-> TRUE])]
      PROVE  Paired(b, H, U) /\ \A r : Known(b, H, r) => Known(a, H, r)
  <2> DEFINE s == a.sockets[t][k]
             l == [a EXCEPT !.sockets = b.sockets]
  <2>1. b.sockets \in [ServerSessions -> Seq(Sock)]
    BY <1>1 DEF State
  <2>2. /\ l \in State /\ l.sockets = b.sockets /\ l.given = a.given /\ Moves(a, l) /\ Moves(l, b)
        /\ Ac!Matches(l, s, c)
    BY <1>2, <1>4, <2>1 DEF State, Moves, Ac!Matches
  <2> HIDE DEF l
  <2>3. /\ Paired(l, H, U) /\ Comes(l, H, U, t, s)
        /\ \A r : Known(l, H, r) => Known(a, H, r)
    BY <1>0, <1>4, <2>2, TakePairs
  <2>4. Known(a, H, s)
    BY <1>0, <1>4 DEF Known, Waits
  <2> HIDE DEF s
  <2>5. Paired(b, H, U) /\ Only(l, b, H, U, s)
    BY <1>4, <2>2, <2>3, GivePairs DEF s, t
  <2> QED
    BY <2>3, <2>4, <2>5 DEF Only
<1> QED
  BY <1>1, <1>3, <1>4 DEF ChannelAdded, b, t

\* The sockets of a group come to a session, all of them once.
Come(a, H, U, t, q) ==
    /\ \A k \in DOMAIN q : Comes(a, H, U, t, q[k])
    /\ \A k, l \in DOMAIN q : q[k] = q[l] => k = l

\* SessionGroup::merge pairs all of them.
LEMMA AddSocketsPair ==
    ASSUME plan \in Plans, NEW a \in State, NEW t \in ServerSessions, NEW q \in Seq(Sock),
           NEW H, NEW U, Paired(a, H, U), Come(a, H, U, t, q), Mine(a, t)
    PROVE  LET b == Ac!AddSockets(a, t, q)
           IN  /\ b \in State /\ Frame(a, b) /\ Paired(b, H, U)
               /\ \A r : Known(b, H, r) => Known(a, H, r) \/ \E k \in DOMAIN q : r = q[k]
<1>1. PICK f : Adds(a, t, q, Len(q), f) /\ Ac!AddSockets(a, t, q) = f[Len(q)]
  BY AddSocketsIs
<1> DEFINE SoFar(n) ==
              /\ f[n] \in State /\ Fewer(a, f[n], t) /\ Paired(f[n], H, U)
              /\ \A k \in n + 1 .. Len(q) : Comes(f[n], H, U, t, q[k])
              /\ \A r : Known(f[n], H, r) => Known(a, H, r) \/ \E k \in DOMAIN q : r = q[k]
           Bad == {n \in 0 .. Len(q) : ~SoFar(n)}
<1>2. Len(q) \in Nat /\ DOMAIN q = 1 .. Len(q)
  OBVIOUS
<1>3. ASSUME Bad # {} PROVE FALSE
  <2>1. Bad \in SUBSET Nat
    BY <1>2
  <2>2. PICK n \in Bad : \A m \in Bad : n <= m
    <3> HIDE DEF Bad
    <3> QED
      BY <1>3, <2>1, LeastNatural
  <2>3. n # 0
    <3>1. Fewer(a, a, t)
      BY DEF Fewer, Frame
    <3>2. f[0] = a
      BY <1>1 DEF Adds
    <3>3. SoFar(0)
      BY <1>2, <3>1, <3>2 DEF Come
    <3> QED
      BY <3>3
  <2>4. n - 1 \in 0 .. Len(q) /\ n \in 1 .. Len(q) /\ n - 1 \notin Bad /\ ~SoFar(n)
    BY <1>2, <2>2, <2>3
  <2>5. SoFar(n - 1)
    BY <2>4
  <2>6. f[n] = Ac!AddSocket(f[n - 1], t, q[n]) /\ q[n] \in Sock /\ n \in DOMAIN q
    BY <1>1, <1>2, <2>4 DEF Adds
  <2> DEFINE e == f[n - 1]
             g == f[n]
  <2>7. /\ e \in State /\ Fewer(a, e, t) /\ Paired(e, H, U)
        /\ \A k \in n .. Len(q) : Comes(e, H, U, t, q[k])
        /\ \A r : Known(e, H, r) => Known(a, H, r) \/ \E k \in DOMAIN q : r = q[k]
    <3>1. n - 1 + 1 = n
      BY <2>4
    <3> QED
      BY <2>5, <3>1
  <2> HIDE DEF Bad, SoFar, e
  <2>8. Comes(e, H, U, t, q[n])
    BY <1>2, <2>4, <2>7
  <2>9. g = Ac!AddSocket(e, t, q[n])
    BY <2>6 DEF e
  <2> HIDE DEF g
  <2>10. Mine(e, t)
    BY <2>7 DEF Fewer, Mine
  <2>11. Paired(g, H, U) /\ Only(e, g, H, U, q[n])
    BY <2>6, <2>7, <2>8, <2>9, <2>10, AddSocketPairs
  <2>12. g \in State /\ Fewer(e, g, t)
    BY <2>6, <2>7, <2>9, AddSocketKeeps
  <2>13. \A k \in n + 1 .. Len(q) : Comes(g, H, U, t, q[k])
    <3>1. ASSUME NEW k \in n + 1 .. Len(q) PROVE Comes(g, H, U, t, q[k])
      <4>1. k \in n .. Len(q) /\ k # n /\ k \in DOMAIN q
        BY <1>2, <2>4
      <4>2. Comes(e, H, U, t, q[k]) /\ q[k] # q[n]
        BY <2>6, <2>7, <4>1 DEF Come
      <4>3. Free(g, H, U, q[k]) /\ g.sessionID = e.sessionID
        BY <2>11, <2>12, <4>2 DEF Only, Comes, Fewer, Frame
      <4> QED
        BY <4>2, <4>3 DEF Comes
    <3> QED
      BY <3>1
  <2>14. Fewer(a, g, t)
    <3>1. \A i \in DOMAIN g.channels[t] : \E j \in DOMAIN a.channels[t] :
              g.channels[t][i] = a.channels[t][j]
      <4>1. ASSUME NEW i \in DOMAIN g.channels[t]
            PROVE  \E j \in DOMAIN a.channels[t] : g.channels[t][i] = a.channels[t][j]
        <5>1. PICK j \in DOMAIN e.channels[t] : g.channels[t][i] = e.channels[t][j]
          BY <2>12 DEF Fewer
        <5> QED
          BY <2>7, <5>1 DEF Fewer
      <4> QED
        BY <4>1
    <3> QED
      BY <2>7, <2>12, <3>1 DEF Fewer, Frame
  <2>15. \A r : Known(g, H, r) => Known(a, H, r) \/ \E k \in DOMAIN q : r = q[k]
    BY <2>6, <2>7, <2>11 DEF Only
  <2>16. SoFar(n)
    BY <2>11, <2>12, <2>13, <2>14, <2>15 DEF SoFar, g
  <2> QED
    BY <2>4, <2>16
<1>4. Len(q) \in 0 .. Len(q)
  BY <1>2
<1>5. SoFar(Len(q))
  BY <1>3, <1>4
<1> QED
  BY <1>1, <1>5 DEF Fewer

-----------------------------------------------------------------------------
(* Groups that are taken, or that nobody wants                             *)

\* Nothing happens to sockets that have a name.
Drops(a, b) ==
    /\ b.plan = a.plan /\ b.sockets = a.sockets /\ b.sessionID = a.sessionID /\ b.pool = a.pool
    /\ b.given = a.given /\ Unnamed(b) \subseteq Unnamed(a)
    /\ \A x \in ClientSessions : b.claimed[x] \in {a.claimed[x], NoSession}

\* That leaves them where they are.
LEMMA DropsPaired ==
    ASSUME NEW a, NEW b, NEW H, NEW U, Drops(a, b), Paired(a, H, U)
    PROVE  /\ Paired(b, H, U)
           /\ \A s : Free(a, H, U, s) => Free(b, H, U, s)
           /\ \A s : Known(b, H, s) => Known(a, H, s)
<1>1. Leaves(a, b, H, H)
  BY DEF Leaves, Drops, Own, GivenTo
<1> QED
  BY <1>1, LeavesPaired, U \subseteq U

\* Such steps follow each other.
LEMMA DropsTwice ==
    ASSUME NEW a, NEW b, NEW c, Drops(a, b), Drops(b, c)
    PROVE  Drops(a, c)
BY DEF Drops

\* A group is erased, and the acceptor may stop to listen.
LEMMA RemoveIdleDrops ==
    ASSUME NEW a \in State, NEW t \in ServerSessions
    PROVE  /\ Ac!stopListening(a) \in State /\ Drops(a, Ac!stopListening(a))
           /\ Ac!RemoveGroup(a, t) \in State /\ Drops(a, Ac!RemoveGroup(a, t))
           /\ Ac!RemoveIdle(a, t) \in State /\ Drops(a, Ac!RemoveIdle(a, t))
<1>1. \A e \in State : Ac!stopListening(e) \in State /\ Drops(e, Ac!stopListening(e))
  <2>1. ASSUME NEW e \in State
        PROVE  Ac!stopListening(e) \in State /\ Drops(e, Ac!stopListening(e))
    <3> DEFINE b == Ac!stopListening(e)
    <3>1. b \in State /\ Rest(e, b) /\ b.claimed = e.claimed
      BY StopListeningIs
    <3> HIDE DEF b
    <3>2. Drops(e, b)
      BY <3>1 DEF Drops, Rest, Unnamed
    <3> QED
      BY <3>1, <3>2 DEF b
  <2> QED
    BY <2>1
<1>2. Ac!RemoveGroup(a, t) \in State /\ Drops(a, Ac!RemoveGroup(a, t))
  <2> DEFINE b == Ac!RemoveGroup(a, t)
  <2>1. /\ b \in State /\ Rest(a, b)
        /\ b.claimed = [x \in ClientSessions |->
                            IF a.claimed[x] = t THEN NoSession ELSE a.claimed[x]]
    BY RemoveGroupIs
  <2> HIDE DEF b
  <2>2. Drops(a, b)
    BY <2>1 DEF Drops, Rest, Unnamed
  <2> QED
    BY <2>1, <2>2 DEF b
<1>3. Ac!RemoveIdle(a, t) \in State /\ Drops(a, Ac!RemoveIdle(a, t))
  <2>1. CASE Ac!hasSubscriptions(a, t)
    <3>1. Ac!RemoveIdle(a, t) = a
      BY <2>1 DEF Ac!RemoveIdle
    <3> QED
      BY <3>1 DEF Drops
  <2>2. CASE ~Ac!hasSubscriptions(a, t)
    <3>1. Ac!RemoveIdle(a, t) = Ac!stopListening(Ac!RemoveGroup(a, t))
      BY <2>2 DEF Ac!RemoveIdle
    <3> QED
      BY <1>1, <1>2, <3>1, DropsTwice
  <2> QED
    BY <2>1, <2>2
<1> QED
  BY <1>1, <1>2, <1>3

\* A group of the pool is taken by a session that has no sockets.
LEMMA TakeGroup ==
    ASSUME plan \in Plans, NEW a \in State, NEW t \in ServerSessions, NEW i \in DOMAIN a.pool,
           NEW H, NEW U, Paired(a, H, U), a.sessionID[t] = NoSession
    PROVE  LET x == a.pool[i].id
               ids == [a.sessionID EXCEPT ![t] = x]
               b == [a EXCEPT !.sessionID = ids, !.pool = Ac!RemoveAt(a.pool, i)]
           IN  /\ b \in State /\ Paired(b, H, U) /\ Come(b, H, U, t, a.pool[i].sockets)
               /\ b.sessionID[t] = x /\ b.channels = a.channels /\ b.backlog = a.backlog
               /\ b.greeting = a.greeting /\ b.naming = a.naming
               /\ \A r : Known(b, H, r) => Known(a, H, r)
<1> DEFINE x == a.pool[i].id
           q == a.pool[i].sockets
           ids == [a.sessionID EXCEPT ![t] = x]
           p == Ac!RemoveAt(a.pool, i)
           b == [a EXCEPT !.sessionID = ids, !.pool = p]
           n == Len(a.pool)
           Was(g) == IF g < i THEN g ELSE g + 1
<1>1. /\ a.pool \in Seq(Group) /\ a.pool[i] \in Group /\ n \in Nat /\ i \in 1 .. n
      /\ DOMAIN a.pool = 1 .. n
      /\ a.sessionID \in [ServerSessions -> ClientSessions \cup {NoSession}]
      /\ a.claimed \in [ClientSessions -> ServerSessions \cup {NoSession}]
      /\ a.sockets \in [ServerSessions -> Seq(Sock)]
  BY DEF State
<1>2. x \in ClientSessions /\ q \in Seq(Sock)
  BY <1>1 DEF Group
<1>3. /\ p \in Seq(Group) /\ Len(p) = n - 1
      /\ \A g \in 1 .. n - 1 : p[g] = IF g < i THEN a.pool[g] ELSE a.pool[g + 1]
  BY <1>1, WithoutOne
<1>4. ids \in [ServerSessions -> ClientSessions \cup {NoSession}] /\ ids[t] = x
      /\ \A u \in ServerSessions \ {t} : ids[u] = a.sessionID[u]
  BY <1>1, <1>2
<1> HIDE DEF x, n, p, ids
<1>5. b \in State /\ b.sessionID = ids /\ b.pool = p /\ b.plan = a.plan /\ b.given = a.given
      /\ b.sockets = a.sockets /\ b.claimed = a.claimed /\ b.channels = a.channels
      /\ b.backlog = a.backlog /\ b.greeting = a.greeting /\ b.naming = a.naming
  BY <1>3, <1>4 DEF State
<1> HIDE DEF b
<1>6. DOMAIN p = 1 .. n - 1
  BY <1>1, <1>3
<1>7. /\ \A g \in DOMAIN p : Was(g) \in DOMAIN a.pool /\ Was(g) # i /\ p[g] = a.pool[Was(g)]
      /\ \A g, h \in DOMAIN p : Was(g) = Was(h) => g = h
  BY <1>1, <1>3, <1>6
<1> HIDE DEF Was
<1>8. \A s \in Sock : plan.session[s.of] \in ClientSessions /\ plan.session[s.of] # NoSession
  BY PlanType DEF Sock
<1>9. /\ \A c \in UsedServers : plan.session[c] = t => Own(a, H, c) = {}
      /\ a.sockets[t] = <<>> /\ \A y \in ClientSessions : a.claimed[y] # t
  <2>1. ASSUME NEW c \in UsedServers, plan.session[c] = t, NEW s \in Own(a, H, c) PROVE FALSE
    BY <1>8, <2>1 DEF Paired, Fitting
  <2>2. a.sockets[t] = <<>>
    <3>1. a.sockets[t] \in Seq(Sock)
      BY <1>1
    <3>2. \A k \in DOMAIN a.sockets[t] : FALSE
      BY <1>8, <3>1 DEF Paired, Fitting
    <3>3. ASSUME NEW r \in Seq(Sock), \A k \in DOMAIN r : FALSE PROVE r = <<>>
      <4>1. Len(r) \in Nat /\ DOMAIN r = 1 .. Len(r)
        OBVIOUS
      <4>2. Len(r) = 0
        <5>1. ~(1 \in DOMAIN r)
          BY <3>3
        <5> QED
          BY <4>1, <5>1
      <4> QED
        BY <4>2
    <3> QED
      BY <3>1, <3>2, <3>3
  <2>3. \A y \in ClientSessions : a.claimed[y] # t
    BY PlanType DEF Paired, Fitting
  <2> QED
    BY <2>1, <2>2, <2>3
<1>10. /\ \A c : Own(b, H, c) = Own(a, H, c)
       /\ \A r : Owned(b, H, r) <=> Owned(a, H, r)
       /\ \A r : Waits(b, r) <=> Waits(a, r)
       /\ \A r : InPool(b, r) => InPool(a, r)
  <2>1. \A c : Own(b, H, c) = Own(a, H, c)
    BY <1>5 DEF Own, GivenTo
  <2>2. \A r : InPool(b, r) => InPool(a, r)
    BY <1>5, <1>7 DEF InPool
  <2> QED
    BY <1>5, <2>1, <2>2 DEF Owned, Waits
<1>11. Fitting(b, H)
  <2>1. \A c \in UsedServers : \A s \in Own(b, H, c) :
          /\ s \in Sock /\ Ac!Matches(b, s, c)
          /\ b.sessionID[plan.session[c]] = plan.session[s.of]
    <3>1. ASSUME NEW c \in UsedServers, NEW s \in Own(b, H, c)
          PROVE  /\ s \in Sock /\ Ac!Matches(b, s, c)
                 /\ b.sessionID[plan.session[c]] = plan.session[s.of]
      <4>1. s \in Own(a, H, c) /\ plan.session[c] # t
        BY <1>9, <1>10
      <4>2. plan.session[c] \in ServerSessions
        BY PlanType
      <4> QED
        BY <1>4, <1>5, <4>1, <4>2 DEF Paired, Fitting, Ac!Matches
    <3> QED
      BY <3>1
  <2>2. \A u \in ServerSessions : \A k \in DOMAIN b.sockets[u] :
          b.sessionID[u] = plan.session[b.sockets[u][k].of]
    <3>1. \A k \in DOMAIN b.sockets[t] : FALSE
      BY <1>5, <1>9
    <3>2. \A u \in ServerSessions \ {t} : \A k \in DOMAIN b.sockets[u] :
            b.sessionID[u] = plan.session[b.sockets[u][k].of]
      BY <1>4, <1>5 DEF Paired, Fitting
    <3> QED
      BY <3>1, <3>2
  <2>3. \A g \in DOMAIN b.pool : \A k \in DOMAIN b.pool[g].sockets :
          b.pool[g].id = plan.session[b.pool[g].sockets[k].of]
    BY <1>5, <1>7 DEF Paired, Fitting
  <2>4. \A y \in ClientSessions : b.claimed[y] # NoSession => b.sessionID[b.claimed[y]] = y
    BY <1>1, <1>4, <1>5, <1>9 DEF Paired, Fitting
  <2> QED
    BY <2>1, <2>2, <2>3, <2>4 DEF Fitting
<1>12. InOnePlace(b, H, U)
  <2>1. \A g, h \in DOMAIN b.pool :
          \A k \in DOMAIN b.pool[g].sockets, l \in DOMAIN b.pool[h].sockets :
              b.pool[g].sockets[k] = b.pool[h].sockets[l] => g = h /\ k = l
    <3>1. ASSUME NEW g \in DOMAIN p, NEW h \in DOMAIN p, NEW k \in DOMAIN p[g].sockets,
                 NEW l \in DOMAIN p[h].sockets, p[g].sockets[k] = p[h].sockets[l]
          PROVE  g = h /\ k = l
      <4>1. /\ Was(g) \in DOMAIN a.pool /\ p[g] = a.pool[Was(g)]
            /\ Was(h) \in DOMAIN a.pool /\ p[h] = a.pool[Was(h)]
        BY <1>7
      <4>2. Was(g) = Was(h) /\ k = l
        BY <3>1, <4>1 DEF Paired, InOnePlace
      <4> QED
        BY <1>7, <4>2
    <3> QED
      BY <1>5, <3>1
  <2>2. \A r \in Sock :
          /\ ~(Owned(b, H, r) /\ Waits(b, r)) /\ ~(Owned(b, H, r) /\ InPool(b, r))
          /\ ~(Waits(b, r) /\ InPool(b, r))
          /\ r \in U => ~Owned(b, H, r) /\ ~Waits(b, r) /\ ~InPool(b, r)
    BY <1>10 DEF Paired, InOnePlace
  <2> QED
    BY <1>5, <1>10, <2>1, <2>2 DEF Paired, InOnePlace
<1>13. Come(b, H, U, t, q)
  <2>1. ASSUME NEW k \in DOMAIN q PROVE Comes(b, H, U, t, q[k])
    <3>1. q[k] \in Sock
      BY <1>2
    <3>2. InPool(a, q[k])
      BY DEF InPool
    <3>3. ~InPool(b, q[k])
      <4>1. ASSUME NEW g \in DOMAIN p, NEW l \in DOMAIN p[g].sockets, q[k] = p[g].sockets[l]
            PROVE  FALSE
        <5>1. Was(g) \in DOMAIN a.pool /\ Was(g) # i /\ p[g] = a.pool[Was(g)]
          BY <1>7
        <5> QED
          BY <4>1, <5>1 DEF Paired, InOnePlace
      <4> QED
        BY <1>5, <4>1 DEF InPool
    <3>4. q[k] \notin U /\ ~Owned(a, H, q[k]) /\ ~Waits(a, q[k])
      BY <3>1, <3>2 DEF Paired, InOnePlace
    <3>5. b.sessionID[t] = plan.session[q[k].of]
      BY <1>4, <1>5 DEF Paired, Fitting, x
    <3> QED
      BY <1>10, <3>1, <3>3, <3>4, <3>5 DEF Comes, Free, Known
  <2>2. \A k, l \in DOMAIN q : q[k] = q[l] => k = l
    BY DEF Paired, InOnePlace
  <2> QED
    BY <2>1, <2>2 DEF Come
<1>14. \A r : Known(b, H, r) => Known(a, H, r)
  BY <1>10 DEF Known
<1> HIDE DEF q
<1>15. /\ b \in State /\ Paired(b, H, U) /\ Come(b, H, U, t, q)
       /\ b.sessionID[t] = x /\ b.channels = a.channels /\ b.backlog = a.backlog
       /\ b.greeting = a.greeting /\ b.naming = a.naming
       /\ \A r : Known(b, H, r) => Known(a, H, r)
  BY <1>4, <1>5, <1>11, <1>12, <1>13, <1>14 DEF Paired
<1> QED
  BY <1>15 DEF b, q, x, ids, p

\* A session that takes a group of the pool is paired with all sockets of it.
LEMMA MergePairs ==
    ASSUME plan \in Plans, NEW a \in State, NEW t \in ServerSessions, NEW i \in DOMAIN a.pool,
           NEW H, NEW U, Paired(a, H, U), a.sessionID[t] = NoSession, Mine(a, t)
    PROVE  LET b == Ac!Merge(a, t, i)
           IN  Paired(b, H, U) /\ \A r : Known(b, H, r) => Known(a, H, r)
<1> DEFINE x == a.pool[i].id
           q == a.pool[i].sockets
           ids == [a.sessionID EXCEPT ![t] = x]
           pool == Ac!RemoveAt(a.pool, i)
           taken == [a EXCEPT !.sessionID = ids, !.pool = pool]
           added == Ac!AddSockets(taken, t, q)
           un == added.unclaimed \ {t}
           cl == [added.claimed EXCEPT ![x] = t]
           put == [added EXCEPT !.unclaimed = un, !.claimed = cl]
           b == Ac!RemoveIdle(put, t)
<1>1. Ac!Merge(a, t, i) = b
  BY DEF Ac!Merge
<1>2. a.pool[i] \in Group
  <2>1. a.pool \in Seq(Group)
    BY DEF State
  <2> QED
    BY <2>1
<1>3. x \in ClientSessions /\ q \in Seq(Sock)
  BY <1>2 DEF Group
<1>4. /\ taken \in State /\ Paired(taken, H, U) /\ Come(taken, H, U, t, q)
      /\ taken.sessionID[t] = x /\ taken.channels = a.channels
      /\ \A r : Known(taken, H, r) => Known(a, H, r)
  BY TakeGroup
<1>5. \A k \in DOMAIN q : Known(a, H, q[k])
  BY DEF Known, InPool
<1> HIDE DEF taken, q, x
<1>6. Mine(taken, t)
  BY <1>4 DEF Mine
<1>7. /\ added \in State /\ Frame(taken, added) /\ Paired(added, H, U)
      /\ \A r : Known(added, H, r) => Known(taken, H, r) \/ \E k \in DOMAIN q : r = q[k]
  BY <1>3, <1>4, <1>6, AddSocketsPair
<1> HIDE DEF added
<1>8. /\ un \in SUBSET ServerSessions /\ cl \in [ClientSessions -> ServerSessions \cup {NoSession}]
      /\ cl[x] = t /\ \A y \in ClientSessions \ {x} : cl[y] = added.claimed[y]
  <2>1. /\ added.unclaimed \in SUBSET ServerSessions
        /\ added.claimed \in [ClientSessions -> ServerSessions \cup {NoSession}]
    BY <1>7 DEF State
  <2> QED
    BY <1>3, <2>1
<1> HIDE DEF un, cl
<1>9. /\ put \in State /\ put.claimed = cl /\ put.plan = added.plan /\ put.given = added.given
      /\ put.sockets = added.sockets /\ put.sessionID = added.sessionID /\ put.pool = added.pool
  BY <1>7, <1>8 DEF State
<1> HIDE DEF put
<1>10. /\ \A c : Own(put, H, c) = Own(added, H, c)
       /\ \A r : Owned(put, H, r) <=> Owned(added, H, r)
       /\ \A r : Waits(put, r) <=> Waits(added, r)
       /\ \A r : InPool(put, r) <=> InPool(added, r)
  <2>1. \A c : Own(put, H, c) = Own(added, H, c)
    BY <1>9 DEF Own, GivenTo
  <2> QED
    BY <1>9, <2>1 DEF Owned, Waits, InPool
<1>11. Fitting(put, H)
  <2>1. \A y \in ClientSessions : put.claimed[y] # NoSession => put.sessionID[put.claimed[y]] = y
    <3>1. put.sessionID[t] = x
      BY <1>4, <1>7, <1>9 DEF Frame
    <3> QED
      BY <1>7, <1>8, <1>9, <3>1 DEF Paired, Fitting
  <2> QED
    BY <1>7, <1>9, <1>10, <2>1 DEF Paired, Fitting, Ac!Matches
<1>12. InOnePlace(put, H, U)
  BY <1>7, <1>9, <1>10 DEF Paired, InOnePlace
<1>13. Drops(put, b)
  BY <1>9, RemoveIdleDrops
<1> HIDE DEF b
<1>14. Paired(b, H, U) /\ \A r : Known(b, H, r) => Known(put, H, r)
  BY <1>11, <1>12, <1>13, DropsPaired DEF Paired
<1>15. \A r : Known(b, H, r) => Known(a, H, r)
  BY <1>4, <1>5, <1>7, <1>10, <1>14 DEF Known
<1> QED
  BY <1>1, <1>14, <1>15

\* The channels that wait are those of the session, and it has no sockets without an ID.
LEMMA GoodMine ==
    ASSUME plan \in Plans, NEW a, Good(a)
    PROVE  /\ a \in State
           /\ \A c : Ac!ServerSession(a, c) = plan.session[c]
           /\ \A s : Ac!ClientSession(a, s) = plan.session[s.of]
           /\ \A t \in a.groups : Mine(a, t)
           /\ \A t \in a.unclaimed : t \in a.groups /\ a.sessionID[t] = NoSession
<1>1. a \in State /\ Wanted(a) /\ Unmatched(a) /\ a.plan = Names
  BY DEF Good, State
<1>2. /\ \A c : Ac!ServerSession(a, c) = plan.session[c]
      /\ \A s : Ac!ClientSession(a, s) = plan.session[s.of]
  BY <1>1 DEF Names, Ac!ServerSession, Ac!ClientSession
<1> QED
  BY <1>1, <1>2 DEF Mine, Unmatched, Wanted

\* A channel that asks for a socket is paired.
LEMMA GetSocketPairs ==
    ASSUME plan \in Plans, NEW a, Good(a), NEW c \in UsedServers, plan.session[c] \in a.base,
           NEW H, NEW U, Paired(a, H, U)
    PROVE  LET b == Ac!GetSocket(a, c)
           IN  Paired(b, H, U) /\ \A r : Known(b, H, r) => Known(a, H, r)
<1> DEFINE t == Ac!ServerSession(a, c)
           added == Ac!AddChannel(a, t, c)
           T == {i \in DOMAIN added.pool :
                    \E k \in DOMAIN added.pool[i].sockets :
                        Ac!Matches(added, added.pool[i].sockets[k], c)}
           i == IF T = {} THEN 0 ELSE CHOOSE j \in T : \A l \in T : j <= l
           b == Ac!GetSocket(a, c)
<1>1. b = CASE a.sessionID[t] # NoSession -> Ac!RemoveIdle(added, t)
            [] a.sessionID[t] = NoSession /\ i # 0 -> Ac!Merge(added, t, i)
            [] OTHER -> added
  <2>1. \A s : Ac!Matches(added, s, c) <=> Ac!Matches(a, s, c)
    <3>1. a \in State /\ t \in ServerSessions
      BY GoodMine, PlanType
    <3>2. Frame(a, added)
      BY <3>1, AddChannelIs
    <3> HIDE DEF added
    <3> QED
      BY <3>2 DEF Frame, Ac!Matches
  <2> QED
    BY <2>1 DEF Ac!GetSocket, Ac!FirstIndex
<1>2. /\ a \in State /\ t = plan.session[c] /\ t \in ServerSessions /\ t \in a.groups
      /\ Mine(a, t)
  BY GoodMine, PlanType DEF Good, Wanted
<1> HIDE DEF b, t
<1>3. added \in State /\ Frame(a, added) /\ ChannelAdded(a, added, t, c)
  BY <1>2, AddChannelIs
<1>4. Paired(added, H, U) /\ \A r : Known(added, H, r) => Known(a, H, r)
  BY <1>2, AddChannelPairs
<1> HIDE DEF added
<1>5. i # 0 => i \in DOMAIN added.pool
  <2>1. T \in SUBSET DOMAIN added.pool /\ added.pool \in Seq(Group)
    BY <1>3 DEF State
  <2>2. i = IF T = {} THEN 0 ELSE CHOOSE j \in T : \A l \in T : j <= l
    OBVIOUS
  <2> HIDE DEF T, i
  <2>3. (i = 0 /\ T = {}) \/ (i # 0 /\ i \in T)
    BY <2>1, <2>2, FirstIs, Zenon
  <2> QED
    BY <2>1, <2>3
<1> HIDE DEF i, T
<1>6. Mine(added, t)
  <2>1. added.channels[t] = a.channels[t] \/ added.channels[t] = Append(a.channels[t], c)
    BY <1>2, <1>3 DEF ChannelAdded, State
  <2>2. a.channels[t] \in Seq(UsedServers)
    BY <1>2 DEF State
  <2>3. \A k \in DOMAIN Append(a.channels[t], c) :
            \/ k \in DOMAIN a.channels[t] /\ Append(a.channels[t], c)[k] = a.channels[t][k]
            \/ Append(a.channels[t], c)[k] = c
    BY <2>2
  <2> QED
    BY <1>2, <2>1, <2>3 DEF Mine
<1>7. CASE a.sessionID[t] # NoSession
  <2>1. b = Ac!RemoveIdle(added, t)
    BY <1>1, <1>7
  <2>2. Drops(added, b)
    BY <1>2, <1>3, <2>1, RemoveIdleDrops
  <2>3. Paired(b, H, U) /\ \A r : Known(b, H, r) => Known(added, H, r)
    BY <1>4, <2>2, DropsPaired
  <2> QED
    BY <1>4, <2>3 DEF b
<1>8. CASE a.sessionID[t] = NoSession /\ i # 0
  <2>1. b = Ac!Merge(added, t, i)
    BY <1>1, <1>8
  <2>2. added.sessionID[t] = NoSession
    BY <1>3, <1>8 DEF Frame
  <2>3. Paired(b, H, U) /\ \A r : Known(b, H, r) => Known(added, H, r)
    BY <1>2, <1>3, <1>4, <1>5, <1>6, <1>8, <2>1, <2>2, MergePairs
  <2> QED
    BY <1>4, <2>3 DEF b
<1>9. CASE a.sessionID[t] = NoSession /\ i = 0
  <2>1. b = added
    BY <1>1, <1>9
  <2> QED
    BY <1>4, <2>1 DEF b
<1> QED
  BY <1>7, <1>8, <1>9

\* A free socket comes to a group of the pool that has its ID.
LEMMA PutPairs ==
    ASSUME NEW a \in State, NEW b, NEW H, NEW U, NEW s \in Sock,
           Paired(a, H, U), Free(a, H, U, s),
           NEW p \in Seq(Group), NEW i \in DOMAIN p, p[i].id = plan.session[s.of],
           \A g \in DOMAIN p : p[g].sockets = <<>> \/ (g \in DOMAIN a.pool /\ p[g] = a.pool[g]),
           b.plan = a.plan, b.sessionID = a.sessionID, b.claimed = a.claimed,
           b.sockets = a.sockets, b.given = a.given,
           DOMAIN b.pool = DOMAIN p, \A g \in DOMAIN p \ {i} : b.pool[g] = p[g],
           b.pool[i].sockets = Append(p[i].sockets, s), b.pool[i].id = p[i].id
    PROVE  Paired(b, H, U) /\ Only(a, b, H, U, s)
<1> DEFINE q == p[i].sockets
           n == Len(p[i].sockets)
<1>1. p[i] \in Group
  OBVIOUS
<1>2. q \in Seq(Sock) /\ n \in Nat
  BY <1>1 DEF Group
<1>3. /\ DOMAIN q = 1 .. n /\ DOMAIN Append(q, s) = 1 .. n + 1
      /\ Append(q, s)[n + 1] = s /\ \A k \in 1 .. n : Append(q, s)[k] = q[k]
  BY <1>2
<1>4. /\ DOMAIN b.pool = DOMAIN p /\ \A g \in DOMAIN p \ {i} : b.pool[g] = p[g]
      /\ b.pool[i].sockets = Append(q, s) /\ b.pool[i].id = p[i].id
  OBVIOUS
<1> HIDE DEF n
<1>5. /\ \A k \in DOMAIN Append(q, s) :
            (k \in DOMAIN q /\ Append(q, s)[k] = q[k]) \/ (k = n + 1 /\ Append(q, s)[k] = s)
  BY <1>2, <1>3
<1>6. \A g \in DOMAIN p : \A k \in DOMAIN p[g].sockets :
          g \in DOMAIN a.pool /\ p[g] = a.pool[g]
  <2>1. ASSUME NEW g \in DOMAIN p, NEW k \in DOMAIN p[g].sockets, p[g].sockets = <<>> PROVE FALSE
    BY <2>1
  <2> QED
    BY <2>1
<1>7. \A g \in DOMAIN b.pool : \A k \in DOMAIN b.pool[g].sockets :
          \/ /\ g \in DOMAIN a.pool /\ b.pool[g].id = a.pool[g].id
             /\ k \in DOMAIN a.pool[g].sockets /\ b.pool[g].sockets[k] = a.pool[g].sockets[k]
          \/ g = i /\ k = n + 1 /\ b.pool[g].sockets[k] = s
  <2> SUFFICES ASSUME NEW g \in DOMAIN b.pool, NEW k \in DOMAIN b.pool[g].sockets
               PROVE  \/ /\ g \in DOMAIN a.pool /\ b.pool[g].id = a.pool[g].id
                         /\ k \in DOMAIN a.pool[g].sockets
                         /\ b.pool[g].sockets[k] = a.pool[g].sockets[k]
                      \/ g = i /\ k = n + 1 /\ b.pool[g].sockets[k] = s
    OBVIOUS
  <2>1. CASE g # i
    BY <1>4, <1>6, <2>1
  <2>2. CASE g = i
    <3>1. k \in DOMAIN Append(q, s) /\ b.pool[g].sockets[k] = Append(q, s)[k]
      BY <1>4, <2>2
    <3>2. CASE k = n + 1 /\ Append(q, s)[k] = s
      BY <2>2, <3>1, <3>2
    <3>3. CASE k \in DOMAIN q /\ Append(q, s)[k] = q[k]
      <4>1. i \in DOMAIN a.pool /\ p[i] = a.pool[i]
        BY <1>6, <3>3
      <4> QED
        BY <1>4, <2>2, <3>1, <3>3, <4>1
    <3> QED
      BY <1>5, <3>1, <3>2, <3>3
  <2> QED
    BY <2>1, <2>2
<1> HIDE DEF q
<1>8. /\ \A c : Own(b, H, c) = Own(a, H, c)
      /\ \A r : Owned(b, H, r) <=> Owned(a, H, r)
      /\ \A r : Waits(b, r) <=> Waits(a, r)
      /\ \A r : InPool(b, r) => InPool(a, r) \/ r = s
  <2>1. \A c : Own(b, H, c) = Own(a, H, c)
    BY DEF Own, GivenTo
  <2>2. \A r : InPool(b, r) => InPool(a, r) \/ r = s
    BY <1>7 DEF InPool
  <2> QED
    BY <2>1, <2>2 DEF Owned, Waits
<1>9. s \notin U /\ ~Owned(a, H, s) /\ ~Waits(a, s) /\ ~InPool(a, s)
  BY DEF Free, Known
<1>10. Fitting(b, H)
  <2>1. \A g \in DOMAIN b.pool : \A k \in DOMAIN b.pool[g].sockets :
          b.pool[g].id = plan.session[b.pool[g].sockets[k].of]
    <3>1. \A g \in DOMAIN a.pool : \A k \in DOMAIN a.pool[g].sockets :
            a.pool[g].id = plan.session[a.pool[g].sockets[k].of]
      BY DEF Paired, Fitting
    <3> SUFFICES ASSUME NEW g \in DOMAIN b.pool, NEW k \in DOMAIN b.pool[g].sockets
                 PROVE  b.pool[g].id = plan.session[b.pool[g].sockets[k].of]
      OBVIOUS
    <3>2. CASE /\ g \in DOMAIN a.pool /\ b.pool[g].id = a.pool[g].id
               /\ k \in DOMAIN a.pool[g].sockets
               /\ b.pool[g].sockets[k] = a.pool[g].sockets[k]
      BY <3>1, <3>2
    <3>3. CASE g = i /\ b.pool[g].sockets[k] = s
      <4>1. b.pool[i].id = plan.session[s.of]
        BY <1>4
      <4> QED
        BY <3>3, <4>1
    <3> QED
      BY <1>7, <3>2, <3>3
  <2>2. \A c \in UsedServers : \A r \in Own(b, H, c) :
          /\ r \in Sock /\ Ac!Matches(b, r, c)
          /\ b.sessionID[plan.session[c]] = plan.session[r.of]
    BY <1>8 DEF Paired, Fitting, Ac!Matches
  <2>3. \A t \in ServerSessions : \A k \in DOMAIN b.sockets[t] :
          b.sessionID[t] = plan.session[b.sockets[t][k].of]
    BY DEF Paired, Fitting
  <2>4. \A x \in ClientSessions : b.claimed[x] # NoSession => b.sessionID[b.claimed[x]] = x
    BY DEF Paired, Fitting
  <2> QED
    BY <2>1, <2>2, <2>3, <2>4 DEF Fitting
<1>11. InOnePlace(b, H, U)
  <2>1. ASSUME NEW g \in DOMAIN b.pool, NEW h \in DOMAIN b.pool,
               NEW k \in DOMAIN b.pool[g].sockets, NEW l \in DOMAIN b.pool[h].sockets,
               b.pool[g].sockets[k] = b.pool[h].sockets[l]
        PROVE  g = h /\ k = l
    <3>1. \A f \in DOMAIN a.pool : \A m \in DOMAIN a.pool[f].sockets : a.pool[f].sockets[m] # s
      BY <1>9 DEF InPool
    <3> QED
      BY <1>7, <2>1, <3>1 DEF Paired, InOnePlace
  <2>2. \A r \in Sock :
          /\ ~(Owned(b, H, r) /\ Waits(b, r)) /\ ~(Owned(b, H, r) /\ InPool(b, r))
          /\ ~(Waits(b, r) /\ InPool(b, r))
          /\ r \in U => ~Owned(b, H, r) /\ ~Waits(b, r) /\ ~InPool(b, r)
    BY <1>8, <1>9 DEF Paired, InOnePlace
  <2>3. \A c, d \in UsedServers : \A r \in Own(b, H, c) : r \in Own(b, H, d) => c = d
    BY <1>8 DEF Paired, InOnePlace
  <2>4. \A t, u \in ServerSessions : \A k \in DOMAIN b.sockets[t], l \in DOMAIN b.sockets[u] :
            b.sockets[t][k] = b.sockets[u][l] => t = u /\ k = l
    BY DEF Paired, InOnePlace
  <2> QED
    BY <2>1, <2>2, <2>3, <2>4 DEF InOnePlace
<1> QED
  BY <1>8, <1>10, <1>11 DEF Paired, Only, Free, Known

\* A socket that has got its name is paired, or waits.
LEMMA SetSocketPairs ==
    ASSUME plan \in Plans, NEW a, Good(a), NEW s \in Sock,
           NEW H, NEW U, Paired(a, H, U), Free(a, H, U, s)
    PROVE  LET b == Ac!SetSocket(a, s)
           IN  Paired(b, H, U) /\ \A r : Known(b, H, r) => Known(a, H, r) \/ r = s
<1> DEFINE x == Ac!ClientSession(a, s)
           t == a.claimed[x]
           pooled == Ac!Pooled(a, x)
           S == {l \in DOMAIN pooled.pool : pooled.pool[l].id = x}
           i == IF S = {} THEN 0 ELSE CHOOSE l \in S : \A m \in S : l <= m
           put == [pooled EXCEPT !.pool[i].sockets = Append(@, s)]
           T == {l \in DOMAIN a.plan.servers :
                    /\ a.plan.servers[l] \in a.unclaimed
                    /\ \E k \in DOMAIN a.channels[a.plan.servers[l]] :
                           Ac!Matches(a, s, a.channels[a.plan.servers[l]][k])}
           j == IF T = {} THEN 0 ELSE CHOOSE l \in T : \A m \in T : l <= m
           b == Ac!SetSocket(a, s)
<1>1. b = CASE t # NoSession -> Ac!RemoveIdle(Ac!AddSocket(a, t, s), t)
            [] t = NoSession /\ j # 0 -> Ac!Merge(put, a.plan.servers[j], i)
            [] OTHER -> put
  BY DEF Ac!SetSocket, Ac!FirstIndex
<1>2. /\ a \in State /\ x = plan.session[s.of]
      /\ \A u \in a.groups : Mine(a, u)
      /\ \A u \in a.unclaimed : u \in a.groups /\ a.sessionID[u] = NoSession
  BY GoodMine
<1>3. x \in ClientSessions
  BY <1>2, PlanType DEF Sock
<1>4. a.plan.servers \in Seq(Sessions)
  <2>1. a.plan = Names
    BY <1>2 DEF State
  <2> QED
    BY <2>1, PlanType DEF Names
<1> HIDE DEF b, x
<1>5. CASE t # NoSession
  <2> DEFINE added == Ac!AddSocket(a, t, s)
  <2>1. b = Ac!RemoveIdle(added, t)
    BY <1>1, <1>5
  <2>2. t \in a.groups /\ t \in ServerSessions /\ Mine(a, t)
    BY <1>2, <1>3, <1>5 DEF Good, Wanted, State
  <2>3. a.sessionID[t] = x
    BY <1>3, <1>5 DEF Paired, Fitting
  <2> HIDE DEF t
  <2>4. Comes(a, H, U, t, s)
    BY <1>2, <2>3 DEF Comes
  <2>5. added \in State
    BY <1>2, <2>2, AddSocketIs
  <2>6. Paired(added, H, U) /\ Only(a, added, H, U, s)
    BY <1>2, <2>2, <2>4, AddSocketPairs
  <2> HIDE DEF added
  <2>7. Drops(added, b)
    BY <2>1, <2>2, <2>5, RemoveIdleDrops
  <2>8. Paired(b, H, U) /\ \A r : Known(b, H, r) => Known(added, H, r)
    BY <2>6, <2>7, DropsPaired
  <2> QED
    BY <2>6, <2>8 DEF Only, b
<1>6. CASE t = NoSession
  <2>1. PICK p \in Seq(Group) :
               /\ pooled = [a EXCEPT !.pool = p]
               /\ \E g \in DOMAIN p : p[g].id = x
               /\ \A g \in DOMAIN p :
                     p[g].sockets = <<>> \/ (g \in DOMAIN a.pool /\ p[g] = a.pool[g])
    <3>1. a \in State
      BY <1>2
    <3> QED
      BY <1>3, <3>1, PooledIs
  <2>2. pooled \in State /\ pooled.pool = p
    BY <1>2, <2>1, PoolIs
  <2>3. i \in DOMAIN p /\ p[i].id = x
    <3>1. S \in SUBSET DOMAIN p /\ S # {} /\ \A l \in S : p[l].id = x
      BY <2>1, <2>2
    <3>2. i = IF S = {} THEN 0 ELSE CHOOSE l \in S : \A m \in S : l <= m
      OBVIOUS
    <3> HIDE DEF S, i
    <3>3. (i = 0 /\ S = {}) \/ (i # 0 /\ i \in S)
      BY <3>1, <3>2, FirstIs, Zenon
    <3> QED
      BY <3>1, <3>3
  <2> HIDE DEF i, S
  <2> DEFINE q == [p EXCEPT ![i].sockets = Append(@, s)]
  <2>4. p[i] \in Group /\ p[i].sockets \in Seq(Sock)
    <3>1. p[i] \in Group
      <4> HIDE DEF put, q
      <4> QED
        BY <2>3
    <3> QED
      BY <3>1 DEF Group
  <2>5. [p[i] EXCEPT !.sockets = Append(@, s)] \in Group
    <3>1. Append(p[i].sockets, s) \in Seq(Sock)
      BY <2>4
    <3> QED
      BY <2>4, <3>1 DEF Group
  <2>6. q \in Seq(Group) /\ DOMAIN q = DOMAIN p
    BY <2>3, <2>5
  <2>7. /\ \A g \in DOMAIN p \ {i} : q[g] = p[g]
        /\ q[i].sockets = Append(p[i].sockets, s) /\ q[i].id = p[i].id
    BY <2>3, <2>4 DEF Group
  <2>8. put = [a EXCEPT !.pool = q]
    <3>1. put = [pooled EXCEPT !.pool = q]
      BY <2>2
    <3>2. [pooled EXCEPT !.pool = q] = [a EXCEPT !.pool = q]
      <4> HIDE DEF q, pooled
      <4> QED
        BY <1>2, <2>1 DEF State
    <3> QED
      BY <3>1, <3>2
  <2> HIDE DEF q
  <2>9. /\ put \in State /\ put.pool = q /\ put.plan = a.plan /\ put.claimed = a.claimed
        /\ put.channels = a.channels /\ put.sockets = a.sockets
        /\ put.sessionID = a.sessionID /\ put.given = a.given
    <3> HIDE DEF put
    <3> QED
      BY <1>2, <2>6, <2>8, PoolIs DEF Same
  <2> HIDE DEF put, pooled
  <2>10. Paired(put, H, U) /\ Only(a, put, H, U, s)
    <3>1. /\ DOMAIN put.pool = DOMAIN p /\ \A g \in DOMAIN p \ {i} : put.pool[g] = p[g]
          /\ put.pool[i].sockets = Append(p[i].sockets, s) /\ put.pool[i].id = p[i].id
      BY <2>6, <2>7, <2>9
    <3> QED
      BY <1>2, <2>1, <2>3, <2>9, <3>1, PutPairs
  <2>11. (j = 0 /\ T = {}) \/ (j # 0 /\ j \in T)
    <3> DEFINE r == a.plan.servers
    <3>1. T \in SUBSET DOMAIN r
      OBVIOUS
    <3>2. j = IF T = {} THEN 0 ELSE CHOOSE l \in T : \A m \in T : l <= m
      OBVIOUS
    <3>3. r \in Seq(Sessions)
      BY <1>4
    <3> HIDE DEF T, r
    <3>4. \A n : n = (IF T = {} THEN 0 ELSE CHOOSE l \in T : \A m \in T : l <= m)
                 => (n = 0 /\ T = {}) \/ (n # 0 /\ n \in T)
      BY <3>1, <3>3, FirstIs
    <3> QED
      BY <3>2, <3>4
  <2>12. CASE j # 0 /\ j \in T
    <3> DEFINE u == a.plan.servers[j]
    <3>1. b = Ac!Merge(put, u, i)
      <4> HIDE DEF t, j
      <4> QED
        BY <1>1, <1>6, <2>12
    <3>2. u \in a.unclaimed
      BY <2>12
    <3> HIDE DEF u, j, T
    <3>3. u \in ServerSessions /\ put.sessionID[u] = NoSession /\ Mine(put, u)
      BY <1>2, <2>9, <3>2 DEF State, Mine
    <3>4. i \in DOMAIN put.pool
      BY <2>3, <2>6, <2>9
    <3>5. Paired(b, H, U) /\ \A r : Known(b, H, r) => Known(put, H, r)
      BY <2>9, <2>10, <3>1, <3>3, <3>4, MergePairs
    <3> QED
      BY <2>10, <3>5 DEF Only, b
  <2>13. CASE j = 0 /\ T = {}
    <3>1. b = put
      <4> HIDE DEF t, j
      <4> QED
        BY <1>1, <1>6, <2>13
    <3> QED
      BY <2>10, <3>1 DEF Only, b
  <2> QED
    BY <2>11, <2>12, <2>13
<1> QED
  BY <1>5, <1>6

-----------------------------------------------------------------------------
(* Tasks of the acceptor                                                   *)

\* What names, pairs and gives sockets stays as it is.
Still(a, b) ==
    /\ b.plan = a.plan /\ b.sockets = a.sockets /\ b.sessionID = a.sessionID
    /\ b.pool = a.pool /\ b.given = a.given /\ b.claimed = a.claimed

\* Then the sockets stay where they are.
LEMMA StillPaired ==
    ASSUME NEW a, NEW b, NEW H, NEW U, NEW V, Still(a, b), V \subseteq U, Paired(a, H, U)
    PROVE  Paired(b, H, V) /\ \A s : Known(b, H, s) => Known(a, H, s)
<1>1. Leaves(a, b, H, H)
  BY DEF Leaves, Still, Own, GivenTo
<1> QED
  BY <1>1, LeavesPaired

\* A promise is no socket.
LEMMA EmptiedStill ==
    ASSUME NEW a \in State
    PROVE  Still(a, Ac!Emptied(a))
<1>1. Still(a, [a EXCEPT !.emptied = @ + 1]) /\ Still(a, a)
  BY DEF State, Still
<1> QED
  BY <1>1 DEF Ac!Emptied

\* After a task everything is paired, and the sockets were known or have got their name.
Pairs(a, b, H) ==
    /\ Paired(b, H, Unnamed(b))
    /\ \A s : Known(b, H, s) => Known(a, H, s) \/ s \in Unnamed(a)

\* A task that pairs nothing.
LEMMA StillPairs ==
    ASSUME NEW a, NEW b, NEW H, Still(a, b), Unnamed(b) \subseteq Unnamed(a),
           Paired(a, H, Unnamed(a))
    PROVE  Pairs(a, b, H)
BY StillPaired DEF Pairs

\* asyncGetSocket
LEMMA GetTaskPairs ==
    ASSUME plan \in Plans, NEW a, Good(a), NEW c \in UsedServers, plan.session[c] \in a.base,
           NEW H, Paired(a, H, Unnamed(a))
    PROVE  Pairs(a, Ac!GetSocket(a, c), H)
<1> DEFINE b == Ac!GetSocket(a, c)
<1>1. Paired(b, H, Unnamed(a)) /\ \A r : Known(b, H, r) => Known(a, H, r)
  BY GetSocketPairs
<1>2. Same(a, b)
  BY GetSocketKeeps
<1> HIDE DEF b
<1>3. Still(b, b) /\ Unnamed(b) \subseteq Unnamed(a)
  BY <1>2 DEF Still, Same, Unnamed
<1>4. Paired(b, H, Unnamed(b))
  BY <1>1, <1>3, StillPaired
<1> QED
  BY <1>1, <1>4 DEF Pairs, b

\* cancelPendingChannel gives the channel no socket.
LEMMA CancelTaskPairs ==
    ASSUME plan \in Plans, NEW a, Good(a), NEW c \in UsedServers,
           NEW H, Paired(a, H, Unnamed(a))
    PROVE  Pairs(a, Ac!CancelChannel(a, c), H)
<1> DEFINE t == Ac!ServerSession(a, c)
           T == {j \in DOMAIN a.channels[t] : a.channels[t][j] = c}
           i == IF T = {} THEN 0 ELSE CHOOSE j \in T : \A l \in T : j <= l
           ch == [a.channels EXCEPT ![t] = Ac!RemoveAt(@, i)]
           less == [a EXCEPT !.channels = ch]
           idle == Ac!RemoveIdle(less, t)
           rest == IF i = 0 THEN a ELSE idle
           b == Ac!CancelChannel(a, c)
<1>1. b = Ac!Give(rest, c, NoSock, FALSE)
  BY DEF Ac!CancelChannel, Ac!FirstIndex
<1>2. a \in State /\ t \in ServerSessions /\ c \in Used
  BY GoodMine, PlanType
<1>3. a.channels \in [ServerSessions -> Seq(UsedServers)] /\ a.channels[t] \in Seq(UsedServers)
  BY <1>2 DEF State
<1>4. (i = 0 /\ T = {}) \/ (i # 0 /\ i \in T)
  <2> DEFINE q == a.channels[t]
  <2>1. T \in SUBSET DOMAIN q
    OBVIOUS
  <2>2. q \in Seq(UsedServers)
    BY <1>3
  <2> HIDE DEF T, q, t
  <2>3. \A n : n = (IF T = {} THEN 0 ELSE CHOOSE j \in T : \A l \in T : j <= l)
               => (n = 0 /\ T = {}) \/ (n # 0 /\ n \in T)
    BY <2>1, <2>2, FirstIs
  <2> QED
    BY <2>3
<1>5. Same(a, b)
  BY CancelChannelKeeps
<1> HIDE DEF b
<1>6. rest \in State /\ Drops(a, rest)
  <2>1. CASE i = 0
    <3>1. rest = a
      BY <2>1
    <3> HIDE DEF rest
    <3> QED
      BY <1>2, <3>1 DEF Drops
  <2>2. CASE i # 0
    <3>1. rest = idle
      BY <2>2
    <3>2. i \in DOMAIN a.channels[t]
      BY <1>4, <2>2
    <3> HIDE DEF rest, i, T, t
    <3>3. Ac!RemoveAt(a.channels[t], i) \in Seq(UsedServers)
      BY <1>3, <3>2, WithoutOne
    <3>4. ch \in [ServerSessions -> Seq(UsedServers)]
      BY <1>2, <1>3, <3>3
    <3> HIDE DEF ch
    <3>5. less \in State /\ Drops(a, less)
      BY <1>2, <3>4 DEF State, Drops, Unnamed
    <3> HIDE DEF less
    <3>6. idle \in State /\ Drops(less, idle)
      BY <1>2, <3>5, RemoveIdleDrops
    <3> QED
      BY <3>1, <3>5, <3>6, DropsTwice
  <2> QED
    BY <2>1, <2>2
<1> HIDE DEF rest
<1>7. /\ Frame(rest, b) /\ b.sockets = rest.sockets
      /\ b.given = [rest.given EXCEPT ![c] = Append(@, [sock |-> NoSock, ok |-> FALSE])]
  <2>1. NoSock \in Sock \cup {NoSock} /\ FALSE \in BOOLEAN
    OBVIOUS
  <2>2. Frame(rest, b) /\ Gives(rest, b, c, NoSock, FALSE)
    BY <1>1, <1>2, <1>6, <2>1, GiveIs
  <2> QED
    BY <2>2 DEF Gives
<1>8. /\ GivenTo(b, c) = GivenTo(rest, c) \cup {NoSock}
      /\ \A d \in UsedServers \ {c} : GivenTo(b, d) = GivenTo(rest, d)
  <2>1. NoSock \in Sock \cup {NoSock}
    OBVIOUS
  <2> QED
    BY <1>6, <1>7, <2>1, GivenIs
<1>9. Leaves(rest, b, H, H)
  <2>1. \A d \in UsedServers : Own(b, H, d) \subseteq Own(rest, H, d)
    BY <1>8 DEF Own
  <2> QED
    BY <1>7, <2>1 DEF Leaves, Frame
<1>10. Unnamed(b) \subseteq Unnamed(a)
  BY <1>5 DEF Same, Unnamed
<1>11. Paired(rest, H, Unnamed(a)) /\ \A s : Known(rest, H, s) => Known(a, H, s)
  BY <1>6, DropsPaired
<1>12. Paired(b, H, Unnamed(b)) /\ \A s : Known(b, H, s) => Known(rest, H, s)
  BY <1>9, <1>10, <1>11, LeavesPaired
<1> QED
  BY <1>11, <1>12 DEF Pairs, b

\* The socket that has got its name is paired, and is one that has a name.
LEMMA NameTaskPairs ==
    ASSUME plan \in Plans, NEW a, Good(a), NEW s \in a.naming, s \notin a.greeting,
           s \notin a.backlog, NEW H, Paired(a, H, Unnamed(a))
    PROVE  Pairs(a, Ac!Name(a, s), H)
<1> DEFINE U == Unnamed(a) \ {s}
           b == Ac!SetSocket(a, s)
           d == [b EXCEPT !.naming = @ \ {s}]
           e == Ac!Emptied(d)
<1>1. s \in Sock
  BY DEF Good, State
<1>2. Still(a, a) /\ U \subseteq Unnamed(a) /\ s \in Unnamed(a) /\ s \notin U
  BY DEF Still, Unnamed
<1>3. Paired(a, H, U) /\ Free(a, H, U, s)
  BY <1>1, <1>2, StillPaired DEF Free, Known, Paired, InOnePlace
<1>4. e = Ac!Name(a, s)
  BY DEF Ac!Name
<1>5. Good(b)
  BY <1>1, SetSocketKeeps
<1>6. Left(a, e) /\ e.greeting = a.greeting /\ e.naming = a.naming \ {s}
  BY <1>4, NameKeeps
<1>7. Paired(b, H, U) /\ \A r : Known(b, H, r) => Known(a, H, r) \/ r = s
  BY <1>1, <1>3, SetSocketPairs
<1> HIDE DEF b, e
<1>8. d \in State /\ Still(b, d)
  BY <1>5 DEF Good, State, Still
<1> HIDE DEF d
<1>9. Still(d, e)
  BY <1>8, EmptiedStill DEF e
<1>10. Unnamed(e) \subseteq U
  BY <1>6 DEF Left, Unnamed
<1>11. Still(b, e)
  BY <1>8, <1>9 DEF Still
<1>12. Paired(e, H, Unnamed(e)) /\ \A r : Known(e, H, r) => Known(b, H, r)
  BY <1>7, <1>10, <1>11, StillPaired
<1> QED
  BY <1>2, <1>4, <1>7, <1>12 DEF Pairs

\* erasePendingSocket, and the end of an accept.
LEMMA ErasePairs ==
    ASSUME NEW a, Good(a), NEW H, Paired(a, H, Unnamed(a))
    PROVE  /\ \A s \in a.greeting \cup a.naming : Pairs(a, Ac!Erase(a, s), H)
           /\ a.accepting = "aborted" => Pairs(a, Ac!EndAccept(a), H)
<1>1. a \in State
  BY DEF Good
<1>2. ASSUME NEW s \in a.greeting \cup a.naming PROVE Pairs(a, Ac!Erase(a, s), H)
  <2> DEFINE d == [a EXCEPT !.greeting = @ \ {s}, !.naming = @ \ {s}, !.closed = @ \cup {s}]
             b == Ac!Erase(a, s)
  <2>1. Left(a, b) /\ Gone(a, b, s) /\ b = Ac!Emptied(d)
    BY EraseKeeps DEF Ac!Erase
  <2> HIDE DEF b
  <2>2. d \in State /\ Still(a, d)
    <3>1. s \in Sock
      BY <1>1 DEF State
    <3> QED
      BY <1>1, <3>1 DEF State, Still
  <2> HIDE DEF d
  <2>3. Still(a, b)
    BY <2>1, <2>2, EmptiedStill DEF Still
  <2>4. Unnamed(b) \subseteq Unnamed(a)
    BY <2>1 DEF Left, Gone, Unnamed
  <2> QED
    BY <2>3, <2>4, StillPairs DEF b
<1>3. ASSUME a.accepting = "aborted" PROVE Pairs(a, Ac!EndAccept(a), H)
  <2> DEFINE d == [a EXCEPT !.accepting = "none"]
             b == Ac!EndAccept(a)
  <2>1. Left(a, b) /\ b.greeting = a.greeting /\ b.naming = a.naming /\ b = Ac!Emptied(d)
    BY <1>3, EndAcceptKeeps DEF Ac!EndAccept
  <2> HIDE DEF b
  <2>2. d \in State /\ Still(a, d)
    BY <1>1 DEF State, Still
  <2> HIDE DEF d
  <2>3. Still(a, b)
    BY <2>1, <2>2, EmptiedStill DEF Still
  <2>4. Unnamed(b) \subseteq Unnamed(a)
    BY <2>1 DEF Left, Unnamed
  <2> QED
    BY <2>3, <2>4, StillPairs DEF b
<1> QED
  BY <1>2, <1>3

\* start(), stop() and the end of a session.
LEMMA StopPairs ==
    ASSUME plan \in Plans, NEW a, Good(a), NEW H, Paired(a, H, Unnamed(a))
    PROVE  /\ Pairs(a, Ac!Start(a), H)
           /\ ~a.stopped /\ a.base = {} => Pairs(a, Ac!Stop(a), H)
           /\ \A t \in a.base : Pairs(a, Ac!Unsubscribe(a, t), H)
<1>1. a \in State
  BY DEF Good
<1>2. Pairs(a, Ac!Start(a), H)
  <2>1. Still(a, Ac!Start(a))
    <3>1. Still(a, a) /\ Still(a, [a EXCEPT !.accepting = "open"])
      BY <1>1 DEF State, Still
    <3> QED
      BY <3>1 DEF Ac!Start
  <2>2. Unnamed(Ac!Start(a)) \subseteq Unnamed(a)
    BY StartKeeps DEF Same, Unnamed
  <2> QED
    BY <2>1, <2>2, StillPairs
<1>3. ASSUME ~a.stopped, a.base = {} PROVE Pairs(a, Ac!Stop(a), H)
  <2> DEFINE c == [a EXCEPT !.stopped = TRUE, !.listening = FALSE,
                            !.accepting = IF @ = "open" THEN "aborted" ELSE @,
                            !.closed = @ \cup a.backlog \cup a.greeting \cup a.naming,
                            !.backlog = {}]
             n == IF Ac!hasAnySubscriptions(c) THEN c.released ELSE c.released + 1
             d == [c EXCEPT !.released = n]
             b == Ac!Stop(a)
  <2>1. b = Ac!Emptied(d)
    BY DEF Ac!Stop
  <2>2. b.greeting = a.greeting /\ b.naming = a.naming /\ b.backlog \subseteq a.backlog
    BY <1>3, StopKeeps
  <2> HIDE DEF b
  <2>3. c \in State /\ Still(a, c)
    BY <1>1 DEF State, Still
  <2> HIDE DEF c
  <2>4. n \in Nat
    BY <2>3 DEF State
  <2> HIDE DEF n
  <2>5. d \in State /\ Still(c, d)
    BY <2>3, <2>4 DEF State, Still
  <2> HIDE DEF d
  <2>6. Still(a, b)
    BY <2>1, <2>3, <2>5, EmptiedStill DEF Still
  <2>7. Unnamed(b) \subseteq Unnamed(a)
    BY <2>2 DEF Unnamed
  <2> QED
    BY <2>6, <2>7, StillPairs DEF b
<1>4. ASSUME NEW t \in a.base PROVE Pairs(a, Ac!Unsubscribe(a, t), H)
  <2> DEFINE bs == a.base \ {t}
             c == [a EXCEPT !.base = bs]
             left == IF Ac!hasSubscriptions(c, t) THEN c ELSE Ac!RemoveGroup(c, t)
             b == Ac!Unsubscribe(a, t)
  <2>1. b = Ac!stopListening(left)
    BY DEF Ac!Unsubscribe
  <2>2. t \in ServerSessions /\ bs \in SUBSET ServerSessions
    BY <1>1 DEF State
  <2> HIDE DEF bs, b
  <2>3. c \in State /\ Drops(a, c)
    BY <1>1, <2>2 DEF State, Drops, Unnamed
  <2> HIDE DEF c
  <2>4. left \in State /\ Drops(c, left)
    <3>1. Ac!RemoveGroup(c, t) \in State /\ Drops(c, Ac!RemoveGroup(c, t)) /\ Drops(c, c)
      BY <2>2, <2>3, RemoveIdleDrops DEF Drops
    <3> QED
      BY <2>3, <3>1
  <2> HIDE DEF left
  <2>5. Drops(left, b)
    BY <2>1, <2>2, <2>4, RemoveIdleDrops
  <2>6. Drops(a, b)
    BY <2>3, <2>4, <2>5, DropsTwice
  <2>7. Paired(b, H, Unnamed(a)) /\ \A s : Known(b, H, s) => Known(a, H, s)
    BY <2>6, DropsPaired
  <2>8. Still(b, b) /\ Unnamed(b) \subseteq Unnamed(a)
    BY <2>6 DEF Still, Drops
  <2>9. Paired(b, H, Unnamed(b))
    BY <2>7, <2>8, StillPaired
  <2> QED
    BY <2>7, <2>9 DEF Pairs, b
<1> QED
  BY <1>2, <1>3, <1>4

-----------------------------------------------------------------------------
(* What the operators of ChannelBase do with the sockets of a channel      *)

\* A sequence is one of its elements.
LEMMA SequenceIs ==
    ASSUME NEW S, NEW q \in Seq(S)
    PROVE  IsSeq(q) /\ Len(q) \in Nat /\ DOMAIN q = 1 .. Len(q)
<1>1. Len(q) \in Nat /\ DOMAIN q = 1 .. Len(q) /\ q \in [1 .. Len(q) -> S]
  OBVIOUS
<1>2. \A i \in 1 .. Len(q) : q[i] \in Range(q)
  BY <1>1 DEF Range
<1>3. q \in [1 .. Len(q) -> Range(q)]
  BY <1>1, <1>2
<1>4. q \in Seq(Range(q))
  BY <1>1, <1>3, SeqDef
<1> QED
  BY <1>1, <1>4 DEF IsSeq

\* As is one that is made of such sequences.
LEMMA SequencesAre ==
    ASSUME NEW q, IsSeq(q)
    PROVE  /\ IsSeq(<<>>) /\ Len(q) \in Nat /\ DOMAIN q = 1 .. Len(q)
           /\ \A e : IsSeq(Append(q, e))
           /\ \A r : IsSeq(r) => IsSeq(q \o r)
           /\ \A m \in 1 .. Len(q) + 1, n \in 0 .. Len(q) : IsSeq(SubSeq(q, m, n))
           /\ q # <<>> => IsSeq(Tail(q)) /\ \A i \in DOMAIN Tail(q) :
                              i + 1 \in DOMAIN q /\ Tail(q)[i] = q[i + 1]
<1>1. q \in Seq(Range(q)) /\ <<>> \in Seq({})
  BY DEF IsSeq
<1>2. Len(q) \in Nat /\ DOMAIN q = 1 .. Len(q) /\ IsSeq(<<>>)
  BY <1>1, SequenceIs
<1>3. ASSUME NEW e PROVE IsSeq(Append(q, e))
  <2>1. q \in Seq(Range(q) \cup {e}) /\ e \in Range(q) \cup {e}
    BY <1>1, <1>2
  <2>2. Append(q, e) \in Seq(Range(q) \cup {e})
    BY <2>1
  <2> QED
    BY <2>2, SequenceIs
<1>4. ASSUME NEW r, IsSeq(r) PROVE IsSeq(q \o r)
  <2>1. r \in Seq(Range(r))
    BY <1>4 DEF IsSeq
  <2>2. q \in Seq(Range(q) \cup Range(r)) /\ r \in Seq(Range(q) \cup Range(r))
    BY <1>1, <2>1
  <2>3. q \o r \in Seq(Range(q) \cup Range(r))
    BY <2>2
  <2> QED
    BY <2>3, SequenceIs
<1>5. ASSUME NEW m \in 1 .. Len(q) + 1, NEW n \in 0 .. Len(q) PROVE IsSeq(SubSeq(q, m, n))
  <2>1. SubSeq(q, m, n) \in Seq(Range(q))
    BY <1>1, <1>2, SubSeqProperties
  <2> QED
    BY <2>1, SequenceIs
<1>6. ASSUME q # <<>>
      PROVE  IsSeq(Tail(q)) /\ \A i \in DOMAIN Tail(q) :
                                   i + 1 \in DOMAIN q /\ Tail(q)[i] = q[i + 1]
  <2>1. Tail(q) \in Seq(Range(q)) /\ Len(Tail(q)) = Len(q) - 1
        /\ \A i \in 1 .. Len(q) - 1 : Tail(q)[i] = q[i + 1]
    BY <1>1, <1>6
  <2>2. IsSeq(Tail(q)) /\ DOMAIN Tail(q) = 1 .. Len(q) - 1
    BY <2>1, SequenceIs
  <2> QED
    BY <1>2, <2>1, <2>2
<1> QED
  BY <1>2, <1>3, <1>4, <1>5, <1>6

\* A channel has a socket, or is about to be told of it.
Has(b, s) ==
    \/ s = b.handle
    \/ \E i \in DOMAIN b.strand : b.strand[i].do = "socket" /\ s = b.strand[i].sock

\* A channel comes to no socket.
NoNew(b, e) == Shape(e) /\ \A s : Has(e, s) => Has(b, s) \/ s = NoSock

\* Such steps follow each other.
LEMMA NoNewTwice ==
    ASSUME NEW b, NEW e, NEW f, NoNew(b, e), NoNew(e, f)
    PROVE  NoNew(b, f)
BY DEF NoNew

\* Nothing but the handle, the queues and what is no socket changes.
Alike(b, e) ==
    /\ {"strand", "handle", "queue"} \subseteq DOMAIN e
    /\ e.strand = b.strand /\ e.handle \in {b.handle, NoSock}
    /\ Ch!Dir \subseteq DOMAIN e.queue /\ \A d \in Ch!Dir : IsSeq(e.queue[d])

\* That is no new socket.
LEMMA AlikeIsNoNew ==
    ASSUME NEW b, NEW e, Shape(b), Alike(b, e)
    PROVE  NoNew(b, e)
BY DEF Alike, NoNew, Shape, Has

\* Tasks that are posted give the channel the sockets that they name.
LEMMA PostGives ==
    ASSUME NEW b, Shape(b), NEW r, IsSeq(r), Aimed(r)
    PROVE  LET e == Ch!Post(b, r)
           IN  /\ Shape(e)
               /\ \A s : Has(e, s) =>
                     Has(b, s) \/ \E i \in DOMAIN r : r[i].do = "socket" /\ s = r[i].sock
<1> DEFINE q == b.strand
           p == q \o r
           e == [b EXCEPT !.strand = p]
<1>1. Ch!Post(b, r) = e
  BY DEF Ch!Post
<1>2. /\ q \in Seq(Range(q)) /\ r \in Seq(Range(r)) /\ IsSeq(p)
      /\ DOMAIN q = 1 .. Len(q) /\ DOMAIN r = 1 .. Len(r) /\ DOMAIN p = 1 .. Len(p)
      /\ Len(q) \in Nat /\ Len(r) \in Nat
  BY SequencesAre DEF Shape, IsSeq
<1>3. /\ Len(p) = Len(q) + Len(r)
      /\ \A i \in 1 .. Len(p) : p[i] = IF i <= Len(q) THEN q[i] ELSE r[i - Len(q)]
  <2> DEFINE S == Range(q) \cup Range(r)
  <2>1. q \in Seq(S) /\ r \in Seq(S)
    BY <1>2
  <2> HIDE DEF S, q
  <2> QED
    BY <2>1, ConcatProperties
<1>4. \A i \in DOMAIN p : (i \in DOMAIN q /\ p[i] = q[i])
                       \/ (i - Len(q) \in DOMAIN r /\ p[i] = r[i - Len(q)])
  BY <1>2, <1>3
<1> HIDE DEF p
<1>5. Aimed(p)
  <2>1. Aimed(q)
    BY DEF Shape
  <2> HIDE DEF q
  <2> QED
    BY <1>4, <2>1 DEF Aimed
<1>6. /\ {"strand", "handle", "queue"} \subseteq DOMAIN e
      /\ e.strand = p /\ e.handle = b.handle /\ e.queue = b.queue
  BY DEF Shape
<1> HIDE DEF e
<1>7. Shape(e)
  BY <1>2, <1>6, <1>5 DEF Shape
<1>8. \A s : Has(e, s) =>
          Has(b, s) \/ \E i \in DOMAIN r : r[i].do = "socket" /\ s = r[i].sock
  BY <1>4, <1>6 DEF Has, q
<1> QED
  BY <1>1, <1>7, <1>8

\* Other tasks than setSocket give it none.
LEMMA PostIsNoNew ==
    ASSUME NEW b, Shape(b), NEW d \in Ch!Dir
    PROVE  /\ NoNew(b, Ch!Post(b, <<Ch!HandleTask(d)>>))
           /\ NoNew(b, Ch!Post(b, <<Ch!HandleTask(d), Ch!CancelStartTask>>))
           /\ NoNew(b, Ch!Post(b, <<Ch!CancelStartTask>>))
           /\ NoNew(b, Ch!Post(b, <<Ch!StartTask(d)>>))
           /\ \A k, closes : NoNew(b, Ch!Post(b, <<Ch!CancelTask(k, closes)>>))
<1>1. /\ Ch!HandleTask(d).do # "socket" /\ Ch!CancelStartTask.do # "socket"
      /\ Ch!StartTask(d).do # "socket"
      /\ \A k, closes : Ch!CancelTask(k, closes).do \notin {"socket", "start", "handle"}
      /\ Ch!HandleTask(d).dir = d /\ Ch!StartTask(d).dir = d
      /\ Ch!CancelStartTask.do \notin {"start", "handle"}
  BY DEF Ch!HandleTask, Ch!CancelStartTask, Ch!StartTask, Ch!CancelTask
<1>2. ASSUME NEW t, t.do # "socket", t.do \in {"start", "handle"} => t.dir \in Ch!Dir
      PROVE  NoNew(b, Ch!Post(b, <<t>>))
  <2> DEFINE r == <<t>>
             e == Ch!Post(b, r)
  <2>1. r \in Seq({t})
    OBVIOUS
  <2>2. IsSeq(r)
    BY <2>1, SequenceIs
  <2>3. \A i \in DOMAIN r : r[i] = t
    OBVIOUS
  <2> HIDE DEF r
  <2>4. Shape(e) /\ \A s : Has(e, s) =>
            Has(b, s) \/ \E i \in DOMAIN r : r[i].do = "socket" /\ s = r[i].sock
    BY <1>2, <2>2, <2>3, PostGives DEF Aimed
  <2> HIDE DEF e
  <2> QED
    BY <1>2, <2>3, <2>4 DEF NoNew, e, r
<1>3. NoNew(b, Ch!Post(b, <<Ch!HandleTask(d), Ch!CancelStartTask>>))
  <2> DEFINE t == Ch!HandleTask(d)
             u == Ch!CancelStartTask
             r == <<t, u>>
             e == Ch!Post(b, r)
  <2>1. r \in Seq({t, u})
    OBVIOUS
  <2>2. IsSeq(r)
    BY <2>1, SequenceIs
  <2>3. \A i \in DOMAIN r : r[i] \in {t, u}
    OBVIOUS
  <2>4. /\ t.do # "socket" /\ u.do # "socket"
        /\ t.dir \in Ch!Dir /\ u.do \notin {"start", "handle"}
    BY <1>1
  <2> HIDE DEF r, t, u
  <2>5. Shape(e) /\ \A s : Has(e, s) =>
            Has(b, s) \/ \E i \in DOMAIN r : r[i].do = "socket" /\ s = r[i].sock
    BY <2>2, <2>3, <2>4, PostGives DEF Aimed
  <2> HIDE DEF e
  <2> QED
    BY <2>3, <2>4, <2>5 DEF NoNew, e, r, t, u
<1> QED
  BY <1>1, <1>2, <1>3

\* Nothing changes but the handle, which may be dropped, and what is no socket.
Reduced(b, e) ==
    /\ {"strand", "handle", "queue"} \subseteq DOMAIN e
    /\ e.strand = b.strand /\ e.queue = b.queue /\ e.handle \in {b.handle, NoSock}

\* Such steps follow each other.
LEMMA ReducedTwice ==
    ASSUME NEW b, NEW e, NEW f, Reduced(b, e), Reduced(e, f)
    PROVE  Reduced(b, f)
BY DEF Reduced

\* The channel keeps its shape.
LEMMA ReducedIsNoNew ==
    ASSUME NEW b, NEW e, Shape(b), Reduced(b, e)
    PROVE  NoNew(b, e) /\ Alike(b, e)
BY DEF Reduced, NoNew, Shape, Has, Alike

\* A callback may drop the handle.
LEMMA CallbackReduces ==
    ASSUME NEW b, Shape(b), NEW o
    PROVE  Reduced(b, Ch!Callback(b, o))
<1> DEFINE left == [b.left EXCEPT ![o.of] = @ - 1]
           none == [b.left EXCEPT ![o.of] = 0]
           status == IF o.closes THEN "Closed" ELSE b.status
<1>1. Ch!Callback(b, o) = IF b.left[o.of] > 1
                          THEN [b EXCEPT !.left = left]
                          ELSE [b EXCEPT !.left = none, !.handle = NoSock, !.status = status]
  BY DEF Ch!Callback
<1> HIDE DEF left, none, status
<1>2. Reduced(b, [b EXCEPT !.left = left])
  BY DEF Reduced, Shape
<1>3. Reduced(b, [b EXCEPT !.left = none, !.handle = NoSock, !.status = status])
  BY DEF Reduced, Shape
<1> QED
  BY <1>1, <1>2, <1>3

\* What an operation that completes does.
Ran(b, o) == IF o.op = "call" THEN Ch!Callback(b, o) ELSE b

\* The channel while n of the operations complete.
Runs(b, q, n, f) ==
    /\ f = [k \in 0 .. n |-> f[k]] /\ f[0] = b
    /\ \A k \in 1 .. n : f[k] = Ran(f[k - 1], q[k])

\* There are such states.
LEMMA RunsExist ==
    ASSUME NEW b, NEW q, NEW m \in Nat
    PROVE  \E f : Runs(b, q, m, f)
<1> DEFINE Bad == {n \in 0 .. m : ~\E f : Runs(b, q, n, f)}
<1>1. ASSUME Bad # {} PROVE FALSE
  <2>1. Bad \in SUBSET Nat
    OBVIOUS
  <2>2. PICK n \in Bad : \A i \in Bad : n <= i
    <3> HIDE DEF Bad
    <3> QED
      BY <1>1, <2>1, LeastNatural
  <2>3. n \in 0 .. m /\ ~\E f : Runs(b, q, n, f)
    OBVIOUS
  <2>4. n # 0
    <3> DEFINE f == [k \in 0 .. 0 |-> b]
    <3>1. Runs(b, q, 0, f)
      BY DEF Runs
    <3> QED
      BY <2>3, <3>1
  <2>5. n - 1 \in 0 .. m /\ n - 1 \notin Bad
    BY <2>2, <2>3, <2>4
  <2>6. PICK f : Runs(b, q, n - 1, f)
    BY <2>5
  <2> HIDE DEF Bad
  <2> DEFINE last == Ran(f[n - 1], q[n])
             g == [k \in 0 .. n |-> IF k = n THEN last ELSE f[k]]
  <2>7. n \in 1 .. m
    BY <2>3, <2>4
  <2>8. \A k \in 1 .. n : g[k] = Ran(g[k - 1], q[k])
    <3> SUFFICES ASSUME NEW k \in 1 .. n PROVE g[k] = Ran(g[k - 1], q[k])
      OBVIOUS
    <3>1. k - 1 \in 0 .. n /\ k \in 0 .. n /\ k - 1 # n /\ g[k - 1] = f[k - 1]
      BY <2>7
    <3>2. CASE k = n
      BY <3>1, <3>2
    <3>3. CASE k # n
      <4>1. k \in 1 .. n - 1
        BY <2>7, <3>3
      <4>2. f[k] = Ran(f[k - 1], q[k])
        BY <2>6, <4>1 DEF Runs
      <4>3. g[k] = f[k]
        BY <3>1, <3>3
      <4> QED
        BY <3>1, <4>2, <4>3
    <3> QED
      BY <3>2, <3>3
  <2>9. g[0] = b
    BY <2>6, <2>7 DEF Runs
  <2>10. g = [k \in 0 .. n |-> g[k]]
    OBVIOUS
  <2> HIDE DEF g
  <2>11. Runs(b, q, n, g)
    BY <2>8, <2>9, <2>10 DEF Runs
  <2> QED
    BY <2>3, <2>11
<1>2. m \in 0 .. m
  OBVIOUS
<1> QED
  BY <1>1, <1>2

\* Callbacks that are run together may drop the handle.
LEMMA RunCallbacksReduce ==
    ASSUME NEW b, Shape(b), NEW q, IsSeq(q)
    PROVE  Reduced(b, Ch!RunCallbacks(b, q))
<1> DEFINE G(h) == [k \in 0 .. Len(q) |->
                       IF k = 0 THEN b
                       ELSE IF q[k].op = "call" THEN Ch!Callback(h[k - 1], q[k])
                       ELSE h[k - 1]]
           upTo == CHOOSE h : h = G(h)
<1>1. Len(q) \in Nat
  BY SequencesAre
<1>2. PICK f : Runs(b, q, Len(q), f)
  BY <1>1, RunsExist
<1>3. f = G(f)
  <2>1. f = [k \in 0 .. Len(q) |-> f[k]]
    BY <1>2 DEF Runs
  <2>2. ASSUME NEW k \in 0 .. Len(q) PROVE f[k] = G(f)[k]
    <3>1. CASE k = 0
      BY <1>2, <3>1 DEF Runs
    <3>2. CASE k # 0
      <4>1. k \in 1 .. Len(q)
        BY <1>1, <3>2
      <4>2. f[k] = Ran(f[k - 1], q[k])
        BY <1>2, <4>1 DEF Runs
      <4> QED
        BY <3>2, <4>2 DEF Ran
    <3> QED
      BY <3>1, <3>2
  <2>3. DOMAIN G(f) = 0 .. Len(q) /\ G(f) = [k \in 0 .. Len(q) |-> G(f)[k]]
    OBVIOUS
  <2> HIDE DEF G
  <2> QED
    BY <2>1, <2>2, <2>3
<1>4. upTo = G(upTo)
  <2> HIDE DEF G
  <2> QED
    BY <1>3
<1>5. Ch!RunCallbacks(b, q) = upTo[Len(q)]
  BY DEF Ch!RunCallbacks
<1> HIDE DEF upTo
<1>6. upTo[0] = b /\ \A k \in 1 .. Len(q) : upTo[k] = Ran(upTo[k - 1], q[k])
  <2>1. \A k \in 0 .. Len(q) : upTo[k] = G(upTo)[k]
    <3> HIDE DEF G
    <3> QED
      BY <1>4
  <2> QED
    BY <1>1, <2>1 DEF Ran
<1> HIDE DEF G
<1> DEFINE Bad == {k \in 0 .. Len(q) : ~Reduced(b, upTo[k])}
<1>7. ASSUME Bad # {} PROVE FALSE
  <2>1. Bad \in SUBSET Nat
    BY <1>1
  <2>2. PICK n \in Bad : \A i \in Bad : n <= i
    <3> HIDE DEF Bad
    <3> QED
      BY <1>7, <2>1, LeastNatural
  <2>3. n \in 0 .. Len(q) /\ ~Reduced(b, upTo[n])
    OBVIOUS
  <2>4. n # 0
    BY <1>6, <2>3 DEF Reduced, Shape
  <2>5. n - 1 \in 0 .. Len(q) /\ n \in 1 .. Len(q) /\ n - 1 \notin Bad
    BY <1>1, <2>2, <2>3, <2>4
  <2>6. Reduced(b, upTo[n - 1]) /\ upTo[n] = Ran(upTo[n - 1], q[n])
    BY <1>6, <2>5
  <2> HIDE DEF Bad
  <2>7. Shape(upTo[n - 1])
    BY <2>6, ReducedIsNoNew DEF NoNew
  <2>8. Reduced(upTo[n - 1], upTo[n])
    BY <2>6, <2>7, CallbackReduces DEF Ran, Reduced
  <2> QED
    BY <2>3, <2>6, <2>8, ReducedTwice
<1>8. Reduced(b, upTo[Len(q)])
  <2>1. Len(q) \in 0 .. Len(q)
    BY <1>1
  <2> QED
    BY <1>7, <2>1
<1> QED
  BY <1>5, <1>8

\* A record that gets another queue.
LEMMA QueueIsNoNew ==
    ASSUME NEW b, Shape(b), NEW e, Reduced(b, e), NEW d \in Ch!Dir, NEW q, IsSeq(q),
           NEW f, {"strand", "handle", "queue"} \subseteq DOMAIN f,
           f.strand = e.strand, f.handle = e.handle, f.queue = [e.queue EXCEPT ![d] = q]
    PROVE  NoNew(b, f) /\ Alike(b, f) /\ f.queue[d] = q
<1>1. Ch!Dir \subseteq DOMAIN f.queue /\ f.queue[d] = q
      /\ \A i \in Ch!Dir \ {d} : f.queue[i] = b.queue[i]
  BY DEF Reduced, Shape
<1>2. \A i \in Ch!Dir : IsSeq(f.queue[i])
  BY <1>1 DEF Shape
<1>3. Alike(b, f)
  BY <1>1, <1>2 DEF Alike, Reduced
<1> QED
  BY <1>1, <1>3, AlikeIsNoNew

\* Reduced a queue changes.
LEMMA OneQueueIsNoNew ==
    ASSUME NEW b, Shape(b), NEW d \in Ch!Dir, NEW q, IsSeq(q),
           NEW f, {"strand", "handle", "queue"} \subseteq DOMAIN f,
           f.strand = b.strand, f.handle = b.handle, f.queue = [b.queue EXCEPT ![d] = q]
    PROVE  NoNew(b, f)
<1>1. Ch!Dir \subseteq DOMAIN f.queue /\ f.queue[d] = q
      /\ \A i \in Ch!Dir \ {d} : f.queue[i] = b.queue[i]
  BY DEF Shape
<1>2. \A i \in Ch!Dir : IsSeq(f.queue[i])
  BY <1>1 DEF Shape
<1>3. Alike(b, f)
  BY <1>1, <1>2 DEF Alike
<1> QED
  BY <1>3, AlikeIsNoNew

\* cancelSendQueue, cancelRecvQueue
LEMMA CancelQueueIsNoNew ==
    ASSUME NEW b, Shape(b), NEW d \in Ch!Dir
    PROVE  NoNew(b, Ch!CancelQueueAll(b, d)) /\ NoNew(b, Ch!CancelQueue(b, d))
<1>1. NoNew(b, Ch!CancelQueueAll(b, d))
  <2> DEFINE e == Ch!RunCallbacks(b, b.queue[d])
             alive == [e.alive EXCEPT ![d] = FALSE]
             new == [e.cancelNew EXCEPT ![d] = TRUE]
             queue == [e.queue EXCEPT ![d] = <<>>]
             f == [e EXCEPT !.queue = queue, !.alive = alive, !.cancelNew = new]
  <2>1. Ch!CancelQueueAll(b, d) = f
    BY DEF Ch!CancelQueueAll
  <2>2. Reduced(b, e)
    BY RunCallbacksReduce DEF Shape
  <2> HIDE DEF e, alive, new
  <2>3. {"strand", "handle", "queue"} \subseteq DOMAIN f
        /\ f.strand = e.strand /\ f.handle = e.handle /\ f.queue = queue
    BY <2>2 DEF Reduced
  <2> HIDE DEF f
  <2>4. IsSeq(<<>>)
    BY SequencesAre DEF Shape
  <2> QED
    BY <2>1, <2>2, <2>3, <2>4, QueueIsNoNew
<1>2. NoNew(b, Ch!Post([b EXCEPT !.cancelNew[d] = TRUE], <<Ch!HandleTask(d), Ch!CancelStartTask>>))
  <2> DEFINE new == [b.cancelNew EXCEPT ![d] = TRUE]
             e == [b EXCEPT !.cancelNew = new]
  <2> HIDE DEF new
  <2>1. Reduced(b, e)
    BY DEF Reduced, Shape
  <2> HIDE DEF e
  <2>2. NoNew(b, e)
    BY <2>1, ReducedIsNoNew
  <2>3. NoNew(e, Ch!Post(e, <<Ch!HandleTask(d), Ch!CancelStartTask>>))
    BY <2>2, PostIsNoNew DEF NoNew
  <2> QED
    BY <2>2, <2>3, NoNewTwice DEF e, new
<1> QED
  BY <1>1, <1>2 DEF Ch!CancelQueue

\* The number of callbacks at the front.
LEMMA LeadingIs ==
    ASSUME NEW q, IsSeq(q)
    PROVE  Ch!Leading(q) \in 0 .. Len(q)
<1> DEFINE others == {i \in DOMAIN q : q[i].op # "call"}
<1>1. Len(q) \in Nat /\ DOMAIN q = 1 .. Len(q)
  BY SequencesAre
<1>2. others \in SUBSET Nat /\ others \subseteq 1 .. Len(q)
  BY <1>1
<1> HIDE DEF others
<1>3. ASSUME others # {} PROVE (CHOOSE i \in others : \A j \in others : i <= j) \in 1 .. Len(q)
  <2>1. \E i \in others : \A j \in others : i <= j
    BY <1>2, <1>3, LeastNatural
  <2> QED
    BY <1>2, <2>1
<1>4. Ch!Leading(q) = IF others = {} THEN Len(q)
                      ELSE (CHOOSE i \in others : \A j \in others : i <= j) - 1
  BY DEF Ch!Leading, others
<1> QED
  BY <1>1, <1>3, <1>4

\* asyncPerformSend, asyncPerformRecv
LEMMA PerformIsNoNew ==
    ASSUME NEW b, Shape(b), NEW d \in Ch!Dir
    PROVE  NoNew(b, Ch!Perform(b, d))
<1> DEFINE q == b.queue[d]
           n == Ch!Leading(q)
           first == SubSeq(q, 1, n)
           rest == SubSeq(q, n + 1, Len(q))
           e == Ch!RunCallbacks(b, first)
           f == [e EXCEPT !.queue[d] = <<>>, !.alive[d] = FALSE]
           g == [e EXCEPT !.queue[d] = rest]
           h == [e EXCEPT !.queue[d] = rest, !.io[d] = "armed",
                          !.faults = @ \cup Ch!When(e.handle = NoSock, "no handle")]
<1>1. IsSeq(q) /\ IsSeq(<<>>) /\ Len(q) \in Nat
  BY SequencesAre DEF Shape
<1>2. n \in 0 .. Len(q)
  BY <1>1, LeadingIs
<1>3. IsSeq(first) /\ IsSeq(rest)
  <2>1. \A i \in 1 .. Len(q) + 1, j \in 0 .. Len(q) : IsSeq(SubSeq(q, i, j))
    BY <1>1, SequencesAre
  <2> HIDE DEF n, q
  <2>2. 1 \in 1 .. Len(q) + 1 /\ n + 1 \in 1 .. Len(q) + 1 /\ Len(q) \in 0 .. Len(q)
    BY <1>1, <1>2
  <2> QED
    BY <1>2, <2>1, <2>2
<1>4. Ch!Perform(b, d) \in {Ch!CancelQueue(b, d), f, Ch!Post(g, <<Ch!HandleTask(d)>>), h}
  BY DEF Ch!Perform
<1> HIDE DEF first, rest
<1>5. Reduced(b, e)
  BY <1>3, RunCallbacksReduce
<1> HIDE DEF e
<1>6. NoNew(b, f)
  <2> DEFINE alive == [e.alive EXCEPT ![d] = FALSE]
             queue == [e.queue EXCEPT ![d] = <<>>]
  <2>1. f = [e EXCEPT !.queue = queue, !.alive = alive]
    OBVIOUS
  <2> HIDE DEF f, alive
  <2>2. {"strand", "handle", "queue"} \subseteq DOMAIN f
        /\ f.strand = e.strand /\ f.handle = e.handle /\ f.queue = queue
    BY <1>5, <2>1 DEF Reduced
  <2> QED
    BY <1>1, <1>5, <2>2, QueueIsNoNew
<1>7. NoNew(b, Ch!Post(g, <<Ch!HandleTask(d)>>))
  <2>1. {"strand", "handle", "queue"} \subseteq DOMAIN g
        /\ g.strand = e.strand /\ g.handle = e.handle /\ g.queue = [e.queue EXCEPT ![d] = rest]
    BY <1>5 DEF Reduced
  <2> HIDE DEF g
  <2>2. NoNew(b, g)
    BY <1>3, <1>5, <2>1, QueueIsNoNew
  <2>3. NoNew(g, Ch!Post(g, <<Ch!HandleTask(d)>>))
    BY <2>2, PostIsNoNew DEF NoNew
  <2> QED
    BY <2>2, <2>3, NoNewTwice
<1>8. NoNew(b, h)
  <2> DEFINE io == [e.io EXCEPT ![d] = "armed"]
             queue == [e.queue EXCEPT ![d] = rest]
             faults == e.faults \cup Ch!When(e.handle = NoSock, "no handle")
  <2>1. h = [e EXCEPT !.queue = queue, !.io = io, !.faults = faults]
    OBVIOUS
  <2> HIDE DEF h, io, faults
  <2>2. {"strand", "handle", "queue"} \subseteq DOMAIN h
        /\ h.strand = e.strand /\ h.handle = e.handle /\ h.queue = queue
    BY <1>5, <2>1 DEF Reduced
  <2> QED
    BY <1>3, <1>5, <2>2, QueueIsNoNew
<1> HIDE DEF f, g, h
<1> QED
  BY <1>4, <1>6, <1>7, <1>8, CancelQueueIsNoNew

\* The completion of an operation.
LEMMA CompleteIsNoNew ==
    ASSUME NEW b, Shape(b), NEW d \in Ch!Dir, NEW ok
    PROVE  NoNew(b, Ch!Complete(b, d, ok))
<1> DEFINE q == b.queue[d]
           rest == SubSeq(q, 2, Len(q))
           faults == b.faults \cup Ch!When(q = <<>>, "no operation")
           io == [b.io EXCEPT ![d] = "none"]
           body == b.body /\ d = "send"
           queue == [b.queue EXCEPT ![d] = rest]
           e == [b EXCEPT !.queue = queue, !.io = io, !.body = body, !.faults = faults]
           f == [e EXCEPT !.alive[d] = FALSE]
<1>1. Ch!Complete(b, d, ok) \in {Ch!CancelQueue(e, d), Ch!Perform(e, d), f}
  BY DEF Ch!Complete
<1>2. IsSeq(rest)
  <2>1. IsSeq(q) /\ IsSeq(<<>>) /\ Len(q) \in Nat
        /\ \A i \in 1 .. Len(q) + 1, j \in 0 .. Len(q) : IsSeq(SubSeq(q, i, j))
    BY SequencesAre DEF Shape
  <2> HIDE DEF q
  <2>2. CASE Len(q) = 0
    <3>1. SubSeq(q, 2, Len(q)) = <<>>
      <4>1. q \in Seq(Range(q)) /\ Len(q) = 0
        BY <2>1, <2>2 DEF IsSeq
      <4> QED
        BY <4>1
    <3> QED
      BY <2>1, <3>1
  <2>3. CASE Len(q) # 0
    <3>1. 2 \in 1 .. Len(q) + 1 /\ Len(q) \in 0 .. Len(q)
      BY <2>1, <2>3
    <3> QED
      BY <2>1, <3>1
  <2> QED
    BY <2>2, <2>3
<1> HIDE DEF rest, io, body, faults
<1>3. {"strand", "handle", "queue"} \subseteq DOMAIN e
      /\ e.strand = b.strand /\ e.handle = b.handle /\ e.queue = queue
  BY DEF Shape
<1> HIDE DEF e, q
<1>5. NoNew(b, e)
  BY <1>2, <1>3, OneQueueIsNoNew
<1>6. NoNew(e, f)
  <2> DEFINE alive == [e.alive EXCEPT ![d] = FALSE]
  <2>1. f = [e EXCEPT !.alive = alive]
    OBVIOUS
  <2> HIDE DEF alive, f
  <2>2. Reduced(e, f)
    BY <1>5, <2>1 DEF Reduced, NoNew, Shape
  <2> QED
    BY <1>5, <2>2, ReducedIsNoNew DEF NoNew
<1> HIDE DEF f
<1>7. NoNew(e, Ch!CancelQueue(e, d)) /\ NoNew(e, Ch!Perform(e, d))
  BY <1>5, CancelQueueIsNoNew, PerformIsNoNew DEF NoNew
<1> QED
  BY <1>1, <1>5, <1>6, <1>7, NoNewTwice

\* The header of a message.
LEMMA HeaderIsNoNew ==
    ASSUME NEW b, Shape(b)
    PROVE  NoNew(b, Ch!HeaderCame(b))
<1> DEFINE io == [b.io EXCEPT !["recv"] = "armed"]
           h == [b EXCEPT !.io = io, !.body = TRUE]
<1>1. Ch!HeaderCame(b) = h
  BY DEF Ch!HeaderCame
<1> HIDE DEF io
<1>2. {"strand", "handle", "queue"} \subseteq DOMAIN h
      /\ h.strand = b.strand /\ h.handle = b.handle /\ h.queue = b.queue
  BY DEF Shape
<1> HIDE DEF h
<1> QED
  BY <1>1, <1>2 DEF NoNew, Shape, Has

\* sendEnque, recvEnque
LEMMA EnqueIsNoNew ==
    ASSUME NEW b, Shape(b), NEW d \in Ch!Dir, NEW o
    PROVE  /\ NoNew(b, Ch!StartLoop(b, d)) /\ NoNew(b, Ch!Enque(b, d, o))
           /\ NoNew(b, Ch!EnqueNow(b, d, o))
<1> DEFINE e == [b EXCEPT !.queue[d] = Append(@, o)]
<1>1. ASSUME NEW f, Shape(f) PROVE NoNew(f, Ch!StartLoop(f, d))
  <2> DEFINE alive == [f.alive EXCEPT ![d] = TRUE]
             faults == f.faults \cup Ch!When(f.status = "Closed", "closed")
             g == [f EXCEPT !.alive = alive, !.faults = faults]
  <2>1. Ch!StartLoop(f, d) \in {f, Ch!Perform(g, d)}
    BY DEF Ch!StartLoop
  <2> HIDE DEF alive, faults
  <2>2. Reduced(f, f) /\ Reduced(f, g)
    BY <1>1 DEF Reduced, Shape
  <2> HIDE DEF g
  <2>3. NoNew(f, f) /\ NoNew(f, g)
    BY <1>1, <2>2, ReducedIsNoNew
  <2>4. NoNew(g, Ch!Perform(g, d))
    BY <2>3, PerformIsNoNew DEF NoNew
  <2> QED
    BY <2>1, <2>3, <2>4, NoNewTwice
<1>2. NoNew(b, e)
  <2> DEFINE q == Append(b.queue[d], o)
  <2>1. IsSeq(q)
    BY SequencesAre DEF Shape
  <2>2. {"strand", "handle", "queue"} \subseteq DOMAIN e
        /\ e.strand = b.strand /\ e.handle = b.handle /\ e.queue = [b.queue EXCEPT ![d] = q]
    BY DEF Shape
  <2> HIDE DEF e, q
  <2> QED
    BY <2>1, <2>2, OneQueueIsNoNew
<1>3. Ch!Enque(b, d, o) = Ch!Post(e, <<Ch!StartTask(d)>>) /\ Ch!EnqueNow(b, d, o) = Ch!StartLoop(e, d)
  BY DEF Ch!Enque, Ch!EnqueNow
<1> HIDE DEF e
<1>4. NoNew(e, Ch!Post(e, <<Ch!StartTask(d)>>)) /\ NoNew(e, Ch!StartLoop(e, d))
  BY <1>1, <1>2, PostIsNoNew DEF NoNew
<1> QED
  BY <1>1, <1>2, <1>3, <1>4, NoNewTwice

\* The start of the socket, which setHandle and finalize end.
LEMMA StartIsNoNew ==
    ASSUME NEW b, Shape(b), NEW d \in Ch!Dir
    PROVE  NoNew(b, Ch!Eval(b, d)) /\ NoNew(b, Ch!SetHandle(b, d))
<1>1. ASSUME NEW f, Shape(f), NEW i \in Ch!Dir PROVE NoNew(f, Ch!Eval(f, i))
  <2> DEFINE com == [f.com EXCEPT ![i] = "Eval"]
             g == [f EXCEPT !.com = com]
             ok == ~f.failed
  <2>1. Ch!Eval(f, i) \in {f, Ch!Complete(g, i, ok)}
    BY DEF Ch!Eval
  <2> HIDE DEF com, ok
  <2>2. Reduced(f, f) /\ Reduced(f, g)
    BY <1>1 DEF Reduced, Shape
  <2> HIDE DEF g
  <2>3. NoNew(f, f) /\ NoNew(f, g)
    BY <1>1, <2>2, ReducedIsNoNew
  <2>4. NoNew(g, Ch!Complete(g, i, ok))
    BY <2>3, CompleteIsNoNew DEF NoNew
  <2> QED
    BY <2>1, <2>3, <2>4, NoNewTwice
<1>2. NoNew(b, Ch!SetHandle(b, d))
  <2> DEFINE com == [b.com EXCEPT ![d] = "Init"]
             e == [b EXCEPT !.com = com]
             f == Ch!Eval(e, "send")
  <2>1. Ch!SetHandle(b, d) = Ch!Eval(f, "recv") /\ "send" \in Ch!Dir /\ "recv" \in Ch!Dir
    BY DEF Ch!SetHandle, Ch!Dir
  <2> HIDE DEF com
  <2>2. Reduced(b, e)
    BY DEF Reduced, Shape
  <2> HIDE DEF e
  <2>3. NoNew(b, e)
    BY <2>2, ReducedIsNoNew
  <2>4. NoNew(e, f)
    BY <1>1, <2>1, <2>3 DEF NoNew
  <2> HIDE DEF f
  <2>5. NoNew(f, Ch!Eval(f, "recv"))
    BY <1>1, <2>1, <2>4 DEF NoNew
  <2> QED
    BY <2>1, <2>3, <2>4, <2>5, NoNewTwice
<1> QED
  BY <1>1, <1>2

\* finalize, which sets the handle.
LEMMA FinalizeGives ==
    ASSUME NEW b, Shape(b), NEW s, NEW ok
    PROVE  LET f == Ch!finalize(b, s, ok)
           IN  Shape(f) /\ \A x : Has(f, x) => Has(b, x) \/ x = s \/ x = NoSock
<1> DEFINE faults == b.faults \cup Ch!When(b.final, "finalized")
           e == [b EXCEPT !.faults = faults, !.final = TRUE, !.handle = s, !.failed = ~ok]
           g == Ch!Eval(e, "send")
           f == Ch!finalize(b, s, ok)
<1>1. f = Ch!Eval(g, "recv") /\ "send" \in Ch!Dir /\ "recv" \in Ch!Dir
  BY DEF Ch!finalize, Ch!Dir
<1> HIDE DEF faults, f
<1>2. Shape(e) /\ \A x : Has(e, x) => Has(b, x) \/ x = s
  BY DEF Shape, Has
<1> HIDE DEF e
<1>3. NoNew(e, g)
  BY <1>1, <1>2, StartIsNoNew
<1> HIDE DEF g
<1>4. NoNew(g, f)
  BY <1>1, <1>3, StartIsNoNew DEF NoNew
<1>5. NoNew(e, f)
  BY <1>3, <1>4, NoNewTwice
<1> QED
  BY <1>2, <1>5 DEF NoNew, f

\* The posted task of asyncCancel.
LEMMA CancelIsNoNew ==
    ASSUME NEW b, Shape(b), NEW o
    PROVE  NoNew(b, Ch!Cancel(b, o))
<1>1. ASSUME NEW e, Shape(e), NEW d \in Ch!Dir PROVE NoNew(e, Ch!CancelDir(e, d, o))
  <2> DEFINE q == Ch!EnqueNow(e, d, o)
  <2>1. Ch!CancelDir(e, d, o) \in {q, Ch!Post(q, <<Ch!CancelStartTask>>), Ch!CancelQueue(q, d)}
    BY DEF Ch!CancelDir, Ch!CancelPending
  <2>2. NoNew(e, q)
    BY <1>1, EnqueIsNoNew
  <2> HIDE DEF q
  <2>3. NoNew(q, Ch!Post(q, <<Ch!CancelStartTask>>)) /\ NoNew(q, Ch!CancelQueue(q, d))
    BY <2>2, PostIsNoNew, CancelQueueIsNoNew DEF NoNew
  <2> QED
    BY <2>1, <2>2, <2>3, NoNewTwice
<1> DEFINE new == [d \in Ch!Dir |-> TRUE]
           io == [d \in Ch!Dir |-> IF b.io[d] = "armed" THEN "canceled" ELSE b.io[d]]
           e == [b EXCEPT !.status = "Canceling", !.cancelNew = new, !.io = io]
           f == Ch!CancelDir(e, "send", o)
<1>2. Ch!Cancel(b, o) = Ch!CancelDir(f, "recv", o) /\ "send" \in Ch!Dir /\ "recv" \in Ch!Dir
  BY DEF Ch!Cancel, Ch!Dir
<1> HIDE DEF new, io
<1>3. Reduced(b, e)
  BY DEF Reduced, Shape
<1> HIDE DEF e
<1>4. NoNew(b, e)
  BY <1>3, ReducedIsNoNew
<1>5. NoNew(e, f)
  BY <1>1, <1>2, <1>4 DEF NoNew
<1> HIDE DEF f
<1>6. NoNew(f, Ch!CancelDir(f, "recv", o))
  BY <1>1, <1>2, <1>5 DEF NoNew
<1> QED
  BY <1>2, <1>4, <1>5, <1>6, NoNewTwice

\* asyncCancel and asyncClose.
LEMMA AsyncIsNoNew ==
    ASSUME NEW b, Shape(b), NEW k, NEW closes
    PROVE  /\ NoNew(b, Ch!AsyncCancel(b, k, closes))
           /\ NoNew(b, Ch!AsyncCloseSend(b, k)) /\ NoNew(b, Ch!AsyncCloseRecv(b, k))
<1>1. NoNew(b, Ch!AsyncCancel(b, k, closes))
  <2> DEFINE left == [b.left EXCEPT ![k] = 2]
             e == [b EXCEPT !.left = left]
  <2>1. Ch!AsyncCancel(b, k, closes) = Ch!Post(e, <<Ch!CancelTask(k, closes)>>)
    BY DEF Ch!AsyncCancel
  <2> HIDE DEF left
  <2>2. Reduced(b, e)
    BY DEF Reduced, Shape
  <2> HIDE DEF e
  <2>3. NoNew(b, e)
    BY <2>2, ReducedIsNoNew
  <2>4. NoNew(e, Ch!Post(e, <<Ch!CancelTask(k, closes)>>))
    <3>1. "send" \in Ch!Dir
      BY DEF Ch!Dir
    <3> QED
      BY <2>3, <3>1, PostIsNoNew DEF NoNew
  <2> QED
    BY <2>1, <2>3, <2>4, NoNewTwice
<1>2. NoNew(b, Ch!AsyncCloseSend(b, k))
  <2> DEFINE left == [b.left EXCEPT ![k] = 2]
             e == [b EXCEPT !.left = left, !.status = "Closing"]
             o == Ch!CallbackOp(k, TRUE)
  <2>1. Ch!AsyncCloseSend(b, k) = Ch!Enque(e, "send", o) /\ "send" \in Ch!Dir
    BY DEF Ch!AsyncCloseSend, Ch!Dir
  <2> HIDE DEF left, o
  <2>2. Reduced(b, e)
    BY DEF Reduced, Shape
  <2> HIDE DEF e
  <2>3. NoNew(b, e)
    BY <2>2, ReducedIsNoNew
  <2>4. NoNew(e, Ch!Enque(e, "send", o))
    BY <2>1, <2>3, EnqueIsNoNew DEF NoNew
  <2> QED
    BY <2>1, <2>3, <2>4, NoNewTwice
<1>3. NoNew(b, Ch!AsyncCloseRecv(b, k))
  <2>1. "recv" \in Ch!Dir
    BY DEF Ch!Dir
  <2> QED
    BY <2>1, EnqueIsNoNew DEF Ch!AsyncCloseRecv
<1> QED
  BY <1>1, <1>2, <1>3

-----------------------------------------------------------------------------
(* Steps                                                                   *)

\* What is paired is paired as seen after a step that keeps the plan.
LEMMA PairedAfter ==
    ASSUME plan' = plan, NEW a, NEW H, NEW U, Paired(a, H, U),
           acc' = a, HeldBy' = H, Unnamed(acc)' = U
    PROVE  Paired(acc, HeldBy, Unnamed(acc))'
<1>1. /\ UsedServers' = UsedServers /\ ServerSessions' = ServerSessions
      /\ ClientSessions' = ClientSessions /\ Sock' = Sock
  BY PlanKept
<1>2. /\ \A c : Own(acc, HeldBy, c)' = Own(a, H, c)
      /\ \A s : Waits(acc, s)' <=> Waits(a, s)
      /\ \A s : InPool(acc, s)' <=> InPool(a, s)
  BY <1>1 DEF Own, GivenTo, Waits, InPool
<1>3. \A s : Owned(acc, HeldBy, s)' <=> Owned(a, H, s)
  BY <1>1, <1>2 DEF Owned
<1>4. Fitting(acc, HeldBy)'
  BY <1>1, <1>2 DEF Paired, Fitting, Ac!Matches
<1>5. InOnePlace(acc, HeldBy, Unnamed(acc))'
  BY <1>1, <1>2, <1>3 DEF Paired, InOnePlace
<1> QED
  BY <1>4, <1>5 DEF Paired

\* Sockets of past attempts remain that, and new ones have connected before.
LEMMA PastAfter ==
    ASSUME AcceptorInv, KnownArePast, plan' = plan, Trying,
           \A s : Known(acc', HeldBy', s) => Known(acc, HeldBy, s) \/ s \in Unnamed(acc)
    PROVE  KnownArePast'
<1>1. UsedServers' = UsedServers /\ ServerSessions' = ServerSessions /\ Sock' = Sock
  BY PlanKept
<1>2. \A s : Known(acc, HeldBy, s)' <=> Known(acc', HeldBy', s)
  BY <1>1 DEF Known, Owned, Own, GivenTo, Waits, InPool
<1>3. ASSUME NEW s \in Sock, Known(acc', HeldBy', s) PROVE Past(conn'[s.of], s)
  <2>1. Past(conn[s.of], s)
    BY <1>3 DEF KnownArePast, AcceptorInv, Attempts
  <2>2. s.of \in UsedClients /\ s.n \in Nat
    BY DEF Sock
  <2> DEFINE k == conn[s.of]
             l == conn'[s.of]
  <2>3. k \in Conn /\ Tried(k, l) /\ Past(k, s)
    BY <2>1, <2>2 DEF Trying, AcceptorInv, Attempts
  <2> HIDE DEF k, l
  <2>4. s.n <= k.n /\ k.n <= l.n /\ k.n \in Nat /\ l.n \in Nat /\ l \in Conn
    BY <2>3 DEF Past, Tried, Conn
  <2>5. ASSUME NEW o \in l.ops, o.op = "connect" PROVE o.n # s.n
    <3>1. o.n \in Nat
      BY <2>4 DEF Conn, Op
    <3>2. o.n > k.n \/ \E q \in k.ops : q.op = "connect" /\ q.n = o.n
      BY <2>3, <2>5 DEF Tried
    <3> QED
      BY <2>2, <2>3, <2>4, <3>1, <3>2 DEF Past
  <2> QED
    BY <2>2, <2>4, <2>5 DEF Past, l
<1> QED
  BY <1>1, <1>2, <1>3 DEF KnownArePast, Past

\* No channel of the server comes to a socket.
Quieter ==
    /\ base' = [c \in Used |-> base'[c]]
    /\ \A c \in UsedServers : NoNew(base[c], base'[c])

\* What a channel has are its sockets that are one.
LEMMA HeldIs ==
    ASSUME NEW c \in UsedServers, Shape(base[c])
    PROVE  \A s : s \in HeldBy[c] <=> Has(base[c], s) /\ s # NoSock
BY DEF HeldBy, Held, Has

\* As it is after a step.
LEMMA HeldAfter ==
    ASSUME plan' = plan, NEW c \in UsedServers
    PROVE  \A s : s \in HeldBy'[c] <=> Has(base'[c], s) /\ s # NoSock
<1>1. UsedServers' = UsedServers
  BY PlanKept
<1>2. HeldBy'[c] = Held(c)'
  BY <1>1 DEF HeldBy
<1> QED
  BY <1>2 DEF Held, Has

\* If nothing is done, or one channel does something.
LEMMA OneChannel ==
    ASSUME Shapes
    PROVE  /\ base' = base => Quieter
           /\ \A c \in Used : \A b :
                 base' = [base EXCEPT ![c] = b] /\ (c \in UsedServers => NoNew(base[c], b))
                 => Quieter
<1>1. base = [c \in Used |-> base[c]] /\ \A c \in UsedServers : Shape(base[c])
  BY DEF Shapes
<1>2. \A c \in UsedServers : NoNew(base[c], base[c]) /\ c \in Used
  BY <1>1 DEF NoNew, UsedServers
<1>3. ASSUME NEW c \in Used, NEW b, base' = [base EXCEPT ![c] = b],
             c \in UsedServers => NoNew(base[c], b)
      PROVE  Quieter
  <2>1. base' = [d \in Used |-> base'[d]] /\ base'[c] = b /\ \A d \in Used \ {c} : base'[d] = base[d]
    BY <1>1, <1>3
  <2> QED
    BY <1>2, <1>3, <2>1 DEF Quieter
<1>4. base' = base => Quieter
  BY <1>1, <1>2 DEF Quieter
<1> QED
  BY <1>3, <1>4

\* Then everything remains paired, if a socket that comes to the acceptor is new to it.
LEMMA QuieterKeeps ==
    ASSUME PairingInv, AcceptorInv', plan' = plan, Trying, Quieter, Still(acc, acc'),
           \A s \in Unnamed(acc') : s \in Unnamed(acc) \/ ~Known(acc, HeldBy, s)
    PROVE  PairingInv'
<1>1. UsedServers' = UsedServers /\ Used' = Used
  BY PlanKept
<1>2. Shapes'
  BY <1>1 DEF Quieter, Shapes, NoNew, Shape, IsSeq, Aimed
<1> DEFINE K == HeldBy'
           V == Unnamed(acc')
<1>3. Leaves(acc, acc', HeldBy, K)
  <2>1. ASSUME NEW c \in UsedServers PROVE Own(acc', K, c) \subseteq Own(acc, HeldBy, c)
    <3>1. \A s : s \in K[c] => Has(base'[c], s) /\ s # NoSock
      BY HeldAfter
    <3>2. \A s : Has(base[c], s) /\ s # NoSock => s \in HeldBy[c]
      BY HeldIs DEF PairingInv, Shapes
    <3>3. K[c] \subseteq HeldBy[c]
      BY <3>1, <3>2 DEF Quieter, NoNew
    <3> HIDE DEF K
    <3> QED
      BY <3>3 DEF Own, GivenTo, Still
  <2> HIDE DEF K
  <2> QED
    BY <2>1 DEF Leaves, Still
<1> HIDE DEF K
<1>4. Paired(acc', K, Unnamed(acc)) /\ \A s : Known(acc', K, s) => Known(acc, HeldBy, s)
  BY <1>3, LeavesPaired DEF PairingInv
<1>5. \A s \in V : s \in Unnamed(acc) \/ ~Known(acc', K, s)
  BY <1>4
<1> HIDE DEF V
<1>6. Paired(acc', K, V)
  BY <1>4, <1>5 DEF Paired, InOnePlace, Known
<1>7. Unnamed(acc)' = V /\ HeldBy' = K
  BY DEF Unnamed, V, K
<1>8. Paired(acc, HeldBy, Unnamed(acc))'
  BY <1>6, <1>7, PairedAfter
<1>9. KnownArePast'
  BY <1>4, <1>7, PastAfter DEF PairingInv
<1> QED
  BY <1>2, <1>8, <1>9 DEF PairingInv

\* The channels get the sockets that the acceptor gives them.
LEMMA GivenKeeps ==
    ASSUME PairingInv, AcceptorInv', UNCHANGED <<plan, conn>>, NEW a, Good(a), Accepted(a),
           Pairs(acc, a, HeldBy)
    PROVE  PairingInv'
<1>1. UsedServers' = UsedServers /\ Used' = Used
  BY PlanKept
<1> DEFINE K == HeldBy'
           tasks(c) == [i \in DOMAIN a.given[c] |->
                           Ch!SocketTask(a.given[c][i].sock, a.given[c][i].ok)]
<1>2. base' = [c \in Used |-> Ch!Post(base[c], tasks(c))]
  BY DEF Accepted
<1>3. a \in State /\ a.given \in [Used -> Seq(Gift)]
  BY DEF Good, State
<1>4. ASSUME NEW c \in UsedServers
      PROVE  /\ Shape(base'[c])
             /\ \A s : Has(base'[c], s) => Has(base[c], s) \/ s \in GivenTo(a, c)
  <2> DEFINE r == tasks(c)
             q == a.given[c]
  <2>1. c \in Used /\ q \in Seq(Gift)
    BY <1>3 DEF UsedServers
  <2>2. base'[c] = Ch!Post(base[c], r)
    BY <1>2, <2>1
  <2>3. DOMAIN r = DOMAIN q /\ DOMAIN q = 1 .. Len(q) /\ Len(q) \in Nat
    BY <2>1
  <2>4. \A i \in DOMAIN r : r[i] = Ch!SocketTask(q[i].sock, q[i].ok)
    OBVIOUS
  <2> DEFINE S == {Ch!SocketTask(q[i].sock, q[i].ok) : i \in DOMAIN q}
  <2>5. r \in [1 .. Len(q) -> S]
    BY <2>3
  <2> HIDE DEF r, S
  <2>6. \A i \in DOMAIN r : r[i].sock = q[i].sock /\ i \in DOMAIN q
    <3>1. \A s, ok : Ch!SocketTask(s, ok).sock = s
      BY DEF Ch!SocketTask
    <3> HIDE DEF q
    <3> QED
      BY <2>3, <2>4, <3>1
  <2>7. IsSeq(r) /\ Aimed(r)
    <3>1. r \in Seq(S)
      BY <2>3, <2>5, SeqDef
    <3>2. \A s, ok : Ch!SocketTask(s, ok).do \notin {"start", "handle"}
      BY DEF Ch!SocketTask
    <3>3. Aimed(r)
      <4> HIDE DEF q
      <4> QED
        BY <2>4, <3>2 DEF Aimed
    <3> QED
      BY <3>1, <3>3, SequenceIs
  <2>8. Shape(base[c])
    BY DEF PairingInv, Shapes
  <2>9. /\ Shape(Ch!Post(base[c], r))
        /\ \A s : Has(Ch!Post(base[c], r), s) =>
              Has(base[c], s) \/ \E i \in DOMAIN r : r[i].do = "socket" /\ s = r[i].sock
    BY <2>7, <2>8, PostGives
  <2> QED
    BY <2>2, <2>6, <2>9 DEF GivenTo
<1>5. base' = [c \in Used |-> base'[c]]
  BY <1>2
<1>6. Shapes'
  BY <1>1, <1>4, <1>5 DEF Shapes, Shape, IsSeq, Aimed
<1>7. Leaves(a, acc', HeldBy, K)
  <2> DEFINE g == [c \in Used |-> <<>>]
  <2>1. acc' = [a EXCEPT !.given = g, !.closed = {}]
    BY DEF Accepted
  <2>2. \A c \in UsedServers : g[c] = <<>>
    BY DEF UsedServers
  <2> HIDE DEF g
  <2>3. /\ acc'.plan = a.plan /\ acc'.sockets = a.sockets /\ acc'.sessionID = a.sessionID
        /\ acc'.pool = a.pool /\ acc'.claimed = a.claimed /\ acc'.given = g
    BY <1>3, <2>1 DEF State
  <2>4. ASSUME NEW c \in UsedServers PROVE Own(acc', K, c) \subseteq Own(a, HeldBy, c)
    <3>1. GivenTo(acc', c) = {}
      BY <2>2, <2>3 DEF GivenTo
    <3>2. \A s : s \in K[c] => Has(base'[c], s) /\ s # NoSock
      BY HeldAfter
    <3>3. \A s : Has(base[c], s) /\ s # NoSock => s \in HeldBy[c]
      BY HeldIs DEF PairingInv, Shapes
    <3> HIDE DEF K
    <3> QED
      BY <1>4, <3>1, <3>2, <3>3 DEF Own
  <2> HIDE DEF K
  <2> QED
    BY <2>3, <2>4 DEF Leaves
<1> HIDE DEF K
<1>8. Unnamed(acc') \subseteq Unnamed(a)
  BY AcceptedKeeps DEF Same, Unnamed
<1>9. Paired(acc', K, Unnamed(acc')) /\ \A s : Known(acc', K, s) => Known(a, HeldBy, s)
  BY <1>7, <1>8, LeavesPaired DEF Pairs
<1>10. HeldBy' = K /\ Unnamed(acc)' = Unnamed(acc')
  BY DEF K, Unnamed
<1>11. Paired(acc, HeldBy, Unnamed(acc))'
  BY <1>9, <1>10, PairedAfter
<1>12. Trying
  BY QuietIsTrying DEF PairingInv, AcceptorInv
<1>13. KnownArePast'
  BY <1>9, <1>10, <1>12, PastAfter DEF PairingInv, Pairs
<1> QED
  BY <1>6, <1>11, <1>13 DEF PairingInv

\* What a task that is told and a connection change in the acceptor.
LEMMA StillAfter ==
    ASSUME NEW a \in State
    PROVE  /\ Still(a, a)
           /\ \A q : LET b == [a EXCEPT !.strand = q]
                     IN  Still(a, b) /\ Unnamed(b) = Unnamed(a)
           /\ \A l : LET b == [a EXCEPT !.backlog = l]
                     IN  Still(a, b) /\ Unnamed(b) = l \cup a.greeting \cup a.naming
BY DEF State, Still, Unnamed

\* A task that is told.
LEMMA TellStill ==
    ASSUME acc \in State, NEW task, Tell(task)
    PROVE  Still(acc, acc') /\ Unnamed(acc') = Unnamed(acc)
<1> DEFINE q == Append(acc.strand, task)
<1>1. acc' = [acc EXCEPT !.strand = q]
  BY DEF Tell
<1> HIDE DEF q
<1> QED
  BY <1>1, StillAfter

\* Clients have no channel of the server.
LEMMA ClientBase ==
    ASSUME Shapes, NEW c \in UsedClients, NEW b, base' = [base EXCEPT ![c] = b]
    PROVE  Quieter
<1>1. c \in Used /\ c \notin UsedServers
  BY DEF UsedClients, UsedServers
<1> QED
  BY <1>1, OneChannel

\* The steps of a client that connect no socket.
LEMMA ClientPairs ==
    ASSUME PairingInv, AcceptorInv', NEW c \in UsedClients,
           Timeout(c) \/ Late(c) \/ Retry(c) \/ Read(c) \/ Write(c)
    PROVE  PairingInv'
<1>1. plan' = plan /\ acc' = acc
  BY DEF Timeout, Late, Retry, Read, Write
<1>2. AcceptorInv /\ Shapes /\ acc \in State
  BY DEF PairingInv, AcceptorInv, Good
<1>3. Trying
  BY <1>2, TimeoutKeeps, LateKeeps, RetryKeeps, ReadKeeps, WriteKeeps
<1>4. base' = base \/ \E z : base' = [base EXCEPT ![c] = z.b]
  <2>1. CASE Timeout(c)
    BY <2>1 DEF Timeout, Handled
  <2>2. CASE Late(c)
    BY <2>2 DEF Late
  <2>3. CASE Retry(c)
    BY <2>3 DEF Retry, Handled
  <2>4. CASE Read(c)
    BY <2>4 DEF Read, Handled
  <2>5. CASE Write(c)
    BY <2>5 DEF Write, Handled
  <2> QED
    BY <2>1, <2>2, <2>3, <2>4, <2>5
<1>5. Quieter
  BY <1>2, <1>4, OneChannel, ClientBase
<1>6. Still(acc, acc') /\ Unnamed(acc') = Unnamed(acc)
  BY <1>1, <1>2, StillAfter
<1> QED
  BY <1>1, <1>3, <1>5, <1>6, QuieterKeeps

\* A socket that connects belongs to an attempt that is under way: it is a new one.
LEMMA ConnectPairs ==
    ASSUME PairingInv, AcceptorInv', NEW c \in UsedClients, Connect(c)
    PROVE  PairingInv'
<1>1. PICK o \in conn[c].ops, ec \in {"ok", "refused", "aborted"} :
          /\ o.op = "connect"
          /\ acc' = IF ec = "ok" THEN [acc EXCEPT !.backlog = @ \cup {[of |-> c, n |-> o.n]}]
                                 ELSE acc
          /\ Handled(c, Settled(Connected(Handler(c, o), ec), conn[c]),
                     IF ec = "ok" THEN {[of |-> c, n |-> o.n]} ELSE {})
          /\ plan' = plan
  BY DEF Connect
<1>2. AcceptorInv /\ Shapes /\ acc \in State /\ KnownArePast
  BY DEF PairingInv, AcceptorInv, Good
<1>3. Trying
  BY <1>2, ConnectKeeps
<1>4. Quieter
  BY <1>1, <1>2, ClientBase DEF Handled
<1> DEFINE s == [of |-> c, n |-> o.n]
<1>5. ~Known(acc, HeldBy, s)
  <2>1. conn[c] \in Conn
    BY <1>2 DEF AcceptorInv, Attempts
  <2>2. o.n \in Nat
    BY <2>1 DEF Conn, Op
  <2>3. s \in Sock /\ s.of = c /\ s.n = o.n
    BY <2>2 DEF Sock
  <2> QED
    BY <1>1, <1>2, <2>3 DEF KnownArePast, Past
<1> HIDE DEF s
<1>6. /\ Still(acc, acc')
      /\ \A r \in Unnamed(acc') : r \in Unnamed(acc) \/ ~Known(acc, HeldBy, r)
  <2>1. CASE ec = "ok"
    <3> DEFINE l == acc.backlog \cup {s}
    <3>1. acc' = [acc EXCEPT !.backlog = l]
      BY <1>1, <2>1 DEF s
    <3>2. Unnamed(acc') = l \cup acc.greeting \cup acc.naming /\ Still(acc, acc')
      <4> HIDE DEF l
      <4> QED
        BY <1>2, <3>1, StillAfter
    <3> QED
      BY <1>5, <3>2 DEF Unnamed
  <2>2. CASE ec # "ok"
    <3>1. acc' = acc
      BY <1>1, <2>2
    <3> QED
      BY <1>2, <3>1, StillAfter
  <2> QED
    BY <2>1, <2>2
<1> QED
  BY <1>1, <1>3, <1>4, <1>6, QuieterKeeps

\* A message has been sent or received, or will not be.
LEMMA IoPairs ==
    ASSUME PairingInv, AcceptorInv', NEW c \in Used, SendDone(c) \/ RecvHeader(c) \/ RecvDone(c)
    PROVE  PairingInv'
<1>1. plan' = plan /\ acc' = acc /\ conn' = conn
  BY DEF SendDone, RecvHeader, RecvDone
<1>2. AcceptorInv /\ Shapes /\ acc \in State
  BY DEF PairingInv, AcceptorInv, Good
<1>3. Trying
  BY <1>1, <1>2, QuietIsTrying DEF AcceptorInv
<1>4. PICK b : base' = [base EXCEPT ![c] = b] /\ (c \in UsedServers => NoNew(base[c], b))
  <2>1. CASE SendDone(c) \/ RecvDone(c)
    <3>1. PICK d \in Ch!Dir, ok \in BOOLEAN :
            base' = [base EXCEPT ![c] = Ch!Complete(base[c], d, ok)]
      <4>1. "send" \in Ch!Dir /\ "recv" \in Ch!Dir
        BY DEF Ch!Dir
      <4> QED
        BY <2>1, <4>1 DEF SendDone, RecvDone, Become
    <3>2. c \in UsedServers => NoNew(base[c], Ch!Complete(base[c], d, ok))
      BY <1>2, CompleteIsNoNew DEF Shapes
    <3> QED
      BY <3>1, <3>2
  <2>2. CASE RecvHeader(c)
    <3>1. base' = [base EXCEPT ![c] = Ch!HeaderCame(base[c])]
      BY <2>2 DEF RecvHeader, Become
    <3>2. c \in UsedServers => NoNew(base[c], Ch!HeaderCame(base[c]))
      BY <1>2, HeaderIsNoNew DEF Shapes
    <3> QED
      BY <3>1, <3>2
  <2> QED
    BY <2>1, <2>2
<1>6. Quieter
  BY <1>2, <1>4, OneChannel
<1>7. Still(acc, acc') /\ Unnamed(acc') = Unnamed(acc)
  BY <1>1, <1>2, StillAfter
<1> QED
  BY <1>1, <1>3, <1>6, <1>7, QuieterKeeps

\* The thread of a channel.
LEMMA ProgramPairs ==
    ASSUME PairingInv, AcceptorInv', NEW c \in Used, Program(c)
    PROVE  PairingInv'
<1>1. AcceptorInv /\ Shapes /\ acc \in State
  BY DEF PairingInv, AcceptorInv, Good
<1>2. CASE Open(c)
  <2>1. plan' = plan /\ base' = base /\ (acc' = acc \/ Tell(Ac!GetTask(c)))
    BY <1>2 DEF Open
  <2>2. Trying
    BY <1>1, <1>2, OpenKeeps
  <2>3. Quieter
    BY <1>1, <2>1, OneChannel
  <2>4. Still(acc, acc') /\ Unnamed(acc') = Unnamed(acc)
    BY <1>1, <2>1, StillAfter, TellStill
  <2> QED
    BY <2>1, <2>2, <2>3, <2>4, QuieterKeeps
<1>3. CASE ~Open(c)
  <2>1. plan' = plan /\ acc' = acc /\ conn' = conn
    BY <1>3 DEF Program, Send, Recv, Skip, Close, CloseRecv, Cancel, Call
  <2>2. Trying
    BY <1>1, <2>1, QuietIsTrying DEF AcceptorInv
  <2> DEFINE k == pc[c].at
             closes == plan.script[c][k].closes
             left == [base[c].left EXCEPT ![k] = 0]
             skipped == [base[c] EXCEPT !.left = left]
             bs == {Ch!Enque(base[c], "send", Ch!DataOp), Ch!Enque(base[c], "recv", Ch!DataOp),
                    skipped, Ch!AsyncCloseSend(base[c], k), Ch!AsyncCloseRecv(base[c], k),
                    Ch!AsyncCancel(base[c], k, closes)}
  <2>3. \E b \in bs : base' = [base EXCEPT ![c] = b]
    BY <1>3 DEF Program, Send, Recv, Skip, Close, CloseRecv, Cancel, Call
  <2>4. ASSUME c \in UsedServers, NEW b \in bs PROVE NoNew(base[c], b)
    <3>1. Shape(base[c]) /\ "send" \in Ch!Dir /\ "recv" \in Ch!Dir
      BY <1>1, <2>4 DEF Shapes, Ch!Dir
    <3>2. NoNew(base[c], skipped)
      <4> HIDE DEF left
      <4>1. Reduced(base[c], skipped)
        BY <3>1 DEF Reduced, Shape
      <4> QED
        BY <3>1, <4>1, ReducedIsNoNew
    <3>3. \A d \in Ch!Dir : NoNew(base[c], Ch!Enque(base[c], d, Ch!DataOp))
      BY <3>1, EnqueIsNoNew
    <3>4. /\ NoNew(base[c], Ch!AsyncCancel(base[c], k, closes))
          /\ NoNew(base[c], Ch!AsyncCloseSend(base[c], k))
          /\ NoNew(base[c], Ch!AsyncCloseRecv(base[c], k))
      <4> HIDE DEF k, closes
      <4> QED
        BY <3>1, AsyncIsNoNew
    <3> HIDE DEF k, closes, skipped
    <3> QED
      BY <2>4, <3>1, <3>2, <3>3, <3>4
  <2> HIDE DEF bs
  <2>5. Quieter
    BY <1>1, <2>3, <2>4, OneChannel
  <2>6. Still(acc, acc') /\ Unnamed(acc') = Unnamed(acc)
    BY <1>1, <2>1, StillAfter
  <2> QED
    BY <2>1, <2>2, <2>5, <2>6, QuieterKeeps
<1> QED
  BY <1>2, <1>3

\* The strand without its first task, which may have told of a socket.
LEMMA FirstTask ==
    ASSUME NEW e, Shape(e), e.strand # <<>>
    PROVE  /\ NoNew(e, [e EXCEPT !.strand = Tail(@)])
           /\ Head(e.strand).do = "socket" => Has(e, Head(e.strand).sock)
           /\ Head(e.strand).do \in {"start", "handle"} => Head(e.strand).dir \in Ch!Dir
<1> DEFINE q == e.strand
           r == Tail(q)
           b == [e EXCEPT !.strand = r]
<1>1. IsSeq(q) /\ q # <<>> /\ q \in Seq(Range(q))
  BY DEF Shape, IsSeq
<1>2. 1 \in DOMAIN q /\ Head(q) = q[1]
  BY <1>1
<1>3. IsSeq(r) /\ \A i \in DOMAIN r : i + 1 \in DOMAIN q /\ r[i] = q[i + 1]
  BY <1>1, SequencesAre
<1> HIDE DEF r
<1>4. {"strand", "handle", "queue"} \subseteq DOMAIN b
      /\ b.strand = r /\ b.handle = e.handle /\ b.queue = e.queue
  BY DEF Shape
<1> HIDE DEF b
<1>5. NoNew(e, b)
  <2>1. Aimed(q)
    BY DEF Shape
  <2>2. Aimed(r)
    BY <1>3, <2>1 DEF Aimed
  <2>3. Shape(b)
    BY <1>3, <1>4, <2>2 DEF Shape
  <2> QED
    BY <1>3, <1>4, <2>3 DEF NoNew, Has
<1> QED
  BY <1>2, <1>5 DEF Has, Shape, Aimed, b, r

\* The channel comes to no socket, whatever is closed.
Becoming(c) == \E f, shut : Become(c, f, shut) /\ NoNew(base[c], f)

\* setSocket of a channel that has been told of the socket.
LEMMA SocketGivenIsNoNew ==
    ASSUME NEW c \in UsedServers, NEW b, NoNew(base[c], b), NEW s,
           Has(base[c], s), NEW ok, SocketGiven(c, b, s, ok)
    PROVE  Becoming(c)
<1> DEFINE f == Ch!finalize(b, s, ok)
<1>1. (\E shut : Become(c, b, shut)) \/ \E shut : Become(c, f, shut)
  BY DEF SocketGiven
<1>2. Shape(f) /\ \A x : Has(f, x) => Has(b, x) \/ x = s \/ x = NoSock
  BY FinalizeGives DEF NoNew
<1> HIDE DEF f
<1>3. NoNew(base[c], f)
  BY <1>2 DEF NoNew
<1> QED
  BY <1>1, <1>3 DEF Becoming

\* A task of a channel of the server.
LEMMA ServerTask ==
    ASSUME NEW c \in UsedServers, Shape(base[c]), ChannelTask(c)
    PROVE  Becoming(c) /\ (acc' = acc \/ Tell(Ac!CancelChannelTask(c)))
<1> DEFINE task == Head(base[c].strand)
           b == [base[c] EXCEPT !.strand = Tail(@)]
<1>1. /\ base[c].strand # <<>>
      /\ \/ task.do = "start" /\ Become(c, Ch!StartLoop(b, task.dir), {}) /\ acc' = acc
         \/ task.do = "handle" /\ Become(c, Ch!SetHandle(b, task.dir), {}) /\ acc' = acc
         \/ task.do = "socket" /\ SocketGiven(c, b, task.sock, task.ok) /\ acc' = acc
         \/ /\ task.do = "cancel" /\ acc' = acc
            /\ Become(c, Ch!Cancel(b, Ch!CallbackOp(task.of, task.closes)), {})
         \/ task.do = "cancelStart" /\ CancelStart(c, b)
         \/ task.do = "cancelStart" /\ Become(c, b, {}) /\ acc' = acc
  BY DEF ChannelTask
<1>2. /\ NoNew(base[c], b)
      /\ task.do = "socket" => Has(base[c], task.sock)
      /\ task.do \in {"start", "handle"} => task.dir \in Ch!Dir
  BY <1>1, FirstTask
<1>3. c \notin Clients
  BY DEF UsedServers
<1> HIDE DEF task, b
<1>4. CASE task.do = "start" /\ Become(c, Ch!StartLoop(b, task.dir), {}) /\ acc' = acc
  <2> DEFINE f == Ch!StartLoop(b, task.dir)
  <2>1. NoNew(b, f)
    BY <1>2, <1>4, EnqueIsNoNew DEF NoNew
  <2>2. Become(c, f, {})
    BY <1>4
  <2> HIDE DEF f
  <2> QED
    BY <1>2, <1>4, <2>1, <2>2, NoNewTwice DEF Becoming
<1>5. CASE task.do = "handle" /\ Become(c, Ch!SetHandle(b, task.dir), {}) /\ acc' = acc
  <2> DEFINE f == Ch!SetHandle(b, task.dir)
  <2>1. NoNew(b, f)
    BY <1>2, <1>5, StartIsNoNew DEF NoNew
  <2>2. Become(c, f, {})
    BY <1>5
  <2> HIDE DEF f
  <2> QED
    BY <1>2, <1>5, <2>1, <2>2, NoNewTwice DEF Becoming
<1>6. CASE task.do = "socket" /\ SocketGiven(c, b, task.sock, task.ok) /\ acc' = acc
  BY <1>2, <1>6, SocketGivenIsNoNew
<1>7. CASE /\ task.do = "cancel" /\ acc' = acc
           /\ Become(c, Ch!Cancel(b, Ch!CallbackOp(task.of, task.closes)), {})
  <2> DEFINE o == Ch!CallbackOp(task.of, task.closes)
             f == Ch!Cancel(b, o)
  <2>1. Become(c, f, {})
    BY <1>7
  <2> HIDE DEF o
  <2>2. NoNew(b, f)
    BY <1>2, CancelIsNoNew DEF NoNew
  <2> HIDE DEF f
  <2> QED
    BY <1>2, <1>7, <2>1, <2>2, NoNewTwice DEF Becoming
<1>8. CASE task.do = "cancelStart" /\ CancelStart(c, b)
  <2> DEFINE f == [b EXCEPT !.canceled = TRUE]
  <2>1. Become(c, f, {}) /\ Tell(Ac!CancelChannelTask(c))
    BY <1>3, <1>8 DEF CancelStart
  <2>2. Reduced(b, f)
    BY <1>2 DEF NoNew, Shape, Reduced
  <2> HIDE DEF f
  <2>3. NoNew(b, f)
    BY <1>2, <2>2, ReducedIsNoNew DEF NoNew
  <2> QED
    BY <1>2, <2>1, <2>3, NoNewTwice DEF Becoming
<1>9. CASE task.do = "cancelStart" /\ Become(c, b, {}) /\ acc' = acc
  BY <1>2, <1>9 DEF Becoming
<1> QED
  BY <1>1, <1>4, <1>5, <1>6, <1>7, <1>8, <1>9

\* A task of a channel.
LEMMA ChannelTaskPairs ==
    ASSUME PairingInv, AcceptorInv', NEW c \in Used, ChannelTask(c)
    PROVE  PairingInv'
<1>1. AcceptorInv /\ Shapes /\ acc \in State
  BY DEF PairingInv, AcceptorInv, Good
<1>2. plan' = plan
  BY DEF ChannelTask
<1>3. Trying
  BY <1>1, ChannelTaskKeeps
<1>4. CASE c \in UsedServers
  <2>1. Becoming(c) /\ (acc' = acc \/ Tell(Ac!CancelChannelTask(c)))
    BY <1>1, <1>4, ServerTask DEF Shapes
  <2>2. Still(acc, acc') /\ Unnamed(acc') = Unnamed(acc)
    BY <1>1, <2>1, StillAfter, TellStill
  <2>3. Quieter
    BY <1>1, <2>1, OneChannel DEF Becoming, Become
  <2> QED
    BY <1>2, <1>3, <2>2, <2>3, QuieterKeeps
<1>5. CASE c \notin UsedServers
  <2>1. c \in Clients /\ c \in UsedClients
    BY <1>5 DEF UsedServers, UsedClients
  <2>2. acc' = acc /\ \E f, shut : Become(c, f, shut)
    BY <2>1 DEF ChannelTask, SocketGiven, CancelStart
  <2>3. Quieter
    BY <1>1, <2>1, <2>2, ClientBase DEF Become
  <2>4. Still(acc, acc') /\ Unnamed(acc') = Unnamed(acc)
    BY <1>1, <2>2, StillAfter
  <2> QED
    BY <1>2, <1>3, <2>3, <2>4, QuieterKeeps
<1> QED
  BY <1>4, <1>5

\* The programs end a session, or the acceptor.
LEMMA StopStepPairs ==
    ASSUME PairingInv, AcceptorInv', StopAcceptor \/ \E t \in ServerSessions : StopSession(t)
    PROVE  PairingInv'
<1>1. AcceptorInv /\ Shapes /\ acc \in State
  BY DEF PairingInv, AcceptorInv, Good
<1>2. UNCHANGED <<plan, conn, base>> /\ \E task : Tell(task)
  BY DEF StopAcceptor, StopSession, End
<1>3. Trying
  BY <1>1, <1>2, QuietIsTrying DEF AcceptorInv
<1>4. Still(acc, acc') /\ Unnamed(acc') = Unnamed(acc)
  BY <1>1, <1>2, TellStill
<1>5. Quieter
  BY <1>1, <1>2, OneChannel
<1> QED
  BY <1>2, <1>3, <1>4, <1>5, QuieterKeeps

\* A connection is accepted, its greeting sent or its name read, and no channel is told.
LEMMA PendingPairs ==
    ASSUME PairingInv, AcceptorInv', UNCHANGED <<plan, conn, base>>,
           \/ \E s \in acc.backlog :
                 acc' = [acc EXCEPT !.backlog = @ \ {s}, !.greeting = @ \cup {s},
                                    !.accepting = "none", !.strand = Append(@, Ac!StartTask)]
           \/ \E s \in acc.greeting :
                 acc' = [acc EXCEPT !.greeting = @ \ {s}, !.naming = @ \cup {s}]
           \/ \E task : Tell(task)
    PROVE  PairingInv'
<1>1. AcceptorInv /\ Shapes /\ acc \in State
  BY DEF PairingInv, AcceptorInv, Good
<1>2. Trying
  BY <1>1, QuietIsTrying DEF AcceptorInv
<1>3. Quieter
  BY <1>1, OneChannel
<1>4. ASSUME NEW s \in acc.backlog,
             acc' = [acc EXCEPT !.backlog = @ \ {s}, !.greeting = @ \cup {s},
                                !.accepting = "none", !.strand = Append(@, Ac!StartTask)]
      PROVE  Still(acc, acc') /\ Unnamed(acc') \subseteq Unnamed(acc)
  <2> DEFINE l == acc.backlog \ {s}
             g == acc.greeting \cup {s}
             q == Append(acc.strand, Ac!StartTask)
  <2>1. acc' = [acc EXCEPT !.backlog = l, !.greeting = g, !.accepting = "none", !.strand = q]
    BY <1>4
  <2> HIDE DEF q
  <2>2. Still(acc, acc') /\ Unnamed(acc') = l \cup g \cup acc.naming
    <3> HIDE DEF l, g
    <3> QED
      BY <1>1, <2>1 DEF State, Still, Unnamed
  <2> QED
    BY <2>2 DEF Unnamed
<1>5. ASSUME NEW s \in acc.greeting,
             acc' = [acc EXCEPT !.greeting = @ \ {s}, !.naming = @ \cup {s}]
      PROVE  Still(acc, acc') /\ Unnamed(acc') \subseteq Unnamed(acc)
  <2> DEFINE g == acc.greeting \ {s}
             n == acc.naming \cup {s}
  <2>1. acc' = [acc EXCEPT !.greeting = g, !.naming = n]
    BY <1>5
  <2>2. Still(acc, acc') /\ Unnamed(acc') = acc.backlog \cup g \cup n
    <3> HIDE DEF g, n
    <3> QED
      BY <1>1, <2>1 DEF State, Still, Unnamed
  <2> QED
    BY <2>2 DEF Unnamed
<1>6. Still(acc, acc') /\ Unnamed(acc') \subseteq Unnamed(acc)
  BY <1>1, <1>4, <1>5, TellStill
<1> QED
  BY <1>2, <1>3, <1>6, QuieterKeeps

\* A task of the acceptor.
LEMMA TaskPairs ==
    ASSUME PairingInv, AcceptorInv', AcceptorTask
    PROVE  PairingInv'
<1> DEFINE task == Head(acc.strand)
           a == Shortened
           U == Unnamed(a)
<1>1. /\ acc.strand # <<>> /\ UNCHANGED <<plan, conn>>
      /\ \/ task.do = "get" /\ Accepted(Ac!GetSocket(a, task.of))
         \/ task.do = "cancel" /\ Accepted(Ac!CancelChannel(a, task.of))
         \/ task.do = "set" /\ Accepted(Ac!Name(a, task.of))
         \/ task.do = "unsubscribe" /\ Accepted(Ac!Unsubscribe(a, task.of))
         \/ task.do = "stop" /\ Accepted(Ac!Stop(a))
         \/ task.do = "start" /\ Accepted(Ac!Start(a))
  BY DEF AcceptorTask, Shortened
<1>2. AcceptorInv /\ plan \in Plans /\ acc \in State /\ InOrder /\ Apart(acc)
  BY DEF PairingInv, AcceptorInv, Good
<1>3. /\ Good(a) /\ a.base = acc.base /\ a.stopped = acc.stopped
      /\ a.greeting = acc.greeting /\ a.naming = acc.naming /\ a.backlog = acc.backlog
  BY <1>1, <1>2, ShortenedIs
<1>4. Still(acc, a) /\ U = Unnamed(acc)
  <2> DEFINE q == Tail(acc.strand)
  <2>1. a = [acc EXCEPT !.strand = q]
    BY DEF Shortened
  <2> HIDE DEF q, a
  <2> QED
    BY <1>2, <2>1, StillAfter
<1>5. Paired(a, HeldBy, U) /\ \A s : Known(a, HeldBy, s) => Known(acc, HeldBy, s)
  BY <1>4, StillPaired DEF PairingInv
<1>6. task \in Task /\ At(1, task) /\ 1 \in Nat
  BY <1>1, <1>2 DEF State, At
<1> HIDE DEF a
<1>7. ASSUME NEW b, Accepted(b), Good(b), Pairs(a, b, HeldBy)
      PROVE  PairingInv'
  <2>1. Pairs(acc, b, HeldBy)
    BY <1>4, <1>5, <1>7 DEF Pairs
  <2> QED
    BY <1>1, <1>7, <2>1, GivenKeeps
<1>8. CASE task.do = "get" /\ Accepted(Ac!GetSocket(a, task.of))
  <2>1. task.of \in UsedServers /\ task = Ac!GetTask(task.of)
    BY <1>6, <1>8, TaskForms
  <2>2. plan.session[task.of] \in a.base
    BY <1>2, <1>3, <1>6, <2>1 DEF InOrder, GetsFirst
  <2>3. Good(Ac!GetSocket(a, task.of))
    BY <1>2, <1>3, <2>1, <2>2, GetSocketKeeps
  <2>4. Pairs(a, Ac!GetSocket(a, task.of), HeldBy)
    BY <1>2, <1>3, <1>5, <2>1, <2>2, GetTaskPairs
  <2> QED
    BY <1>7, <1>8, <2>3, <2>4
<1>9. CASE task.do = "cancel" /\ Accepted(Ac!CancelChannel(a, task.of))
  <2>1. task.of \in UsedServers
    BY <1>6, <1>9, TaskForms
  <2>2. Good(Ac!CancelChannel(a, task.of))
    BY <1>2, <1>3, <2>1, CancelChannelKeeps
  <2>3. Pairs(a, Ac!CancelChannel(a, task.of), HeldBy)
    BY <1>2, <1>3, <1>5, <2>1, CancelTaskPairs
  <2> QED
    BY <1>7, <1>9, <2>2, <2>3
<1>10. CASE task.do = "set" /\ Accepted(Ac!Name(a, task.of))
  <2>1. task.of \in Sock /\ task = Ac!SetTask(task.of)
    BY <1>6, <1>10, TaskForms
  <2>2. task.of \in a.naming /\ task.of \notin a.greeting /\ task.of \notin a.backlog
    BY <1>2, <1>3, <1>6, <2>1 DEF InOrder, NamesOnce, Apart
  <2>3. Good(Ac!Name(a, task.of))
    BY <1>2, <1>3, <2>2, NameKeeps
  <2>4. Pairs(a, Ac!Name(a, task.of), HeldBy)
    BY <1>2, <1>3, <1>5, <2>2, NameTaskPairs
  <2> QED
    BY <1>7, <1>10, <2>3, <2>4
<1>11. CASE task.do = "unsubscribe" /\ Accepted(Ac!Unsubscribe(a, task.of))
  <2>1. task.of \in ServerSessions /\ task = Ac!UnsubscribeTask(task.of)
    BY <1>6, <1>11, TaskForms
  <2>2. task.of \in a.base
    BY <1>2, <1>3, <1>6, <2>1 DEF InOrder, EndsOnce
  <2>3. Good(Ac!Unsubscribe(a, task.of))
    BY <1>2, <1>3, <2>2, UnsubscribeKeeps
  <2>4. Pairs(a, Ac!Unsubscribe(a, task.of), HeldBy)
    BY <1>2, <1>3, <1>5, <2>2, StopPairs
  <2> QED
    BY <1>7, <1>11, <2>3, <2>4
<1>12. CASE task.do = "stop" /\ Accepted(Ac!Stop(a))
  <2>1. task = Ac!StopTask
    BY <1>6, <1>12, TaskForms
  <2>2. ~a.stopped /\ a.base = {}
    <3>1. ~acc.stopped /\ \A t \in acc.base : \E j \in Nat : j < 1 /\ At(j, Ac!UnsubscribeTask(t))
      BY <1>2, <1>6, <2>1 DEF InOrder, StopsLast
    <3>2. \A k : \A j \in Nat : At(j, k) => j >= 1
      BY <1>2 DEF At, State
    <3> QED
      BY <1>3, <3>1, <3>2
  <2>3. Good(Ac!Stop(a))
    BY <1>3, <2>2, StopKeeps
  <2>4. Pairs(a, Ac!Stop(a), HeldBy)
    BY <1>2, <1>3, <1>5, <2>2, StopPairs
  <2> QED
    BY <1>7, <1>12, <2>3, <2>4
<1>13. CASE task.do = "start" /\ Accepted(Ac!Start(a))
  <2>1. Good(Ac!Start(a))
    BY <1>3, StartKeeps
  <2>2. Pairs(a, Ac!Start(a), HeldBy)
    BY <1>2, <1>3, <1>5, StopPairs
  <2> QED
    BY <1>7, <1>13, <2>1, <2>2
<1> QED
  BY <1>1, <1>8, <1>9, <1>10, <1>11, <1>12, <1>13

\* A step of the acceptor.
LEMMA AcceptorPairs ==
    ASSUME PairingInv, AcceptorInv', AcceptorStep
    PROVE  PairingInv'
<1>1. AcceptorInv /\ Good(acc) /\ Paired(acc, HeldBy, Unnamed(acc))
  BY DEF PairingInv, AcceptorInv
<1>2. ASSUME NEW s \in acc.greeting \cup acc.naming, Accepted(Ac!Erase(acc, s)),
             UNCHANGED <<plan, conn>>
      PROVE  PairingInv'
  <2>1. Good(Ac!Erase(acc, s))
    BY <1>1, EraseKeeps
  <2>2. Pairs(acc, Ac!Erase(acc, s), HeldBy)
    BY <1>1, ErasePairs
  <2> QED
    BY <1>2, <2>1, <2>2, GivenKeeps
<1>3. CASE Accept
  BY <1>3, PendingPairs DEF Accept
<1>4. CASE AcceptAborted
  <2>1. acc.accepting = "aborted" /\ Accepted(Ac!EndAccept(acc)) /\ UNCHANGED <<plan, conn>>
    BY <1>4 DEF AcceptAborted
  <2>2. Good(Ac!EndAccept(acc))
    BY <1>1, <2>1, EndAcceptKeeps
  <2>3. Pairs(acc, Ac!EndAccept(acc), HeldBy)
    BY <1>1, <2>1, ErasePairs
  <2> QED
    BY <2>1, <2>2, <2>3, GivenKeeps
<1>5. CASE Greeted
  <2>1. PICK s \in acc.greeting :
            /\ \/ /\ acc' = [acc EXCEPT !.greeting = @ \ {s}, !.naming = @ \cup {s}]
                  /\ base' = base
               \/ Accepted(Ac!Erase(acc, s))
            /\ UNCHANGED <<plan, conn>>
    BY <1>5 DEF Greeted
  <2> QED
    BY <1>2, <2>1, PendingPairs
<1>6. CASE NameRead
  <2>1. PICK s \in acc.naming :
            /\ \/ Tell(Ac!SetTask(s)) /\ base' = base
               \/ Accepted(Ac!Erase(acc, s))
            /\ UNCHANGED <<plan, conn>>
    BY <1>6 DEF NameRead
  <2> QED
    BY <1>2, <2>1, PendingPairs
<1> QED
  BY <1>3, <1>4, <1>5, <1>6, TaskPairs DEF AcceptorStep

-----------------------------------------------------------------------------
(* The invariant                                                           *)

\* Nobody has a socket.
LEMMA PairingInit ==
    ASSUME Init
    PROVE  PairingInv
<1>1. AcceptorInv
  BY AcceptorInit
<1>2. /\ \A t \in ServerSessions : acc.sockets[t] = <<>> /\ acc.sessionID[t] = NoSession
      /\ \A x \in ClientSessions : acc.claimed[x] = NoSession
      /\ acc.pool = <<>> /\ Unnamed(acc) = {}
  <2> DEFINE b == Ac!AcceptorOf(Names, ClientSessions)
  <2>1. acc = b
    <3>1. {plan.session[c] : c \in Used \cap Clients} = ClientSessions
      BY DEF ClientSessions, UsedClients
    <3> QED
      BY <3>1 DEF Init, Names
  <2>2. Ac!Range(Names.servers) = ServerSessions
    BY DEF Ac!Range, Range, ServerSessions, Names
  <2>3. /\ b.sockets = [t \in ServerSessions |-> <<>>]
        /\ b.sessionID = [t \in ServerSessions |-> NoSession]
        /\ b.claimed = [x \in ClientSessions |-> NoSession]
        /\ b.pool = <<>> /\ b.backlog = {} /\ b.greeting = {} /\ b.naming = {}
    BY <2>2 DEF Ac!AcceptorOf
  <2> HIDE DEF b
  <2> QED
    BY <2>1, <2>3 DEF Unnamed
<1>3. \A c \in UsedServers : acc.given[c] = <<>>
  BY <1>1 DEF AcceptorInv, UsedServers
<1>4. ASSUME NEW c \in UsedServers PROVE Shape(base[c]) /\ \A s : Has(base[c], s) => s = NoSock
  <2> DEFINE b == Ch!ChannelOf(Calls(c))
             q == <<Ch!StartTask("recv"), Ch!StartTask("send")>>
             o == <<Ch!StartOp>>
  <2>1. base[c] = b
    BY DEF Init, UsedServers
  <2>2. b.strand = q /\ b.handle = NoSock /\ b.queue = [d \in Ch!Dir |-> o]
        /\ {"strand", "handle", "queue"} \subseteq DOMAIN b
    BY DEF Ch!ChannelOf
  <2>3. q \in Seq({Ch!StartTask("recv"), Ch!StartTask("send")}) /\ o \in Seq({Ch!StartOp})
    OBVIOUS
  <2>4. IsSeq(q) /\ IsSeq(o)
    BY <2>3, SequenceIs
  <2>5. \A i \in DOMAIN q : q[i].do = "start" /\ q[i].dir \in Ch!Dir
    <3>1. \A i \in DOMAIN q : q[i] \in {Ch!StartTask("recv"), Ch!StartTask("send")}
      OBVIOUS
    <3> HIDE DEF q
    <3> QED
      BY <3>1 DEF Ch!StartTask, Ch!Dir
  <2> HIDE DEF b, q, o
  <2>6. Aimed(q)
    BY <2>5 DEF Aimed
  <2> QED
    BY <2>1, <2>2, <2>4, <2>5, <2>6 DEF Shape, Has
<1>5. base = [c \in Used |-> base[c]]
  BY DEF Init
<1>6. Shapes
  BY <1>4, <1>5 DEF Shapes
<1>7. \A c \in UsedServers : Own(acc, HeldBy, c) = {}
  <2>1. \A c \in UsedServers : GivenTo(acc, c) = {}
    BY <1>3 DEF GivenTo
  <2>2. \A c \in UsedServers : HeldBy[c] = {}
    BY <1>4, HeldIs
  <2> QED
    BY <2>1, <2>2 DEF Own
<1>8. \A s : ~Owned(acc, HeldBy, s) /\ ~Waits(acc, s) /\ ~InPool(acc, s)
  BY <1>2, <1>7 DEF Owned, Waits, InPool
<1>9. Fitting(acc, HeldBy)
  BY <1>2, <1>7 DEF Fitting
<1>10. InOnePlace(acc, HeldBy, Unnamed(acc))
  BY <1>2, <1>7, <1>8 DEF InOnePlace
<1>11. KnownArePast
  BY <1>8 DEF KnownArePast, Known
<1> QED
  BY <1>1, <1>6, <1>9, <1>10, <1>11 DEF PairingInv, Paired

\* Every step of the system keeps it.
LEMMA PairingNext ==
    ASSUME PairingInv, [Next]_vars
    PROVE  PairingInv'
<1>1. AcceptorInv /\ Shapes /\ acc \in State
  BY DEF PairingInv, AcceptorInv, Good
<1>2. AcceptorInv'
  BY <1>1, AcceptorNext
<1>3. CASE UNCHANGED vars
  <2>1. UNCHANGED <<plan, conn, base, acc>>
    BY <1>3 DEF vars
  <2>2. Trying /\ Quieter
    BY <1>1, <2>1, QuietIsTrying, OneChannel DEF AcceptorInv
  <2>3. Still(acc, acc') /\ Unnamed(acc') = Unnamed(acc)
    BY <1>1, <2>1, StillAfter
  <2> QED
    BY <1>2, <2>1, <2>2, <2>3, QuieterKeeps
<1>4. ASSUME NEW c \in Used,
             Program(c) \/ ChannelTask(c) \/ SendDone(c) \/ RecvHeader(c) \/ RecvDone(c)
      PROVE  PairingInv'
  BY <1>2, <1>4, ProgramPairs, ChannelTaskPairs, IoPairs
<1>5. ASSUME NEW c \in Used \cap Clients, ClientStep(c)
      PROVE  PairingInv'
  <2>1. c \in UsedClients
    BY DEF UsedClients
  <2> QED
    BY <1>2, <1>5, <2>1, ClientPairs, ConnectPairs DEF ClientStep
<1>6. CASE AcceptorStep
  BY <1>2, <1>6, AcceptorPairs
<1>7. CASE StopAcceptor \/ \E t \in ServerSessions : StopSession(t)
  BY <1>2, <1>7, StopStepPairs
<1> QED
  BY <1>3, <1>4, <1>5, <1>6, <1>7 DEF Next, Run

\* Whatever the programs do and whenever sockets connect, get their names or are lost, a
\* channel of the server has sockets of the client's channel that bears its names only, no
\* socket goes to two channels, and those of a session come from one session
\* (SessionGroup::add and merge, IOService.cpp).
THEOREM SocketsGoWhereNamed == Spec => []PairedAsNamed
<1>1. Init => PairingInv
  BY PairingInit
<1>2. PairingInv /\ [Next]_vars => PairingInv'
  BY PairingNext
<1>3. PairingInv => PairedAsNamed
  <2> SUFFICES ASSUME PairingInv, NEW c \in UsedServers, NEW d \in UsedServers,
                      NEW s \in Held(c), NEW t \in Held(d)
               PROVE  /\ plan.local[c] = plan.remote[s.of] /\ plan.remote[c] = plan.local[s.of]
                      /\ c # d => s # t
                      /\ plan.session[c] = plan.session[d] =>
                             plan.session[s.of] = plan.session[t.of]
    BY DEF PairedAsNamed
  <2>1. s \in Own(acc, HeldBy, c) /\ t \in Own(acc, HeldBy, d)
    BY DEF Own, HeldBy, Held
  <2>2. acc.plan = Names
    BY DEF PairingInv, AcceptorInv, Good, State
  <2>3. Ac!Matches(acc, s, c)
    BY <2>1 DEF PairingInv, Paired, Fitting
  <2>4. plan.local[c] = plan.remote[s.of] /\ plan.remote[c] = plan.local[s.of]
    BY <2>2, <2>3 DEF Ac!Matches, Names
  <2>5. c # d => s # t
    BY <2>1 DEF PairingInv, Paired, InOnePlace
  <2>6. plan.session[c] = plan.session[d] => plan.session[s.of] = plan.session[t.of]
    BY <2>1 DEF PairingInv, Paired, Fitting
  <2> QED
    BY <2>4, <2>5, <2>6
<1> QED
  BY <1>1, <1>2, <1>3, PTL DEF Spec
===============================================================================
