------------------------------ MODULE Acceptor ------------------------------
(***************************************************************************)
(* The acceptor of cryptoTools: it listens at a port, greets the sockets   *)
(* that connect and reads their names, and pairs them with the channels of *)
(* the sessions that wait.  A session of the server belongs to the client  *)
(* session whose socket first matched one of its channels; from then on it *)
(* takes sockets of that session only.                                     *)
(*                                                                         *)
(* The operators are what its tasks, which run on its strand, do with its  *)
(* state a.  All sessions have the same name, as the ones of a program     *)
(* that opens several do.                                                  *)
(***************************************************************************)
EXTENDS Integers, SequencesExt

CONSTANTS
    NoSock,         \* no socket
    NoSession       \* mSessionID = 0, or no group

\* Tasks.
GetTask(c) == [do |-> "get", of |-> c]
CancelChannelTask(c) == [do |-> "cancel", of |-> c]
SetTask(s) == [do |-> "set", of |-> s]
UnsubscribeTask(t) == [do |-> "unsubscribe", of |-> t]
StopTask == [do |-> "stop"]
StartTask == [do |-> "start"]

\* What setSocket of a channel is called with.
Give(a, c, s, ok) == [a EXCEPT !.given[c] = Append(@, [sock |-> s, ok |-> ok])]

\* The sessions of the server have subscribed, one after the other, and the acceptor
\* has begun to listen.  p names these sessions and the two ends of every channel.
AcceptorOf(p, clients) ==
    [plan |-> p, strand |-> <<>>, listening |-> TRUE,
     given |-> [c \in DOMAIN p.session |-> <<>>],
     accepting |-> "open",
     backlog |-> {}, greeting |-> {}, naming |-> {}, closed |-> {},
     stopped |-> FALSE, emptied |-> 0, released |-> 0,
     groups |-> Range(p.servers), base |-> Range(p.servers),
     channels |-> [t \in Range(p.servers) |-> <<>>],
     sockets |-> [t \in Range(p.servers) |-> <<>>],
     sessionID |-> [t \in Range(p.servers) |-> NoSession],
     unclaimed |-> Range(p.servers),
     claimed |-> [x \in clients |-> NoSession],
     pool |-> <<>>]

-----------------------------------------------------------------------------
(* Names and groups                                                        *)

\* As if the socket's names were taken as its client wrote them.
MatchesUnturned(a, s, c) ==
    a.plan.local[c] = a.plan.local[s.of] /\ a.plan.remote[c] = a.plan.remote[s.of]

\* What the client calls remote is local here.
Matches(a, s, c) ==
    a.plan.local[c] = a.plan.remote[s.of] /\ a.plan.remote[c] = a.plan.local[s.of]

ClientSession(a, s) == a.plan.session[s.of]
ServerSession(a, c) == a.plan.session[c]

hasSubscriptions(a, t) == a.channels[t] # <<>> \/ t \in a.base
hasAnySubscriptions(a) == \E t \in a.groups : hasSubscriptions(a, t)

\* The first element of a sequence that satisfies the predicate, 0 if none does.
FirstIndex(seq, Is(_)) ==
    LET such == {i \in DOMAIN seq : Is(seq[i])}
    IN  IF such = {} THEN 0 ELSE CHOOSE i \in such : \A j \in such : i <= j

\* SessionGroup::add of a socket, which goes to the first channel that matches.
AddSocket(a, t, s) ==
    LET i == FirstIndex(a.channels[t], LAMBDA c : Matches(a, s, c))
    IN  IF i = 0 THEN [a EXCEPT !.sockets[t] = Append(@, s)]
        ELSE Give([a EXCEPT !.channels[t] = RemoveAt(@, i)], a.channels[t][i], s, TRUE)

\* As if sockets were not looked for.
AddChannelUnmet(a, t, c) == [a EXCEPT !.channels[t] = Append(@, c)]

\* SessionGroup::add of a channel, which takes the first socket that matches.
AddChannel(a, t, c) ==
    LET i == FirstIndex(a.sockets[t], LAMBDA s : Matches(a, s, c))
    IN  IF i = 0 THEN [a EXCEPT !.channels[t] = Append(@, c)]
        ELSE Give([a EXCEPT !.sockets[t] = RemoveAt(@, i)], c, a.sockets[t][i], TRUE)

\* As if the promise were set without a look at what was there before.
ReleaseAlways(a) == IF a.stopped THEN [a EXCEPT !.released = @ + 1] ELSE a

\* stopListening; a session group that nobody wants is removed before.  Connections
\* that have not been accepted are reset.
stopListening(a) ==
    IF hasAnySubscriptions(a) THEN a
    ELSE [a EXCEPT !.listening = FALSE,
                   !.accepting = IF @ = "open" THEN "aborted" ELSE @,
                   !.closed = @ \cup a.backlog, !.backlog = {},
                   !.released = IF a.stopped THEN @ + 1 ELSE @]

\* removeMapping and erase
RemoveGroup(a, t) ==
    [a EXCEPT !.groups = @ \ {t},
              !.unclaimed = @ \ {t},
              !.claimed = [x \in DOMAIN @ |-> IF @[x] = t THEN NoSession ELSE @[x]]]

\* As if nobody looked whether the acceptor has to listen any more.
RemoveIdleQuietly(a, t) == IF hasSubscriptions(a, t) THEN a ELSE RemoveGroup(a, t)

RemoveIdle(a, t) ==
    IF hasSubscriptions(a, t) THEN a ELSE stopListening(RemoveGroup(a, t))

\* SessionGroup::merge: the sockets of a group are added one after the other.
AddSockets(a, t, group) ==
    LET upTo[k \in 0 .. Len(group)] ==
            IF k = 0 THEN a ELSE AddSocket(upTo[k - 1], t, group[k])
    IN  upTo[Len(group)]

\* The session t takes group i of the pool.  It gets the ID of the sockets and is claimed
\* unless nobody wants it any more.
Merge(a, t, i) ==
    LET group == a.pool[i]
        taken == [a EXCEPT !.sessionID[t] = group.id, !.pool = RemoveAt(@, i)]
        added == AddSockets(taken, t, group.sockets)
    IN  RemoveIdle([added EXCEPT !.unclaimed = @ \ {t}, !.claimed[group.id] = t], t)

-----------------------------------------------------------------------------
(* Tasks                                                                   *)

\* asyncGetSocket
GetSocket(a, c) ==
    LET t == ServerSession(a, c)
        added == AddChannel(a, t, c)
        i == FirstIndex(added.pool, LAMBDA g :
                 \E k \in DOMAIN g.sockets : Matches(a, g.sockets[k], c))
    IN  CASE a.sessionID[t] # NoSession -> RemoveIdle(added, t)
          [] a.sessionID[t] = NoSession /\ i # 0 -> Merge(added, t, i)
          [] OTHER -> added

\* getSocketGroup: the group of the socket's session, at the end if there is none.
Pooled(a, x) ==
    IF \E i \in DOMAIN a.pool : a.pool[i].id = x THEN a
    ELSE [a EXCEPT !.pool = Append(@, [id |-> x, sockets |-> <<>>])]

\* asyncSetSocket
SetSocket(a, s) ==
    LET x == ClientSession(a, s)
        t == a.claimed[x]
        pooled == Pooled(a, x)
        i == FirstIndex(pooled.pool, LAMBDA g : g.id = x)
        put == [pooled EXCEPT !.pool[i].sockets = Append(@, s)]
        j == FirstIndex(a.plan.servers, LAMBDA u :
                 /\ u \in a.unclaimed
                 /\ \E k \in DOMAIN a.channels[u] : Matches(a, s, a.channels[u][k]))
    IN  CASE t # NoSession -> RemoveIdle(AddSocket(a, t, s), t)
          [] t = NoSession /\ j # 0 -> Merge(put, a.plan.servers[j], i)
          [] OTHER -> put

\* As if a channel that has just been given a socket were not told.
CancelFound(a, c) ==
    LET t == ServerSession(a, c)
        i == FirstIndex(a.channels[t], LAMBDA u : u = c)
    IN  IF i = 0 THEN a
        ELSE Give(RemoveIdle([a EXCEPT !.channels[t] = RemoveAt(@, i)], t), c, NoSock, FALSE)

\* cancelPendingChannel
CancelChannel(a, c) ==
    LET t == ServerSession(a, c)
        i == FirstIndex(a.channels[t], LAMBDA u : u = c)
    IN  Give(IF i = 0 THEN a
             ELSE RemoveIdle([a EXCEPT !.channels[t] = RemoveAt(@, i)], t), c, NoSock, FALSE)

Unsubscribe(a, t) ==
    LET b == [a EXCEPT !.base = @ \ {t}]
        left == IF hasSubscriptions(b, t) THEN b ELSE RemoveGroup(b, t)
    IN  stopListening(left)

\* mPendingSockets: the sockets that have no name yet, and one to accept the next.
Pendings(a) ==
    a.greeting \cup a.naming \cup (IF a.accepting = "none" THEN {} ELSE {NoSock})

Emptied(a) == IF a.stopped /\ Pendings(a) = {} THEN [a EXCEPT !.emptied = @ + 1] ELSE a

\* stop()
Stop(a) ==
    LET b == [a EXCEPT !.stopped = TRUE, !.listening = FALSE,
                       !.accepting = IF @ = "open" THEN "aborted" ELSE @,
                       !.closed = @ \cup a.backlog \cup a.greeting \cup a.naming,
                       !.backlog = {}]
    IN  Emptied([b EXCEPT !.released = IF hasAnySubscriptions(b) THEN @ ELSE @ + 1])

\* As if a socket that leaves the list were not closed.
EraseOpen(a, s) == Emptied([a EXCEPT !.greeting = @ \ {s}, !.naming = @ \ {s}])

\* erasePendingSocket
Erase(a, s) ==
    Emptied([a EXCEPT !.greeting = @ \ {s}, !.naming = @ \ {s}, !.closed = @ \cup {s}])

\* The socket has got its name, and leaves mPendingSockets.
Name(a, s) ==
    LET b == SetSocket(a, s)
    IN  Emptied([b EXCEPT !.naming = @ \ {s}])

\* start()
Start(a) == IF a.listening THEN [a EXCEPT !.accepting = "open"] ELSE a

\* The end of an accept that was aborted.
EndAccept(a) == Emptied([a EXCEPT !.accepting = "none"])
=============================================================================
