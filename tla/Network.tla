------------------------------- MODULE Network -------------------------------
(***************************************************************************)
(* Channels between the sessions of a client and those of a server.  The   *)
(* client connects a socket for every channel, reads the greeting of the   *)
(* acceptor and sends the names; the acceptor pairs named sockets with the *)
(* channels that wait.  On top of it both ends send, receive, close and    *)
(* cancel, each in a thread of its own.                                    *)
(*                                                                         *)
(* A socket belongs to an attempt of a client channel to connect; <<s,     *)
(* "client">> and <<s, "server">> are its two ends.                        *)
(***************************************************************************)
EXTENDS Integers, SequencesExt

CONSTANTS
    Clients, Servers,       \* the channels of each side
    Sessions,               \* the sessions of both
    NoSock, NoSession,
    Plans                   \* what the programs do

Channels == Clients \cup Servers

\* A plan names the session and the two names of every channel and the calls that its
\* thread makes, the sessions of the server in the order in which they were opened, how
\* often a client tries and how many threads run its handlers, whether the server's program
\* ends, and whether nobody gives up.
ASSUME PlansAssumption ==
    \A p \in Plans :
        /\ DOMAIN p.script \subseteq Channels
        /\ p.session \in [DOMAIN p.script -> Sessions]
        /\ p.servers \in Seq(Sessions)
        /\ \A c \in DOMAIN p.script \ Clients : p.session[c] \in Range(p.servers)
        /\ p.attempts >= 1 /\ p.workers >= 1

\* What is none of its kind.
ASSUME NoneAssumption ==
    /\ NoSession \notin Sessions
    /\ NoSock \notin [of : Clients, n : Nat]

VARIABLES
    plan,       \* the programs
    pc,         \* calls made by the thread of a channel, and whether one is half done
    base,       \* ChannelBase and StartSocketOp of a channel
    conn,       \* what StartSocketOp of a client does to connect
    acc,        \* the acceptor
    ending,     \* sessions of the server, and the acceptor, that are being stopped
    open,       \* ends of sockets that are open
    wire,       \* parts of messages on their way to an end: a header, and the rest
    hello,      \* sockets whose greeting has been sent
    named       \* sockets whose names have been sent

vars == <<plan, pc, base, conn, acc, ending, open, wire, hello, named>>
sockVars == <<hello, named, wire>>

Ch == INSTANCE ChannelBase
Ac == INSTANCE Acceptor

-----------------------------------------------------------------------------
Used == DOMAIN plan.script
ServerSessions == Range(plan.servers)
AllSocks == [of : Clients, n : 1 .. 1 + Max({p.attempts : p \in Plans})]

Side(c) == IF c \in Clients THEN "client" ELSE "server"
Other(side) == IF side = "client" THEN "server" ELSE "client"
Ends(s, side) == IF s = NoSock THEN {} ELSE {<<s, side>>}

Calls(c) == DOMAIN plan.script[c]
Opened(c) == pc[c].at > 0

\* A client that has not tried yet.
Unconnected == [n |-> 0, first |-> FALSE, late |-> FALSE, ec |-> "ok",
                sock |-> NoSock, ops |-> {}]

Init ==
    /\ plan \in Plans
    /\ pc = [c \in Used |-> [at |-> 0, half |-> FALSE]]
    /\ base = [c \in Used |-> Ch!ChannelOf(Calls(c))]
    /\ conn = [c \in Used \cap Clients |-> Unconnected]
    /\ acc = Ac!AcceptorOf([session |-> plan.session, local |-> plan.local,
                            remote |-> plan.remote, servers |-> plan.servers],
                           {plan.session[c] : c \in Used \cap Clients})
    /\ ending = {}
    /\ open = {}
    /\ wire = [e \in AllSocks \X {"client", "server"} |-> 0]
    /\ hello = {}
    /\ named = {}

-----------------------------------------------------------------------------
(* What a step does to a channel and to the sockets                        *)

\* The channel c becomes b; a handle it drops is closed, as is what is in shut.
Become(c, b, shut) ==
    /\ base' = [base EXCEPT ![c] = b]
    /\ open' = open \ (shut \cup IF base'[c].handle = base[c].handle THEN {}
                                 ELSE Ends(base[c].handle, Side(c)))

\* The acceptor becomes a: channels are given what it gives them, on their strands.
Accepted(a) ==
    /\ acc' = [a EXCEPT !.given = [c \in Used |-> <<>>], !.closed = {}]
    /\ base' = [c \in Used |->
          Ch!Post(base[c], [i \in DOMAIN a.given[c] |->
                               Ch!SocketTask(a.given[c][i].sock, a.given[c][i].ok)])]
    /\ open' = open \ (a.closed \X {"server"})

Tell(task) == acc' = [acc EXCEPT !.strand = Append(@, task)]

-----------------------------------------------------------------------------
(* Connecting: z is the record of a channel's StartSocketOp, of its base,   *)
(* and of the ends of sockets that it closes.                               *)

\* The timer is set anew or canceled: what waits for it is told.
Aborted(ops) ==
    {IF o.op \in {"timeout", "retry"} THEN [o EXCEPT !.st = "aborted"] ELSE o : o \in ops}

\* A socket is canceled, or closed.
Interrupted(ops, s, how) ==
    {IF o.op \in {"connect", "read", "write"} /\ s # NoSock /\ o.n = s.n
     THEN [o EXCEPT !.st = IF @ = "closed" THEN @ ELSE how] ELSE o : o \in ops}

Wait(op, n) == [op |-> op, n |-> n, st |-> "armed"]

\* asyncConnectToServer: a new socket, and a time by which it has to be connected.
Attempt(c, z) ==
    LET n == z.k.n + 1
        old == Interrupted(z.k.ops, z.k.sock, "closed")
    IN  [z EXCEPT !.k.n = n, !.k.first = TRUE, !.k.sock = [of |-> c, n |-> n],
                  !.k.ops = Aborted(old) \cup {Wait("timeout", n), Wait("connect", n)},
                  !.shut = @ \cup Ends(z.k.sock, "client")]

GiveUp(z) == [z EXCEPT !.b = Ch!Post(@, <<Ch!SocketTask(NoSock, FALSE)>>)]

\* retryConnect
RetryConnect(z, ec) ==
    IF z.b.canceled \/ ec = "aborted" THEN GiveUp(z)
    ELSE [z EXCEPT !.k.ops = Aborted(Interrupted(@, z.k.sock, "closed"))
                                 \cup {Wait("retry", z.k.n)},
                   !.shut = @ \cup Ends(z.k.sock, "client"),
                   !.b.faults = @ \cup Ch!When(z.k.sock = NoSock, "no socket")]

\* connectCallback: a socket that has been closed meanwhile takes no option.
ConnectCallback(z, ec) ==
    CASE ec # "ok" -> RetryConnect(z, ec)
      [] ec = "ok" /\ <<z.k.sock, "client">> \notin open -> RetryConnect(z, "failed")
      [] OTHER -> [z EXCEPT !.k.ops = @ \cup {Wait("read", z.k.n)}]

\* The handler of the timer that limits an attempt, which is not told why it runs.
TimedOut(z) ==
    IF z.k.first
    THEN [z EXCEPT !.k.ops = Interrupted(@, z.k.sock, "canceled"), !.k.first = FALSE]
    ELSE ConnectCallback(z, z.k.ec)

\* The handler of async_connect.
Connected(z, ec) ==
    LET told == [z EXCEPT !.k.ec = ec]
    IN  IF z.k.first
        THEN [told EXCEPT !.k.ops = Aborted(@), !.k.first = FALSE]
        ELSE RetryConnect(told, "timed out")

\* Both handlers end with mIsFirst = false.  With one worker nothing comes before it.
Settled(z, before) ==
    IF before.first THEN z ELSE [z EXCEPT !.k.late = plan.workers > 1]

\* The client c runs the handler of o, which leads to z; what it connected is opened.
Handled(c, z, connected) ==
    /\ conn' = [conn EXCEPT ![c] = z.k]
    /\ base' = [base EXCEPT ![c] = z.b]
    /\ open' = (open \cup (connected \X {"client", "server"})) \ z.shut

Handler(c, o) == [k |-> [conn[c] EXCEPT !.ops = @ \ {o}], b |-> base[c], shut |-> {}]

OnStrand(c) == ~conn[c].late

Timeout(c) ==
    \E o \in conn[c].ops :
        /\ o.op = "timeout" /\ OnStrand(c)
        /\ o.st = "armed" => conn[c].n < plan.attempts
        /\ Handled(c, Settled(TimedOut(Handler(c, o)), conn[c]), {})
        /\ UNCHANGED <<plan, pc, acc, ending, sockVars>>

\* The kernel connects while the acceptor listens, and may refuse for a while.
Connect(c) ==
    \E o \in conn[c].ops, ec \in {"ok", "refused", "aborted"} :
        LET s == [of |-> c, n |-> o.n]
        IN  /\ o.op = "connect" /\ OnStrand(c)
            /\ \/ ec = "ok" /\ o.st \in {"armed", "canceled"} /\ acc.listening
               \/ ec = "refused" /\ o.st = "armed"
                  /\ (acc.listening => conn[c].n < plan.attempts)
               \/ ec = "aborted" /\ o.st # "armed"
            /\ acc' = IF ec = "ok" THEN [acc EXCEPT !.backlog = @ \cup {s}] ELSE acc
            /\ Handled(c, Settled(Connected(Handler(c, o), ec), conn[c]),
                       IF ec = "ok" THEN {s} ELSE {})
            /\ UNCHANGED <<plan, pc, ending, sockVars>>

\* mIsFirst = false, after what the handler has called.
Late(c) ==
    /\ conn[c].late
    /\ conn' = [conn EXCEPT ![c].late = FALSE, ![c].first = FALSE]
    /\ UNCHANGED <<plan, pc, base, acc, ending, open, sockVars>>

\* The timer of retryConnect, whose handler does not run on the strand.
Retry(c) ==
    \E o \in conn[c].ops :
        LET z == Handler(c, o)
        IN  /\ o.op = "retry"
            /\ o.st = "armed" =>
                   conn[c].n < plan.attempts + (IF base[c].canceled THEN 1 ELSE 0)
            /\ Handled(c, IF o.st = "aborted" THEN GiveUp(z) ELSE Attempt(c, z), {})
            /\ UNCHANGED <<plan, pc, acc, ending, sockVars>>

\* recvServerMessage
Read(c) ==
    \E o \in conn[c].ops :
        LET s == [of |-> c, n |-> o.n]
            z == Handler(c, o)
        IN  /\ o.op = "read" /\ OnStrand(c)
            /\ \/ /\ o.st = "armed" /\ s \in hello
                  /\ Handled(c, [z EXCEPT !.k.ops = @ \cup {Wait("write", o.n)}], {})
               \/ /\ o.st = "armed" /\ s \notin hello /\ <<s, "server">> \notin open
                  /\ Handled(c, RetryConnect(z, "failed"), {})
               \/ /\ o.st # "armed"
                  /\ Handled(c, RetryConnect(z, "aborted"), {})
            /\ UNCHANGED <<plan, pc, acc, ending, sockVars>>

\* sendConnectionString: the socket is handed to the channel.
Write(c) ==
    \E o \in conn[c].ops :
        LET s == [of |-> c, n |-> o.n]
            z == Handler(c, o)
        IN  /\ o.op = "write" /\ OnStrand(c)
            /\ \/ /\ o.st = "armed"
                  /\ named' = named \cup {s}
                  /\ Handled(c, [z EXCEPT !.k.sock = NoSock,
                                          !.b = Ch!Post(@, <<Ch!SocketTask(s, TRUE)>>)], {})
               \/ /\ o.st = "armed" /\ <<s, "server">> \notin open
                  /\ Handled(c, RetryConnect(z, "failed"), {})
                  /\ UNCHANGED named
               \/ /\ o.st # "armed"
                  /\ Handled(c, RetryConnect(z, "aborted"), {})
                  /\ UNCHANGED named
            /\ UNCHANGED <<plan, pc, acc, ending, hello, wire>>

ClientStep(c) ==
    Timeout(c) \/ Connect(c) \/ Late(c) \/ Retry(c) \/ Read(c) \/ Write(c)

-----------------------------------------------------------------------------
(* The strand of a channel                                                 *)

\* setSocket, on the strand.  A channel that was canceled closes the socket, or leaves
\* it to the acceptor, which will give it another answer.
SocketGiven(c, b, s, ok) ==
    LET f == Ch!finalize(b, s, ok)
    IN  CASE b.canceled /\ s # NoSock /\ c \notin Clients -> Become(c, b, Ends(s, "server"))
          [] b.canceled /\ s # NoSock /\ c \in Clients -> Become(c, f, Ends(s, "client"))
          [] OTHER -> Become(c, f, IF f.handle = s THEN {} ELSE Ends(s, Side(c)))

\* cancelPending, on the strand, of a start that has not ended.  A timer that has run
\* out already is not canceled.
CancelStart(c, b) ==
    LET k == conn[c]
    IN  IF c \in Clients
        THEN /\ Become(c, [b EXCEPT !.canceled = TRUE], Ends(k.sock, "client"))
             /\ \E late \in SUBSET {o \in k.ops : o.op = "retry"} :
                    conn' = [conn EXCEPT ![c].ops =
                        Aborted(Interrupted(k.ops, k.sock, "closed")  \ late) \cup late]
             /\ UNCHANGED acc
        ELSE /\ Become(c, [b EXCEPT !.canceled = TRUE], {})
             /\ Tell(Ac!CancelChannelTask(c))
             /\ UNCHANGED conn

ChannelTask(c) ==
    /\ Opened(c) /\ base[c].strand # <<>>
    /\ c \in Clients => OnStrand(c)
    /\ LET task == Head(base[c].strand)
           b == [base[c] EXCEPT !.strand = Tail(@)]
       IN  \/ task.do = "start" /\ Become(c, Ch!StartLoop(b, task.dir), {})
              /\ UNCHANGED <<conn, acc>>
           \/ task.do = "handle" /\ Become(c, Ch!SetHandle(b, task.dir), {})
              /\ UNCHANGED <<conn, acc>>
           \/ task.do = "socket" /\ SocketGiven(c, b, task.sock, task.ok)
              /\ UNCHANGED <<conn, acc>>
           \/ task.do = "cancel"
              /\ Become(c, Ch!Cancel(b, Ch!CallbackOp(task.of, task.closes)), {})
              /\ UNCHANGED <<conn, acc>>
           \/ task.do = "cancelStart" /\ Ch!MayCancel(b) /\ CancelStart(c, b)
           \/ task.do = "cancelStart" /\ ~Ch!MayCancel(b) /\ Become(c, b, {})
              /\ UNCHANGED <<conn, acc>>
    /\ UNCHANGED <<plan, pc, ending, sockVars>>

\* A message has left, or cannot.  When it is canceled its header may have left.
SendDone(c) ==
    LET s == base[c].handle
        mine == <<s, Side(c)>>
        peer == <<s, Other(Side(c))>>
    IN  /\ Opened(c) /\ base[c].io["send"] # "none" /\ s # NoSock
        /\ c \in Clients => OnStrand(c)
        /\ \/ /\ mine \in open
              /\ Become(c, Ch!Complete(base[c], "send", TRUE), {})
              /\ wire' = [wire EXCEPT ![peer] = @ + 2]
           \/ /\ {mine, peer} \subseteq open => base[c].io["send"] = "canceled"
              /\ Become(c, Ch!Complete(base[c], "send", FALSE), {})
              /\ \/ UNCHANGED wire
                 \/ mine \in open /\ wire' = [wire EXCEPT ![peer] = @ + 1]
        /\ UNCHANGED <<plan, pc, conn, acc, ending, hello, named>>

\* The header of a message has come.  Its handler does not run on the strand, and a
\* cancel that has been there before does not stop it from asking for the rest.
RecvHeader(c) ==
    LET s == base[c].handle
        mine == <<s, Side(c)>>
    IN  /\ Opened(c) /\ base[c].io["recv"] # "none" /\ ~base[c].body /\ s # NoSock
        /\ mine \in open /\ wire[mine] > 0
        /\ Become(c, Ch!HeaderCame(base[c]), {})
        /\ wire' = [wire EXCEPT ![mine] = @ - 1]
        /\ UNCHANGED <<plan, pc, conn, acc, ending, hello, named>>

\* The rest of a message has come, or what is waited for cannot come.
RecvDone(c) ==
    LET s == base[c].handle
        mine == <<s, Side(c)>>
        peer == <<s, Other(Side(c))>>
    IN  /\ Opened(c) /\ base[c].io["recv"] # "none" /\ s # NoSock
        /\ c \in Clients => OnStrand(c)
        /\ \/ /\ base[c].body /\ mine \in open /\ wire[mine] > 0
              /\ Become(c, Ch!Complete(base[c], "recv", TRUE), {})
              /\ wire' = [wire EXCEPT ![mine] = @ - 1]
           \/ /\ \/ base[c].io["recv"] = "canceled"
                 \/ mine \notin open
                 \/ peer \notin open /\ wire[mine] = 0
              /\ Become(c, Ch!Complete(base[c], "recv", FALSE), {})
              /\ UNCHANGED wire
        /\ UNCHANGED <<plan, pc, conn, acc, ending, hello, named>>

-----------------------------------------------------------------------------
(* The acceptor                                                            *)

\* A connection is accepted, the next accept begins in a task of its own.
Accept ==
    /\ acc.accepting = "open"
    /\ \E s \in acc.backlog :
          acc' = [acc EXCEPT !.backlog = @ \ {s}, !.greeting = @ \cup {s},
                             !.accepting = "none", !.strand = Append(@, Ac!StartTask)]
    /\ UNCHANGED <<plan, pc, base, conn, ending, open, sockVars>>

AcceptAborted ==
    /\ acc.accepting = "aborted"
    /\ Accepted(Ac!EndAccept(acc))
    /\ UNCHANGED <<plan, pc, conn, ending, sockVars>>

\* sendServerMessage
Greeted ==
    \E s \in acc.greeting :
        /\ \/ /\ <<s, "server">> \in open
              /\ acc' = [acc EXCEPT !.greeting = @ \ {s}, !.naming = @ \cup {s}]
              /\ hello' = hello \cup {s}
              /\ UNCHANGED <<base, open>>
           \/ /\ ~(Ends(s, "server") \cup Ends(s, "client") \subseteq open)
              /\ Accepted(Ac!Erase(acc, s))
              /\ UNCHANGED hello
        /\ UNCHANGED <<plan, pc, conn, ending, named, wire>>

\* recvConnectionString
NameRead ==
    \E s \in acc.naming :
        /\ Ac!SetTask(s) \notin Range(acc.strand)
        /\ \/ /\ s \in named /\ <<s, "server">> \in open
              /\ Tell(Ac!SetTask(s))
              /\ UNCHANGED <<base, open>>
           \/ /\ \/ <<s, "server">> \notin open
                 \/ s \notin named /\ <<s, "client">> \notin open
              /\ Accepted(Ac!Erase(acc, s))
        /\ UNCHANGED <<plan, pc, conn, ending, sockVars>>

AcceptorTask ==
    /\ acc.strand # <<>>
    /\ LET task == Head(acc.strand)
           a == [acc EXCEPT !.strand = Tail(@)]
       IN  \/ task.do = "get" /\ Accepted(Ac!GetSocket(a, task.of))
           \/ task.do = "cancel" /\ Accepted(Ac!CancelChannel(a, task.of))
           \/ task.do = "set" /\ Accepted(Ac!Name(a, task.of))
           \/ task.do = "unsubscribe" /\ Accepted(Ac!Unsubscribe(a, task.of))
           \/ task.do = "stop" /\ Accepted(Ac!Stop(a))
           \/ task.do = "start" /\ Accepted(Ac!Start(a))
    /\ UNCHANGED <<plan, pc, conn, ending, sockVars>>

AcceptorStep == Accept \/ AcceptAborted \/ Greeted \/ NameRead \/ AcceptorTask

-----------------------------------------------------------------------------
(* The programs                                                            *)

\* The constructor of a channel of the server asks the acceptor for a socket, one of
\* the client begins to connect.
Open(c) ==
    /\ ~Opened(c)
    /\ pc' = [pc EXCEPT ![c].at = 1]
    /\ IF c \in Clients
       THEN LET z == Attempt(c, [k |-> conn[c], b |-> base[c], shut |-> {}])
            IN  conn' = [conn EXCEPT ![c] = z.k] /\ UNCHANGED acc
       ELSE Tell(Ac!GetTask(c)) /\ UNCHANGED conn
    /\ UNCHANGED <<plan, base, ending, open, sockVars>>

\* The call that comes next, when the one before has returned: a message that is waited
\* for has left, or come, or will not; close() and cancel() are done.
Returned(c, i) ==
    LET call == plan.script[c][i]
    IN  CASE call.do \in Ch!Dir /\ call.waits ->
               Ch!DataOp \notin Range(base[c].queue[call.do])
          [] call.do \in {"close", "cancel"} /\ call.waits -> base[c].left[i] = 0
          [] OTHER -> TRUE

NextCall(c, what) ==
    LET i == pc[c].at
    IN  /\ i \in Calls(c) /\ ~pc[c].half
        /\ plan.script[c][i].do = what
        /\ i > 1 => Returned(c, i - 1)

Done(c) == pc' = [pc EXCEPT ![c] = [at |-> @.at + 1, half |-> FALSE]]

\* The channel becomes b by a call.
Call(c, b) ==
    /\ base' = [base EXCEPT ![c] = b]
    /\ UNCHANGED <<plan, conn, acc, ending, open, sockVars>>

Send(c) == NextCall(c, "send") /\ Done(c) /\ Call(c, Ch!Enque(base[c], "send", Ch!DataOp))
Recv(c) == NextCall(c, "recv") /\ Done(c) /\ Call(c, Ch!Enque(base[c], "recv", Ch!DataOp))

\* A channel that is closed already calls back at once.
Skip(c) ==
    /\ \E what \in {"close", "cancel"} : NextCall(c, what)
    /\ base[c].status = "Closed"
    /\ Done(c) /\ Call(c, [base[c] EXCEPT !.left[pc[c].at] = 0])

\* asyncClose queues its callback twice, one after the other.
Close(c) ==
    /\ NextCall(c, "close") /\ base[c].status # "Closed"
    /\ pc' = [pc EXCEPT ![c].half = TRUE]
    /\ Call(c, Ch!AsyncCloseSend(base[c], pc[c].at))

CloseRecv(c) ==
    /\ pc[c].half
    /\ Done(c) /\ Call(c, Ch!AsyncCloseRecv(base[c], pc[c].at))

Cancel(c) ==
    /\ NextCall(c, "cancel") /\ base[c].status # "Closed"
    /\ Done(c)
    /\ Call(c, Ch!AsyncCancel(base[c], pc[c].at, plan.script[c][pc[c].at].closes))

\* The program of the server ends its sessions and its acceptor.
End(t, task) ==
    /\ plan.ends /\ t \notin ending
    /\ ending' = ending \cup {t}
    /\ Tell(task)
    /\ UNCHANGED <<plan, pc, base, conn, open, sockVars>>

StopSession(t) ==
    /\ \A c \in Used \ Clients : plan.session[c] = t => Opened(c)
    /\ End(t, Ac!UnsubscribeTask(t))

StopAcceptor ==
    /\ ServerSessions \subseteq ending
    /\ End(NoSession, Ac!StopTask)

Program(c) == Open(c) \/ Send(c) \/ Recv(c) \/ Skip(c) \/ Close(c) \/ CloseRecv(c) \/ Cancel(c)

Ended(c) == Opened(c) /\ pc[c].at > Len(plan.script[c]) /\ ~pc[c].half
                      /\ (Calls(c) # {} => Returned(c, Len(plan.script[c])))

Run ==
    \/ \E c \in Used :
           Program(c) \/ ChannelTask(c) \/ SendDone(c) \/ RecvHeader(c) \/ RecvDone(c)
    \/ \E c \in Used \cap Clients : ClientStep(c)
    \/ AcceptorStep

Next ==
    \/ Run
    \/ \E t \in ServerSessions : StopSession(t)
    \/ StopAcceptor

\* The threads of the programs and those of the IOServices go on; no one has to end a
\* session.
Fairness == WF_vars(Run)

Spec == Init /\ [][Next]_vars /\ Fairness

-----------------------------------------------------------------------------
(* Correctness                                                             *)

\* Values of the variables; what a socket does is for the operation at the front of a
\* queue whose loop runs.
TypeOK ==
    /\ plan \in Plans
    /\ pc \in [Used -> [at : Nat, half : BOOLEAN]]
    /\ \A c \in Used :
          /\ base[c].status \in Ch!Status
          /\ base[c].handle \in AllSocks \cup {NoSock}
          /\ base[c].left \in [Calls(c) -> 0 .. Ch!Uncalled]
          /\ base[c].com \in [Ch!Dir -> Ch!ComHandleStatus]
          /\ \A d \in Ch!Dir :
                base[c].io[d] # "none" => base[c].alive[d] /\ base[c].queue[d] # <<>>
          /\ base[c].body => base[c].io["recv"] # "none"
    /\ open \subseteq AllSocks \X {"client", "server"}
    /\ hello \subseteq AllSocks /\ named \subseteq AllSocks
    /\ acc.backlog \cup acc.greeting \cup acc.naming \subseteq AllSocks

\* A start is finalized once, whatever the timers do: assert(mFinalized == false),
\* Channel.cpp:321.
FinalizedOnce == \A c \in Used : base[c].faults # {"finalized"}

\* The program closes the channel while a call before it, which closes the channel too,
\* may not have called back.
ClosesAgain(c) ==
    \E i, j \in Calls(c) :
        /\ i < j
        /\ plan.script[c][i].do \in {"close", "cancel"} /\ ~plan.script[c][i].waits
        /\ plan.script[c][j].do = "close"

\* No loop starts in a closed channel: assert(mStatus != Channel::Status::Closed),
\* Channel.cpp:735 and :772, however close() and cancel() overlap.
NoLoopWhenClosed == \A c \in Used : "closed" \notin base[c].faults

\* Of the assertions of the channels only that one fails, and only where a channel is
\* closed again: a start is finalized once (Channel.cpp:321), no operation is taken from
\* an empty queue (util.h:81), no message is sent or received where there is no socket, and
\* a loop that cancel() or close() starts finds the channel open, also while the other
\* queue, the connection or a cancel of the same channel end.
NoAssertFails ==
    \A c \in Used : base[c].faults \subseteq (IF ClosesAgain(c) THEN {"closed"} ELSE {})

\* The sockets that a channel has, or is about to be told of.
Held(c) ==
    ({base[c].handle} \cup
     {base[c].strand[i].sock : i \in {j \in DOMAIN base[c].strand :
                                         base[c].strand[j].do = "socket"}}) \ {NoSock}

UsedServers == Used \ Clients

\* A channel of the server has a socket of the client's channel that bears its names,
\* no socket goes to two channels, and the channels of a session have sockets of one
\* session.
PairedAsNamed ==
    \A c, d \in UsedServers : \A s \in Held(c), t \in Held(d) :
        /\ plan.local[c] = plan.remote[s.of] /\ plan.remote[c] = plan.local[s.of]
        /\ c # d => s # t
        /\ plan.session[c] = plan.session[d] => plan.session[s.of] = plan.session[t.of]

\* Every socket that the server has open is somewhere where it will be used or closed.  The
\* sockets of a group that the acceptor has erased live as long as its session.
NoSocketForgotten ==
    \A s \in AllSocks : <<s, "server">> \in open =>
        \/ s \in acc.backlog \cup acc.greeting \cup acc.naming
        \/ \E i \in DOMAIN acc.pool : s \in Range(acc.pool[i].sockets)
        \/ \E t \in ServerSessions : s \in Range(acc.sockets[t])
        \/ \E c \in UsedServers : s \in Held(c)

\* No channel waits in the acceptor for a socket that the acceptor has for it.
NoMissedMatch ==
    \A t \in acc.groups : \A i \in DOMAIN acc.channels[t] :
        LET fits(s) == Ac!Matches(acc, s, acc.channels[t][i])
        IN  /\ \A k \in DOMAIN acc.sockets[t] : ~fits(acc.sockets[t][k])
            /\ acc.sessionID[t] = NoSession =>
                   \A g \in DOMAIN acc.pool : \A k \in DOMAIN acc.pool[g].sockets :
                       ~fits(acc.pool[g].sockets[k])

\* The promises that stop() waits for are fulfilled once: a second time would throw.
PromisedOnce == acc.emptied <= 1 /\ acc.released <= 1

\* A channel that has been closed, or canceled with close, has nothing left to complete,
\* and a client then has no handler under way that would find the channel destroyed, and
\* no socket open.
ClosedIsQuiet ==
    \A c \in Used : base[c].status = "Closed" =>
        /\ \A d \in Ch!Dir : base[c].io[d] = "none"
                             /\ Ch!DataOp \notin Range(base[c].queue[d])
        /\ c \in Clients => /\ conn[c].ops = {}
                            /\ \A s \in AllSocks : s.of = c /\ s # conn[c].sock =>
                                   <<s, "client">> \notin open

CancelPends(c, i) ==
    /\ c \in Used /\ i \in Calls(c) /\ pc[c].at > i
    /\ plan.script[c][i].do = "cancel" /\ base[c].left[i] # 0

NoCancelPends == \A c \in Channels : \A i \in 1 .. 4 : ~CancelPends(c, i)

\* Both ends of a socket wait for the rest of a message of which only the header will come.
HalvesOnly ==
    \E c, d \in Used :
        /\ c # d /\ base[c].handle = base[d].handle /\ base[c].handle # NoSock
        /\ \A e \in {c, d} : base[e].body /\ wire[<<base[e].handle, Side(e)>>] = 0
                             /\ base[e].cancelNew["send"]

\* "Aborts all current operations (connect, send, receive)", Channel.h:320: so it returns.
CancelAborts == []<>NoCancelPends

\* cancel() returns, whatever it meets: a connect, queued operations, a message of which a
\* part has come and which it does not abort; unless the peer has been canceled in the same
\* way and both wait for what the other one no longer sends.
CancelReturns == []<>(NoCancelPends \/ HalvesOnly)

\* Where both sides do their part every channel connects, and all calls and operations
\* end.
CalmPlansEnd ==
    plan.calm ~> \A c \in Used :
        /\ Ended(c) /\ base[c].final /\ ~base[c].failed
        /\ \A d \in Ch!Dir : base[c].queue[d] = <<>>

\* stop() returns when the sessions have been stopped and no channel waits any more.
StopReturns ==
    (/\ NoSession \in ending
     /\ \A t \in acc.groups : acc.channels[t] = <<>>)
    ~> (acc.emptied = 1 /\ acc.released = 1)
=============================================================================
