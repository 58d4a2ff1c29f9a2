---------------------------- MODULE ChannelBase ----------------------------
(***************************************************************************)
(* A channel of cryptoTools: a queue of operations for each direction, the *)
(* operation at the front of both that waits for a socket, and the calls   *)
(* that close or cancel the channel, which wait for both queues.           *)
(*                                                                         *)
(* Whatever touches the channel runs on its strand, one task after the     *)
(* other; the operators here are what a task does with the state b of the  *)
(* channel.  Tasks that are posted go to the end of b.strand; completions  *)
(* that are dispatched from within the strand run at once.                 *)
(***************************************************************************)
EXTENDS Integers, SequencesExt

CONSTANT NoSock     \* a handle that is null

Dir == {"send", "recv"}
Status == {"Normal", "Closing", "Canceling", "Closed"}
ComHandleStatus == {"Uninit", "Init", "Eval"}

\* Operations: the start of the socket, a message, or the callback of a call that
\* closes or cancels.
StartOp == [op |-> "start"]
DataOp == [op |-> "data"]
CallbackOp(k, closes) == [op |-> "call", of |-> k, closes |-> closes]

\* Tasks posted to the strand.
StartTask(d) == [do |-> "start", dir |-> d]
HandleTask(d) == [do |-> "handle", dir |-> d]
CancelStartTask == [do |-> "cancelStart"]
SocketTask(s, ok) == [do |-> "socket", sock |-> s, ok |-> ok]
CancelTask(k, closes) == [do |-> "cancel", of |-> k, closes |-> closes]

\* A channel to which both start operations have been queued.  left counts what a
\* call waits for, Uncalled before it is made; io is what the socket does for the
\* operation at the front, body whether it is at the second half of a receive; failed is
\* mEC of the start, faults what an assertion forbids.
Uncalled == 3
ChannelOf(calls) ==
    [status |-> "Normal", handle |-> NoSock,
     queue |-> [d \in Dir |-> <<StartOp>>],
     alive |-> [d \in Dir |-> FALSE],
     cancelNew |-> [d \in Dir |-> FALSE],
     io |-> [d \in Dir |-> "none"], body |-> FALSE,
     com |-> [d \in Dir |-> "Uninit"],
     left |-> [k \in calls |-> Uncalled],
     final |-> FALSE, failed |-> FALSE, canceled |-> FALSE, faults |-> {},
     strand |-> <<StartTask("recv"), StartTask("send")>>]

When(condition, fault) == IF condition THEN {fault} ELSE {}

Post(b, tasks) == [b EXCEPT !.strand = @ \o tasks]

-----------------------------------------------------------------------------
\* As if a call waited for one of the queues only.
CallbackEither(b, o) ==
    IF b.left[o.of] > 1
    THEN [b EXCEPT !.left[o.of] = 0, !.handle = NoSock,
                   !.status = IF o.closes THEN "Closed" ELSE @]
    ELSE b

\* The callback of a call: the second one ends the call and drops the socket.
Callback(b, o) ==
    IF b.left[o.of] > 1
    THEN [b EXCEPT !.left[o.of] = @ - 1]
    ELSE [b EXCEPT !.left[o.of] = 0, !.handle = NoSock,
                   !.status = IF o.closes THEN "Closed" ELSE @]

\* The callbacks among operations are run one after the other.
RunCallbacks(b, ops) ==
    LET upTo[i \in 0 .. Len(ops)] ==
            IF i = 0 THEN b
            ELSE IF ops[i].op = "call" THEN Callback(upTo[i - 1], ops[i])
            ELSE upTo[i - 1]
    IN  upTo[Len(ops)]

\* Every operation of the queue completes with an error.
CancelQueueAll(b, d) ==
    [RunCallbacks(b, b.queue[d]) EXCEPT
        !.queue[d] = <<>>, !.alive[d] = FALSE, !.cancelNew[d] = TRUE]

\* cancelSendQueue, cancelRecvQueue: the start of the socket has to end first, all
\* other operations complete at once.
CancelQueue(b, d) ==
    IF b.queue[d] # <<>> /\ Head(b.queue[d]).op = "start"
    THEN Post([b EXCEPT !.cancelNew[d] = TRUE], <<HandleTask(d), CancelStartTask>>)
    ELSE CancelQueueAll(b, d)

\* The callbacks at the front, which complete where they are performed.
Leading(q) ==
    LET others == {i \in DOMAIN q : q[i].op # "call"}
    IN  IF others = {} THEN Len(q)
        ELSE (CHOOSE i \in others : \A j \in others : i <= j) - 1

\* asyncPerformSend, asyncPerformRecv
Perform(b, d) ==
    LET n == Leading(b.queue[d])
        ran == RunCallbacks(b, SubSeq(b.queue[d], 1, n))
        rest == SubSeq(b.queue[d], n + 1, Len(b.queue[d]))
    IN  CASE b.cancelNew[d] -> CancelQueue(b, d)
          [] ~b.cancelNew[d] /\ rest = <<>> ->
               [ran EXCEPT !.queue[d] = <<>>, !.alive[d] = FALSE]
          [] ~b.cancelNew[d] /\ rest # <<>> /\ Head(rest).op = "start" ->
               Post([ran EXCEPT !.queue[d] = rest], <<HandleTask(d)>>)
          [] OTHER ->
               [ran EXCEPT !.queue[d] = rest, !.io[d] = "armed",
                           !.faults = @ \cup When(ran.handle = NoSock, "no handle")]

\* The completion of the operation at the front, of which there has to be one.
Complete(b, d, ok) ==
    LET popped == [b EXCEPT !.queue[d] = SubSeq(@, 2, Len(@)), !.io[d] = "none",
                            !.body = @ /\ d = "send",
                            !.faults = @ \cup When(b.queue[d] = <<>>, "no operation")]
    IN  CASE ~ok -> CancelQueue(popped, d)
          [] ok /\ popped.queue[d] # <<>> -> Perform(popped, d)
          [] OTHER -> [popped EXCEPT !.alive[d] = FALSE]

\* The header of a message has come: the handler asks for the rest, whether or not the
\* socket has been canceled before.
HeaderCame(b) == [b EXCEPT !.io["recv"] = "armed", !.body = TRUE]

-----------------------------------------------------------------------------
(* Queueing.                                                               *)

\* The task of sendEnque, recvEnque: start the loop unless it runs.
StartLoop(b, d) ==
    IF b.queue[d] # <<>> /\ ~b.alive[d]
    THEN Perform([b EXCEPT !.alive[d] = TRUE,
                           !.faults = @ \cup When(b.status = "Closed", "closed")], d)
    ELSE b

\* sendEnque, recvEnque by another thread, and from within the strand.
Enque(b, d, o) == Post([b EXCEPT !.queue[d] = Append(@, o)], <<StartTask(d)>>)
EnqueNow(b, d, o) == StartLoop([b EXCEPT !.queue[d] = Append(@, o)], d)

-----------------------------------------------------------------------------
(* StartSocketOp                                                           *)

Eval(b, d) ==
    IF b.com[d] = "Init" /\ b.final
    THEN Complete([b EXCEPT !.com[d] = "Eval"], d, ~b.failed)
    ELSE b

\* setHandle
SetHandle(b, d) == Eval(Eval([b EXCEPT !.com[d] = "Init"], "send"), "recv")

\* As if only the queue that receives were told.
FinalizeOne(b, s, ok) ==
    Eval([b EXCEPT !.faults = @ \cup When(b.final, "finalized"),
                   !.final = TRUE, !.handle = s, !.failed = ~ok], "recv")

finalize(b, s, ok) ==
    Eval(Eval([b EXCEPT !.faults = @ \cup When(b.final, "finalized"),
                        !.final = TRUE, !.handle = s, !.failed = ~ok], "send"), "recv")

-----------------------------------------------------------------------------
(* asyncCancel and asyncClose                                              *)

\* As if a second cancel of a start were not recognised.
MayCancelAgain(b) == ~b.final

\* The start has not ended, and the other queue has not canceled it.
MayCancel(b) == ~b.final /\ ~b.canceled

\* As if a message that is under way were dropped with the others.
CancelPendingDrops(b, d) ==
    IF Head(b.queue[d]).op = "start" THEN Post(b, <<CancelStartTask>>)
    ELSE CancelQueueAll(b, d)

\* The operation at the front is under way: a message ends with its socket.
CancelPending(b, d) ==
    IF Head(b.queue[d]).op = "start" THEN Post(b, <<CancelStartTask>>) ELSE b

CancelDir(b, d, o) ==
    LET q == EnqueNow(b, d, o)
    IN  IF q.queue[d] # <<>> /\ q.alive[d] THEN CancelPending(q, d) ELSE CancelQueue(q, d)

\* The posted task of asyncCancel.
Cancel(b, o) ==
    CancelDir(CancelDir(
        [b EXCEPT !.status = "Canceling",
                  !.cancelNew = [d \in Dir |-> TRUE],
                  !.io = [d \in Dir |-> IF @[d] = "armed" THEN "canceled" ELSE @[d]]],
        "send", o), "recv", o)

\* asyncCancel of a channel that is not closed.
AsyncCancel(b, k, closes) ==
    Post([b EXCEPT !.left[k] = 2], <<CancelTask(k, closes)>>)

\* asyncClose of a channel that is not closed: the send queue, and later the other.
AsyncCloseSend(b, k) ==
    Enque([b EXCEPT !.left[k] = 2, !.status = "Closing"], "send", CallbackOp(k, TRUE))
AsyncCloseRecv(b, k) == Enque(b, "recv", CallbackOp(k, TRUE))
=============================================================================
