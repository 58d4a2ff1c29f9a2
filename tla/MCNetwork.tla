----------------------------- MODULE MCNetwork -----------------------------
(***************************************************************************)
(* The programs Network is checked with: one or two channels on each side. *)
(***************************************************************************)
EXTENDS Network, TLC

CONSTANTS c1, c2, s1, s2, X, Y, T, U

do(what) == [do |-> what, waits |-> TRUE, closes |-> TRUE]
post(what) == [do(what) EXCEPT !.waits = FALSE]
keep(what) == [do(what) EXCEPT !.closes = FALSE]

\* What one side calls its local name is the remote one of the other.  The names of two
\* channels may be swapped.
Plan(session, local, remote, script, servers) ==
    [session |-> session, script |-> script, servers |-> servers,
     local |-> local, remote |-> remote,
     attempts |-> 1, workers |-> 1, calm |-> FALSE, ends |-> FALSE]

One(client, server) ==
    Plan(c1 :> X @@ s1 :> T, c1 :> "p" @@ s1 :> "q", c1 :> "q" @@ s1 :> "p",
         c1 :> client @@ s1 :> server, <<T>>)

Calm(p) == [p EXCEPT !.calm = TRUE]
Tries(p, n) == [p EXCEPT !.attempts = n]
Parallel(p) == [p EXCEPT !.workers = 2]
Ending(p) == [p EXCEPT !.ends = TRUE]

\* A message each way, and one receive too many.
Talk == One(<<post("send"), do("recv"), do("close")>>, <<do("recv"), post("send"), do("close")>>)
Short == One(<<do("send"), do("close")>>, <<do("recv"), do("recv")>>)

\* Channels that are canceled at any time, kept by a cancel and closed afterwards, or
\* canceled while they close.
CancelBoth == One(<<do("cancel")>>, <<post("recv"), do("cancel")>>)
CancelKeeps == One(<<post("send"), keep("cancel"), do("close")>>, <<do("cancel")>>)
CloseCancel == One(<<post("close"), do("cancel")>>, <<do("cancel")>>)
CancelOne == One(<<do("cancel")>>, <<>>)

\* Channels that are closed, as their destructor does, while a call that closes them has not
\* called back.
CancelThenClose == One(<<post("cancel"), do("close")>>, <<>>)
CloseTwice == One(<<post("close"), do("close")>>, <<>>)

\* A cancel before there is a connection, with a receive that waits for it, and one at both
\* sides after a first message, at any point of a second one, or of one each way.
CutEarly == One(<<post("recv"), do("cancel")>>, <<>>)
CutOff == One(<<do("send"), post("send"), do("cancel")>>, <<do("recv"), post("recv"), do("cancel")>>)
CutBoth ==
    LET cut(first) == <<do(first), post("send"), post("recv"), do("cancel")>>
    IN  One(cut("send"), cut("recv"))

\* Two channels of one session, one of each of two sessions, and a client that replaces
\* a channel it cancels by one of the same names.
Idle == c1 :> <<>> @@ c2 :> <<>> @@ s1 :> <<>> @@ s2 :> <<>>
TwoNames ==
    Plan(c1 :> X @@ c2 :> X @@ s1 :> T @@ s2 :> T,
         c1 :> "p" @@ c2 :> "q" @@ s1 :> "q" @@ s2 :> "p",
         c1 :> "q" @@ c2 :> "p" @@ s1 :> "p" @@ s2 :> "q", Idle, <<T>>)
TwoSessions ==
    Plan(c1 :> X @@ c2 :> Y @@ s1 :> T @@ s2 :> U,
         c1 :> "p" @@ c2 :> "p" @@ s1 :> "q" @@ s2 :> "q",
         c1 :> "q" @@ c2 :> "q" @@ s1 :> "p" @@ s2 :> "p", Idle, <<T, U>>)
Replaced ==
    Plan(c1 :> X @@ c2 :> X @@ s1 :> T,
         c1 :> "p" @@ c2 :> "p" @@ s1 :> "q", c1 :> "q" @@ c2 :> "q" @@ s1 :> "p",
         c1 :> <<do("cancel")>> @@ c2 :> <<>> @@ s1 :> <<>>, <<T>>)

\* The server's program ends while a client may still connect, and with two sessions.
Stopped == Ending(One(<<>>, <<do("cancel")>>))
StoppedTwo ==
    Ending(Plan(s1 :> T @@ s2 :> U, s1 :> "q" @@ s2 :> "q", s1 :> "p" @@ s2 :> "p",
                s1 :> <<do("cancel")>> @@ s2 :> <<do("cancel")>>, <<T, U>>))

\* It ends when a socket of the session may still wait for a channel.
LeftOver == Ending([Replaced EXCEPT !.script[c1] = <<>>])

NetworkPlans ==
    {Talk, Parallel(Short), CancelBoth, Tries(CancelOne, 2), CancelKeeps, CloseCancel,
     CancelThenClose, CloseTwice, CutOff,
     TwoNames, TwoSessions, Replaced, Stopped, StoppedTwo, LeftOver}

\* Smaller ones for the properties that need fairness.
FairPlans ==
    {CutEarly, CutBoth, Calm(Tries(One(<<>>, <<>>), 2)), Ending(One(<<>>, <<do("cancel")>>))}

\* A program that closes a channel again, and one that cancels both ends of a conversation.
ClosingPlans == {CancelThenClose, CloseTwice}
CutPlans == {CutBoth}

\* A client whose timers run on another thread.
ParallelPlans == {Parallel(Tries(One(<<>>, <<>>), 3))}

\* The first tasks of a channel whose thread makes no calls, or waits for its first message,
\* change nothing but the channel, and lead to the same whenever they run: they need not be
\* interleaved with the steps of others.
LocalFirst ==
    LET waits(c) == Calls(c) = {} \/ (pc[c].at = 2 /\ ~Returned(c, 1))
        local == {c \in Used : /\ Opened(c) /\ waits(c) /\ base[c].strand # <<>>
                               /\ Head(base[c].strand).do \in {"start", "handle"}}
        first == CHOOSE c \in local : TRUE
    IN  local # {} => /\ base' = [base EXCEPT ![first] = base'[first]]
                      /\ UNCHANGED <<pc, conn, acc, ending>>
=============================================================================
