--------------------------- MODULE AgentSession ---------------------------
(***************************************************************************)
(* The link between the host and the helper in the guest: the host's       *)
(* agent.Client (src/agent/client.go) and the guest's agent.Serve          *)
(* (src/agent/server.go), over one ordered connection.  Modelled: the      *)
(* calls and the responses matched to them, the terminal and the           *)
(* observation each side believes to be current, the login shells, Freeze  *)
(* and Thaw, hangup and loss of the connection.  What the observation      *)
(* reports is the subject of AgentHome; here an event is only a frame.     *)
(* Keys and output change nothing that is modelled and are left out.       *)
(*                                                                         *)
(* A call registers its terminal or observation, sends its request, waits, *)
(* and settles; each is a step, as Client.mu is released in between.  The  *)
(* server's requests run one at a time under server.mu.                    *)
(***************************************************************************)
EXTENDS Naturals, Sequences, FiniteSets

CONSTANTS
    Caller,       \* goroutines of the host that use the client
    Ops,          \* the calls they make
    Expires,      \* whether their contexts may end before the response
    LossBy,       \* bound: calls made before the link is lost or hung up, and
                  \* in all when it is
    Buffer,       \* watchBuffer, the capacity of clientObs.events
    MaxCalls,     \* bound: calls ever made
    MaxFrames     \* bound: events ever sent

Methods == {"attach", "detach", "watch", "unwatch", "freeze", "thaw", "replace"}

ASSUME AgentAssumption ==
    /\ Ops \subseteq Methods
    /\ Expires \in BOOLEAN
    /\ {LossBy, Buffer, MaxCalls, MaxFrames} \subseteq Nat /\ LossBy <= MaxCalls

\* Client.seq and Client.stream only ever make unused numbers, so one
\* counter serves both: a call and the stream it opens have one number.
Number == 1 .. MaxCalls
Nothing == 0

VARIABLES
    client,    \* Client: term and obs (streams), closed, and reading
    last,      \* the last number used
    pending,   \* Client.pending: the calls that wait for a response
    answer,    \* the channel of each call: empty, or a status
    calls,     \* what every caller is doing
    terms,     \* clientTerm of each stream: closed, and dead with a status
    obs,       \* clientObs of each stream: queue, and failed with a status
    handles,   \* the terminals and observations that were returned
    aborting,  \* observations whose abort has still to send unwatch
    expired,   \* history: the calls whose context ended first
    panicked,  \* the host process died of a send on a closed channel
    server,    \* server: frozen, term, watching, watchStream, poll, serving
    shells,    \* the login shell of each stream, with its copyPty
    up,        \* the connection
    toServer, toClient,
    frames     \* how many events were sent

clientVars == <<client, last, pending, answer, calls, terms, obs, handles,
                aborting, expired, panicked>>
serverVars == <<server, shells>>
linkVars == <<up, toServer, toClient, frames>>
vars == <<clientVars, serverVars, linkVars>>

Idle == [pc |-> "idle", op |-> "none", seq |-> Nothing, stream |-> Nothing]

Init ==
    /\ client = [term |-> Nothing, obs |-> Nothing, closed |-> FALSE,
                 reading |-> TRUE]
    /\ last = 0
    /\ pending = {}
    /\ answer = [n \in Number |-> "empty"]
    /\ calls = [c \in Caller |-> Idle]
    /\ terms = [n \in Number |-> [closed |-> FALSE, dead |-> "no"]]
    /\ obs = [n \in Number |-> [queue |-> 0, failed |-> "no"]]
    /\ handles = {}
    /\ aborting = {}
    /\ panicked = FALSE
    /\ server = [frozen |-> FALSE, term |-> Nothing, watching |-> FALSE,
                 watchStream |-> Nothing, poll |-> FALSE, serving |-> TRUE]
    /\ shells = [n \in Number |-> "none"]
    /\ up = TRUE
    /\ toServer = <<>>
    /\ toClient = <<>>
    /\ frames = 0
    /\ expired = {}

----------------------------------------------------------------------------
(* Frames.  A send on a connection that is down fails and sends nothing.   *)

Request(method, seq, stream) ==
    [kind |-> "request", method |-> method, seq |-> seq, stream |-> stream]
Response(seq, status) ==
    [kind |-> "response", seq |-> seq, stream |-> Nothing, status |-> status]
Pty(stream, status) ==
    [kind |-> "pty", seq |-> Nothing, stream |-> stream, status |-> status]
WatchFrame(stream, status) ==
    [kind |-> "watch", seq |-> Nothing, stream |-> stream, status |-> status]

SendRequest(f) == toServer' = IF up THEN Append(toServer, f) ELSE toServer
SendAll(fs) == toClient' = IF up THEN toClient \o fs ELSE toClient

----------------------------------------------------------------------------
(* Faults: what the code would do without one of its precautions.          *)

StillPending(n) == pending
LeaveWaiting(status) == answer
ForgetTerm(n) == [server EXCEPT !.term = Nothing]
LeaveShell == UNCHANGED shells
SilentEnd(status) == <<>>

----------------------------------------------------------------------------
(* The host's objects.                                                     *)

\* clientTerm.hangup and clientObs.fail: only the first reason counts.
HungUp(n, status) == IF terms[n].dead = "no" THEN status ELSE terms[n].dead
Failed(n, status) == IF obs[n].failed = "no" THEN status ELSE obs[n].failed

HangupTerm(n, status) ==
    terms' = IF n = Nothing THEN terms
             ELSE [terms EXCEPT ![n].dead = HungUp(n, status)]
FailObs(n, status) ==
    obs' = IF n = Nothing THEN obs
           ELSE [obs EXCEPT ![n].failed = Failed(n, status)]

\* What the client's slots are once a call gives up stream n.
TermWithout(n) == IF client.term = n THEN Nothing ELSE client.term
ObsWithout(n) == IF client.obs = n THEN Nothing ELSE client.obs

\* What Client.pending is once call n was taken out of it.
Answered(n) == pending \ {n}

\* push: the channel takes one more event.
Room(n) == obs[n].queue < Buffer

\* The check in call: no request is made on a client that hung up.
Closed == client.closed

----------------------------------------------------------------------------
(* Calls.                                                                  *)

CallBound == IF up /\ ~client.closed THEN MaxCalls ELSE LossBy

Begin(c, op, stream) ==
    /\ ~panicked
    /\ op \in Ops
    /\ calls[c].pc = "idle"
    /\ last < CallBound
    /\ last' = last + 1
    /\ calls' = [calls EXCEPT ![c] = [pc |-> "send", op |-> op, seq |-> last + 1,
                     stream |-> IF stream = Nothing THEN last + 1 ELSE stream]]
    /\ UNCHANGED <<pending, answer, handles, aborting, expired, panicked,
                   serverVars, linkVars>>

\* Client.Attach and Client.Watch: without a current one, this one is it.
Attach(c) ==
    /\ client.term = Nothing
    /\ Begin(c, "attach", Nothing)
    /\ client' = [client EXCEPT !.term = last + 1]
    /\ UNCHANGED <<terms, obs>>

Watch(c) ==
    /\ client.obs = Nothing
    /\ Begin(c, "watch", Nothing)
    /\ client' = [client EXCEPT !.obs = last + 1]
    /\ UNCHANGED <<terms, obs>>

\* clientTerm.Close and clientObs.Close; the latter closes the channel.
CloseTerm(c, n) ==
    /\ <<"attach", n>> \in handles
    /\ Begin(c, "detach", n)
    /\ terms' = [terms EXCEPT ![n].closed = TRUE]
    /\ UNCHANGED <<client, obs>>

CloseObs(c, n) ==
    /\ <<"watch", n>> \in handles
    /\ Begin(c, "unwatch", n)
    /\ FailObs(n, "closed")
    /\ UNCHANGED <<client, terms>>

\* Client.Freeze, Client.Thaw and Client.ReplaceTree
Plain(c, op) ==
    /\ op \in {"freeze", "thaw", "replace"}
    /\ Begin(c, op, Nothing)
    /\ UNCHANGED <<client, terms, obs>>

\* How a call settles, given the status it ended with.
Settle(c, status) ==
    LET n == calls[c].stream
        op == calls[c].op
        good == status = "ok"
    IN  /\ calls' = [calls EXCEPT ![c] = Idle]
        /\ handles' = IF good /\ op \in {"attach", "watch"}
                      THEN handles \cup {<<op, n>>} ELSE handles
        /\ client' = [client EXCEPT
               !.term = CASE op = "attach" /\ ~good -> TermWithout(n)
                          [] op = "detach" -> TermWithout(n)
                          [] op = "freeze" -> Nothing
                          [] OTHER -> @,
               !.obs = IF op = "unwatch" \/ (op = "watch" /\ ~good)
                       THEN ObsWithout(n) ELSE @]
        /\ CASE op = "attach" /\ ~good -> HangupTerm(n, status)
             [] op = "freeze" -> HangupTerm(client.term, "frozen")
             [] OTHER -> UNCHANGED terms
        /\ IF op = "watch" /\ ~good THEN FailObs(n, status) ELSE UNCHANGED obs
        /\ UNCHANGED <<last, aborting, panicked, serverVars>>

\* call, up to the wait for the response.
Send(c) ==
    /\ ~panicked
    /\ calls[c].pc = "send"
    /\ \/ /\ ~Closed /\ up
          /\ pending' = pending \cup {calls[c].seq}
          /\ SendRequest(Request(calls[c].op, calls[c].seq, calls[c].stream))
          /\ calls' = [calls EXCEPT ![c].pc = "wait"]
          /\ UNCHANGED <<client, last, answer, terms, obs, handles, aborting,
                         expired, panicked, serverVars, up, toClient, frames>>
       \/ /\ Closed \/ ~up
          /\ Settle(c, "unavailable")
          /\ UNCHANGED <<pending, answer, expired, linkVars>>

\* call: the response is there.  Its channel is not used again.
Return(c) ==
    /\ ~panicked
    /\ calls[c].pc = "wait"
    /\ answer[calls[c].seq] # "empty"
    /\ Settle(c, answer[calls[c].seq])
    /\ answer' = [answer EXCEPT ![calls[c].seq] = "empty"]
    /\ UNCHANGED <<pending, expired, linkVars>>

\* call: the context ended first.  Close waits in the background context.
Expire(c) ==
    /\ ~panicked
    /\ Expires
    /\ calls[c].pc = "wait"
    /\ calls[c].op \notin {"detach", "unwatch"}
    /\ pending' = pending \ {calls[c].seq}
    /\ Settle(c, "canceled")
    /\ expired' = expired \cup {calls[c].seq}
    /\ UNCHANGED <<answer, linkVars>>

\* clientObs.Next
ObsNext(n) ==
    /\ ~panicked
    /\ <<"watch", n>> \in handles
    /\ obs[n].failed = "no" /\ obs[n].queue > 0
    /\ obs' = [obs EXCEPT ![n].queue = @ - 1]
    /\ UNCHANGED <<client, last, pending, answer, calls, terms, handles,
                   aborting, expired, panicked, serverVars, linkVars>>

\* The goroutine of clientObs.abort; nobody reads its response.
AbortUnwatch(n) ==
    /\ ~panicked
    /\ n \in aborting
    /\ last < CallBound
    /\ last' = last + 1
    /\ aborting' = aborting \ {n}
    /\ IF Closed \/ ~up THEN UNCHANGED <<pending, toServer>>
       ELSE /\ pending' = pending \cup {last + 1}
            /\ SendRequest(Request("unwatch", last + 1, n))
    /\ UNCHANGED <<client, answer, calls, terms, obs, handles, expired, panicked,
                   serverVars, up, toClient, frames>>

----------------------------------------------------------------------------
(* The client's read loop, and hangup.                                     *)

RecvResponse(f) ==
    /\ f.kind = "response"
    /\ IF f.seq \in pending
       THEN /\ answer' = [answer EXCEPT ![f.seq] = f.status]
            /\ pending' = Answered(f.seq)
       ELSE UNCHANGED <<answer, pending>>
    /\ UNCHANGED <<client, terms, obs, aborting, panicked, up>>

\* deliverPty.  A frame without a status is output, even without bytes.
RecvPty(f) ==
    /\ f.kind = "pty"
    /\ IF f.stream = client.term /\ f.status # "ok"
       THEN HangupTerm(f.stream, f.status) ELSE UNCHANGED terms
    /\ UNCHANGED <<client, pending, answer, obs, aborting, panicked, up>>

\* deliverWatch, with clientObs.push.
RecvWatch(f) ==
    /\ f.kind = "watch"
    /\ CASE f.stream # client.obs ->
              UNCHANGED <<client, obs, aborting, panicked, up>>
         [] f.stream = client.obs /\ f.status # "ok" ->
              /\ client' = [client EXCEPT !.obs = Nothing]
              /\ FailObs(f.stream, f.status)
              /\ UNCHANGED <<aborting, panicked, up>>
         [] f.stream = client.obs /\ f.status = "ok" ->
              \/ /\ obs[f.stream].failed # "no"
                 /\ panicked' = TRUE
                 /\ up' = FALSE
                 /\ UNCHANGED <<client, obs, aborting>>
              \/ /\ obs[f.stream].failed = "no" /\ Room(f.stream)
                 /\ obs' = [obs EXCEPT ![f.stream].queue = @ + 1]
                 /\ UNCHANGED <<client, aborting, panicked, up>>
              \/ /\ obs[f.stream].failed = "no" /\ ~Room(f.stream)
                 /\ client' = [client EXCEPT !.obs = Nothing]
                 /\ FailObs(f.stream, "lagged")
                 /\ aborting' = aborting \cup {f.stream}
                 /\ UNCHANGED <<panicked, up>>
    /\ UNCHANGED <<pending, answer, terms>>

ClientRecv ==
    /\ ~panicked /\ client.reading
    /\ toClient # <<>>
    /\ toClient' = Tail(toClient)
    /\ LET f == Head(toClient) IN RecvResponse(f) \/ RecvPty(f) \/ RecvWatch(f)
    /\ UNCHANGED <<last, calls, handles, expired, serverVars, toServer, frames>>

\* The channels of the calls once those that are pending have failed.
FailedAnswers(status) ==
    [n \in Number |-> IF n \in pending THEN status ELSE answer[n]]

\* What Hangup and failAll do to all that is pending or live.
FailEverything(status, hangup, reading) ==
    /\ client' = [term |-> Nothing, obs |-> Nothing, closed |-> TRUE,
                  reading |-> reading]
    /\ answer' = FailedAnswers(status)
    /\ pending' = {}
    /\ HangupTerm(client.term, hangup)
    /\ FailObs(client.obs, hangup)
    /\ UNCHANGED <<last, calls, handles, aborting, expired, panicked, serverVars>>

\* Client.Hangup, by a revocation or by Client.Close.
Hangup ==
    /\ last <= LossBy
    /\ ~panicked /\ ~client.closed
    /\ FailEverything("revoked", "revoked", client.reading)
    /\ UNCHANGED linkVars

\* readLoop's end: failAll.
ClientLost ==
    /\ ~panicked /\ client.reading
    /\ ~up
    /\ FailEverything("unavailable", "closed", FALSE)
    /\ toClient' = <<>>
    /\ UNCHANGED <<up, toServer, frames>>

\* The connection goes away: closed by the host, or the machine is gone.
LinkDown ==
    /\ last <= LossBy
    /\ up
    /\ up' = FALSE
    /\ UNCHANGED <<clientVars, serverVars, toServer, toClient, frames>>

----------------------------------------------------------------------------
(* The guest's server.                                                     *)

\* killShell: the shell is hung up, and its copyPty will see the end.
KillShell ==
    shells' = IF server.term = Nothing THEN shells
              ELSE [shells EXCEPT ![server.term] = "killed"]

\* The end of the observation that stopPoll and invalidateWatch send.
EndOfWatch(status) ==
    IF server.watching THEN <<WatchFrame(server.watchStream, status)>> ELSE <<>>

\* The server once copyPty of stream n has ended.
WithoutTerm(n) == IF server.term = n THEN [server EXCEPT !.term = Nothing] ELSE server

\* The server once it started the shell that request f asks for.
Attached(f) == [server EXCEPT !.term = f.stream]

\* A request is refused: its deadline passed, the machine is frozen, the
\* place is taken, or the operation fails.
Refusals(f) ==
    LET ctx == f.method \notin {"detach", "unwatch"}
        guarded == f.method \in {"attach", "watch", "replace"}
        taken == \/ f.method = "attach" /\ server.term # Nothing
                 \/ f.method = "watch" /\ server.watching
    IN  (IF ctx /\ Expires THEN {"canceled"} ELSE {})
        \cup (IF guarded /\ server.frozen THEN {"frozen"}
              ELSE IF guarded /\ taken THEN {"busy"}
              ELSE IF guarded THEN {"unavailable"} ELSE {})

Refuse(f) ==
    /\ f.kind = "request"
    /\ \E status \in Refusals(f) : SendAll(<<Response(f.seq, status)>>)
    /\ UNCHANGED <<serverVars, frames>>

AttachShell(f) ==
    /\ f.method = "attach" /\ ~server.frozen /\ server.term = Nothing
    /\ server' = Attached(f)
    /\ shells' = [shells EXCEPT ![f.stream] = "running"]
    /\ SendAll(<<Response(f.seq, "ok")>>)
    /\ UNCHANGED frames

Detach(f) ==
    /\ f.method = "detach"
    /\ IF server.term = f.stream
       THEN KillShell /\ server' = [server EXCEPT !.term = Nothing]
       ELSE UNCHANGED <<server, shells>>
    /\ SendAll(<<Response(f.seq, "ok")>>)
    /\ UNCHANGED frames

\* Replayed events precede the response.
StartWatch(f) ==
    /\ f.method = "watch" /\ ~server.frozen /\ ~server.watching
    /\ server' = [server EXCEPT !.watching = TRUE, !.watchStream = f.stream,
                                !.poll = TRUE]
    /\ \E n \in 0 .. 1 :
           /\ frames + n <= MaxFrames
           /\ frames' = frames + n
           /\ SendAll([i \in 1 .. n |-> WatchFrame(f.stream, "ok")]
                      \o <<Response(f.seq, "ok")>>)
    /\ UNCHANGED shells

Unwatch(f) ==
    /\ f.method = "unwatch"
    /\ server' = IF server.watchStream = f.stream
                 THEN [server EXCEPT !.watching = FALSE, !.watchStream = Nothing]
                 ELSE server
    /\ SendAll(<<Response(f.seq, "ok")>>)
    /\ UNCHANGED <<shells, frames>>

Freeze(f) ==
    /\ f.method = "freeze"
    /\ KillShell
    /\ server' = [server EXCEPT !.frozen = TRUE, !.term = Nothing, !.poll = FALSE,
                                !.watching = FALSE, !.watchStream = Nothing]
    /\ SendAll(EndOfWatch("frozen") \o <<Response(f.seq, "ok")>>)
    /\ UNCHANGED frames

Thaw(f) ==
    /\ f.method = "thaw"
    /\ server' = [server EXCEPT !.frozen = FALSE]
    /\ SendAll(<<Response(f.seq, "ok")>>)
    /\ UNCHANGED <<shells, frames>>

Replace(f) ==
    /\ f.method = "replace" /\ ~server.frozen
    /\ server' = IF server.watching
                 THEN [server EXCEPT !.watching = FALSE, !.watchStream = Nothing]
                 ELSE server
    /\ SendAll(EndOfWatch("lagged") \o <<Response(f.seq, "ok")>>)
    /\ UNCHANGED <<shells, frames>>

Handle(f) ==
    /\ f.kind = "request"
    /\ \/ AttachShell(f) \/ Detach(f) \/ StartWatch(f) \/ Unwatch(f)
       \/ Freeze(f) \/ Thaw(f) \/ Replace(f)

\* Serve: one frame.
Serve ==
    /\ server.serving
    /\ toServer # <<>>
    /\ toServer' = Tail(toServer)
    /\ LET f == Head(toServer) IN Refuse(f) \/ Handle(f)
    /\ UNCHANGED <<clientVars, up>>

\* Serve's end: shutdown.
ServerLost ==
    /\ server.serving
    /\ ~up
    /\ KillShell
    /\ server' = [server EXCEPT !.serving = FALSE, !.term = Nothing, !.poll = FALSE,
                                !.watching = FALSE, !.watchStream = Nothing]
    /\ toServer' = <<>>
    /\ UNCHANGED <<clientVars, up, toClient, frames>>

\* The login shell ends by itself.
ShellExits(n) ==
    /\ shells[n] = "running"
    /\ shells' = [shells EXCEPT ![n] = "exited"]
    /\ UNCHANGED <<clientVars, server, linkVars>>

\* copyPty: the read failed.  ptyEndStatus makes end of file and EIO the
\* empty status; a master closed by killShell may also be "unavailable".
CopyPtyEnds(n) ==
    /\ shells[n] \in {"exited", "killed"}
    /\ server' = WithoutTerm(n)
    /\ \E status \in (IF server.frozen THEN {"frozen"}
                      ELSE IF shells[n] = "exited" THEN {"ok"}
                      ELSE {"ok", "unavailable"}) :
           SendAll(<<Pty(n, status)>>)
    /\ shells' = [shells EXCEPT ![n] = "done"]
    /\ UNCHANGED <<clientVars, up, toServer, frames>>

\* diffOnce: an event, or more of them than the log holds.
Poll ==
    /\ server.poll /\ server.watching
    /\ \/ /\ frames < MaxFrames
          /\ IF up THEN UNCHANGED server
             ELSE server' = [server EXCEPT !.poll = FALSE, !.watching = FALSE,
                                           !.watchStream = Nothing]
          /\ frames' = frames + 1
          /\ SendAll(<<WatchFrame(server.watchStream, "ok")>>)
       \/ /\ server' = [server EXCEPT !.watching = FALSE, !.watchStream = Nothing]
          /\ SendAll(EndOfWatch("lagged"))
          /\ UNCHANGED frames
    /\ UNCHANGED <<clientVars, shells, up, toServer>>

----------------------------------------------------------------------------
CallerStep(c) ==
    \/ Attach(c) \/ Watch(c) \/ Send(c) \/ Return(c) \/ Expire(c)
    \/ \E n \in Number : CloseTerm(c, n) \/ CloseObs(c, n)
    \/ \E op \in Ops : Plain(c, op)

Next ==
    \/ \E c \in Caller : CallerStep(c)
    \/ \E n \in Number :
           \/ ObsNext(n) \/ AbortUnwatch(n)
           \/ ShellExits(n) \/ CopyPtyEnds(n)
    \/ ClientRecv \/ Hangup \/ ClientLost \/ LinkDown
    \/ Serve \/ ServerLost \/ Poll

Spec == Init /\ [][Next]_vars

----------------------------------------------------------------------------
(* Properties.                                                             *)

\* Nobody ever puts a second status into the one-place channel of a call:
\* the read loop, Hangup and failAll send to it while others wait for
\* Client.mu or for the next frame, and would block (client.go).
OneAnswer == \A n \in pending : answer[n] = "empty"

\* A login shell that runs is the one the server knows: the late end of an
\* earlier shell's copyPty, a detach of another stream or a freeze that
\* overlaps an attach never make the server forget it (server.go).
RunningShellIsKnown ==
    \A n \in Number : shells[n] = "running" => server.term = n

\* Somebody holds, or is about to get or to close, the terminal of stream n.
Owned(n) ==
    \/ <<"attach", n>> \in handles /\ ~terms[n].closed
    \/ \E c \in Caller :
           calls[c].stream = n /\ calls[c].op \in {"attach", "detach"}

\* While the link is usable, a running shell belongs to a terminal that a
\* caller can still close, unless the context of its own Attach ended before
\* the response: Attach that fails starts nothing, Close leaves nothing
\* running, and no cancelled Freeze or late frame takes a shell away from
\* its terminal.
ShellHasOwner ==
    \A n \in Number : shells[n] = "running" =>
        Owned(n) \/ client.closed \/ ~up \/ n \in expired

\* An observation in a caller's hands that has not failed is served, or the
\* frame that ends it is on its way: ReplaceTree, Freeze, an overflow and the
\* unwatch of an earlier observation never leave it waiting for events that
\* cannot come (stopPoll, invalidateWatch, unwatch).
NoSilentObservation ==
    \A n \in Number :
        <<"watch", n>> \in handles /\ obs[n].failed = "no" /\ up =>
            \/ server.watching /\ server.watchStream = n
            \/ \E i \in DOMAIN toClient :
                   toClient[i].kind = "watch" /\ toClient[i].stream = n
                       /\ toClient[i].status # "ok"

\* A call that waits has its answer, or is pending with a read loop that will
\* bring one: its request or its response is on the way, or the connection is
\* gone and failAll still to come.  None is left waiting, in whatever order the
\* request, the hangup and the end of the connection reach the client.
NobodyStranded ==
    \A c \in Caller : calls[c].pc = "wait" /\ ~panicked =>
        LET n == calls[c].seq
        IN  \/ answer[n] # "empty"
            \/ /\ n \in pending
               /\ client.reading
               /\ up => \/ \E i \in DOMAIN toServer : toServer[i].seq = n
                        \/ \E i \in DOMAIN toClient :
                               toClient[i].kind = "response" /\ toClient[i].seq = n

----------------------------------------------------------------------------
(* What the code does not guarantee, although callers may expect it: each  *)
(* of these has a short counterexample, which the README describes.        *)

\* An observation on which deliverWatch puts an event has an open channel:
\* a send on the channel that Close closed is a panic of the host.
NoSendOnClosedChannel == ~panicked

\* An Attach the server answers with ErrBusy meets a terminal that a caller
\* can close.
BusyUntilClose ==
    server.term # Nothing => Owned(server.term) \/ client.closed

\* When the login shell has ended and the link has nothing more of it, the
\* terminal's reader was told, unless it hung up itself.
ShellExitIsHangup ==
    \A n \in Number :
        /\ shells[n] = "done" /\ <<"attach", n>> \in handles /\ up
        /\ \A i \in DOMAIN toClient :
               toClient[i].kind = "pty" => toClient[i].stream # n
        => terms[n].dead # "no" \/ terms[n].closed
=============================================================================
