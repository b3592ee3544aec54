---------------------------- MODULE RemoteClient ----------------------------
(***************************************************************************)
(* The client of the daemon (src/remote/client.go): the calls its callers  *)
(* make, each with a deadline of its own, the terminals and observations   *)
(* it hands out, and the read loop.  The daemon at the other end is        *)
(* serverConn as RemoteConn shows it to be while the connection is up: it  *)
(* takes the operations of a grant one at a time and in order              *)
(* (ArrivalOrder), detach and unwatch reach what they name                 *)
(* (InUseIsReachable), and copyPty and copyWatch run beside them.  What it *)
(* does after the connection has ended is no concern of the client, nor is *)
(* what a guest is left with when its host gives a call up: that a shell   *)
(* may outlive an Attach that was refused is shown by AgentSession.        *)
(*                                                                         *)
(* A terminal or an observation has the number of the call that opened it, *)
(* for the stream.  Calls that concern neither (Ready, ReplaceTree, Apply, *)
(* Open, Thaw, Resize) only wait for their answer, and are left out, as    *)
(* is what is written to terminals and read from them.                     *)
(***************************************************************************)
EXTENDS Naturals, Sequences

CONSTANTS
    Grant,
    Methods,      \* what callers ask for
    MaxCalls,     \* bound: frames the client sends
    MaxEvents     \* bound: events the daemon sends

ASSUME ClientAssumption ==
    /\ Methods \subseteq {"ensure", "revoke", "attach", "detach", "watch",
                          "unwatch", "freeze"}
    /\ {MaxCalls, MaxEvents} \subseteq Nat

Nothing == 0

VARIABLES
    calls,     \* method, grant and stream; what the daemon has done about it;
               \* what is in the channel of the call; and how the call returned
    toClient,  \* the frames the daemon has sent
    cterms,    \* Client.terms
    cobs,      \* Client.obs
    dead,      \* the terminals that were hung up, the observations that failed
    cclosed,   \* Client.closed
    loop,      \* readLoop: running, returned, or ended by a panic
    up,        \* the connection
    envs,      \* serverConn.envs
    open,      \* the terminals and observations the host handed out and did not end
    copying,   \* the ones that have a copyPty or a copyWatch
    events     \* how many events the daemon has sent

handleVars == <<cterms, cobs, dead>>
clientVars == <<handleVars, cclosed, loop>>
serverVars == <<envs, open, copying, events>>
vars == <<calls, toClient, clientVars, up, serverVars>>

\* The client has authenticated, and has had an answer to Ensure for its grants.
Init ==
    /\ calls = <<>>
    /\ toClient = <<>>
    /\ cterms = [g \in Grant |-> Nothing]
    /\ cobs = [g \in Grant |-> Nothing]
    /\ dead = {}
    /\ cclosed = FALSE
    /\ loop = "running"
    /\ up = TRUE
    /\ envs = Grant
    /\ open = {}
    /\ copying = {}
    /\ events = 0

Call == 1 .. Len(calls)

----------------------------------------------------------------------------
(* Faults: what the code would do without one of its precautions.          *)

DeletedOnly(g) == dead
ByObsStreams(n) == {s \in {calls[n].stream} : calls[s].method = "watch"}
FailedByAnswer(result) == result \in {"error", "lost"}

----------------------------------------------------------------------------
(* The daemon, as long as the connection is up.                            *)

Sent(kind, n) == Append(toClient, [kind |-> kind, of |-> n])

\* What the grant has in use.
InUse(g) == {s \in open : calls[s].grant = g}

\* It is the turn of operation n of this kind: the ones before it of its grant
\* are over.
Turn(n, methods) ==
    /\ up
    /\ calls[n].method \in methods
    /\ calls[n].server = "sent"
    /\ \A k \in 1 .. n - 1 :
           calls[k].grant = calls[n].grant => calls[k].server = "replied"

Handled(n, status) == calls' = [calls EXCEPT ![n].server = status]

\* The host refuses, an unknown grant is ErrRevoked, or the context is done: in
\* no case is the daemon given a terminal or an observation.
Refuse(n) ==
    /\ Turn(n, {"ensure", "attach", "watch", "freeze"})
    /\ Handled(n, "error")
    /\ UNCHANGED serverVars

Ensure(n) ==
    /\ Turn(n, {"ensure"})
    /\ Handled(n, "ok")
    /\ envs' = envs \cup {calls[n].grant}
    /\ UNCHANGED <<open, copying, events>>

\* attach and watch; the host is busy if there is one in use.
Opens(n) ==
    /\ Turn(n, {"attach", "watch"})
    /\ calls[n].grant \in envs
    /\ \A s \in InUse(calls[n].grant) : calls[s].method # calls[n].method
    /\ Handled(n, "ok")
    /\ open' = open \cup {n}
    /\ copying' = copying \cup {n}
    /\ UNCHANGED <<envs, events>>

\* What detach and unwatch close.
Named(n) == {calls[n].stream}

\* Close may fail, and then has ended it all the same.
Closes(n) ==
    /\ Turn(n, {"detach", "unwatch"})
    /\ Handled(n, "ok") \/ Handled(n, "error")
    /\ open' = open \ Named(n)
    /\ UNCHANGED <<envs, copying, events>>

\* What a Freeze of the grant ends for sure, and what it ends if it reaches the
\* agent; the host reports success in either case.
Frozen(g) == {s \in InUse(g) : calls[s].method = "attach"}

Freezes(n) ==
    /\ Turn(n, {"freeze"})
    /\ calls[n].grant \in envs
    /\ Handled(n, "ok")
    /\ \E ended \in {Frozen(calls[n].grant), InUse(calls[n].grant)} :
           open' = open \ ended
    /\ UNCHANGED <<envs, copying, events>>

\* revoke forgets the grant and closes, whatever the host answers then.
Revokes(n) ==
    /\ Turn(n, {"revoke"})
    /\ Handled(n, "ok") \/ Handled(n, "error")
    /\ open' = open \ InUse(calls[n].grant)
    /\ envs' = envs \ {calls[n].grant}
    /\ UNCHANGED <<copying, events>>

Reply(n) ==
    /\ up
    /\ calls[n].server \in {"ok", "error"}
    /\ toClient' = Sent(calls[n].server, n)
    /\ Handled(n, "replied")

\* The channel inflight is full, of operations of this or of other grants: a
\* request is refused where it is, without waiting for its turn.
Busy(n) ==
    /\ up
    /\ calls[n].server = "sent"
    /\ toClient' = Sent("error", n)
    /\ Handled(n, "replied")

\* copyPty and copyWatch say how it ended.
CopyEnds(s) ==
    /\ up
    /\ s \in copying \ open
    /\ copying' = copying \ {s}
    /\ toClient' = Sent("end", s)
    /\ UNCHANGED <<envs, open, events>>

\* copyWatch sends an event.
SendEvent(s) ==
    /\ up
    /\ s \in copying \cap open /\ calls[s].method = "watch"
    /\ events < MaxEvents
    /\ events' = events + 1
    /\ toClient' = Sent("event", s)
    /\ UNCHANGED <<envs, open, copying>>

\* The guest ended s, or another connection froze or revoked the grant.
Elsewhere(s) ==
    /\ up
    /\ s \in open
    /\ open' = open \ {s}
    /\ UNCHANGED <<envs, copying, events>>

\* The connection ends; from then on the model keeps nothing of the daemon.
Gone ==
    /\ up' = FALSE
    /\ calls' = [n \in Call |-> [calls[n] EXCEPT !.server = "sent"]]
    /\ open' = {} /\ copying' = {} /\ envs' = {}
    /\ UNCHANGED events

Drop == up /\ Gone

Server ==
    \/ /\ \E n \in Call : \/ Refuse(n) \/ Ensure(n) \/ Opens(n) \/ Closes(n)
                          \/ Freezes(n) \/ Revokes(n)
       /\ UNCHANGED <<toClient, clientVars, up>>
    \/ /\ \E n \in Call : Reply(n) \/ Busy(n)
       /\ UNCHANGED <<clientVars, up, serverVars>>
    \/ /\ \E s \in Call : CopyEnds(s) \/ SendEvent(s)
       /\ UNCHANGED <<calls, clientVars, up>>
    \/ /\ \E s \in Call : Elsewhere(s)
       /\ UNCHANGED <<calls, toClient, clientVars, up>>
    \/ /\ Drop
       /\ UNCHANGED <<toClient, clientVars>>

----------------------------------------------------------------------------
(* Calls.                                                                  *)

\* call, up to its select.
Calls(method, g, s) ==
    /\ ~cclosed
    /\ Len(calls) < MaxCalls
    /\ method \in Methods
    /\ calls' = Append(calls, [method |-> method, grant |-> g, stream |-> s,
                               server |-> "sent", answer |-> "none",
                               result |-> "none"])

\* Attach and Watch make their entry before they call.
Attach(g) ==
    LET s == Len(calls) + 1
    IN  /\ cterms[g] = Nothing
        /\ Calls("attach", g, s)
        /\ cterms' = [cterms EXCEPT ![g] = s]
        /\ UNCHANGED <<cobs, dead>>

Watch(g) ==
    LET s == Len(calls) + 1
    IN  /\ cobs[g] = Nothing
        /\ Calls("watch", g, s)
        /\ cobs' = [cobs EXCEPT ![g] = s]
        /\ UNCHANGED <<cterms, dead>>

\* A caller was given s by this method, and has not closed it.
Held(s, method) ==
    /\ calls[s].method = method
    /\ calls[s].result = "ok"
    /\ \A n \in Call : calls[n].stream = s => calls[n].method \notin {"detach", "unwatch"}

CloseTerminal(s) ==
    /\ Held(s, "attach")
    /\ Calls("detach", calls[s].grant, s)
    /\ UNCHANGED handleVars

\* The observation fails before the daemon is told.
CloseObservation(s) ==
    /\ Held(s, "watch")
    /\ dead' = dead \cup {s}
    /\ Calls("unwatch", calls[s].grant, s)
    /\ UNCHANGED <<cterms, cobs>>

\* Ensure, Freeze and Revoke.
Control(method, g) ==
    /\ method \in {"ensure", "freeze", "revoke"}
    /\ Calls(method, g, Nothing)
    /\ UNCHANGED handleVars

----------------------------------------------------------------------------
(* The end of a call, and what its caller does then.                       *)

\* The entries without s, if it is the one that is there.
Removed(entries, s) ==
    IF entries[calls[s].grant] = s THEN [entries EXCEPT ![calls[s].grant] = Nothing]
    ELSE entries

\* hangupTerm: whichever terminal the grant has by now is dead.
HungUp(g) == dead \cup ({cterms[g]} \ {Nothing})

\* call returned an error.
Failed(result) == result # "ok"

\* Attach and Watch that failed take their entry back; a number is in one of
\* the two maps at most.
OpenReturns(n, result) ==
    /\ calls[n].method \in {"attach", "watch"}
    /\ IF Failed(result)
       THEN /\ dead' = dead \cup {n}
            /\ cterms' = Removed(cterms, n)
            /\ cobs' = Removed(cobs, n)
       ELSE UNCHANGED handleVars

CloseReturns(n) ==
    /\ calls[n].method \in {"detach", "unwatch"}
    /\ cterms' = Removed(cterms, calls[n].stream)
    /\ cobs' = Removed(cobs, calls[n].stream)
    /\ UNCHANGED dead

\* Freeze and Revoke of an environment, whatever the answer.
EndReturns(n) ==
    /\ calls[n].method \in {"freeze", "revoke"}
    /\ dead' = HungUp(calls[n].grant)
    /\ cterms' = [cterms EXCEPT ![calls[n].grant] = Nothing]
    /\ UNCHANGED cobs

\* The select finds the answer, or finds that the context is done.  Revoke
\* of the client itself, unlike that of an environment, hangs up nothing.
Returns(n) ==
    \E result \in {calls[n].answer, "expired"} \ {"none"} :
        /\ calls[n].result = "none"
        /\ calls' = [calls EXCEPT ![n].result = result, ![n].answer = "none"]
        /\ \/ OpenReturns(n, result) \/ CloseReturns(n) \/ EndReturns(n)
           \/ calls[n].method \in {"ensure", "revoke"} /\ UNCHANGED handleVars

----------------------------------------------------------------------------
(* The read loop.                                                          *)

\* An answer finds its call, unless that has returned.
ReadResponse(n, status) ==
    /\ calls' = IF calls[n].result = "none" THEN [calls EXCEPT ![n].answer = status]
                ELSE calls
    /\ UNCHANGED handleVars

\* finishObservation.
FinishObservation(s) ==
    /\ cobs' = Removed(cobs, s)
    /\ dead' = dead \cup {s}
    /\ UNCHANGED cterms

\* deliverPty and deliverWatch, of a frame that ends s.  A terminal keeps its
\* entry until it is closed.
ReadEnd(s) ==
    LET g == calls[s].grant
    IN  /\ \/ cterms[g] = s /\ dead' = dead \cup {s} /\ UNCHANGED <<cterms, cobs>>
           \/ cobs[g] = s /\ FinishObservation(s)
           \/ s \notin {cterms[g], cobs[g]} /\ UNCHANGED handleVars
        /\ UNCHANGED calls

\* deliverWatch, of an event of a stream that is or is not the current one.
\* There is room for it, or the caller is too slow: then the observation fails
\* and the daemon is told on its behalf (push, abort).
ReadEvent(s) ==
    LET current == cobs[calls[s].grant] = s
    IN  /\ current => s \notin dead
        /\ \/ UNCHANGED <<calls, handleVars>>
           \/ /\ current
              /\ FinishObservation(s)
              /\ IF cclosed THEN UNCHANGED calls
                 ELSE Calls("unwatch", calls[s].grant, s)

Read ==
    /\ loop = "running" /\ toClient # <<>>
    /\ LET f == Head(toClient)
       IN  \/ f.kind \in {"ok", "error"} /\ ReadResponse(f.of, f.kind)
           \/ f.kind = "end" /\ ReadEnd(f.of)
           \/ f.kind = "event" /\ ReadEvent(f.of)
    /\ toClient' = Tail(toClient)

\* push sends to the channel that Close has closed, while the entry is still
\* there: the process ends.
Panic ==
    /\ loop = "running" /\ toClient # <<>>
    /\ Head(toClient).kind = "event"
    /\ LET s == Head(toClient).of IN cobs[calls[s].grant] = s /\ s \in dead
    /\ loop' = "panicked"
    /\ Gone
    /\ UNCHANGED <<toClient, handleVars, cclosed>>

\* What is in the channels once failAll has answered the pending calls.
FailedCalls ==
    [n \in Call |-> IF calls[n].result = "none" /\ calls[n].answer = "none"
                    THEN [calls[n] EXCEPT !.answer = "lost"] ELSE calls[n]]

\* Recv failed.  What was not read is lost.
FailAll ==
    /\ loop = "running" /\ ~up
    /\ loop' = "returned"
    /\ cclosed' = TRUE
    /\ calls' = FailedCalls
    /\ dead' = (dead \cup {cterms[g] : g \in Grant} \cup {cobs[g] : g \in Grant})
               \ {Nothing}
    /\ cterms' = [g \in Grant |-> Nothing]
    /\ cobs' = [g \in Grant |-> Nothing]
    /\ toClient' = <<>>

\* Client.Close.
Close ==
    /\ ~cclosed
    /\ cclosed' = TRUE
    /\ Gone
    /\ UNCHANGED <<toClient, handleVars, loop>>

Client ==
    /\ loop # "panicked"
    /\ \/ /\ \/ \E g \in Grant : \/ Attach(g) \/ Watch(g)
                                 \/ \E m \in Methods : Control(m, g)
             \/ \E n \in Call : CloseTerminal(n) \/ CloseObservation(n) \/ Returns(n)
          /\ UNCHANGED <<toClient, cclosed, loop, up, serverVars>>
       \/ Read /\ UNCHANGED <<cclosed, loop, up, serverVars>>
       \/ FailAll /\ UNCHANGED <<up, serverVars>>
       \/ Panic \/ Close

Next == Server \/ Client

Spec == Init /\ [][Next]_vars

----------------------------------------------------------------------------
(* Properties.                                                             *)

\* What a caller holds and nobody has hung up can still hear of its end: the
\* client has its entry, and the daemon copies from it or has said that it
\* ended.  No Read and no Next waits for ever, however a Freeze that returns
\* late, an end that overtakes the answer to Attach and the end of the
\* connection meet (Attach, Watch, hangupTerm, deliverPty, failAll).
NoSilentHandle ==
    loop # "panicked" => \A s \in Call :
        (Held(s, "attach") \/ Held(s, "watch")) /\ s \notin dead =>
            /\ s \in {cterms[calls[s].grant], cobs[calls[s].grant]}
            /\ up => \/ s \in copying
                     \/ \E k \in 1 .. Len(toClient) :
                            toClient[k] = [kind |-> "end", of |-> s]

\* Close, Freeze and Revoke that succeeded ended what they were about: a Close
\* the terminal or observation it names, a Freeze the terminals that earlier
\* calls of its grant opened, a Revoke the observations as well.  The host does
\* not have them in use, whatever late calls were made in between (detach,
\* unwatch, freeze, revoke).
SuccessEndsThem ==
    up => \A n \in Call, s \in open :
        calls[n].result = "ok" =>
            /\ calls[n].method \in {"detach", "unwatch"} => s # calls[n].stream
            /\ s < n /\ calls[s].grant = calls[n].grant =>
                  /\ calls[n].method # "revoke"
                  /\ calls[n].method = "freeze" => calls[s].method # "attach"

\* The client refuses an Attach or a Watch as busy only on behalf of one that
\* is under way or that its caller has not finished closing: the entries of
\* calls that failed, expired or were closed are gone.
EntriesHaveOwners ==
    \A s \in Call : s \in {cterms[calls[s].grant], cobs[calls[s].grant]} =>
        /\ calls[s].result \in {"none", "ok"}
        /\ \A n \in Call : calls[n].stream = s /\ n # s => calls[n].result = "none"

----------------------------------------------------------------------------
(* What the code does not guarantee, although callers may expect it: the   *)
(* README describes the counterexamples.                                   *)

\* Close of an observation may be called while events arrive.
CloseIsSafe == loop # "panicked"

\* An Attach or a Watch that expired for its caller holds nothing on the host
\* once the daemon is through with it.
ExpiredHoldsNothing ==
    up => \A s \in open : calls[s].result = "expired" => calls[s].server # "replied"

\* A terminal that is in use on the host is not dead for the caller that holds
\* it: Freeze and Revoke hang up the terminal of the grant also when they
\* failed, and also when it was attached after the daemon had answered them.
HungUpIsOver ==
    up => \A s \in open : Held(s, "attach") => s \notin dead

\* A Freeze that succeeded ended the observation of its grant as well.
FreezeEndsAll ==
    up => \A n \in Call, s \in open :
        calls[n].method = "freeze" /\ calls[n].result = "ok" =>
            ~(s < n /\ calls[s].grant = calls[n].grant)
=============================================================================
