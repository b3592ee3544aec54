----------------------------- MODULE RemoteConn -----------------------------
(***************************************************************************)
(* One connection of the daemon (serverConn in src/remote/server.go): the  *)
(* goroutines dispatch starts for the frames it admits, chained per grant  *)
(* through the tails map, what the handlers keep of terminals and          *)
(* observations, copyPty and copyWatch, and the end of the connection.     *)
(* The host behind it is external: per grant it has one terminal and one   *)
(* observation at most, and it may end them for reasons of its own.  What  *)
(* a guest is left with when the host gives a call up is no part of it:    *)
(* AgentSession has that.                                                  *)
(*                                                                         *)
(* An operation is numbered by the frame that asks for it; a terminal and  *)
(* an observation have the number of the operation that opened them, which *)
(* also serves as the stream the client chose for it.                      *)
(***************************************************************************)
EXTENDS Naturals, Sequences, FiniteSets

CONSTANTS
    Grant,
    Methods,      \* what clients ask for
    MaxInflight,  \* maxConnectionOperations
    MaxOps        \* bound: operations admitted on the connection

ASSUME RemoteAssumption ==
    /\ Methods \subseteq {"ensure", "revoke", "attach", "detach", "watch",
                          "unwatch", "freeze", "pty"}
    /\ MaxInflight \in Nat \ {0}
    /\ MaxOps \in Nat

Op == 1 .. MaxOps
Nothing == 0

VARIABLES
    ops,       \* the operations: method, grant, stream, previous, pc, hand
    inflight,  \* how many places of the channel inflight are taken
    tails,     \* serverConn.tails: the last operation of each grant
    envs,      \* the grants in serverConn.envs
    terms,     \* serverConn.terms and termStreams
    obs,       \* serverConn.obs and obsStreams
    done,      \* serverConn.ctx is done
    closed,    \* serverConn.closed
    sweep,     \* what close took out of the maps and has yet to close
    up,        \* the connection
    open,      \* the terminals and observations the host handed out and did not end
    copying    \* the ones that have a copyPty or a copyWatch

connVars == <<envs, terms, obs>>
endVars == <<done, closed, sweep, up>>
vars == <<ops, inflight, tails, connVars, endVars, open, copying>>

\* The client has authenticated, and has had an answer to Ensure for its grants.
Init ==
    /\ ops = <<>>
    /\ inflight = 0
    /\ tails = [g \in Grant |-> Nothing]
    /\ envs = Grant
    /\ terms = [g \in Grant |-> Nothing]
    /\ obs = [g \in Grant |-> Nothing]
    /\ done = FALSE
    /\ closed = FALSE
    /\ sweep = {}
    /\ up = TRUE
    /\ open = {}
    /\ copying = {}

Known == 1 .. Len(ops)

----------------------------------------------------------------------------
(* Faults: what the code would do without one of its precautions.          *)

NoTail(i) == [tails EXCEPT ![ops[i].grant] = Nothing]
ForgetAny(entries, s) == [entries EXCEPT ![ops[s].grant] = Nothing]
WaitsForever(i) == ops[i].previous # Nothing
NothingToClose(s) == open

----------------------------------------------------------------------------
(* The host.                                                               *)

\* Terminal and observation s is of grant g, and opened by method m.
Of(s, g, m) == ops[s].grant = g /\ ops[s].method = m

\* Attach and Watch of the host: ErrBusy while there is one in use.
Free(g, m) == \A s \in open : ~Of(s, g, m)

\* Revoke of the host ends what the grant has in use, and so does a Freeze
\* that reached the agent.
Ended(g) == open \ {s \in open : ops[s].grant = g}

\* A Freeze that did not is no error of the host either (Env.Freeze of
\* isolated): it hangs up the terminal, and the observation goes on.
HungUp(g) == open \ {s \in open : Of(s, g, "attach")}

\* The guest ended s, or another connection froze or revoked the grant.
Elsewhere(s) ==
    /\ s \in open
    /\ open' = open \ {s}
    /\ UNCHANGED <<ops, inflight, tails, connVars, endVars, copying>>

----------------------------------------------------------------------------
(* dispatch.                                                               *)

\* There is a place in the channel.
Admitted == inflight < MaxInflight

\* A frame is admitted, and waits for the one before it of its grant.
Dispatch(method, g, s) ==
    /\ up /\ ~closed
    /\ method \in Methods
    /\ Len(ops) < MaxOps
    /\ Admitted
    /\ inflight' = inflight + 1
    /\ ops' = Append(ops, [method |-> method, grant |-> g, stream |-> s,
                           previous |-> tails[g], pc |-> "queued", hand |-> {}])
    /\ tails' = [tails EXCEPT ![g] = Len(ops) + 1]
    /\ UNCHANGED <<connVars, endVars, open, copying>>

\* A frame is not admitted: a request is answered with ErrBusy, and terminal
\* input closes the connection.
Saturated ==
    /\ up /\ ~closed
    /\ ~Admitted
    /\ "pty" \in Methods
    /\ up' = FALSE
    /\ UNCHANGED <<ops, inflight, tails, connVars, done, closed, sweep, open,
                   copying>>

\* The done channel of the operation before it is not closed yet.
Waits(i) == ops[i].previous # Nothing /\ ops[ops[i].previous].pc # "done"

GoTo(i, label) == ops' = [ops EXCEPT ![i].pc = label]

\* The operation before it is done, or there is none.  The host refuses a
\* context that is done before anything else.
Start(i) ==
    /\ ops[i].pc = "queued" /\ ~Waits(i)
    /\ GoTo(i, IF done /\ ops[i].method \in {"ensure", "attach", "watch", "freeze"}
               THEN "ending" ELSE "handling")
    /\ UNCHANGED <<inflight, tails, connVars, endVars, open, copying>>

\* The context is done; the select may find both.  
GiveUp(i) ==
    /\ ops[i].pc = "queued"
    /\ ops[i].previous # Nothing
    /\ done
    /\ GoTo(i, "ending")
    /\ UNCHANGED <<inflight, tails, connVars, endVars, open, copying>>

\* The reply, then the deferred function: the channel is closed, the place
\* given back, and the tail removed if no later operation took its place.
Finish(i) ==
    /\ ops[i].pc = "ending"
    /\ GoTo(i, "done")
    /\ inflight' = inflight - 1
    /\ UNCHANGED <<tails, connVars, endVars, open, copying>>

\* The tails once operation i, which is done, has looked at them.
WithoutTail(i) ==
    IF tails[ops[i].grant] = i THEN [tails EXCEPT ![ops[i].grant] = Nothing]
    ELSE tails

Untail(i) ==
    /\ ops[i].pc = "done"
    /\ tails # WithoutTail(i)
    /\ tails' = WithoutTail(i)
    /\ UNCHANGED <<ops, inflight, connVars, endVars, open, copying>>

----------------------------------------------------------------------------
(* The handlers.                                                           *)

\* The entry of the grant is of the stream the frame names.
OfStream(i, entries) ==
    entries[ops[i].grant] # Nothing /\ entries[ops[i].grant] = ops[i].stream

Handles(i, method) == ops[i].pc = "handling" /\ ops[i].method = method

\* The host may refuse anything, and an unknown grant is ErrRevoked.
Refused(i) ==
    /\ ops[i].pc = "handling"
    /\ ops[i].method \in {"ensure", "attach", "watch", "freeze"}
    /\ GoTo(i, "ending")
    /\ UNCHANGED <<inflight, tails, connVars, endVars, open, copying>>

Ensure(i) ==
    /\ Handles(i, "ensure")
    /\ GoTo(i, "ending")
    /\ envs' = IF closed THEN envs ELSE envs \cup {ops[i].grant}
    /\ UNCHANGED <<inflight, tails, terms, obs, endVars, open, copying>>

Freeze(i) ==
    /\ Handles(i, "freeze")
    /\ ops[i].grant \in envs
    /\ GoTo(i, "ending")
    /\ open' \in {Ended(ops[i].grant), HungUp(ops[i].grant)}
    /\ UNCHANGED <<inflight, tails, connVars, endVars, copying>>

\* attach and watch, up to the host's answer ...
Opens(i) ==
    /\ Handles(i, "attach") \/ Handles(i, "watch")
    /\ ops[i].grant \in envs
    /\ Free(ops[i].grant, ops[i].method)
    /\ open' = open \cup {i}
    /\ GoTo(i, "storing")
    /\ UNCHANGED <<inflight, tails, connVars, endVars, copying>>

\* ... which a connection that closed meanwhile gives back,
CloseAgain(s) == open \ {s}

GivesBack(i) ==
    /\ ops[i].pc = "storing" /\ closed
    /\ open' = CloseAgain(i)
    /\ GoTo(i, "ending")
    /\ UNCHANGED <<inflight, tails, connVars, endVars, copying>>

\* ... and else is kept, and copied from.
Keeps(i) ==
    LET kept(entries) == [entries EXCEPT ![ops[i].grant] = i]
    IN  /\ ops[i].pc = "storing" /\ ~closed
        /\ \/ ops[i].method = "attach" /\ terms' = kept(terms) /\ UNCHANGED obs
           \/ ops[i].method = "watch" /\ obs' = kept(obs) /\ UNCHANGED terms
        /\ copying' = copying \cup {i}
        /\ GoTo(i, "ending")
        /\ UNCHANGED <<inflight, tails, envs, endVars, open>>

\* detach and unwatch: the entry is taken out, and closed afterwards.
Detach(i) ==
    /\ Handles(i, "detach")
    /\ IF OfStream(i, terms)
       THEN /\ terms' = [terms EXCEPT ![ops[i].grant] = Nothing]
            /\ ops' = [ops EXCEPT ![i].pc = "closing",
                                  ![i].hand = {terms[ops[i].grant]}]
       ELSE GoTo(i, "ending") /\ UNCHANGED terms
    /\ UNCHANGED <<inflight, tails, envs, obs, endVars, open, copying>>

Unwatch(i) ==
    /\ Handles(i, "unwatch")
    /\ IF OfStream(i, obs)
       THEN /\ obs' = [obs EXCEPT ![ops[i].grant] = Nothing]
            /\ ops' = [ops EXCEPT ![i].pc = "closing",
                                  ![i].hand = {obs[ops[i].grant]}]
       ELSE GoTo(i, "ending") /\ UNCHANGED obs
    /\ UNCHANGED <<inflight, tails, envs, terms, endVars, open, copying>>

Revoke(i) ==
    LET g == ops[i].grant
    IN  /\ Handles(i, "revoke")
        /\ ops' = [ops EXCEPT ![i].pc = "closing",
                              ![i].hand = {terms[g], obs[g]} \ {Nothing}]
        /\ terms' = [terms EXCEPT ![g] = Nothing]
        /\ obs' = [obs EXCEPT ![g] = Nothing]
        /\ envs' = envs \ {g}
        /\ UNCHANGED <<inflight, tails, endVars, open, copying>>

\* Close of what was taken out; revoke goes on to the host, which ends the
\* grant or refuses, as it does when the context is done.
Closes(i) ==
    /\ ops[i].pc = "closing"
    /\ \/ open' = open \ ops[i].hand
       \/ ops[i].method = "revoke" /\ ~done /\ open' = Ended(ops[i].grant)
    /\ GoTo(i, "ending")
    /\ UNCHANGED <<inflight, tails, connVars, endVars, copying>>

\* writePty: input for the terminal of the stream, if it is still there;
\* what the terminal makes of it is left out.
WritePty(i) ==
    /\ Handles(i, "pty")
    /\ GoTo(i, "ending")
    /\ UNCHANGED <<inflight, tails, connVars, endVars, open, copying>>

----------------------------------------------------------------------------
(* copyPty and copyWatch.                                                  *)

\* The entries once the copying of s is over.
Forget(entries, s) ==
    IF entries[ops[s].grant] = s THEN [entries EXCEPT ![ops[s].grant] = Nothing]
    ELSE entries

\* Read fails, because the terminal was closed or ended; or Send fails, and
\* the terminal is left as it is.
CopyPtyEnds(s) ==
    /\ s \in copying /\ ops[s].method = "attach"
    /\ s \notin open \/ ~up
    /\ copying' = copying \ {s}
    /\ terms' = Forget(terms, s)
    /\ UNCHANGED <<ops, inflight, tails, envs, obs, endVars, open>>

\* What is in use once copyWatch closed its observation.
CloseWatch(s) == open \ {s}

\* Next fails, the context included, or Send does.
CopyWatchEnds(s) ==
    /\ s \in copying /\ ops[s].method = "watch"
    /\ s \notin open \/ ~up \/ done
    /\ copying' = copying \ {s}
    /\ open' = CloseWatch(s)
    /\ obs' = Forget(obs, s)
    /\ UNCHANGED <<ops, inflight, tails, envs, terms, endVars>>

----------------------------------------------------------------------------
(* The end of the connection.                                              *)

\* The client went away.
Drop ==
    /\ up
    /\ up' = FALSE
    /\ UNCHANGED <<ops, inflight, tails, connVars, done, closed, sweep, open,
                   copying>>

\* The daemon is shutting down.
Shutdown ==
    /\ ~done
    /\ done' = TRUE
    /\ UNCHANGED <<ops, inflight, tails, connVars, closed, sweep, up, open,
                   copying>>

\* serveConn's Recv failed: close, up to its unlock ...
Close ==
    /\ ~up /\ ~closed
    /\ done' = TRUE
    /\ closed' = TRUE
    /\ sweep' = ({terms[g] : g \in Grant} \cup {obs[g] : g \in Grant}) \ {Nothing}
    /\ terms' = [g \in Grant |-> Nothing]
    /\ obs' = [g \in Grant |-> Nothing]
    /\ UNCHANGED <<ops, inflight, tails, envs, up, open, copying>>

\* ... and what it does to the ones it took out.
Sweep ==
    /\ sweep # {}
    /\ open' = open \ sweep
    /\ sweep' = {}
    /\ UNCHANGED <<ops, inflight, tails, connVars, done, closed, up, copying>>

----------------------------------------------------------------------------
\* A frame names a stream that the client opened on the grant, if any.
Streams(method, g) ==
    IF method \in {"detach", "pty"} THEN {s \in Known : Of(s, g, "attach")}
    ELSE IF method = "unwatch" THEN {s \in Known : Of(s, g, "watch")}
    ELSE {Nothing}

Handler(i) ==
    \/ Refused(i) \/ Ensure(i) \/ Freeze(i) \/ Opens(i) \/ GivesBack(i) \/ Keeps(i)
    \/ Detach(i) \/ Unwatch(i) \/ Revoke(i) \/ Closes(i) \/ WritePty(i)

Next ==
    \/ \E g \in Grant, m \in Methods : \E s \in Streams(m, g) : Dispatch(m, g, s)
    \/ \E i \in Known : \/ Start(i) \/ GiveUp(i) \/ Finish(i) \/ Untail(i)
                        \/ Handler(i) \/ CopyPtyEnds(i) \/ CopyWatchEnds(i)
                        \/ Elsewhere(i)
    \/ Saturated \/ Drop \/ Shutdown \/ Close \/ Sweep

Spec == Init /\ [][Next]_vars

\* What operation i calls now may last as long as the guest or its supervisor
\* likes: Close of a terminal or an observation has no deadline, whoever calls
\* it, and Ensure may wait for a handshake that has none.
MayHang(i) ==
    \/ ops[i].pc = "closing" /\ ops[i].hand # {}
    \/ ops[i].pc = "storing" /\ closed
    \/ ops[i].pc = "handling" /\ ops[i].method = "ensure"

\* Goroutines that can run do run, and the host answers what has the deadline
\* of operationContext, or is a write, which has one of its own.
Runs(i) ==
    /\ i \in Known
    /\ Start(i) \/ GiveUp(i) \/ Finish(i) \/ (~MayHang(i) /\ Handler(i))

FairSpec == Spec /\ \A i \in Op : WF_vars(Runs(i))

----------------------------------------------------------------------------
(* Properties.                                                             *)

\* "preserves arrival order within one grant": as long as the connection is
\* served, an operation runs only when all earlier ones of its grant are
\* done, also when some of them removed their tail meanwhile (dispatch).
ArrivalOrder ==
    ~done => \A i, j \in Known :
        i < j /\ ops[i].grant = ops[j].grant /\ ops[j].pc # "queued"
            => ops[i].pc = "done"

\* While the client is there it can reach, and so close, whatever it opened:
\* no late end of an earlier copyPty or copyWatch hides a terminal or an
\* observation that is in use.
InUseIsReachable ==
    up => \A s \in open :
        \/ s \in {terms[ops[s].grant], obs[ops[s].grant]}
        \/ ops[s].pc = "storing"
        \/ \E i \in Known : ops[i].pc = "closing" /\ s \in ops[i].hand

\* Nothing of the connection is left to run.
Over ==
    /\ closed /\ sweep = {} /\ copying = {}
    /\ \A i \in Known : ops[i].pc = "done"

\* A connection leaves no observation behind, whatever it was doing when it
\* ended: the next client can watch (close, watch and copyWatch).
NoObservationStays == Over => \A s \in open : ops[s].method # "watch"

\* What i may have to wait for: the operations of its grant up to itself.
Ahead(i) ==
    {j \in 1 .. i : ops[j].grant = ops[i].grant /\ ops[j].pc # "done"}

\* An operation ends, unless it or one that it waits for closes a terminal or
\* an observation or is an Ensure, or has its handle given back to it by a
\* connection that ended; and once the connection ends no operation waits for
\* another any longer, also for one that hangs (dispatch, operationContext).
OperationsEnd ==
    \A i \in Op :
        /\ (i \in Known /\ \A j \in Ahead(i) :
                ops[j].method \in {"attach", "watch", "freeze", "pty"})
              ~> (i \in Known /\ (ops[i].pc = "done" \/ MayHang(i)))
        /\ (i \in Known /\ done) ~> (i \in Known /\ ops[i].pc # "queued")

----------------------------------------------------------------------------
(* What the code does not guarantee, although callers may expect it: the   *)
(* README describes the counterexamples.                                   *)

\* "A dropped PTY is hangup: the grant stays, and the caller may Attach
\* again": a connection leaves no terminal behind.
DroppedPtyIsHangup == Over => \A s \in open : ops[s].method # "attach"

\* Every operation that was admitted ends: the deadline of operationContext is
\* for all of them, and the ones behind it need not wait longer than that.
EveryOperationEnds ==
    \A i \in Op : i \in Known ~> (i \in Known /\ ops[i].pc = "done")
=============================================================================
