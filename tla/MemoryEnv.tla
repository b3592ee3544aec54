----------------------------- MODULE MemoryEnv -----------------------------
(***************************************************************************)
(* One environment of the memory host (src/memory/memory.go and tree.go):  *)
(* the projection, the guest's changes to it, the log of them and the      *)
(* observation that follows it, the terminal, Freeze, Thaw and revocation. *)
(* Operations on the environment run under environment.mu and are one step *)
(* each; Observation.Next and Terminal.Read release their locks in between *)
(* and are several.  Every client keeps the cursor of its last event and   *)
(* watches from there, as the README asks.  Events are told apart by their *)
(* cursors; AgentHome models what an event says of a change.               *)
(***************************************************************************)
EXTENDS TreeOps, WatchLog

CONSTANTS
    Watcher,      \* clients that call Watch
    Terminal,     \* terminals that may ever be attached
    None,
    Trees,        \* arguments of ReplaceTree
    Mutations,    \* arguments of Apply, one at a time
    LogCapacity,  \* watchlog.DefaultCapacity
    WatchBuffer,  \* watchBuffer
    MaxEvents,    \* bound: guest events in one generation
    MaxEpochs,    \* bound: generations of the log
    MaxBytes      \* bound: bytes written to a terminal and not yet read

ASSUME MemoryAssumption ==
    /\ None \notin Watcher \cup Terminal
    /\ {LogCapacity, WatchBuffer, MaxEpochs} \subseteq Nat \ {0}
    /\ {MaxEvents, MaxBytes} \subseteq Nat
    /\ "guest" \in Version

VARIABLES
    frozen, revoked,
    files,     \* environment.files
    log,       \* environment.log
    hist,      \* history: all events of the log's generation
    current,   \* environment.obs: the watcher whose observation it is
    err,       \* observation.err of each watcher's last observation
    queue,     \* observation.events
    room,      \* the capacity of that channel
    cursor,    \* observation.cursor, kept by the watcher when it is spent
    hand,      \* the event Next received and has not yet checked, or <<>>
    term,      \* environment.term
    state,     \* each terminal: not created, live, closed, or dead
    bytes,     \* terminal.buf
    reader     \* the goroutine in terminal.Read: none, running, or asleep

envVars == <<frozen, revoked, files>>
watchVars == <<log, hist, current, err, queue, room, cursor, hand>>
termVars == <<term, state, bytes, reader>>
vars == <<envVars, watchVars, termVars>>

----------------------------------------------------------------------------
(* Faults: what the code would do without one of its precautions.          *)

StayOpen(reason) == UNCHANGED <<current, err, queue, room>>
NoBroadcast(t) == reader
AlwaysFinished(t) == TRUE

----------------------------------------------------------------------------
(* The environment.                                                        *)

\* environment.guard
Guard == ~revoked /\ ~frozen

\* failWatch: the current observation ends with the reason.  Its channel is
\* closed; Next checks err first, so what is still in it is discarded.
FailWatch(reason) ==
    /\ \/ current = None /\ UNCHANGED <<err, queue, room>>
       \/ /\ current # None
          /\ err' = [err EXCEPT ![current] = reason]
          /\ queue' = [queue EXCEPT ![current] = <<>>]
          /\ room' = [room EXCEPT ![current] = 0]
    /\ current' = None

\* emit: the event is logged and handed to the observation, which fails
\* when its channel is full.
Emit ==
    LET e == Stamped(log, "change")
    IN  /\ log.next < MaxEvents
        /\ log' = AppendEvent(log, "change", LogCapacity)
        /\ hist' = Append(hist, e)
        /\ \/ /\ current = None
              /\ UNCHANGED <<current, err, queue, room>>
           \/ /\ current # None
              /\ Len(queue[current]) < room[current]
              /\ queue' = [queue EXCEPT ![current] = Append(@, e)]
              /\ UNCHANGED <<current, err, room>>
           \/ /\ current # None
              /\ Len(queue[current]) >= room[current]
              /\ FailWatch("lagged")
        /\ UNCHANGED <<cursor, hand>>

WriteGuest(p, d) ==
    /\ Guard
    /\ files' = With(files, p, File("guest", d))
    /\ Emit
    /\ UNCHANGED <<frozen, revoked, termVars>>

RemoveGuest(p) ==
    /\ Guard
    /\ p \in DOMAIN files
    /\ files' = Without(files, p)
    /\ Emit
    /\ UNCHANGED <<frozen, revoked, termVars>>

MoveGuest(from, to) ==
    /\ Guard
    /\ from \in DOMAIN files
    /\ to \notin DOMAIN files
    /\ files' = With(Without(files, from), to, files[from])
    /\ Emit
    /\ UNCHANGED <<frozen, revoked, termVars>>

\* A refused tree or batch changes nothing and is left out.
ReplaceTree(tree) ==
    /\ Guard
    /\ CanReplace(files, tree)
    /\ log.epoch < MaxEpochs
    /\ files' = Replace(files, tree)
    /\ FailWatch("lagged")
    /\ log' = NewLog(log.epoch + 1)
    /\ hist' = <<>>
    /\ UNCHANGED <<frozen, revoked, cursor, hand, termVars>>

ApplyBatch(mut) ==
    /\ Guard
    /\ Apply(files, <<mut>>).ok
    /\ files' = Apply(files, <<mut>>).snap
    /\ UNCHANGED <<frozen, revoked, watchVars, termVars>>

----------------------------------------------------------------------------
(* The terminal.                                                           *)

\* terminal.cond.Broadcast wakes the goroutine that waits in Read.
Broadcast(t) ==
    [reader EXCEPT ![t] = IF @ = "asleep" THEN "running" ELSE @]

\* terminal.finished
Finished(t) == state[t] \in {"closed", "frozen", "revoked"}

Attach(t) ==
    /\ Guard
    /\ term # None => Finished(term)
    /\ state[t] = "new"
    /\ term' = t
    /\ state' = [state EXCEPT ![t] = "live"]
    /\ UNCHANGED <<envVars, watchVars, bytes, reader>>

\* terminal.kill of the environment's terminal, which forgets it.
KillTerm(reason) ==
    /\ state' = IF term = None THEN state ELSE [state EXCEPT ![term] = reason]
    /\ reader' = IF term = None THEN reader ELSE Broadcast(term)
    /\ term' = None
    /\ UNCHANGED bytes

ReadBegin(t) ==
    /\ state[t] # "new"
    /\ reader[t] = "none"
    /\ reader' = [reader EXCEPT ![t] = "running"]
    /\ UNCHANGED <<envVars, watchVars, term, state, bytes>>

\* One turn of the loop in Read: it sleeps, or returns a byte, the reason
\* the terminal died, or end of file.
ReadTurn(t) ==
    /\ reader[t] = "running"
    /\ \/ /\ bytes[t] = 0 /\ ~Finished(t)
          /\ reader' = [reader EXCEPT ![t] = "asleep"]
          /\ UNCHANGED bytes
       \/ /\ bytes[t] > 0 /\ state[t] \in {"live", "closed"}
          /\ reader' = [reader EXCEPT ![t] = "none"]
          /\ bytes' = [bytes EXCEPT ![t] = @ - 1]
       \/ /\ Finished(t) /\ (bytes[t] = 0 \/ state[t] # "closed")
          /\ reader' = [reader EXCEPT ![t] = "none"]
          /\ UNCHANGED bytes
    /\ UNCHANGED <<envVars, watchVars, term, state>>

\* Write refuses a finished terminal; what it writes is echoed to Read.
Write(t) ==
    /\ state[t] = "live"
    /\ bytes[t] < MaxBytes
    /\ bytes' = [bytes EXCEPT ![t] = @ + 1]
    /\ reader' = Broadcast(t)
    /\ UNCHANGED <<envVars, watchVars, term, state>>

\* Close; the reason a dead terminal reports stays.
CloseTerm(t) ==
    /\ state[t] = "live"
    /\ state' = [state EXCEPT ![t] = "closed"]
    /\ reader' = Broadcast(t)
    /\ UNCHANGED <<envVars, watchVars, term, bytes>>

----------------------------------------------------------------------------
(* Freeze, Thaw and environment.revoke.                                    *)

Freeze ==
    /\ ~revoked
    /\ frozen' = TRUE
    /\ KillTerm("frozen")
    /\ FailWatch("frozen")
    /\ UNCHANGED <<revoked, files, log, hist, cursor, hand>>

Thaw ==
    /\ ~revoked
    /\ frozen' = FALSE
    /\ UNCHANGED <<revoked, files, watchVars, termVars>>

Revoke ==
    /\ ~revoked
    /\ revoked' = TRUE
    /\ frozen' = FALSE
    /\ KillTerm("revoked")
    /\ FailWatch("revoked")
    /\ UNCHANGED <<files, log, hist, cursor, hand>>

----------------------------------------------------------------------------
(* The observation.                                                        *)

\* Watch from the kept cursor, or from the current position.
Watch(w, after) ==
    /\ Guard
    /\ current = None
    /\ hand[w] = <<>>
    /\ CanResume(log, after)
    /\ current' = w
    /\ err' = [err EXCEPT ![w] = "open"]
    /\ cursor' = [cursor EXCEPT ![w] = StartOf(log, after)]
    /\ queue' = [queue EXCEPT ![w] = Replay(log, after)]
    /\ room' = [room EXCEPT ![w] =
                    IF Len(Replay(log, after)) > WatchBuffer
                    THEN Len(Replay(log, after)) ELSE WatchBuffer]
    /\ UNCHANGED <<envVars, log, hist, hand, termVars>>

\* Next past its first check: it takes an event out of the channel ...
NextReceive(w) ==
    /\ err[w] = "open"
    /\ hand[w] = <<>>
    /\ queue[w] # <<>>
    /\ hand' = [hand EXCEPT ![w] = <<Head(queue[w])>>]
    /\ queue' = [queue EXCEPT ![w] = Tail(@)]
    /\ UNCHANGED <<envVars, log, hist, current, err, room, cursor, termVars>>

\* ... and returns it, unless the observation failed in between.
NextReturn(w) ==
    /\ hand[w] # <<>>
    /\ hand' = [hand EXCEPT ![w] = <<>>]
    /\ cursor' = IF err[w] = "open"
                 THEN [cursor EXCEPT ![w] = hand[w][1].cursor]
                 ELSE cursor
    /\ UNCHANGED <<envVars, log, hist, current, err, queue, room, termVars>>

\* Observation.Close ends only the observation that is still current.
CloseObs(w) ==
    /\ current = w
    /\ FailWatch("closed")
    /\ UNCHANGED <<envVars, log, hist, cursor, hand, termVars>>

----------------------------------------------------------------------------

\* The environment Ensure makes.
Init ==
    /\ frozen = FALSE
    /\ revoked = FALSE
    /\ files = <<>>
    /\ log = NewLog(1)
    /\ hist = <<>>
    /\ current = None
    /\ err = [w \in Watcher |-> "none"]
    /\ queue = [w \in Watcher |-> <<>>]
    /\ room = [w \in Watcher |-> 0]
    /\ cursor = [w \in Watcher |-> NoCursor]
    /\ hand = [w \in Watcher |-> <<>>]
    /\ term = None
    /\ state = [t \in Terminal |-> "new"]
    /\ bytes = [t \in Terminal |-> 0]
    /\ reader = [t \in Terminal |-> "none"]

Guest ==
    \/ \E p \in ValidPath : WriteGuest(p, 1) \/ RemoveGuest(p)
    \/ \E p, q \in ValidPath : MoveGuest(p, q)

Next ==
    \/ Guest
    \/ \E tree \in Trees : ReplaceTree(tree)
    \/ \E mut \in Mutations : ApplyBatch(mut)
    \/ \E t \in Terminal : \/ Attach(t) \/ Write(t) \/ CloseTerm(t)
                           \/ ReadBegin(t) \/ ReadTurn(t)
    \/ Freeze \/ Thaw \/ Revoke
    \/ \E w \in Watcher : \/ Watch(w, NoCursor) \/ Watch(w, cursor[w])
                          \/ NextReceive(w) \/ NextReturn(w) \/ CloseObs(w)

Spec == Init /\ [][Next]_vars

\* A client that has an observation keeps calling Next, and a goroutine that
\* is awake in Read gets to run.
FairSpec ==
    /\ Spec
    /\ \A w \in Watcher : WF_vars(NextReceive(w)) /\ WF_vars(NextReturn(w))
    /\ \A t \in Terminal : WF_vars(ReadTurn(t))

----------------------------------------------------------------------------
(* Properties.                                                             *)

\* No guest event is lost or repeated on the way to an observation: what is
\* between its cursor and the end of the log is what it still will deliver,
\* whether it was resumed from the log, is ahead, or is about to overflow.
NoGap ==
    current # None =>
        /\ cursor[current].epoch = log.epoch
        /\ hand[current] \o queue[current] =
              SubSeq(hist, cursor[current].seq + 1, Len(hist))

\* "The host retains the most recent 64 guest events": a client that is not
\* further behind resumes instead of being told it lagged.
RecentCursorResumes ==
    \A w \in Watcher :
        /\ cursor[w].epoch = log.epoch
        /\ Len(hist) - cursor[w].seq <= LogCapacity
        => CanResume(log, cursor[w])

\* No observation or terminal survives a Freeze or a revocation, and no more
\* than one of each is in use: the ones the environment knows.
StoppedIsQuiet ==
    /\ frozen \/ revoked => current = None /\ term = None
    /\ \A w \in Watcher : err[w] = "open" <=> current = w
    /\ \A t \in Terminal : state[t] = "live" => term = t

\* An observation delivers every event, or ends.
EventsArrive ==
    \A w \in Watcher : \A n \in 1..MaxEvents :
        (err[w] = "open" /\ log.next >= n)
            ~> (err[w] # "open" \/ cursor[w].seq >= n)

\* Hanging up ends a Read that waits.
HangupEndsRead ==
    \A t \in Terminal : Finished(t) /\ reader[t] # "none" ~> reader[t] = "none"
=============================================================================
