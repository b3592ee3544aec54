----------------------------- MODULE AgentHome -----------------------------
(***************************************************************************)
(* The home directory in the guest as the agent keeps it for the host      *)
(* (src/agent/server.go, watch.go): the directory itself, which processes  *)
(* of the guest change at any time, the scan of it that events are made    *)
(* from, the log of events, and one host-side client that follows them, as *)
(* the README asks.  Operations run under server.mu and are one step each; *)
(* frames travel in order, and a response follows the frames sent before   *)
(* it.  Paths are not nested, so a directory is empty; which calls are     *)
(* accepted, and how they write and undo, is the subject of AgentTree.     *)
(***************************************************************************)
EXTENDS HomeDiff, WatchLog, SequencesExt

CONSTANTS
    Trees,        \* arguments of ReplaceTree
    LogCapacity,  \* watchlog.DefaultCapacity, also watchBuffer
    MaxChanges,   \* bound: changes by the guest
    MaxCalls,     \* bound: Apply calls, and ReplaceTree calls that fail
    MaxEpochs     \* bound: ReplaceTree calls and overflows

ASSUME HomeAssumption ==
    /\ Trees \subseteq Scans
    /\ {LogCapacity, MaxEpochs} \subseteq Nat \ {0}
    /\ {MaxChanges, MaxCalls} \subseteq Nat

VARIABLES
    home,      \* the files under Home
    snap,      \* server.snap
    log,       \* server.log
    polling,   \* server.pollStop is there
    frozen,    \* server.frozen
    watching,  \* server.watching
    inbox,     \* events on their way to the client, and its clientObs.events
    obs,       \* the client's observation: none, live, or failed
    cursor,    \* the client's cursor, kept when an observation is spent
    seen,      \* history: the scan that the events received so far describe
    unclear,   \* history: paths of which the events do not say what they are
    resync,    \* the client was told ErrLagged and has yet to ReplaceTree
    by,        \* history: who last changed each path: the guest, or the
               \* caller with a call that succeeded, or with one that failed
    authors,   \* history: whose changes events were made of
    changes, calls

vars == <<home, snap, log, polling, frozen, watching, inbox, obs, cursor,
          seen, unclear, resync, by, authors, changes, calls>>

Init ==
    /\ home = <<>>
    /\ snap = <<>>
    /\ log = NewLog(1)
    /\ polling = FALSE
    /\ frozen = FALSE
    /\ watching = FALSE
    /\ inbox = <<>>
    /\ obs = "none"
    /\ cursor = NoCursor
    /\ seen = <<>>
    /\ unclear = {}
    /\ resync = FALSE
    /\ by = [p \in Path |-> "caller"]
    /\ authors = {}
    /\ changes = 0
    /\ calls = 0

Put(files, p, h) ==
    [q \in DOMAIN files \cup {p} |-> IF q = p THEN h ELSE files[q]]
Drop(files, p) == Restrict(files, DOMAIN files \ {p})

Move(files, p, q) == Put(Drop(files, p), q, files[p])

\* f and g have the same at p.
Agree(f, g, p) ==
    /\ p \in DOMAIN f <=> p \in DOMAIN g
    /\ p \in DOMAIN f => f[p] = g[p]
DiffersAt(f, g) == {p \in Path : ~Agree(f, g, p)}

----------------------------------------------------------------------------
(* Faults: what the code would do without one of its precautions.          *)

OldScan == snap

----------------------------------------------------------------------------
(* The guest: any of its processes, at any time.                           *)

GuestChange(files, paths) ==
    /\ changes < MaxChanges
    /\ changes' = changes + 1
    /\ home' = files
    /\ by' = [p \in Path |-> IF p \in paths THEN "guest" ELSE by[p]]
    /\ UNCHANGED <<snap, log, polling, frozen, watching, inbox, obs, cursor,
                   seen, unclear, resync, authors, calls>>

\* What rename(2) allows.
CanRename(p, q) ==
    /\ p \in DOMAIN home /\ p # q
    /\ q \in DOMAIN home => (home[p] = Dir <=> home[q] = Dir)

GuestWrite(p, h) ==
    /\ p \in DOMAIN home => home[p] # Dir
    /\ GuestChange(Put(home, p, h), {p})
GuestMkdir(p) == p \notin DOMAIN home /\ GuestChange(Put(home, p, Dir), {p})
GuestRemove(p) == p \in DOMAIN home /\ GuestChange(Drop(home, p), {p})
GuestRename(p, q) == CanRename(p, q) /\ GuestChange(Move(home, p, q), {p, q})

----------------------------------------------------------------------------
(* The server.                                                             *)

\* resetSnap after the caller's own change.
ResetSnap == home'

\* The frame that ends an observation.
EndFrame(reason) ==
    [cursor |-> NoCursor, event |-> [end |-> TRUE, lagged |-> reason = "lagged"]]

\* An event, with the scan that it was made from as history.
Noted(change) == [end |-> FALSE, change |-> change, scan |-> home]

\* invalidateWatch: the client hears of it after the events before it.
Invalidate ==
    /\ watching' = FALSE
    /\ inbox' = IF watching THEN Append(inbox, EndFrame("lagged")) ELSE inbox

\* Log.Reset
ResetLog == NewLog(log.epoch + 1)

\* diffOnce: more events than the log holds.
TooMany(events) == Len(events) > LogCapacity

\* log.Append for each of the events
Logged(events) ==
    LET appended[n \in 0..Len(events)] ==
            IF n = 0 THEN log
            ELSE AppendEvent(appended[n - 1], events[n], LogCapacity)
    IN  appended[Len(events)]
Stamps(events) ==
    [i \in DOMAIN events |-> [cursor |-> Cursor(log.epoch, log.next + i),
                              event |-> events[i]]]

\* diffOnce
Poll ==
    /\ polling
    /\ snap # home
    /\ authors' = authors \cup {by[p] : p \in Named(DiffSnap(snap, home))}
    /\ unclear' = StillUnclear(unclear, snap, home)
    /\ \E events \in SetToSeqs({Noted(e) : e \in DiffSnap(snap, home)}) :
           /\ IF TooMany(events)
              THEN /\ log.epoch < MaxEpochs
                   /\ Invalidate
                   /\ log' = ResetLog
              ELSE /\ log' = Logged(events)
                   /\ inbox' = IF watching THEN inbox \o Stamps(events) ELSE inbox
                   /\ UNCHANGED watching
    /\ snap' = home
    /\ UNCHANGED <<home, polling, frozen, obs, cursor, seen, resync, by, changes, calls>>

\* watch: the first one starts the polling from a fresh scan.  A client with
\* no cursor starts from what is there.
Watch(after) ==
    /\ obs # "live" /\ ~resync
    /\ after \in {cursor, NoCursor}
    /\ ~frozen /\ ~watching
    /\ CanResume(log, after)
    /\ watching' = TRUE
    /\ polling' = TRUE
    /\ snap' = IF polling THEN snap ELSE home
    /\ inbox' = Replay(log, after)
    /\ obs' = "live"
    /\ cursor' = StartOf(log, after)
    /\ IF after = NoCursor THEN seen' = snap' /\ unclear' = {}
       ELSE UNCHANGED <<seen, unclear>>
    /\ UNCHANGED <<home, log, frozen, resync, by, authors, changes, calls>>

\* watch: the cursor is not in the log.
WatchLagged ==
    /\ obs # "live" /\ ~resync
    /\ ~frozen /\ ~watching
    /\ ~CanResume(log, cursor)
    /\ resync' = TRUE
    /\ UNCHANGED <<home, snap, log, polling, frozen, watching, inbox, obs,
                   cursor, seen, unclear, by, authors, changes, calls>>

\* replace, with rewriteHome: unlisted paths go, the guest's too.
ReplaceTree(tree) ==
    /\ ~frozen
    /\ log.epoch < MaxEpochs
    /\ home' = tree
    /\ seen' = tree /\ unclear' = {}
    /\ by' = [p \in Path |-> "caller"]
    /\ Invalidate
    /\ log' = ResetLog
    /\ snap' = ResetSnap
    /\ resync' = FALSE
    /\ cursor' = NoCursor
    /\ UNCHANGED <<polling, frozen, obs, authors, changes, calls>>

\* apply, with applyHome: what the batch does not name stays.  The new scan
\* takes in the caller's change and what the guest did since the last one.
Apply(files, paths) ==
    /\ ~frozen
    /\ calls < MaxCalls
    /\ calls' = calls + 1
    /\ home' = files
    /\ by' = [p \in Path |-> IF p \in paths THEN "caller" ELSE by[p]]
    /\ snap' = ResetSnap
    /\ unclear' = unclear \cup DiffersAt(snap, snap')
    /\ UNCHANGED <<log, polling, frozen, watching, inbox, obs, cursor, seen, resync,
                   authors, changes>>

\* The mutations, one at a time: a batch of several ends in the same state as
\* several of one, with nothing between them.
ApplyPut(p, kind) == Apply(Put(home, p, kind), {p})
ApplyDelete(p) == Apply(Drop(home, p), {p})
ApplyMove(p, q) ==
    /\ CanRename(p, q) /\ (q \in DOMAIN home => home[q] # Dir)
    /\ Apply(Move(home, p, q), {p, q})

\* replace and apply return an error, and leave everything but Home alone.
CallFails(files) ==
    /\ ~frozen
    /\ calls < MaxCalls
    /\ calls' = calls + 1
    /\ home' = files
    /\ by' = [p \in Path |-> IF Agree(files, home, p) THEN by[p] ELSE "failed"]
    /\ UNCHANGED <<snap, log, polling, frozen, watching, inbox, obs, cursor, seen, unclear,
                   resync, authors, changes>>

\* rewriteHome fails while it clears Home, or while it renames the new files.
ReplaceFails(tree, paths) ==
    /\ paths # {}
    /\ CallFails(Restrict(home, DOMAIN home \ paths))
       \/ CallFails(Restrict(tree, DOMAIN tree \ paths))

\* applyHome fails and takes back what it did, but for the files of the guest
\* that its moves replaced (DiskMoveOver of AgentTree).
ApplyFails(lost) ==
    /\ lost # {} /\ lost \subseteq {p \in DOMAIN home : home[p] # Dir}
    /\ CallFails(Restrict(home, DOMAIN home \ lost))

\* freeze, with stopPoll.
Freeze ==
    /\ ~frozen
    /\ frozen' = TRUE
    /\ polling' = FALSE
    /\ watching' = FALSE
    /\ inbox' = IF watching THEN Append(inbox, EndFrame("frozen")) ELSE inbox
    /\ UNCHANGED <<home, snap, log, obs, cursor, seen, unclear, resync, by, authors,
                   changes, calls>>

\* thaw.  The README asks of the client to ReplaceTree afterwards.
Thaw ==
    /\ frozen
    /\ frozen' = FALSE
    /\ resync' = TRUE
    /\ UNCHANGED <<home, snap, log, polling, watching, inbox, obs, cursor,
                   seen, unclear, by, authors, changes, calls>>

----------------------------------------------------------------------------
(* The client.                                                             *)

\* What the observation's Next gives the client first.
First == Head(inbox).event

Receive ==
    /\ obs = "live" /\ inbox # <<>> /\ ~First.end
    /\ seen' = IF Head(inbox).cursor.epoch = log.epoch
               THEN Followed(seen, {First.change}, First.scan) ELSE seen
    /\ cursor' = Head(inbox).cursor
    /\ inbox' = Tail(inbox)
    /\ UNCHANGED <<home, snap, log, polling, frozen, watching, obs, unclear, resync, by,
                   authors, changes, calls>>

\* The observation ends: ErrLagged asks for a ReplaceTree.
ReceiveEnd ==
    /\ obs = "live" /\ inbox # <<>> /\ First.end
    /\ obs' = "failed"
    /\ resync' = (resync \/ First.lagged)
    /\ inbox' = <<>>
    /\ UNCHANGED <<home, snap, log, polling, frozen, watching, cursor, seen, unclear,
                   by, authors, changes, calls>>

\* The observation's Close, with unwatch: what was not received is dropped.
Close ==
    /\ obs = "live"
    /\ obs' = "failed"
    /\ watching' = FALSE
    /\ inbox' = <<>>
    /\ UNCHANGED <<home, snap, log, polling, frozen, cursor, seen, unclear, resync, by,
                   authors, changes, calls>>

----------------------------------------------------------------------------
Next ==
    \/ \E p \in Path, h \in Hash : GuestWrite(p, h)
    \/ \E p \in Path : GuestMkdir(p) \/ GuestRemove(p) \/ ApplyDelete(p)
    \/ \E p, q \in Path : GuestRename(p, q) \/ ApplyMove(p, q)
    \/ \E p \in Path, kind \in Kinds : ApplyPut(p, kind)
    \/ \E tree \in Trees : ReplaceTree(tree)
    \/ \E tree \in Trees, paths \in SUBSET Path : ReplaceFails(tree, paths)
    \/ \E lost \in SUBSET Path : ApplyFails(lost)
    \/ Watch(cursor) \/ Watch(NoCursor) \/ WatchLagged
    \/ Poll \/ Freeze \/ Thaw
    \/ Receive \/ ReceiveEnd \/ Close

Spec == Init /\ [][Next]_vars

----------------------------------------------------------------------------
(* Properties.                                                             *)

\* What a ReplaceTree or Apply that succeeded did never comes back as an
\* event, however the guest's changes, the polls and calls that fail half way
\* fall between them (resetSnap).
OwnChangesAreSilent == "caller" \notin authors

\* Everything the server sent was received, and nothing else is due.
Drained == obs = "live" /\ watching /\ inbox = <<>> /\ ~resync

\* What the events that a client has received make of the scan it started
\* from is the last scan: across renames, directories, an observation that is
\* closed and resumed from its cursor, overflow, ReplaceTree, Freeze and calls
\* that fail half way (diffOnce, watch, Since).  Of a path the events may say
\* nothing if it turned from a file into a directory or back (diffSnap), or if
\* it differed when a successful Apply took its scan (apply), until the next
\* event that names it; and one who moves its own copy moves that doubt too.
EventsTrackScans == Drained => \A p \in Path \ unclear : Agree(seen, snap, p)

----------------------------------------------------------------------------
(* What the code does not guarantee, although callers may expect it: each  *)
(* of these has a short counterexample, which the README describes.        *)

\* "Your own ReplaceTree / Apply calls do not appear here."
NoCallAppears == authors \subseteq {"guest"}

\* A path that the guest changed last is known to the client as the last
\* scan found it: no change of the guest goes unreported.
GuestChangesAreReported ==
    Drained => \A p \in Path : by[p] = "guest" => Agree(seen, snap, p)

\* open finds a file.
CanOpen(p) == ~frozen /\ p \in DOMAIN home /\ home[p] # Dir

\* The README's loop can open what an event says was created or replaced.
ReportedCanBeOpened ==
    obs = "live" /\ inbox # <<>> /\ ~First.end /\ First.change.op \in {"create", "replace"}
        => CanOpen(First.change.path)
=============================================================================
