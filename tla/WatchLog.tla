------------------------------ MODULE WatchLog ------------------------------
(***************************************************************************)
(* The bounded log of guest events (src/internal/watchlog/watchlog.go).  A *)
(* cursor names an event by the generation of the log and its number in    *)
(* it; Reset starts a generation that was never used before.               *)
(***************************************************************************)
EXTENDS Naturals, Sequences

\* watchlog.New and Log.Reset
NewLog(epoch) == [epoch |-> epoch, next |-> 0, events |-> <<>>]

\* makeCursor; NoCursor is the empty one.
Cursor(epoch, seq) == [epoch |-> epoch, seq |-> seq]
NoCursor == Cursor(0, 0)

Current(log) == Cursor(log.epoch, log.next)

\* Faults: one event too few is kept, and a replay starts with
\* the event the cursor names.
TrimEarly(events, capacity) ==
    IF Len(events) > capacity
    THEN SubSeq(events, Len(events) - capacity + 2, Len(events))
    ELSE events

\* What Append keeps of the events: the last capacity of them.
Trim(events, capacity) ==
    IF Len(events) > capacity
    THEN SubSeq(events, Len(events) - capacity + 1, Len(events))
    ELSE events

\* The event Append stores and returns.
Stamped(log, event) ==
    [cursor |-> Cursor(log.epoch, log.next + 1), event |-> event]

AppendEvent(log, event, capacity) ==
    [log EXCEPT !.next = @ + 1,
                !.events = Trim(Append(@, Stamped(log, event)), capacity)]

\* The number of the last event that was dropped from the log.
Oldest(log) == log.next - Len(log.events)

\* Since finds the events after the cursor, or it is ErrLagged.
CanResume(log, cursor) ==
    \/ cursor = NoCursor
    \/ /\ cursor.epoch = log.epoch
       /\ cursor.seq <= log.next
       /\ cursor.seq >= Oldest(log)

StartOf(log, cursor) == IF cursor = NoCursor THEN Current(log) ELSE cursor

ReplayInclusive(log, cursor) ==
    IF cursor = NoCursor \/ cursor.seq = Oldest(log) THEN log.events
    ELSE SubSeq(log.events, cursor.seq - Oldest(log), Len(log.events))

Replay(log, cursor) ==
    IF cursor = NoCursor THEN <<>>
    ELSE SubSeq(log.events, cursor.seq - Oldest(log) + 1, Len(log.events))
=============================================================================
