------------------------------ MODULE HomeDiff ------------------------------
(***************************************************************************)
(* How the agent turns two scans of Home into events (diffSnap in          *)
(* src/agent/watch.go).  A scan is a function from the paths found to what *)
(* is there: a directory, or a file with a hash that stands for its body.  *)
(* Symbolic links, special files and paths the host would refuse are not   *)
(* in a scan (scanHome).                                                   *)
(***************************************************************************)
EXTENDS FiniteSets, Functions

CONSTANTS
    Path,
    Hash,     \* what a file may hold
    Dir       \* what a directory is

ASSUME DiffAssumption == Dir \notin Hash

Kinds == Hash \cup {Dir}
Scans == UNION {[S -> Kinds] : S \in SUBSET Path}

Event(op, path, from) == [op |-> op, path |-> path, from |-> from]

Deleted(old, next) == DOMAIN old \ DOMAIN next
Created(old, next) == DOMAIN next \ DOMAIN old

----------------------------------------------------------------------------
(* Faults: what the code would do without one of its precautions.          *)

SameCount(old, next) ==
    Cardinality(Deleted(old, next)) = 1 /\ Cardinality(Created(old, next)) = 1

----------------------------------------------------------------------------
\* Files that are in both scans, and differ.  A path that was a file and is
\* a directory, or the reverse, is not among them.
Replaced(old, next) ==
    {p \in DOMAIN old \cap DOMAIN next :
        old[p] # Dir /\ next[p] # Dir /\ old[p] # next[p]}

\* One file disappeared and one with the same hash appeared.
IsMove(old, next) ==
    \E p \in Deleted(old, next), q \in Created(old, next) :
        /\ Deleted(old, next) = {p} /\ Created(old, next) = {q}
        /\ old[p] # Dir /\ next[q] # Dir
        /\ old[p] = next[q]

\* The order within the set is that of a map and so any.
DiffSnap(old, next) ==
    {Event("replace", p, p) : p \in Replaced(old, next)} \cup
    IF IsMove(old, next)
    THEN {Event("move", q, p) : p \in Deleted(old, next), q \in Created(old, next)}
    ELSE {Event("delete", p, p) : p \in Deleted(old, next)} \cup
         {Event("create", q, q) : q \in Created(old, next)}

----------------------------------------------------------------------------
(* What one who follows the events makes of them, as the README shows: a   *)
(* created or replaced path is read, a deleted one dropped, a moved one    *)
(* moved in the store, or read if it is not there.                         *)

Vanished(events) ==
    {e.path : e \in {d \in events : d.op = "delete"}} \cup
    {e.from : e \in {m \in events : m.op = "move"}}

Appeared(events) == {e.path : e \in {c \in events : c.op # "delete"}}

\* The paths that events name.
Named(events) == Vanished(events) \cup Appeared(events)

Followed(store, events, read) ==
    [p \in (DOMAIN store \ Vanished(events)) \cup Appeared(events) |->
        IF \E e \in events : e.op \in {"create", "replace"} /\ e.path = p THEN read[p]
        ELSE IF \E e \in events : e.op = "move" /\ e.path = p
        THEN LET f == (CHOOSE e \in events : e.op = "move" /\ e.path = p).from
             IN  IF f \in DOMAIN store THEN store[f] ELSE read[p]
        ELSE store[p]]

----------------------------------------------------------------------------
(* What the events leave open.                                             *)

\* A file that is a directory now, or the reverse: no event says so.
Turned(old, next) ==
    {p \in DOMAIN old \cap DOMAIN next : ~(old[p] = Dir <=> next[p] = Dir)}

\* Paths of which a follower cannot know what they are, given those of which
\* it could not before: an event that names one settles it, except a move,
\* which the follower copies from what it believed in.
StillUnclear(unclear, old, next) ==
    LET events == DiffSnap(old, next)
        moves == {e \in events : e.op = "move"}
    IN  (unclear \ Named(events)) \cup Turned(old, next)
            \cup {e.path : e \in {m \in moves : m.from \in unclear}}
=============================================================================
