-------------------------- MODULE AgentHomeProofs --------------------------
(***************************************************************************)
(* What the agent tells the host about Home, for any number of paths,      *)
(* changes and calls: what a caller's calls did, if they succeeded, never  *)
(* comes back as events, and the events that a client received say what    *)
(* became of the scan it started from, but for paths that are unclear.     *)
(***************************************************************************)
EXTENDS AgentHome, FiniteSetTheorems, WellFoundedInduction, TLAPS

ScanTypeOK ==
    /\ home \in Scans /\ snap \in Scans
    /\ by \in [Path -> {"caller", "guest", "failed"}]
    /\ authors \subseteq {"guest", "failed"}

\* The last scan has whatever a call that succeeded changed last.
CallerIsScanned == \A p \in Path : by[p] = "caller" => Agree(home, snap, p)

SilenceInv == ScanTypeOK /\ CallerIsScanned

----------------------------------------------------------------------------
(* Scans.                                                                  *)

IsMap(f) == f = [p \in DOMAIN f |-> f[p]]

LEMMA ScanIs ==
    ASSUME NEW f \in Scans
    PROVE  IsMap(f) /\ DOMAIN f \subseteq Path /\ \A p \in DOMAIN f : f[p] \in Kinds
<1>1. PICK S \in SUBSET Path : f \in [S -> Kinds]
  BY DEF Scans
<1> QED
  BY <1>1 DEF IsMap

LEMMA IsScan ==
    ASSUME NEW f, IsMap(f), DOMAIN f \subseteq Path, \A p \in DOMAIN f : f[p] \in Kinds
    PROVE  f \in Scans
<1>1. f \in [DOMAIN f -> Kinds]
  BY DEF IsMap
<1> QED
  BY <1>1 DEF Scans

LEMMA EmptyScan == <<>> \in Scans
<1>1. IsMap(<<>>) /\ DOMAIN <<>> = {}
  BY DEF IsMap
<1> QED
  BY <1>1, IsScan

LEMMA PutScan ==
    ASSUME NEW f \in Scans, NEW p \in Path, NEW h \in Kinds
    PROVE  /\ Put(f, p, h) \in Scans
           /\ \A q \in Path : q # p => Agree(Put(f, p, h), f, q)
<1>1. PICK g : g = Put(f, p, h)
  OBVIOUS
<1>2. /\ IsMap(g) /\ DOMAIN g = DOMAIN f \cup {p} /\ g[p] = h
      /\ \A q \in DOMAIN f : q # p => g[q] = f[q]
  BY <1>1 DEF Put, IsMap
<1>3. DOMAIN f \subseteq Path /\ \A q \in DOMAIN f : f[q] \in Kinds
  BY ScanIs
<1>4. DOMAIN g \subseteq Path /\ \A q \in DOMAIN g : g[q] \in Kinds
  BY <1>2, <1>3
<1>5. g \in Scans
  BY <1>2, <1>4, IsScan
<1>6. \A q \in Path : q # p => Agree(g, f, q)
  BY <1>2 DEF Agree
<1> QED
  BY <1>1, <1>5, <1>6

LEMMA DropScan ==
    ASSUME NEW f \in Scans, NEW p
    PROVE  /\ Drop(f, p) \in Scans
           /\ \A q \in Path : q # p => Agree(Drop(f, p), f, q)
<1>1. PICK g : g = Drop(f, p)
  OBVIOUS
<1>2. /\ IsMap(g) /\ DOMAIN g = DOMAIN f \ {p}
      /\ \A q \in DOMAIN f : q # p => g[q] = f[q]
  BY <1>1 DEF Drop, Restrict, IsMap
<1>3. DOMAIN f \subseteq Path /\ \A q \in DOMAIN f : f[q] \in Kinds
  BY ScanIs
<1>4. DOMAIN g \subseteq Path /\ \A q \in DOMAIN g : g[q] \in Kinds
  BY <1>2, <1>3
<1>5. g \in Scans
  BY <1>2, <1>4, IsScan
<1>6. \A q \in Path : q # p => Agree(g, f, q)
  BY <1>2 DEF Agree
<1> QED
  BY <1>1, <1>5, <1>6

LEMMA RestrictScan ==
    ASSUME NEW f \in Scans, NEW S
    PROVE  Restrict(f, DOMAIN f \ S) \in Scans
<1>1. PICK g : g = Restrict(f, DOMAIN f \ S)
  OBVIOUS
<1>2. IsMap(g) /\ DOMAIN g = DOMAIN f \ S /\ \A q \in DOMAIN g : g[q] = f[q]
  BY <1>1 DEF Restrict, IsMap
<1>3. DOMAIN f \subseteq Path /\ \A q \in DOMAIN f : f[q] \in Kinds
  BY ScanIs
<1>4. DOMAIN g \subseteq Path /\ \A q \in DOMAIN g : g[q] \in Kinds
  BY <1>2, <1>3
<1> QED
  BY <1>1, <1>2, <1>4, IsScan

LEMMA MoveScan ==
    ASSUME NEW f \in Scans, NEW p \in DOMAIN f, NEW q \in Path
    PROVE  /\ Move(f, p, q) \in Scans
           /\ \A r \in Path : r \notin {p, q} => Agree(Move(f, p, q), f, r)
<1>1. PICK d, g : d = Drop(f, p) /\ g = Put(d, q, f[p])
  OBVIOUS
<1>2. f[p] \in Kinds
  BY ScanIs
<1>3. d \in Scans /\ \A r \in Path : r # p => Agree(d, f, r)
  BY <1>1, DropScan
<1>4. g \in Scans /\ \A r \in Path : r # q => Agree(g, d, r)
  BY <1>1, <1>2, <1>3, PutScan
<1>5. \A r \in Path : r \notin {p, q} => Agree(g, f, r)
  BY <1>3, <1>4 DEF Agree
<1> QED
  BY <1>1, <1>4, <1>5 DEF Move

\* Events name the paths at which the scans differ, and no others.
LEMMA EventsDiffer ==
    ASSUME NEW old \in Scans, NEW new \in Scans, NEW e \in DiffSnap(old, new)
    PROVE  /\ e.path \in Path /\ ~Agree(new, old, e.path)
           /\ e.from \in Path /\ ~Agree(new, old, e.from)
<1>1. DOMAIN old \subseteq Path /\ DOMAIN new \subseteq Path
  BY ScanIs
<1>2. CASE e \in {Event("replace", p, p) : p \in Replaced(old, new)}
  <2>1. PICK p \in Replaced(old, new) : e = Event("replace", p, p)
    BY <1>2
  <2>2. p \in DOMAIN old /\ p \in DOMAIN new /\ old[p] # new[p] /\ e.path = p /\ e.from = p
    BY <2>1 DEF Replaced, Event
  <2> QED
    BY <1>1, <2>2 DEF Agree
<1>3. CASE e \in {Event("move", q, p) : p \in Deleted(old, new), q \in Created(old, new)}
  <2>1. PICK p \in Deleted(old, new), q \in Created(old, new) : e = Event("move", q, p)
    BY <1>3
  <2>2. /\ q \in DOMAIN new /\ q \notin DOMAIN old /\ e.path = q
        /\ p \in DOMAIN old /\ p \notin DOMAIN new /\ e.from = p
    BY <2>1 DEF Created, Deleted, Event
  <2> QED
    BY <1>1, <2>2 DEF Agree
<1>4. CASE e \in {Event("delete", p, p) : p \in Deleted(old, new)}
  <2>1. PICK p \in Deleted(old, new) : e = Event("delete", p, p)
    BY <1>4
  <2>2. p \in DOMAIN old /\ p \notin DOMAIN new /\ e.path = p /\ e.from = p
    BY <2>1 DEF Deleted, Event
  <2> QED
    BY <1>1, <2>2 DEF Agree
<1>5. CASE e \in {Event("create", q, q) : q \in Created(old, new)}
  <2>1. PICK q \in Created(old, new) : e = Event("create", q, q)
    BY <1>5
  <2>2. q \in DOMAIN new /\ q \notin DOMAIN old /\ e.path = q /\ e.from = q
    BY <2>1 DEF Created, Event
  <2> QED
    BY <1>1, <2>2 DEF Agree
<1> QED
  BY <1>2, <1>3, <1>4, <1>5 DEF DiffSnap

LEMMA NamedDiffer ==
    ASSUME NEW old \in Scans, NEW new \in Scans, NEW p \in Named(DiffSnap(old, new))
    PROVE  p \in Path /\ ~Agree(new, old, p)
<1>1. PICK e \in DiffSnap(old, new) : p = e.path \/ p = e.from
  BY DEF Named, Vanished, Appeared
<1> QED
  BY <1>1, EventsDiffer

----------------------------------------------------------------------------
(* A caller's own changes.                                                 *)

\* The guest, or a call that fails, changes Home behind the scan.
LEMMA OthersAreNotSilent ==
    ASSUME SilenceInv, NEW files \in Scans, NEW paths, NEW who \in {"guest", "failed"},
           \A q \in Path : q \notin paths => Agree(files, home, q),
           home' = files, snap' = snap, authors' = authors,
           by' = [p \in Path |-> IF p \in paths THEN who ELSE by[p]]
    PROVE  SilenceInv'
<1>1. ScanTypeOK'
  BY DEF SilenceInv, ScanTypeOK
<1>2. ASSUME NEW p \in Path, by'[p] = "caller" PROVE Agree(home', snap', p)
  <2>1. p \notin paths /\ by[p] = "caller"
    BY <1>2
  <2>2. Agree(files, home, p) /\ Agree(home, snap, p)
    BY <2>1 DEF SilenceInv, CallerIsScanned
  <2> QED
    BY <2>2 DEF Agree
<1> QED
  BY <1>1, <1>2 DEF SilenceInv, CallerIsScanned

LEMMA GuestIsNotSilent ==
    ASSUME SilenceInv, NEW files \in Scans, NEW paths,
           \A q \in Path : q \notin paths => Agree(files, home, q),
           GuestChange(files, paths)
    PROVE  SilenceInv'
<1>1. /\ home' = files /\ snap' = snap /\ authors' = authors
      /\ by' = [p \in Path |-> IF p \in paths THEN "guest" ELSE by[p]]
  BY DEF GuestChange
<1> QED
  BY <1>1, OthersAreNotSilent

LEMMA FailedIsNotSilent ==
    ASSUME SilenceInv, NEW files \in Scans, CallFails(files)
    PROVE  SilenceInv'
<1>1. PICK paths : paths = DiffersAt(files, home)
  OBVIOUS
<1>2. \A q \in Path : q \notin paths <=> Agree(files, home, q)
  BY <1>1 DEF DiffersAt
<1>3. /\ home' = files /\ snap' = snap /\ authors' = authors
      /\ by' = [p \in Path |-> IF Agree(files, home, p) THEN by[p] ELSE "failed"]
  BY DEF CallFails
<1>4. by' = [p \in Path |-> IF p \in paths THEN "failed" ELSE by[p]]
  BY <1>2, <1>3
<1> QED
  BY <1>2, <1>3, <1>4, OthersAreNotSilent

\* A call that succeeds takes a new scan.
LEMMA AppliedIsSilent ==
    ASSUME SilenceInv, NEW files \in Scans, NEW paths, Apply(files, paths)
    PROVE  SilenceInv'
<1>1. /\ home' = files /\ snap' = files /\ authors' = authors
      /\ by' = [p \in Path |-> IF p \in paths THEN "caller" ELSE by[p]]
  BY DEF Apply, ResetSnap
<1>2. ScanTypeOK'
  BY <1>1 DEF SilenceInv, ScanTypeOK
<1> QED
  BY <1>1, <1>2 DEF SilenceInv, CallerIsScanned, Agree

LEMMA SilenceStep ==
    ASSUME SilenceInv, [Next]_vars
    PROVE  SilenceInv'
<1>0. /\ home \in Scans /\ snap \in Scans /\ by \in [Path -> {"caller", "guest", "failed"}]
      /\ authors \subseteq {"guest", "failed"}
      /\ \A p \in Path : by[p] = "caller" => Agree(home, snap, p)
  BY DEF SilenceInv, ScanTypeOK, CallerIsScanned
<1>a. \A f, p : Agree(f, f, p)
  BY DEF Agree
<1>k. Dir \in Kinds /\ \A h \in Hash : h \in Kinds
  BY DEF Kinds
<1>1. ASSUME NEW p \in Path, NEW kind \in Kinds, GuestChange(Put(home, p, kind), {p})
      PROVE  SilenceInv'
  <2>1. /\ Put(home, p, kind) \in Scans
        /\ \A q \in Path : q \notin {p} => Agree(Put(home, p, kind), home, q)
    BY <1>0, PutScan
  <2> QED
    BY <1>1, <2>1, GuestIsNotSilent
<1>2. ASSUME NEW p \in Path, GuestRemove(p) PROVE SilenceInv'
  <2>1. Drop(home, p) \in Scans /\ \A q \in Path : q \notin {p} => Agree(Drop(home, p), home, q)
    BY <1>0, DropScan
  <2> QED
    BY <1>2, <2>1, GuestIsNotSilent DEF GuestRemove
<1>3. ASSUME NEW p \in Path, NEW q \in Path, GuestRename(p, q) PROVE SilenceInv'
  <2>1. p \in DOMAIN home /\ GuestChange(Move(home, p, q), {p, q})
    BY <1>3 DEF GuestRename, CanRename
  <2>2. /\ Move(home, p, q) \in Scans
        /\ \A r \in Path : r \notin {p, q} => Agree(Move(home, p, q), home, r)
    BY <1>0, <2>1, MoveScan
  <2> QED
    BY <2>1, <2>2, GuestIsNotSilent
<1>4. ASSUME NEW p \in Path, NEW kind \in Kinds, ApplyPut(p, kind) PROVE SilenceInv'
  <2>1. Put(home, p, kind) \in Scans
    BY <1>0, PutScan
  <2> QED
    BY <1>4, <2>1, AppliedIsSilent DEF ApplyPut
<1>5. ASSUME NEW p \in Path, ApplyDelete(p) PROVE SilenceInv'
  <2>1. Drop(home, p) \in Scans
    BY <1>0, DropScan
  <2> QED
    BY <1>5, <2>1, AppliedIsSilent DEF ApplyDelete
<1>6. ASSUME NEW p \in Path, NEW q \in Path, ApplyMove(p, q) PROVE SilenceInv'
  <2>1. p \in DOMAIN home /\ Apply(Move(home, p, q), {p, q})
    BY <1>6 DEF ApplyMove, CanRename
  <2>2. Move(home, p, q) \in Scans
    BY <1>0, <2>1, MoveScan
  <2> QED
    BY <2>1, <2>2, AppliedIsSilent
<1>7. ASSUME NEW tree \in Trees, ReplaceTree(tree) PROVE SilenceInv'
  <2>1. /\ home' = tree /\ snap' = home' /\ authors' = authors
        /\ by' = [p \in Path |-> "caller"]
    BY <1>7 DEF ReplaceTree, ResetSnap
  <2>2. tree \in Scans
    BY HomeAssumption
  <2>3. ScanTypeOK'
    BY <1>0, <2>1, <2>2 DEF ScanTypeOK
  <2> QED
    BY <1>0, <1>a, <2>1, <2>3 DEF SilenceInv, CallerIsScanned
<1>8. ASSUME NEW tree \in Trees, NEW paths, ReplaceFails(tree, paths) PROVE SilenceInv'
  <2>1. /\ Restrict(home, DOMAIN home \ paths) \in Scans
        /\ Restrict(tree, DOMAIN tree \ paths) \in Scans
    BY <1>0, RestrictScan, HomeAssumption
  <2> QED
    BY <1>8, <2>1, FailedIsNotSilent DEF ReplaceFails
<1>9. ASSUME NEW lost, ApplyFails(lost) PROVE SilenceInv'
  <2>1. Restrict(home, DOMAIN home \ lost) \in Scans
    BY <1>0, RestrictScan
  <2> QED
    BY <1>9, <2>1, FailedIsNotSilent DEF ApplyFails
<1>10. ASSUME NEW after, Watch(after) PROVE SilenceInv'
  <2>1. /\ snap' = (IF polling THEN snap ELSE home) /\ UNCHANGED <<home, by, authors>>
    BY <1>10 DEF Watch
  <2>2. CASE snap' = snap
    BY <1>0, <2>1, <2>2 DEF SilenceInv, ScanTypeOK, CallerIsScanned, Agree
  <2>3. CASE snap' = home
    <3>1. ScanTypeOK'
      BY <1>0, <2>1, <2>3 DEF ScanTypeOK
    <3> QED
      BY <1>0, <1>a, <2>1, <2>3, <3>1 DEF SilenceInv, CallerIsScanned
  <2> QED
    BY <2>1, <2>2, <2>3
<1>11. CASE Poll
  <2>1. /\ snap' = home /\ home' = home /\ by' = by
        /\ authors' = authors \cup {by[p] : p \in Named(DiffSnap(snap, home))}
    BY <1>11 DEF Poll
  <2>2. ASSUME NEW p \in Named(DiffSnap(snap, home)) PROVE by[p] \in {"guest", "failed"}
    <3>1. p \in Path /\ ~Agree(home, snap, p)
      BY <1>0, NamedDiffer
    <3> QED
      BY <1>0, <3>1
  <2>3. ScanTypeOK'
    BY <1>0, <2>1, <2>2 DEF ScanTypeOK
  <2> QED
    BY <1>0, <1>a, <2>1, <2>3 DEF SilenceInv, CallerIsScanned
<1>12. CASE UNCHANGED <<home, snap, by, authors>>
  BY <1>12 DEF SilenceInv, ScanTypeOK, CallerIsScanned, Agree
<1>13. CASE WatchLagged \/ Freeze \/ Thaw \/ Receive \/ ReceiveEnd \/ Close
  BY <1>12, <1>13 DEF WatchLagged, Freeze, Thaw, Receive, ReceiveEnd, Close
<1>14. CASE UNCHANGED vars
  BY <1>12, <1>14 DEF vars
<1> QED
  BY <1>k, <1>1, <1>2, <1>3, <1>4, <1>5, <1>6, <1>7, <1>8, <1>9, <1>10, <1>11, <1>13, <1>14
     DEF Next, GuestWrite, GuestMkdir

\* However the guest's changes, the polls, and the calls that succeed or fail
\* follow each other, nothing that a ReplaceTree or Apply which succeeded did
\* comes back to the caller as an event (resetSnap).
THEOREM CallersAreNotEchoed == Spec => []OwnChangesAreSilent
<1>1. Init => SilenceInv
  BY EmptyScan DEF Init, SilenceInv, ScanTypeOK, CallerIsScanned, Agree
<1>2. SilenceInv /\ [Next]_vars => SilenceInv'
  BY SilenceStep
<1>3. SilenceInv => OwnChangesAreSilent
  BY DEF SilenceInv, ScanTypeOK, OwnChangesAreSilent
<1> QED
  BY <1>1, <1>2, <1>3, PTL DEF Spec

----------------------------------------------------------------------------
(* What a client that follows the events knows.                            *)

ChangeRec == [op : {"create", "replace", "delete", "move"}, path : Path, from : Path]
NoteRec == [end : {FALSE}, change : ChangeRec, scan : Scans]
EndRec == [end : {TRUE}, lagged : BOOLEAN]
CursorRec == [epoch : Nat, seq : Nat]
EntryRec == [cursor : CursorRec, event : NoteRec]
LogRec == [epoch : Nat \ {0}, next : Nat, events : Seq(EntryRec)]
FrameRec == [cursor : CursorRec, event : NoteRec \cup EndRec]

FollowTypeOK ==
    /\ home \in Scans /\ snap \in Scans
    /\ log \in LogRec
    /\ inbox \in Seq(FrameRec)
    /\ cursor \in CursorRec

\* Nothing is kept of an epoch that is still to come.
EpochsAreBehind ==
    /\ cursor.epoch <= log.epoch
    /\ \A i \in 1..Len(inbox) : inbox[i].cursor.epoch <= log.epoch

\* An entry says how the scan before it becomes the scan after it.
Leads(h, k, entry) ==
    /\ ~entry.event.end
    /\ entry.cursor.seq = k
    /\ h[k] = Followed(h[k - 1], {entry.event.change}, entry.event.scan)

\* The entries of a log that come after a place.
LogLeads(h, l, place) ==
    /\ Len(l.events) <= l.next
    /\ \A i \in 1..Len(l.events) :
           /\ l.events[i].cursor.epoch = l.epoch
           /\ Oldest(l) + i > place => Leads(h, Oldest(l) + i, l.events[i])

\* Where the client is in the log: at its end if its cursor is of another epoch.
Place == IF cursor.epoch = log.epoch THEN cursor.seq ELSE log.next

\* What the client has got is where its cursor is.
SeenIsAtCursor(h) ==
    cursor.epoch = log.epoch => cursor.seq <= log.next /\ seen = h[cursor.seq]

\* What is on its way to the client leads from its cursor to the last scan.
InboxLeads(h) ==
    IF watching
    THEN /\ cursor.epoch = log.epoch
         /\ cursor.seq + Len(inbox) = log.next
         /\ \A i \in 1..Len(inbox) :
                /\ inbox[i].cursor.epoch = log.epoch
                /\ Leads(h, cursor.seq + i, inbox[i])
    ELSE \A i \in 1..Len(inbox) : inbox[i].cursor.epoch # log.epoch

\* A client that got to the end of the log knows the last scan, but for what
\* is unclear.
TellsScan(f) == IsMap(f) /\ \A p \in Path \ unclear : Agree(f, snap, p)

IsTrail(h) ==
    /\ TellsScan(h[log.next])
    /\ LogLeads(h, log, Place)
    /\ SeenIsAtCursor(h)
    /\ InboxLeads(h)

Following == ~frozen /\ ~resync

WatchingPolls ==
    /\ watching => polling /\ ~frozen
    /\ Following /\ ~polling => log.next = 0 /\ cursor.epoch # log.epoch

FollowInv ==
    /\ FollowTypeOK
    /\ EpochsAreBehind
    /\ WatchingPolls
    /\ Following => \E h : IsTrail(h)

----------------------------------------------------------------------------
(* The events between two scans.                                           *)

Paths(e) == {e.path, e.from}

\* What an event says of the two scans.
LEMMA DiffSays ==
    ASSUME NEW old, NEW new, NEW e \in DiffSnap(old, new)
    PROVE  \/ \E p \in Replaced(old, new) : e = Event("replace", p, p)
           \/ ~IsMove(old, new) /\ \E p \in Deleted(old, new) : e = Event("delete", p, p)
           \/ ~IsMove(old, new) /\ \E q \in Created(old, new) : e = Event("create", q, q)
           \/ /\ IsMove(old, new)
              /\ \E p, q : /\ e = Event("move", q, p) /\ old[p] = new[q]
                           /\ Deleted(old, new) = {p} /\ Created(old, new) = {q}
<1>1. CASE e \in {Event("replace", p, p) : p \in Replaced(old, new)}
  BY <1>1
<1>2. CASE IsMove(old, new) /\
           e \in {Event("move", q, p) : p \in Deleted(old, new), q \in Created(old, new)}
  <2>1. PICK p \in Deleted(old, new), q \in Created(old, new) : e = Event("move", q, p)
    BY <1>2
  <2>2. Deleted(old, new) = {p} /\ Created(old, new) = {q} /\ old[p] = new[q]
    BY <1>2 DEF IsMove
  <2> QED
    BY <1>2, <2>1, <2>2
<1>3. CASE ~IsMove(old, new) /\
           e \in {Event("delete", p, p) : p \in Deleted(old, new)} \cup
                 {Event("create", q, q) : q \in Created(old, new)}
  BY <1>3
<1> QED
  BY <1>1, <1>2, <1>3 DEF DiffSnap

\* No path is named by two events.
LEMMA EventsAreApart ==
    ASSUME NEW old, NEW new, NEW e \in DiffSnap(old, new), NEW d \in DiffSnap(old, new),
           e # d
    PROVE  Paths(e) \cap Paths(d) = {}
<1>1. /\ Replaced(old, new) \cap Deleted(old, new) = {}
      /\ Replaced(old, new) \cap Created(old, new) = {}
      /\ Deleted(old, new) \cap Created(old, new) = {}
  BY DEF Replaced, Deleted, Created
<1>2. ASSUME NEW p, NEW q, IsMove(old, new) => Deleted(old, new) = {p} /\ Created(old, new) = {q}
      PROVE  IsMove(old, new) => \A a \in DiffSnap(old, new) :
                 \/ a = Event("move", q, p)
                 \/ \E r \in Replaced(old, new) : a = Event("replace", r, r)
  BY <1>2 DEF DiffSnap
<1>3. \A op, p, q : Paths(Event(op, p, q)) = {p, q}
  BY DEF Paths, Event
<1>4. CASE IsMove(old, new)
  <2>1. PICK p, q : Deleted(old, new) = {p} /\ Created(old, new) = {q}
    BY <1>4 DEF IsMove
  <2>2. \A a \in DiffSnap(old, new) :
            \/ a = Event("move", q, p)
            \/ \E r \in Replaced(old, new) : a = Event("replace", r, r)
    BY <1>2, <1>4, <2>1
  <2>3. CASE e = Event("move", q, p)
    <3>1. PICK r \in Replaced(old, new) : d = Event("replace", r, r)
      BY <2>2, <2>3
    <3> QED
      BY <1>1, <1>3, <2>1, <2>3, <3>1
  <2>4. CASE d = Event("move", q, p)
    <3>1. PICK r \in Replaced(old, new) : e = Event("replace", r, r)
      BY <2>2, <2>4
    <3> QED
      BY <1>1, <1>3, <2>1, <2>4, <3>1
  <2>5. CASE e # Event("move", q, p) /\ d # Event("move", q, p)
    <3>1. PICK r \in Replaced(old, new) : e = Event("replace", r, r)
      BY <2>2, <2>5
    <3>2. PICK t \in Replaced(old, new) : d = Event("replace", t, t)
      BY <2>2, <2>5
    <3> QED
      BY <1>3, <3>1, <3>2
  <2> QED
    BY <2>3, <2>4, <2>5
<1>5. CASE ~IsMove(old, new)
  <2>1. \A a \in DiffSnap(old, new) :
            \/ \E r \in Replaced(old, new) : a = Event("replace", r, r)
            \/ \E r \in Deleted(old, new) : a = Event("delete", r, r)
            \/ \E r \in Created(old, new) : a = Event("create", r, r)
    BY <1>5 DEF DiffSnap
  <2>2. PICK r : \/ r \in Replaced(old, new) /\ e = Event("replace", r, r)
                 \/ r \in Deleted(old, new) /\ e = Event("delete", r, r)
                 \/ r \in Created(old, new) /\ e = Event("create", r, r)
    BY <2>1
  <2>3. PICK t : \/ t \in Replaced(old, new) /\ d = Event("replace", t, t)
                 \/ t \in Deleted(old, new) /\ d = Event("delete", t, t)
                 \/ t \in Created(old, new) /\ d = Event("create", t, t)
    BY <2>1
  <2>4. Paths(e) = {r} /\ Paths(d) = {t}
    BY <1>3, <2>2, <2>3
  <2>5. r # t
    BY <1>1, <2>2, <2>3
  <2> QED
    BY <2>4, <2>5
<1> QED
  BY <1>4, <1>5

\* Where two scans differ, there is an event, or a file turned into a
\* directory or back.
LEMMA DiffCovers ==
    ASSUME NEW old \in Scans, NEW new \in Scans,
           NEW p \in Path, p \notin Turned(old, new), \A e \in DiffSnap(old, new) : p \notin Paths(e)
    PROVE  Agree(old, new, p)
<1>1. \A op, r, q : r \in Paths(Event(op, r, q)) /\ q \in Paths(Event(op, r, q))
  BY DEF Paths, Event
<1>2. p \notin Replaced(old, new)
  BY <1>1 DEF DiffSnap
<1>3. p \notin Deleted(old, new) /\ p \notin Created(old, new)
  <2>1. CASE IsMove(old, new)
    <3>1. PICK r, q : Deleted(old, new) = {r} /\ Created(old, new) = {q}
      BY <2>1 DEF IsMove
    <3>2. Event("move", q, r) \in DiffSnap(old, new)
      BY <2>1, <3>1 DEF DiffSnap
    <3> QED
      BY <1>1, <3>1, <3>2
  <2>2. CASE ~IsMove(old, new)
    <3>1. \A r \in Deleted(old, new) : Event("delete", r, r) \in DiffSnap(old, new)
      BY <2>2 DEF DiffSnap
    <3>2. \A q \in Created(old, new) : Event("create", q, q) \in DiffSnap(old, new)
      BY <2>2 DEF DiffSnap
    <3> QED
      BY <1>1, <3>1, <3>2
  <2> QED
    BY <2>1, <2>2
<1> QED
  BY <1>2, <1>3 DEF Agree, Turned, Replaced, Deleted, Created

\* Noted, of any two scans.
Notes(old, new) == {[end |-> FALSE, change |-> e, scan |-> new] : e \in DiffSnap(old, new)}

\* The order of diffOnce has every event once.
LEMMA Enumerated ==
    ASSUME IsFiniteSet(Path), NEW old \in Scans, NEW new \in Scans,
           NEW es \in SetToSeqs(Notes(old, new))
    PROVE  /\ es \in Seq(Notes(old, new)) /\ Len(es) \in Nat
           /\ \A i, j \in 1..Len(es) : i # j => es[i].change # es[j].change
           /\ \A e \in DiffSnap(old, new) : \E i \in 1..Len(es) : es[i].change = e
<1> DEFINE S == Notes(old, new)
           f == [n \in S |-> n.change.path]
<1>1. f \in Injection(S, Path)
  <2>1. ASSUME NEW n \in S PROVE n.change \in DiffSnap(old, new) /\ n.scan = new /\ n.end = FALSE
                                 /\ n = [end |-> FALSE, change |-> n.change, scan |-> new]
    BY DEF Notes
  <2>2. f \in [S -> Path]
    BY <2>1, EventsDiffer
  <2>3. ASSUME NEW a \in S, NEW b \in S, a.change.path = b.change.path PROVE a = b
    <3>1. a.change = b.change
      <4>1. a.change \in DiffSnap(old, new) /\ b.change \in DiffSnap(old, new)
        BY <2>1
      <4>2. a.change.path \in Paths(a.change) /\ a.change.path \in Paths(b.change)
        BY <2>3 DEF Paths
      <4> QED
        BY <4>1, <4>2, EventsAreApart
    <3> QED
      BY <2>1, <3>1
  <2> QED
    BY <2>2, <2>3 DEF Injection, IsInjective
<1>2. IsFiniteSet(S)
  BY <1>1, FS_Injection
<1>3. Cardinality(S) \in Nat
  BY <1>2, FS_CardinalityType
<1>4. /\ es \in [1..Cardinality(S) -> S]
      /\ \A i, j \in 1..Cardinality(S) : i # j => es[i] # es[j]
  BY DEF SetToSeqs
<1>5. es \in Injection(1..Cardinality(S), S)
  BY <1>4 DEF Injection, IsInjective
<1>6. IsFiniteSet(1..Cardinality(S)) /\ Cardinality(1..Cardinality(S)) = Cardinality(S)
  BY <1>3, FS_Interval
<1>7. es \in Surjection(1..Cardinality(S), S)
  BY <1>2, <1>5, <1>6, FS_Injection
<1>8. es \in Seq(S) /\ Len(es) = Cardinality(S)
  BY <1>3, <1>4
<1>9. \A i \in 1..Len(es) : es[i] = [end |-> FALSE, change |-> es[i].change, scan |-> new]
  BY <1>4, <1>8 DEF Notes
<1>10. \A i, j \in 1..Len(es) : i # j => es[i].change # es[j].change
  BY <1>4, <1>8, <1>9
<1>11. ASSUME NEW e \in DiffSnap(old, new) PROVE \E i \in 1..Len(es) : es[i].change = e
  <2>1. PICK n : n = [end |-> FALSE, change |-> e, scan |-> new]
    OBVIOUS
  <2>2. n \in S /\ n.change = e
    BY <2>1 DEF Notes
  <2>3. PICK i \in 1..Cardinality(S) : es[i] = n
    BY <1>7, <2>2 DEF Surjection
  <2>4. i \in 1..Len(es)
    BY <1>8
  <2> QED
    BY <2>2, <2>3, <2>4
<1> QED
  BY <1>3, <1>8, <1>10, <1>11

\* The paths that the first i events speak of, and what one who believed in b
\* before believes in after these: of the target of a move it has its own copy,
\* if it had one of the source.
Told(es, i) == UNION {Paths(es[j].change) : j \in 1..i}
Got(b, old, new, p) ==
    IF /\ IsMove(old, new)
       /\ \E r \in DOMAIN b : Deleted(old, new) = {r} /\ Created(old, new) = {p}
    THEN b[CHOOSE r \in DOMAIN b : Deleted(old, new) = {r}]
    ELSE new[p]
Midway(b, old, new, es, i) ==
    [p \in (DOMAIN b \ Told(es, i)) \cup (DOMAIN new \cap Told(es, i)) |->
        IF p \in Told(es, i) THEN Got(b, old, new, p) ELSE b[p]]

OneMove(old, new, p, q) ==
    /\ IsMove(old, new)
    /\ Deleted(old, new) = {p}
    /\ Created(old, new) = {q}

LEMMA GotIs ==
    ASSUME NEW b, NEW old, NEW new, NEW p, NEW q, OneMove(old, new, p, q)
    PROVE  /\ p \in DOMAIN b => Got(b, old, new, q) = b[p]
           /\ p \notin DOMAIN b => Got(b, old, new, q) = new[q]
<1>1. ASSUME p \in DOMAIN b PROVE Got(b, old, new, q) = b[p]
  <2>1. (CHOOSE r \in DOMAIN b : Deleted(old, new) = {r}) = p
    BY <1>1 DEF OneMove
  <2>2. \E r \in DOMAIN b : Deleted(old, new) = {r} /\ Created(old, new) = {q}
    BY <1>1 DEF OneMove
  <2> QED
    BY <2>1, <2>2 DEF Got, OneMove
<1>2. ASSUME p \notin DOMAIN b PROVE Got(b, old, new, q) = new[q]
  <2>1. ~(\E r \in DOMAIN b : Deleted(old, new) = {r} /\ Created(old, new) = {q})
    BY <1>2 DEF OneMove
  <2> QED
    BY <2>1 DEF Got
<1> QED
  BY <1>1, <1>2

LEMMA GotIsNew ==
    ASSUME NEW b, NEW old, NEW new, NEW p, ~IsMove(old, new) \/ Created(old, new) # {p}
    PROVE  Got(b, old, new, p) = new[p]
BY DEF Got

\* What one event makes of a scan.
IsFollowed(s, e, read, g) ==
    /\ IsMap(g)
    /\ DOMAIN g = IF e.op = "delete" THEN DOMAIN s \ {e.path}
                  ELSE IF e.op = "move" THEN (DOMAIN s \ {e.from}) \cup {e.path}
                  ELSE DOMAIN s \cup {e.path}
    /\ e.op \in {"create", "replace"} => g[e.path] = read[e.path]
    /\ e.op = "move" => g[e.path] = IF e.from \in DOMAIN s THEN s[e.from] ELSE read[e.path]
    /\ \A p \in DOMAIN g : p # e.path => g[p] = s[p]

LEMMA FollowedOne ==
    ASSUME NEW s, NEW e, NEW read, e.op \in {"create", "replace", "delete", "move"}
    PROVE  IsFollowed(s, e, read, Followed(s, {e}, read))
<1>0. PICK g : g = Followed(s, {e}, read)
  OBVIOUS
<1>1. /\ Vanished({e}) = IF e.op = "delete" THEN {e.path}
                         ELSE IF e.op = "move" THEN {e.from} ELSE {}
      /\ Appeared({e}) = IF e.op = "delete" THEN {} ELSE {e.path}
  BY DEF Vanished, Appeared
<1>2. e.op = "move" => \A p : e.path = p =>
          (CHOOSE d \in {e} : d.op = "move" /\ d.path = p) = e
  OBVIOUS
<1>3. DOMAIN g = (DOMAIN s \ Vanished({e})) \cup Appeared({e}) /\ IsMap(g)
  BY <1>0 DEF Followed, IsMap
<1>4. e.op \in {"create", "replace"} => g[e.path] = read[e.path]
  BY <1>0, <1>1, <1>3 DEF Followed
<1>5. \A p \in DOMAIN g : p # e.path => g[p] = s[p]
  BY <1>0, <1>3 DEF Followed
<1>6. e.op = "move" => g[e.path] = IF e.from \in DOMAIN s THEN s[e.from] ELSE read[e.path]
  BY <1>0, <1>1, <1>2, <1>3 DEF Followed
<1> QED
  BY <1>0, <1>1, <1>3, <1>4, <1>5, <1>6 DEF IsFollowed

LEMMA SameScan ==
    ASSUME NEW f, NEW g, IsMap(f), IsMap(g), DOMAIN f = DOMAIN g,
           \A p \in DOMAIN f : f[p] = g[p]
    PROVE  f = g
BY DEF IsMap

IsMidway(b, old, new, T, g) ==
    /\ IsMap(g)
    /\ DOMAIN g = (DOMAIN b \ T) \cup (DOMAIN new \cap T)
    /\ \A p \in DOMAIN g : g[p] = IF p \in T THEN Got(b, old, new, p) ELSE b[p]

LEMMA MidwayIs ==
    ASSUME NEW b, NEW old, NEW new, NEW es, NEW i
    PROVE  IsMidway(b, old, new, Told(es, i), Midway(b, old, new, es, i))
BY DEF Midway, IsMap, IsMidway

\* One who was told nothing believes in what it did before, and one who was
\* told everything in the second scan, but for what is unclear.
LEMMA MidwayEnds ==
    ASSUME IsFiniteSet(Path), NEW old \in Scans, NEW new \in Scans,
           NEW b, IsMap(b), NEW u, \A p \in Path \ u : Agree(b, old, p),
           NEW es \in SetToSeqs(Notes(old, new))
    PROVE  /\ Midway(b, old, new, es, 0) = b
           /\ IsMap(Midway(b, old, new, es, Len(es)))
           /\ \A p \in Path \ StillUnclear(u, old, new) :
                  Agree(Midway(b, old, new, es, Len(es)), new, p)
<1>1. DOMAIN old \subseteq Path /\ DOMAIN new \subseteq Path
  BY ScanIs
<1>2. Midway(b, old, new, es, 0) = b
  <2>1. Told(es, 0) = {}
    BY DEF Told
  <2>2. PICK g : g = Midway(b, old, new, es, 0)
    OBVIOUS
  <2>3. IsMidway(b, old, new, {}, g)
    BY <2>1, <2>2, MidwayIs
  <2>4. IsMap(g) /\ DOMAIN g = DOMAIN b /\ \A p \in DOMAIN g : g[p] = b[p]
    BY <2>3 DEF IsMidway
  <2>5. g = b
    BY <2>4, SameScan
  <2> QED
    BY <2>2, <2>5
<1>3. PICK g, T : g = Midway(b, old, new, es, Len(es)) /\ T = Told(es, Len(es))
  OBVIOUS
<1>4. /\ IsMap(g)
      /\ DOMAIN g = (DOMAIN b \ T) \cup (DOMAIN new \cap T)
      /\ \A p \in DOMAIN g : g[p] = IF p \in T THEN Got(b, old, new, p) ELSE b[p]
  <2>1. IsMidway(b, old, new, T, g)
    BY <1>3, MidwayIs
  <2> QED
    BY <2>1 DEF IsMidway
<1>5. \A e \in DiffSnap(old, new) : Paths(e) \subseteq T
  <2>1. \A e \in DiffSnap(old, new) : \E i \in 1..Len(es) : es[i].change = e
    BY Enumerated
  <2> QED
    BY <1>3, <2>1 DEF Told
<1>6. Named(DiffSnap(old, new)) \subseteq T
  <2>1. \A p \in Named(DiffSnap(old, new)) : \E e \in DiffSnap(old, new) : p \in Paths(e)
    <3> SUFFICES ASSUME NEW p \in Named(DiffSnap(old, new))
                 PROVE  \E e \in DiffSnap(old, new) : p \in Paths(e)
      OBVIOUS
    <3>1. PICK e \in DiffSnap(old, new) : p = e.path \/ p = e.from
      BY DEF Named, Vanished, Appeared
    <3> QED
      BY <3>1 DEF Paths
  <2> QED
    BY <1>5, <2>1
<1>7. ASSUME NEW p \in Path \ StillUnclear(u, old, new) PROVE Agree(g, new, p)
  <2>1. /\ p \in u => p \in Named(DiffSnap(old, new))
        /\ p \notin Turned(old, new)
        /\ \A e \in DiffSnap(old, new) : e.op = "move" /\ e.path = p => e.from \notin u
    BY <1>7 DEF StillUnclear
  <2>2. CASE p \notin T
    <3>1. Agree(b, old, p)
      BY <1>6, <2>1, <2>2
    <3>2. Agree(old, new, p)
      BY <1>5, <2>1, <2>2, DiffCovers
    <3> QED
      BY <1>4, <2>2, <3>1, <3>2 DEF Agree
  <2>3. CASE p \in T
    <3>1. p \in DOMAIN g <=> p \in DOMAIN new
      BY <1>4, <2>3
    <3>2. Got(b, old, new, p) = new[p]
      <4>1. CASE ~IsMove(old, new) \/ Created(old, new) # {p}
        BY <4>1, GotIsNew
      <4>2. CASE IsMove(old, new) /\ Created(old, new) = {p}
        <5>1. PICK r : Deleted(old, new) = {r} /\ old[r] = new[p]
          BY <4>2 DEF IsMove
        <5>2. r \in Path /\ r \in DOMAIN old
          BY <1>1, <5>1 DEF Deleted
        <5>3. Event("move", p, r) \in DiffSnap(old, new)
          BY <4>2, <5>1 DEF DiffSnap
        <5>4. /\ Event("move", p, r).op = "move" /\ Event("move", p, r).path = p
              /\ Event("move", p, r).from = r
          BY DEF Event
        <5>5. Agree(b, old, r)
          BY <2>1, <5>2, <5>3, <5>4
        <5>6. /\ r \in DOMAIN b => Got(b, old, new, p) = b[r]
              /\ r \notin DOMAIN b => Got(b, old, new, p) = new[p]
          BY <4>2, <5>1, GotIs DEF OneMove
        <5> QED
          BY <5>1, <5>5, <5>6 DEF Agree
      <4> QED
        BY <4>1, <4>2
    <3> QED
      BY <1>4, <2>3, <3>1, <3>2 DEF Agree
  <2> QED
    BY <2>2, <2>3
<1> QED
  BY <1>2, <1>3, <1>4, <1>7

\* Each event leads from what one believed before to what one believes then.
LEMMA MidwayStep ==
    ASSUME IsFiniteSet(Path), NEW old \in Scans, NEW new \in Scans,
           NEW b,
           NEW es \in SetToSeqs(Notes(old, new)), NEW i \in 1..Len(es)
    PROVE  Midway(b, old, new, es, i) =
               Followed(Midway(b, old, new, es, i - 1), {es[i].change}, es[i].scan)
<1>1. /\ es \in Seq(Notes(old, new)) /\ Len(es) \in Nat
      /\ \A j \in 1..Len(es) : i # j => es[i].change # es[j].change
  BY Enumerated
<1>2. /\ \A j \in 1..Len(es) : es[j].change \in DiffSnap(old, new)
      /\ es[i].scan = new
  <2>1. \A j \in 1..Len(es) : es[j] \in Notes(old, new)
    BY <1>1
  <2> QED
    BY <2>1 DEF Notes
<1>3. PICK e : e = es[i].change
  OBVIOUS
<1>4. PICK T : T = Told(es, i - 1)
  OBVIOUS
<1>5. Told(es, i) = T \cup Paths(e)
  <2>1. 1..i = 1..(i - 1) \cup {i}
    BY <1>1
  <2> QED
    BY <1>3, <1>4, <2>1 DEF Told
<1>6. T \cap Paths(e) = {}
  <2>1. ASSUME NEW j \in 1..(i - 1) PROVE Paths(e) \cap Paths(es[j].change) = {}
    <3>1. j \in 1..Len(es) /\ i # j
      BY <1>1
    <3> QED
      BY <1>1, <1>2, <1>3, <3>1, EventsAreApart
  <2> QED
    BY <1>4, <2>1 DEF Told
<1>7. PICK s, g, f : /\ s = Midway(b, old, new, es, i - 1)
                     /\ g = Midway(b, old, new, es, i)
                     /\ f = Followed(s, {e}, new)
  OBVIOUS
<1>8. /\ IsMap(s)
      /\ DOMAIN s = (DOMAIN b \ T) \cup (DOMAIN new \cap T)
      /\ \A p \in DOMAIN s : s[p] = IF p \in T THEN Got(b, old, new, p) ELSE b[p]
  <2>1. IsMidway(b, old, new, T, s)
    BY <1>4, <1>7, MidwayIs
  <2> QED
    BY <2>1 DEF IsMidway
<1>9. PICK U : U = T \cup Paths(e)
  OBVIOUS
<1>10. /\ IsMap(g)
       /\ DOMAIN g = (DOMAIN b \ U) \cup (DOMAIN new \cap U)
       /\ \A p \in DOMAIN g : g[p] = IF p \in U THEN Got(b, old, new, p) ELSE b[p]
  <2>1. IsMidway(b, old, new, U, g)
    <3>1. U = Told(es, i)
      BY <1>5, <1>9
    <3> QED
      BY <1>7, <3>1, MidwayIs
  <2> QED
    BY <2>1 DEF IsMidway
<1>11. \/ \E p \in Replaced(old, new) : e = Event("replace", p, p)
       \/ \E p \in Deleted(old, new) : e = Event("delete", p, p)
       \/ ~IsMove(old, new) /\ \E q \in Created(old, new) : e = Event("create", q, q)
       \/ /\ IsMove(old, new)
          /\ \E p, q : /\ e = Event("move", q, p) /\ old[p] = new[q]
                       /\ Deleted(old, new) = {p} /\ Created(old, new) = {q}
  BY <1>2, <1>3, DiffSays
<1>12. \A op, p, q : /\ Event(op, q, p).op = op /\ Event(op, q, p).path = q
                     /\ Event(op, q, p).from = p /\ Paths(Event(op, q, p)) = {p, q}
  BY DEF Event, Paths
<1>13. e.op \in {"create", "replace", "delete", "move"}
  BY <1>11, <1>12
<1>14. /\ IsMap(f)
       /\ DOMAIN f = IF e.op = "delete" THEN DOMAIN s \ {e.path}
                     ELSE IF e.op = "move" THEN (DOMAIN s \ {e.from}) \cup {e.path}
                     ELSE DOMAIN s \cup {e.path}
       /\ e.op \in {"create", "replace"} => f[e.path] = new[e.path]
       /\ e.op = "move" => f[e.path] = IF e.from \in DOMAIN s THEN s[e.from] ELSE new[e.path]
       /\ \A p \in DOMAIN f : p # e.path => f[p] = s[p]
  <2>1. IsFollowed(s, e, new, f)
    BY <1>7, <1>13, FollowedOne
  <2> QED
    BY <2>1 DEF IsFollowed
<1>15. DOMAIN f = DOMAIN g /\ \A p \in DOMAIN g : f[p] = g[p]
  <2>1. CASE \E p \in Replaced(old, new) : e = Event("replace", p, p)
    <3>1. PICK p \in Replaced(old, new) : e = Event("replace", p, p)
      BY <2>1
    <3>2. p \in DOMAIN new /\ Got(b, old, new, p) = new[p]
      <4>1. p \in DOMAIN new /\ Created(old, new) # {p}
        BY DEF Replaced, Created
      <4> QED
        BY <4>1, GotIsNew
    <3>3. /\ DOMAIN f = DOMAIN s \cup {p} /\ f[p] = new[p] /\ p \notin T /\ U = T \cup {p}
          /\ \A q \in DOMAIN f : q # p => f[q] = s[q]
      BY <1>6, <1>9, <1>12, <1>14, <3>1
    <3> QED
      BY <1>8, <1>10, <3>2, <3>3
  <2>2. CASE \E p \in Deleted(old, new) : e = Event("delete", p, p)
    <3>1. PICK p \in Deleted(old, new) : e = Event("delete", p, p)
      BY <2>2
    <3>2. p \in DOMAIN old /\ p \notin DOMAIN new
      BY DEF Deleted
    <3>3. /\ DOMAIN f = DOMAIN s \ {p} /\ p \notin T /\ U = T \cup {p}
          /\ \A q \in DOMAIN f : q # p => f[q] = s[q]
      BY <1>6, <1>9, <1>12, <1>14, <3>1
    <3> QED
      BY <1>8, <1>10, <3>2, <3>3
  <2>3. CASE ~IsMove(old, new) /\ \E q \in Created(old, new) : e = Event("create", q, q)
    <3>1. PICK p \in Created(old, new) : e = Event("create", p, p)
      BY <2>3
    <3>2. p \in DOMAIN new /\ Got(b, old, new, p) = new[p]
      BY <2>3, GotIsNew DEF Created
    <3>3. /\ DOMAIN f = DOMAIN s \cup {p} /\ f[p] = new[p] /\ p \notin T /\ U = T \cup {p}
          /\ \A q \in DOMAIN f : q # p => f[q] = s[q]
      BY <1>6, <1>9, <1>12, <1>14, <3>1
    <3> QED
      BY <1>8, <1>10, <3>2, <3>3
  <2>4. CASE /\ IsMove(old, new)
             /\ \E p, q : /\ e = Event("move", q, p) /\ old[p] = new[q]
                          /\ Deleted(old, new) = {p} /\ Created(old, new) = {q}
    <3>1. PICK p, q : /\ e = Event("move", q, p) /\ old[p] = new[q]
                      /\ Deleted(old, new) = {p} /\ Created(old, new) = {q}
      BY <2>4
    <3>2. p \notin DOMAIN new /\ q \in DOMAIN new
      BY <3>1 DEF Deleted, Created
    <3>3. p \notin T /\ q \notin T /\ U = T \cup {p, q}
      BY <1>6, <1>9, <1>12, <3>1
    <3>4. /\ p \in DOMAIN s <=> p \in DOMAIN b
          /\ p \in DOMAIN s => s[p] = b[p]
      BY <1>8, <3>2, <3>3
    <3>5. /\ p \in DOMAIN b => Got(b, old, new, q) = b[p]
          /\ p \notin DOMAIN b => Got(b, old, new, q) = new[q]
      <4>1. OneMove(old, new, p, q)
        BY <2>4, <3>1 DEF OneMove
      <4> QED
        BY <4>1, GotIs
    <3>6. /\ DOMAIN f = (DOMAIN s \ {p}) \cup {q}
          /\ f[q] = IF p \in DOMAIN s THEN s[p] ELSE new[q]
          /\ \A r \in DOMAIN f : r # q => f[r] = s[r]
      BY <1>12, <1>14, <3>1
    <3>7. f[q] = Got(b, old, new, q)
      BY <3>4, <3>5, <3>6
    <3> QED
      BY <1>8, <1>10, <3>2, <3>3, <3>6, <3>7
  <2> QED
    BY <1>11, <2>1, <2>2, <2>3, <2>4
<1>16. f = g
  BY <1>10, <1>14, <1>15, SameScan
<1> QED
  BY <1>2, <1>3, <1>7, <1>16

LEMMA NotesAreNotes ==
    ASSUME NEW old \in Scans, NEW new \in Scans
    PROVE  Notes(old, new) \subseteq NoteRec
<1> SUFFICES ASSUME NEW e \in DiffSnap(old, new)
             PROVE  [end |-> FALSE, change |-> e, scan |-> new] \in NoteRec
  BY DEF Notes
<1>1. DOMAIN old \subseteq Path /\ DOMAIN new \subseteq Path
  BY ScanIs
<1>2. /\ Replaced(old, new) \subseteq Path /\ Deleted(old, new) \subseteq Path
      /\ Created(old, new) \subseteq Path
  BY <1>1 DEF Replaced, Deleted, Created
<1>3. \E op \in {"create", "replace", "delete", "move"}, p, q \in Path : e = Event(op, p, q)
  <2>1. CASE \E p \in Replaced(old, new) : e = Event("replace", p, p)
    BY <1>2, <2>1
  <2>2. CASE \E p \in Deleted(old, new) : e = Event("delete", p, p)
    BY <1>2, <2>2
  <2>3. CASE \E q \in Created(old, new) : e = Event("create", q, q)
    BY <1>2, <2>3
  <2>4. CASE \E p, q : /\ e = Event("move", q, p) /\ old[p] = new[q]
                       /\ Deleted(old, new) = {p} /\ Created(old, new) = {q}
    BY <1>2, <2>4
  <2> QED
    BY <2>1, <2>2, <2>3, <2>4, DiffSays
<1>4. e \in ChangeRec
  BY <1>3 DEF ChangeRec, Event
<1> QED
  BY <1>4 DEF NoteRec

----------------------------------------------------------------------------
(* Sequences of events, and the operators of the log.                      *)

LEMMA OneMore ==
    ASSUME NEW S, NEW s \in Seq(S), NEW e \in S
    PROVE  /\ Append(s, e) \in Seq(S)
           /\ Len(Append(s, e)) = Len(s) + 1
           /\ \A i \in 1..Len(s) : Append(s, e)[i] = s[i]
           /\ Append(s, e)[Len(s) + 1] = e
OBVIOUS

LEMMA LaterPart ==
    ASSUME NEW S, NEW s \in Seq(S), NEW m \in 1..Len(s) + 1
    PROVE  /\ SubSeq(s, m, Len(s)) \in Seq(S)
           /\ Len(SubSeq(s, m, Len(s))) = (Len(s) + 1) - m
           /\ \A i \in 1..(Len(s) + 1) - m : SubSeq(s, m, Len(s))[i] = s[m - 1 + i]
OBVIOUS

LEMMA WithoutFirst ==
    ASSUME NEW S, NEW s \in Seq(S), s # <<>>
    PROVE  /\ Tail(s) \in Seq(S) /\ Len(s) > 0
           /\ Len(Tail(s)) = Len(s) - 1
           /\ \A i \in 1..Len(s) - 1 : Tail(s)[i] = s[i + 1]
           /\ Head(s) = s[1] /\ Head(s) \in S
OBVIOUS

LEMMA Joined ==
    ASSUME NEW S, NEW s \in Seq(S), NEW t \in Seq(S)
    PROVE  /\ s \o t \in Seq(S)
           /\ Len(s \o t) = Len(s) + Len(t)
           /\ \A i \in 1..Len(s) : (s \o t)[i] = s[i]
           /\ \A i \in 1..Len(t) : (s \o t)[Len(s) + i] = t[i]
OBVIOUS

LEMMA TrimKeepsTheLast ==
    ASSUME NEW S, NEW s \in Seq(S), NEW c \in Nat
    PROVE  /\ Trim(s, c) \in Seq(S)
           /\ Len(Trim(s, c)) <= Len(s)
           /\ \A i \in 1..Len(Trim(s, c)) :
                  Trim(s, c)[i] = s[Len(s) - Len(Trim(s, c)) + i]
<1>1. CASE Len(s) > c
  <2>1. Len(s) - c + 1 \in 1..Len(s) + 1
    BY <1>1
  <2>2. Trim(s, c) = SubSeq(s, Len(s) - c + 1, Len(s))
    BY <1>1 DEF Trim
  <2> QED BY <1>1, <2>1, <2>2, LaterPart
<1>2. CASE ~(Len(s) > c)
  BY <1>2 DEF Trim
<1> QED BY <1>1, <1>2

\* The entry Append makes goes on where the log ended.
LEMMA AppendLeads ==
    ASSUME NEW l \in LogRec, NEW e \in NoteRec, NEW h, NEW place,
           NEW n, n = AppendEvent(l, e, LogCapacity)
    PROVE  /\ n \in LogRec
           /\ n.epoch = l.epoch /\ n.next = l.next + 1
           /\ LogLeads(h, l, place) /\ h[l.next + 1] = Followed(h[l.next], {e.change}, e.scan)
                => LogLeads(h, n, place)
<1>1. /\ l.events \in Seq(EntryRec) /\ l.next \in Nat /\ l.epoch \in Nat \ {0}
      /\ LogCapacity \in Nat
  BY HomeAssumption DEF LogRec
<1>2. PICK st : st = Stamped(l, e)
  OBVIOUS
<1>3. /\ st \in EntryRec /\ st.cursor.epoch = l.epoch /\ st.cursor.seq = l.next + 1
      /\ st.event = e
  BY <1>1, <1>2 DEF Stamped, EntryRec, CursorRec, Cursor
<1>4. PICK more : more = Append(l.events, st)
  OBVIOUS
<1>5. /\ more \in Seq(EntryRec)
      /\ Len(more) = Len(l.events) + 1
      /\ \A i \in 1..Len(l.events) : more[i] = l.events[i]
      /\ more[Len(l.events) + 1] = st
  BY <1>1, <1>3, <1>4, OneMore
<1>6. /\ n.epoch = l.epoch /\ n.next = l.next + 1
      /\ n.events = Trim(more, LogCapacity)
      /\ n = [epoch |-> n.epoch, next |-> n.next, events |-> n.events]
  BY <1>2, <1>4 DEF AppendEvent, LogRec
<1>7. /\ n.events \in Seq(EntryRec) /\ Len(n.events) <= Len(more)
      /\ \A i \in 1..Len(n.events) : n.events[i] = more[Len(more) - Len(n.events) + i]
  <2>1. /\ Trim(more, LogCapacity) \in Seq(EntryRec)
        /\ Len(Trim(more, LogCapacity)) <= Len(more)
        /\ \A i \in 1..Len(Trim(more, LogCapacity)) :
               Trim(more, LogCapacity)[i] =
                   more[Len(more) - Len(Trim(more, LogCapacity)) + i]
    <3>1. more \in Seq(EntryRec) /\ LogCapacity \in Nat
      BY <1>1, <1>5
    <3> QED
      BY <3>1, TrimKeepsTheLast, Zenon
  <2> QED
    BY <1>6, <2>1
<1>8. n \in LogRec
  BY <1>1, <1>6, <1>7 DEF LogRec
<1>9. ASSUME LogLeads(h, l, place), h[l.next + 1] = Followed(h[l.next], {e.change}, e.scan)
      PROVE  LogLeads(h, n, place)
  <2>1. PICK a \in Nat, b \in Nat, x \in Nat :
            a = Len(l.events) /\ b = Len(n.events) /\ x = l.next
    BY <1>1, <1>7
  <2>2. a <= x /\ b <= a + 1 /\ n.next = x + 1
    BY <1>5, <1>6, <1>7, <1>9, <2>1 DEF LogLeads
  <2>3. ASSUME NEW i \in 1..b
        PROVE  /\ n.events[i].cursor.epoch = n.epoch
               /\ Oldest(n) + i > place => Leads(h, Oldest(n) + i, n.events[i])
    <3>1. PICK k \in 1..a + 1 : k = (a + 1) - b + i
      BY <2>2
    <3>2. Oldest(n) + i = x - a + k
      <4>1. Oldest(n) = (x + 1) - b
        BY <2>1, <2>2 DEF Oldest
      <4> QED
        BY <3>1, <4>1
    <3>3. n.events[i] = more[k]
      <4>1. Len(more) - Len(n.events) + i = k
        BY <1>5, <2>1, <3>1
      <4> QED
        BY <1>7, <2>1, <4>1
    <3>4. CASE k = a + 1
      <4>1. n.events[i] = st
        BY <1>5, <2>1, <3>3, <3>4
      <4>2. Oldest(n) + i = l.next + 1
        BY <2>1, <3>2, <3>4
      <4>3. Leads(h, l.next + 1, st)
        <5>1. ~e.end
          BY DEF NoteRec
        <5>2. (l.next + 1) - 1 = l.next
          BY <1>1
        <5> QED
          BY <1>3, <1>9, <5>1, <5>2 DEF Leads
      <4> QED
        BY <1>3, <1>6, <4>1, <4>2, <4>3
    <3>5. CASE k # a + 1
      <4>1. k \in 1..a
        BY <3>5
      <4>2. n.events[i] = l.events[k]
        BY <1>5, <2>1, <3>3, <4>1
      <4>3. Oldest(n) + i = Oldest(l) + k
        BY <2>1, <3>2 DEF Oldest
      <4>4. /\ l.events[k].cursor.epoch = l.epoch
            /\ Oldest(l) + k > place => Leads(h, Oldest(l) + k, l.events[k])
        BY <1>9, <2>1, <4>1 DEF LogLeads
      <4> QED
        BY <1>6, <4>2, <4>3, <4>4
    <3> QED
      BY <3>4, <3>5
  <2> QED
    BY <2>1, <2>2, <2>3 DEF LogLeads
<1> QED
  BY <1>6, <1>8, <1>9

\* Induction over the events of one poll is the induction of the natural
\* numbers over a set.
LEMMA SetInduction ==
    ASSUME NEW S, 0 \in S, \A n \in Nat : n \in S => n + 1 \in S
    PROVE  Nat \subseteq S
<1> DEFINE R == {ss \in Nat \X Nat : ss[1] < ss[2]}
<1>1. IsWellFoundedOn(R, Nat)
  BY NatLessThanWellFounded DEF OpToRel
<1> SUFFICES ASSUME Nat \ S # {} PROVE FALSE
  OBVIOUS
<1>2. \E x \in Nat \ S : \A y \in Nat \ S : ~(<<y, x>> \in R)
  BY <1>1, WFMin
<1>3. PICK x \in Nat \ S : \A y \in Nat \ S : ~(y < x)
  BY <1>2
<1>4. x # 0 /\ x - 1 \in Nat /\ ~(x - 1 \in Nat \ S)
  BY <1>3
<1> QED
  BY <1>4

\* f is the log after each of the first n events.
IsAppended(f, es, n) ==
    f = [i \in 0..n |-> IF i = 0 THEN log
                        ELSE AppendEvent(f[i - 1], es[i], LogCapacity)]

LEMMA AppendedExist ==
    ASSUME NEW es, NEW N \in Nat
    PROVE  \E f : IsAppended(f, es, N)
<1> DEFINE S == {n \in Nat : \E f : IsAppended(f, es, n)}
<1>1. 0 \in S
  <2> DEFINE f == [n \in 0..0 |-> log]
  <2>1. IsAppended(f, es, 0)
    BY DEF IsAppended
  <2> QED
    BY <2>1
<1>2. ASSUME NEW n \in Nat, n \in S PROVE n + 1 \in S
  <2>1. PICK f : IsAppended(f, es, n)
    BY <1>2
  <2> DEFINE At(g, i) == IF i = 0 THEN log ELSE AppendEvent(g[i - 1], es[i], LogCapacity)
             g == [i \in 0..n+1 |-> IF i = n + 1
                                    THEN AppendEvent(f[n], es[n+1], LogCapacity) ELSE f[i]]
  <2>2. IsAppended(g, es, n + 1)
    <3>1. \A i \in 0..n : g[i] = f[i]
      OBVIOUS
    <3>2. \A i \in 0..n : f[i] = At(f, i)
      BY <2>1 DEF IsAppended
    <3>3. \A i \in 0..n+1 : g[i] = At(g, i)
      <4> SUFFICES ASSUME NEW i \in 0..n+1 PROVE g[i] = At(g, i)
        OBVIOUS
      <4>1. CASE i = n + 1
        BY <4>1, <3>1
      <4>2. CASE i # n + 1
        <5>1. i \in 0..n /\ (i # 0 => i - 1 \in 0..n)
          BY <4>2
        <5> QED
          BY <5>1, <3>1, <3>2
      <4> QED
        BY <4>1, <4>2
    <3> HIDE DEF g
    <3>4. g = [i \in 0..n+1 |-> g[i]]
      BY DEF g
    <3> QED
      BY <3>3, <3>4 DEF IsAppended
  <2> QED
    BY <2>2
<1>3. Nat \subseteq S
  BY <1>1, <1>2, SetInduction
<1> QED
  BY <1>3

\* Logged is what it says: the recursive function exists.
LEMMA LoggedIs ==
    ASSUME NEW es, NEW N \in Nat, N = Len(es)
    PROVE  \E f : /\ Logged(es) = f[N] /\ f[0] = log
                  /\ \A n \in 1..N : f[n] = AppendEvent(f[n - 1], es[n], LogCapacity)
<1>1. \E f : IsAppended(f, es, N)
  BY AppendedExist
<1>2. PICK f : f = CHOOSE g : IsAppended(g, es, N)
  OBVIOUS
<1>3. Logged(es) = f[N]
  BY <1>2 DEF Logged, IsAppended
<1>4. IsAppended(f, es, N)
  BY <1>1, <1>2
<1>5. \A i \in 0..N : f[i] = IF i = 0 THEN log
                             ELSE AppendEvent(f[i - 1], es[i], LogCapacity)
  BY <1>4 DEF IsAppended
<1>6. f[0] = log
  BY <1>5
<1>7. ASSUME NEW n \in 1..N PROVE f[n] = AppendEvent(f[n - 1], es[n], LogCapacity)
  <2>1. n \in 0..N /\ n # 0
    OBVIOUS
  <2> QED
    BY <1>5, <2>1
<1> QED
  BY <1>3, <1>6, <1>7

EventsLead(h, es) ==
    \A i \in 1..Len(es) :
        h[log.next + i] = Followed(h[log.next + i - 1], {es[i].change}, es[i].scan)

\* All the events of one poll go on where the log ended.
LEMMA LoggedLeads ==
    ASSUME log \in LogRec, NEW es \in Seq(NoteRec), NEW h, NEW place,
           NEW l, l = Logged(es)
    PROVE  /\ l \in LogRec
           /\ l.epoch = log.epoch /\ l.next = log.next + Len(es)
           /\ LogLeads(h, log, place) /\ EventsLead(h, es) => LogLeads(h, l, place)
<1>1. PICK N \in Nat : N = Len(es)
  OBVIOUS
<1>2. PICK f : /\ l = f[N] /\ f[0] = log
               /\ \A n \in 1..N : f[n] = AppendEvent(f[n - 1], es[n], LogCapacity)
  BY <1>1, LoggedIs
<1> DEFINE Good(n) == /\ f[n] \in LogRec
                      /\ f[n].epoch = log.epoch /\ f[n].next = log.next + n
                      /\ LogLeads(h, log, place) /\ EventsLead(h, es) => LogLeads(h, f[n], place)
           S == {n \in Nat : n <= N => Good(n)}
<1>3. log.next \in Nat
  BY DEF LogRec
<1>4. 0 \in S
  <2>1. Good(0)
    BY <1>2, <1>3
  <2> QED
    BY <2>1
<1>5. ASSUME NEW n \in Nat, n \in S, n + 1 <= N PROVE Good(n + 1)
  <2>1. Good(n) /\ n + 1 \in 1..N
    BY <1>5
  <2>2. PICK a, b, e : a = f[n] /\ b = f[n + 1] /\ e = es[n + 1]
    OBVIOUS
  <2>3. b = AppendEvent(a, e, LogCapacity)
    <3>1. f[n + 1] = AppendEvent(f[(n + 1) - 1], es[n + 1], LogCapacity) /\ (n + 1) - 1 = n
      BY <1>2, <2>1
    <3> QED
      BY <2>2, <3>1
  <2>4. e \in NoteRec
    BY <1>1, <2>1, <2>2
  <2>5. a \in LogRec /\ a.epoch = log.epoch /\ a.next = log.next + n
    BY <2>1, <2>2
  <2>6. /\ b \in LogRec /\ b.epoch = a.epoch /\ b.next = a.next + 1
        /\ LogLeads(h, a, place) /\ h[a.next + 1] = Followed(h[a.next], {e.change}, e.scan)
             => LogLeads(h, b, place)
    BY <2>3, <2>4, <2>5, AppendLeads
  <2>7. ASSUME LogLeads(h, log, place), EventsLead(h, es) PROVE LogLeads(h, b, place)
    <3>1. LogLeads(h, a, place)
      BY <2>1, <2>2, <2>7
    <3>2. h[log.next + (n + 1)] =
              Followed(h[log.next + (n + 1) - 1], {es[n + 1].change}, es[n + 1].scan)
      BY <1>1, <2>1, <2>7 DEF EventsLead
    <3>3. log.next + (n + 1) = a.next + 1 /\ log.next + (n + 1) - 1 = a.next
      BY <1>3, <2>5
    <3> QED
      BY <2>2, <2>6, <3>1, <3>2, <3>3
  <2>8. log.next + (n + 1) = a.next + 1
    BY <1>3, <2>5
  <2> QED
    BY <2>2, <2>5, <2>6, <2>7, <2>8
<1> HIDE DEF Good
<1>6. \A n \in Nat : n \in S => n + 1 \in S
  BY <1>5
<1>7. Nat \subseteq S
  BY <1>4, <1>6, SetInduction
<1>8. Good(N)
  BY <1>7
<1> QED
  BY <1>1, <1>2, <1>8 DEF Good

\* Since finds what leads from the cursor to the end of the log.
LEMMA ReplayLeads ==
    ASSUME log \in LogRec, NEW h, NEW c \in CursorRec, LogLeads(h, log, c.seq), c # NoCursor, CanResume(log, c),
           NEW r, r = Replay(log, c)
    PROVE  /\ c.epoch = log.epoch
           /\ r \in Seq(EntryRec)
           /\ c.seq + Len(r) = log.next
           /\ \A i \in 1..Len(r) : r[i].cursor.epoch = log.epoch /\ Leads(h, c.seq + i, r[i])
<1>1. log.events \in Seq(EntryRec) /\ log.next \in Nat /\ c.seq \in Nat
  BY DEF LogRec, CursorRec
<1>2. c.epoch = log.epoch /\ c.seq <= log.next /\ c.seq >= log.next - Len(log.events)
  BY DEF CanResume, Oldest
<1>3. PICK a \in Nat, x \in Nat, y \in Nat : a = Len(log.events) /\ x = log.next /\ y = c.seq
  BY <1>1
<1>4. a <= x /\ y <= x /\ y >= x - a
  BY <1>2, <1>3 DEF LogLeads
<1>5. PICK m \in 1..a + 1 : m = y - (x - a) + 1
  BY <1>4
<1>6. Oldest(log) = x - a
  BY <1>3 DEF Oldest
<1>7. r = SubSeq(log.events, m, Len(log.events))
  BY <1>3, <1>5, <1>6 DEF Replay
<1>8. /\ r \in Seq(EntryRec)
      /\ Len(r) = (a + 1) - m
      /\ \A i \in 1..(a + 1) - m : r[i] = log.events[m - 1 + i]
  <2>1. m \in 1..Len(log.events) + 1
    BY <1>3
  <2> QED
    BY <1>1, <1>3, <1>7, <2>1, LaterPart
<1>9. y + Len(r) = x
  BY <1>4, <1>5, <1>8
<1>10. ASSUME NEW i \in 1..Len(r)
       PROVE  r[i].cursor.epoch = log.epoch /\ Leads(h, c.seq + i, r[i])
  <2>1. PICK k \in 1..a : k = m - 1 + i
    BY <1>5, <1>8
  <2>2. r[i] = log.events[k]
    <3>1. i \in 1..(a + 1) - m
      BY <1>8
    <3>2. r[i] = log.events[m - 1 + i]
      BY <1>8, <3>1
    <3> QED
      BY <2>1, <3>2, Zenon
  <2>3. Oldest(log) + k = c.seq + i
    <3>1. i \in Int
      BY <1>8
    <3>2. (x - a) + ((y - (x - a) + 1) - 1 + i) = y + i
      BY <3>1
    <3> QED
      BY <1>3, <1>5, <1>6, <2>1, <3>2
  <2>4. c.seq + i > c.seq
    BY <1>1, <1>8
  <2> QED
    BY <1>3, <2>1, <2>2, <2>3, <2>4 DEF LogLeads
<1> QED
  BY <1>2, <1>3, <1>8, <1>9, <1>10

----------------------------------------------------------------------------
(* Each step keeps the trail from what the client has seen to the scan.    *)

\* Nothing of a log comes after its end.
LEMMA LaterPlace ==
    ASSUME NEW l \in LogRec, NEW h, NEW place \in Nat, LogLeads(h, l, place),
           NEW later \in Nat, later >= place
    PROVE  LogLeads(h, l, later)
<1>1. PICK a \in Nat, x \in Nat : a = Len(l.events) /\ x = Oldest(l)
  BY DEF LogLeads, LogRec, Oldest
<1>2. \A i \in 1..a : x + i > later => x + i > place
  OBVIOUS
<1> QED
  BY <1>1, <1>2 DEF LogLeads

LEMMA AtTheEnd ==
    ASSUME NEW l \in LogRec, NEW h, NEW g, NEW place, LogLeads(h, l, place)
    PROVE  LogLeads(g, l, l.next)
<1>1. PICK a \in Nat, x \in Nat : a = Len(l.events) /\ x = l.next /\ a <= x
  BY DEF LogLeads, LogRec
<1>2. Oldest(l) = x - a /\ \A i \in 1..a : ~((x - a) + i > x)
  BY <1>1 DEF Oldest
<1> QED
  BY <1>1, <1>2 DEF LogLeads

LEMMA EntriesAreFrames == Seq(EntryRec) \subseteq Seq(FrameRec)
<1>1. EntryRec \subseteq FrameRec
  BY DEF EntryRec, FrameRec
<1> QED
  BY <1>1

\* The frame that ends an observation is of no epoch.
LEMMA EndedInbox ==
    ASSUME FollowTypeOK, EpochsAreBehind, NEW reason,
           NEW b, b = IF watching THEN Append(inbox, EndFrame(reason)) ELSE inbox
    PROVE  b \in Seq(FrameRec) /\ \A i \in 1..Len(b) : b[i].cursor.epoch <= log.epoch
<1>1. /\ inbox \in Seq(FrameRec) /\ log.epoch \in Nat
      /\ \A i \in 1..Len(inbox) : inbox[i].cursor.epoch <= log.epoch
  BY DEF FollowTypeOK, LogRec, EpochsAreBehind
<1>2. PICK e : e = EndFrame(reason)
  OBVIOUS
<1>3. e \in FrameRec /\ e.cursor.epoch = 0
  <2>1. (reason = "lagged") \in BOOLEAN
    BY Zenon
  <2> QED
    BY <1>2, <2>1 DEF EndFrame, FrameRec, EndRec, NoCursor, Cursor, CursorRec
<1>4. CASE watching
  <2>1. b = Append(inbox, e)
    BY <1>2, <1>4
  <2> QED
    BY <1>1, <1>3, <2>1
<1> QED
  BY <1>1, <1>4

\* Home changes behind the scan.
LEMMA HomeKeepsTrail ==
    ASSUME FollowInv, home' \in Scans,
           UNCHANGED <<snap, log, polling, frozen, watching, inbox, cursor, seen, unclear, resync>>
    PROVE  FollowInv'
BY DEF FollowInv, FollowTypeOK, EpochsAreBehind, WatchingPolls, Following, IsTrail, TellsScan,
       Place, SeenIsAtCursor, InboxLeads

LEMMA GuestKeepsTrail ==
    ASSUME FollowInv, NEW files \in Scans, NEW paths, GuestChange(files, paths)
    PROVE  FollowInv'
BY HomeKeepsTrail DEF GuestChange

LEMMA FailedKeepsTrail ==
    ASSUME FollowInv, NEW files \in Scans, CallFails(files)
    PROVE  FollowInv'
BY HomeKeepsTrail DEF CallFails

\* The client keeps what it knows, and where the new scan differs from the
\* last that is unclear.
LEMMA ApplyKeepsTrail ==
    ASSUME FollowInv, NEW files \in Scans, NEW paths, Apply(files, paths)
    PROVE  FollowInv'
<1>1. /\ home' = files /\ snap' = files /\ unclear' = unclear \cup DiffersAt(snap, snap')
      /\ UNCHANGED <<log, polling, frozen, watching, inbox, cursor, seen, resync>>
  BY DEF Apply, ResetSnap
<1>2. FollowTypeOK' /\ EpochsAreBehind' /\ WatchingPolls'
  BY <1>1 DEF FollowInv, FollowTypeOK, EpochsAreBehind, WatchingPolls, Following
<1>3. ASSUME Following' PROVE \E h : IsTrail(h)'
  <2>1. PICK h : IsTrail(h)
    BY <1>1, <1>3 DEF FollowInv, Following
  <2>2. ASSUME NEW p \in Path \ unclear' PROVE Agree(h[log.next], snap', p)
    <3>1. p \notin unclear /\ Agree(snap, snap', p)
      BY <1>1, <2>2 DEF DiffersAt
    <3>2. Agree(h[log.next], snap, p)
      BY <2>1, <3>1 DEF IsTrail, TellsScan
    <3> QED
      BY <3>1, <3>2 DEF Agree
  <2>3. TellsScan(h[log.next])'
    BY <1>1, <2>1, <2>2 DEF IsTrail, TellsScan
  <2>4. IsTrail(h)'
    BY <1>1, <2>1, <2>3 DEF IsTrail, Place, SeenIsAtCursor, InboxLeads
  <2> QED
    BY <2>4
<1> QED
  BY <1>2, <1>3 DEF FollowInv

LEMMA StoppedKeepsTrail ==
    ASSUME FollowInv, WatchLagged \/ Thaw \/ Freeze
    PROVE  FollowInv'
<1>1. CASE WatchLagged \/ Thaw
  BY <1>1 DEF WatchLagged, Thaw, FollowInv, FollowTypeOK, EpochsAreBehind, WatchingPolls,
              Following
<1>2. CASE Freeze
  <2>1. /\ frozen' = TRUE /\ watching' = FALSE
        /\ inbox' = IF watching THEN Append(inbox, EndFrame("frozen")) ELSE inbox
        /\ UNCHANGED <<home, snap, log, cursor>>
    BY <1>2 DEF Freeze
  <2>2. inbox' \in Seq(FrameRec) /\ \A i \in 1..Len(inbox') : inbox'[i].cursor.epoch <= log.epoch
    BY <2>1, EndedInbox DEF FollowInv
  <2> QED
    BY <2>1, <2>2 DEF FollowInv, FollowTypeOK, EpochsAreBehind, WatchingPolls, Following
<1> QED
  BY <1>1, <1>2

LEMMA ReplaceKeepsTrail ==
    ASSUME FollowInv, NEW tree \in Trees, ReplaceTree(tree)
    PROVE  FollowInv'
<1>1. /\ home' = tree /\ snap' = tree /\ seen' = tree /\ unclear' = {}
      /\ watching' = FALSE /\ cursor' = NoCursor
      /\ inbox' = (IF watching THEN Append(inbox, EndFrame("lagged")) ELSE inbox)
      /\ log' = NewLog(log.epoch + 1)
  BY DEF ReplaceTree, Invalidate, ResetLog, ResetSnap
<1>2. inbox' \in Seq(FrameRec) /\ \A i \in 1..Len(inbox') : inbox'[i].cursor.epoch <= log.epoch
  BY <1>1, EndedInbox DEF FollowInv
<1>3. log.epoch \in Nat \ {0}
  BY DEF FollowInv, FollowTypeOK, LogRec
<1>4. /\ log' \in LogRec /\ log'.epoch = log.epoch + 1
      /\ log'.next = 0 /\ log'.events = <<>>
  BY <1>1, <1>3 DEF NewLog, LogRec
<1>5. cursor' \in CursorRec /\ cursor'.epoch = 0
  BY <1>1 DEF NoCursor, Cursor, CursorRec
<1>6. tree \in Scans
  BY HomeAssumption
<1>7. FollowTypeOK'
  BY <1>1, <1>2, <1>4, <1>5, <1>6 DEF FollowTypeOK
<1>8. \A i \in 1..Len(inbox') : inbox'[i].cursor.epoch # log'.epoch
                                /\ inbox'[i].cursor.epoch <= log'.epoch
  <2> SUFFICES ASSUME NEW i \in 1..Len(inbox')
               PROVE  inbox'[i].cursor.epoch # log'.epoch /\ inbox'[i].cursor.epoch <= log'.epoch
    OBVIOUS
  <2>1. inbox'[i] \in FrameRec
    BY <1>2
  <2>2. inbox'[i].cursor.epoch \in Nat
    BY <2>1 DEF FrameRec, CursorRec
  <2> QED
    BY <1>2, <1>3, <1>4, <2>2
<1>9. EpochsAreBehind' /\ WatchingPolls'
  BY <1>1, <1>3, <1>4, <1>5, <1>8 DEF EpochsAreBehind, WatchingPolls
<1>10. PICK h : h = [k \in {0} |-> tree]
  OBVIOUS
<1>11. IsTrail(h)'
  <2>1. TellsScan(h[log.next])'
    <3>1. h[log'.next] = snap' /\ IsMap(tree)
      BY <1>1, <1>4, <1>6, <1>10, ScanIs
    <3> QED
      BY <1>1, <3>1 DEF TellsScan, Agree
  <2>2. LogLeads(h, log, Place)'
    BY <1>4 DEF LogLeads
  <2>3. SeenIsAtCursor(h)' /\ InboxLeads(h)'
    BY <1>1, <1>3, <1>4, <1>5, <1>8 DEF SeenIsAtCursor, InboxLeads
  <2> QED
    BY <2>1, <2>2, <2>3 DEF IsTrail
<1> QED
  BY <1>7, <1>9, <1>11 DEF FollowInv

LEMMA WatchKeepsTrail ==
    ASSUME FollowInv, NEW after, Watch(after)
    PROVE  FollowInv'
<1>1. /\ after \in {cursor, NoCursor} /\ CanResume(log, after)
      /\ ~frozen /\ ~resync /\ ~watching
      /\ watching' = TRUE /\ polling' = TRUE
      /\ snap' = (IF polling THEN snap ELSE home)
      /\ inbox' = Replay(log, after) /\ cursor' = StartOf(log, after)
      /\ (IF after = NoCursor THEN seen' = snap' /\ unclear' = {} ELSE UNCHANGED <<seen, unclear>>)
      /\ UNCHANGED <<home, log, frozen, resync>>
  BY DEF Watch
<1>2. /\ FollowTypeOK /\ WatchingPolls /\ Following
      /\ log \in LogRec /\ log.epoch \in Nat \ {0} /\ log.next \in Nat
      /\ cursor \in CursorRec
  BY <1>1 DEF FollowInv, FollowTypeOK, LogRec, Following
<1>3. PICK h : IsTrail(h)
  BY <1>2 DEF FollowInv
<1>4. snap' \in Scans
  <2>1. snap' = snap \/ snap' = home
    BY <1>1
  <2> QED
    BY <1>2, <2>1 DEF FollowTypeOK
<1>5. WatchingPolls'
  BY <1>1 DEF WatchingPolls
<1>6. CASE after = NoCursor
  <2>1. inbox' = <<>> /\ cursor' = Cursor(log.epoch, log.next) /\ seen' = snap'
        /\ unclear' = {}
    BY <1>1, <1>6 DEF Replay, StartOf, Current
  <2>2. cursor' \in CursorRec /\ cursor'.epoch = log.epoch /\ cursor'.seq = log.next
    BY <1>2, <2>1 DEF CursorRec, Cursor
  <2>3. FollowTypeOK' /\ EpochsAreBehind'
    BY <1>1, <1>2, <1>4, <2>1, <2>2 DEF FollowTypeOK, EpochsAreBehind
  <2>4. PICK g : g = [k \in {log.next} |-> snap']
    OBVIOUS
  <2>5. g[log.next] = snap' /\ LogLeads(g, log, log.next)
    BY <1>2, <1>3, <2>4, AtTheEnd DEF IsTrail
  <2>6. IsTrail(g)'
    <3>1. SeenIsAtCursor(g)'
      BY <1>1, <1>2, <2>1, <2>2, <2>5 DEF SeenIsAtCursor
    <3>2. InboxLeads(g)'
      BY <1>1, <1>2, <2>1, <2>2 DEF InboxLeads
    <3>3. LogLeads(g, log, Place)'
      BY <1>1, <2>2, <2>5 DEF Place
    <3>4. TellsScan(g[log.next])'
      BY <1>1, <1>4, <2>1, <2>5, ScanIs DEF TellsScan, Agree
    <3> QED
      BY <1>1, <3>1, <3>2, <3>3, <3>4 DEF IsTrail
  <2> QED
    BY <1>5, <2>3, <2>6 DEF FollowInv
<1>7. CASE after # NoCursor
  <2>1. /\ after = cursor /\ cursor # NoCursor /\ cursor' = cursor /\ seen' = seen
        /\ unclear' = unclear /\ cursor.epoch = log.epoch
    BY <1>1, <1>7 DEF StartOf, CanResume
  <2>2. LogLeads(h, log, cursor.seq)
    BY <1>3, <2>1 DEF IsTrail, Place
  <2>3. PICK r : r = Replay(log, cursor)
    OBVIOUS
  <2>4. /\ cursor.epoch = log.epoch
        /\ r \in Seq(EntryRec)
        /\ cursor.seq + Len(r) = log.next
        /\ \A i \in 1..Len(r) : r[i].cursor.epoch = log.epoch /\ Leads(h, cursor.seq + i, r[i])
    <3>1. CanResume(log, cursor)
      BY <1>1, <2>1
    <3> QED
      BY <1>2, <2>1, <2>2, <2>3, <3>1, ReplayLeads
  <2>5. inbox' = r /\ r \in Seq(FrameRec)
    BY <1>1, <2>1, <2>3, <2>4, EntriesAreFrames
  <2>6. polling /\ snap' = snap
    BY <1>1, <1>2, <2>4 DEF WatchingPolls
  <2>7. FollowTypeOK' /\ EpochsAreBehind'
    BY <1>1, <1>2, <1>4, <2>1, <2>4, <2>5 DEF FollowTypeOK, EpochsAreBehind
  <2>8. IsTrail(h)'
    <3>1. SeenIsAtCursor(h)'
      BY <1>1, <1>3, <2>1 DEF SeenIsAtCursor, IsTrail
    <3>2. InboxLeads(h)'
      BY <1>1, <2>1, <2>4, <2>5 DEF InboxLeads
    <3> QED
      BY <1>1, <1>3, <2>1, <2>6, <3>1, <3>2 DEF IsTrail, TellsScan, Place
  <2> QED
    BY <1>5, <2>7, <2>8 DEF FollowInv
<1> QED
  BY <1>6, <1>7

\* The client takes the next step of the trail, or an event of an epoch that
\* is over.
LEMMA ReceiveKeepsTrail ==
    ASSUME FollowInv, Receive
    PROVE  FollowInv'
<1>1. /\ inbox # <<>> /\ ~Head(inbox).event.end
      /\ seen' = (IF Head(inbox).cursor.epoch = log.epoch
                  THEN Followed(seen, {Head(inbox).event.change}, Head(inbox).event.scan)
                  ELSE seen)
      /\ cursor' = Head(inbox).cursor /\ inbox' = Tail(inbox)
      /\ UNCHANGED <<home, snap, log, polling, frozen, watching, unclear, resync>>
  BY DEF Receive, First
<1>2. /\ FollowTypeOK /\ EpochsAreBehind /\ WatchingPolls
      /\ inbox \in Seq(FrameRec) /\ cursor.seq \in Nat
  BY DEF FollowInv, FollowTypeOK, CursorRec
<1>3. PICK n \in Nat : n = Len(inbox)
  BY <1>2
<1>4. /\ Tail(inbox) \in Seq(FrameRec) /\ n > 0
      /\ Len(Tail(inbox)) = n - 1
      /\ \A i \in 1..n - 1 : Tail(inbox)[i] = inbox[i + 1]
      /\ Head(inbox) = inbox[1] /\ Head(inbox) \in FrameRec
  BY <1>1, <1>2, <1>3, WithoutFirst
<1>5. PICK e : e = Head(inbox)
  OBVIOUS
<1>6. /\ e = inbox[1] /\ e.cursor \in CursorRec /\ cursor' = e.cursor
      /\ 1 \in 1..n
  BY <1>1, <1>4, <1>5 DEF FrameRec
<1>7. FollowTypeOK'
  BY <1>1, <1>2, <1>4, <1>6 DEF FollowTypeOK
<1>8. \A i \in 1..n - 1 : i + 1 \in 1..n /\ inbox'[i] = inbox[i + 1]
  BY <1>1, <1>4
<1>9. EpochsAreBehind'
  BY <1>1, <1>2, <1>3, <1>4, <1>6, <1>8 DEF EpochsAreBehind
<1>10. CASE ~Following
  BY <1>1, <1>2, <1>7, <1>9, <1>10 DEF FollowInv, WatchingPolls, Following
<1>11. CASE Following
  <2>1. PICK h : IsTrail(h)
    BY <1>11 DEF FollowInv
  <2>2. CASE watching
    <3>1. /\ cursor.epoch = log.epoch /\ cursor.seq + n = log.next
          /\ \A i \in 1..n : inbox[i].cursor.epoch = log.epoch /\ Leads(h, cursor.seq + i, inbox[i])
      BY <1>3, <2>1, <2>2 DEF IsTrail, InboxLeads
    <3>2. e.cursor.epoch = log.epoch /\ Leads(h, cursor.seq + 1, e)
      BY <1>6, <3>1
    <3>3. e.cursor.seq = cursor.seq + 1 /\ (cursor.seq + 1) - 1 = cursor.seq
      BY <1>2, <3>2 DEF Leads
    <3>4. seen = h[cursor.seq]
      BY <2>1, <3>1 DEF IsTrail, SeenIsAtCursor
    <3>5. seen' = h[cursor'.seq]
      BY <1>1, <1>5, <1>6, <3>2, <3>3, <3>4 DEF Leads
    <3>6. SeenIsAtCursor(h)'
      <4>1. cursor.seq + 1 <= cursor.seq + n
        BY <1>2, <1>4
      <4>2. cursor'.seq <= log.next
        BY <1>6, <3>1, <3>3, <4>1
      <4> QED
        BY <1>1, <3>5, <4>2 DEF SeenIsAtCursor
    <3>7. InboxLeads(h)'
      <4>1. cursor'.epoch = log.epoch /\ cursor'.seq + (n - 1) = log.next
        <5>1. PICK y \in Nat : y = cursor.seq
          BY <1>2
        <5>2. (y + 1) + (n - 1) = y + n
          OBVIOUS
        <5> QED
          BY <1>6, <3>1, <3>2, <3>3, <5>1, <5>2
      <4>2. ASSUME NEW i \in 1..n - 1
            PROVE  inbox'[i].cursor.epoch = log.epoch /\ Leads(h, cursor'.seq + i, inbox'[i])
        <5>1. cursor'.seq + i = cursor.seq + (i + 1)
          BY <1>2, <1>6, <3>3
        <5> QED
          BY <1>8, <3>1, <5>1
      <4> QED
        BY <1>1, <1>4, <2>2, <4>1, <4>2 DEF InboxLeads
    <3>p. LogLeads(h, log, Place)'
      <4>1. LogLeads(h, log, cursor.seq) /\ log \in LogRec
        BY <1>2, <2>1, <3>1 DEF IsTrail, Place, FollowTypeOK
      <4>2. PICK y \in Nat, z \in Nat : y = cursor.seq /\ z = cursor.seq + 1
        BY <1>2
      <4>3. LogLeads(h, log, z)
        BY <4>1, <4>2, LaterPlace
      <4>4. log' = log /\ Place' = z
        BY <1>1, <1>6, <3>2, <3>3, <4>2 DEF Place
      <4> QED
        BY <4>3, <4>4
    <3>8. IsTrail(h)'
      BY <1>1, <2>1, <3>6, <3>7, <3>p DEF IsTrail, TellsScan
    <3>9. WatchingPolls'
      BY <1>1, <1>2, <2>2 DEF WatchingPolls
    <3> QED
      BY <1>7, <1>9, <3>8, <3>9 DEF FollowInv
  <2>3. CASE ~watching
    <3>1. \A i \in 1..n : inbox[i].cursor.epoch # log.epoch
      BY <1>3, <2>1, <2>3 DEF IsTrail, InboxLeads
    <3>2. cursor'.epoch # log.epoch
      BY <1>6, <3>1
    <3>3. InboxLeads(h)'
      BY <1>1, <1>4, <1>8, <2>3, <3>1 DEF InboxLeads
    <3>4. SeenIsAtCursor(h)'
      BY <1>1, <3>2 DEF SeenIsAtCursor
    <3>p. LogLeads(h, log, Place)'
      <4>1. log \in LogRec
        BY <1>2 DEF FollowTypeOK
      <4>2. LogLeads(h, log, log.next)
        BY <2>1, <4>1, AtTheEnd DEF IsTrail
      <4> QED
        BY <1>1, <3>2, <4>2 DEF Place
    <3>5. IsTrail(h)'
      BY <1>1, <2>1, <3>3, <3>4, <3>p DEF IsTrail, TellsScan
    <3>6. WatchingPolls'
      BY <1>1, <1>2, <2>3, <3>2 DEF WatchingPolls, Following
    <3> QED
      BY <1>7, <1>9, <3>5, <3>6 DEF FollowInv
  <2> QED
    BY <2>2, <2>3
<1> QED
  BY <1>10, <1>11

LEMMA EndKeepsTrail ==
    ASSUME FollowInv, ReceiveEnd \/ Close
    PROVE  FollowInv'
<1>1. /\ inbox' = <<>> /\ inbox' \in Seq(FrameRec)
      /\ Following' => Following
      /\ UNCHANGED <<home, snap, log, polling, frozen, cursor, seen, unclear>>
  <2>1. CASE ReceiveEnd
    <3>1. /\ inbox' = <<>> /\ resync' = (resync \/ First.lagged)
          /\ UNCHANGED <<home, snap, log, polling, frozen, cursor, seen, unclear>>
      BY <2>1 DEF ReceiveEnd
    <3>2. ~resync' => ~resync
      BY <3>1, Zenon
    <3> QED
      BY <3>1, <3>2 DEF Following
  <2>2. CASE Close
    BY <2>2 DEF Close, Following
  <2> QED
    BY <2>1, <2>2
<1>2. watching' => watching
  BY DEF ReceiveEnd, Close
<1>3. FollowTypeOK' /\ EpochsAreBehind' /\ WatchingPolls'
  BY <1>1, <1>2 DEF FollowInv, FollowTypeOK, EpochsAreBehind, WatchingPolls, Following
<1>4. ASSUME Following' PROVE \E h : IsTrail(h)'
  <2>1. PICK h : IsTrail(h)
    BY <1>1, <1>4 DEF FollowInv
  <2>2. ~watching'
    <3>1. CASE Close
      BY <3>1 DEF Close
    <3>2. CASE ReceiveEnd
      <4>1. inbox # <<>> /\ Head(inbox).event.end /\ watching' = watching
        BY <3>2 DEF ReceiveEnd, First
      <4>2. inbox \in Seq(FrameRec)
        BY DEF FollowInv, FollowTypeOK
      <4>3. Head(inbox) = inbox[1] /\ 1 \in 1..Len(inbox)
        BY <4>1, <4>2
      <4> QED
        BY <2>1, <4>1, <4>3 DEF IsTrail, InboxLeads, Leads
    <3> QED
      BY <3>1, <3>2
  <2>3. IsTrail(h)'
    BY <1>1, <2>1, <2>2 DEF IsTrail, TellsScan, Place, SeenIsAtCursor, InboxLeads
  <2> QED
    BY <2>3
<1> QED
  BY <1>3, <1>4 DEF FollowInv

LEMMA PollKeepsTrail ==
    ASSUME IsFiniteSet(Path), FollowInv, Poll
    PROVE  FollowInv'
<1>1. /\ FollowTypeOK /\ EpochsAreBehind /\ WatchingPolls /\ polling
      /\ home \in Scans /\ snap \in Scans
      /\ log \in LogRec /\ log.epoch \in Nat \ {0} /\ log.next \in Nat
      /\ inbox \in Seq(FrameRec) /\ cursor \in CursorRec
  BY DEF Poll, FollowInv, FollowTypeOK, LogRec
<1>2. /\ snap' = home /\ unclear' = StillUnclear(unclear, snap, home)
      /\ UNCHANGED <<home, polling, frozen, cursor, seen, resync>>
  BY DEF Poll
<1>3. {Noted(e) : e \in DiffSnap(snap, home)} = Notes(snap, home)
  BY DEF Noted, Notes
<1>4. PICK es \in SetToSeqs(Notes(snap, home)) :
          IF TooMany(es)
          THEN /\ log.epoch < MaxEpochs
               /\ Invalidate
               /\ log' = ResetLog
          ELSE /\ log' = Logged(es)
               /\ inbox' = IF watching THEN inbox \o Stamps(es) ELSE inbox
               /\ UNCHANGED watching
  BY <1>3 DEF Poll
<1>5. CASE TooMany(es)
  <2>1. /\ watching' = FALSE
        /\ inbox' = (IF watching THEN Append(inbox, EndFrame("lagged")) ELSE inbox)
        /\ log' = NewLog(log.epoch + 1)
    BY <1>4, <1>5 DEF Invalidate, ResetLog
  <2>2. inbox' \in Seq(FrameRec) /\ \A i \in 1..Len(inbox') : inbox'[i].cursor.epoch <= log.epoch
    BY <1>1, <2>1, EndedInbox
  <2>3. /\ log' \in LogRec /\ log'.epoch = log.epoch + 1
        /\ log'.next = 0 /\ log'.events = <<>>
    BY <1>1, <2>1 DEF NewLog, LogRec
  <2>4. FollowTypeOK'
    BY <1>1, <1>2, <2>2, <2>3 DEF FollowTypeOK
  <2>5. cursor.epoch # log'.epoch /\ cursor.epoch <= log'.epoch
    BY <1>1, <2>3 DEF EpochsAreBehind, CursorRec
  <2>6. \A i \in 1..Len(inbox') : inbox'[i].cursor.epoch # log'.epoch
                                  /\ inbox'[i].cursor.epoch <= log'.epoch
    <3> SUFFICES ASSUME NEW i \in 1..Len(inbox')
                 PROVE  inbox'[i].cursor.epoch # log'.epoch /\ inbox'[i].cursor.epoch <= log'.epoch
      OBVIOUS
    <3>1. inbox'[i] \in FrameRec
      BY <2>2
    <3>2. inbox'[i].cursor.epoch \in Nat
      BY <3>1 DEF FrameRec, CursorRec
    <3> QED
      BY <1>1, <2>2, <2>3, <3>2
  <2>7. EpochsAreBehind' /\ WatchingPolls'
    BY <1>1, <1>2, <2>1, <2>5, <2>6 DEF EpochsAreBehind, WatchingPolls
  <2>8. PICK h : h = [k \in {0} |-> home]
    OBVIOUS
  <2>9. IsTrail(h)'
    <3>1. TellsScan(h[log.next])'
      <4>1. h[log'.next] = snap' /\ IsMap(home)
        BY <1>1, <1>2, <2>3, <2>8, ScanIs
      <4> QED
        BY <1>2, <4>1 DEF TellsScan, Agree
    <3>2. LogLeads(h, log, Place)'
      BY <2>3 DEF LogLeads
    <3>3. SeenIsAtCursor(h)' /\ InboxLeads(h)'
      BY <1>2, <2>1, <2>5, <2>6 DEF SeenIsAtCursor, InboxLeads
    <3> QED
      BY <3>1, <3>2, <3>3 DEF IsTrail
  <2> QED
    BY <2>4, <2>7, <2>9 DEF FollowInv
<1>6. CASE ~TooMany(es)
  <2>1. /\ log' = Logged(es) /\ watching' = watching
        /\ inbox' = IF watching THEN inbox \o Stamps(es) ELSE inbox
    BY <1>4, <1>6
  <2>2. es \in Seq(NoteRec) /\ Len(es) \in Nat
    <3>1. es \in Seq(Notes(snap, home)) /\ Len(es) \in Nat
      BY <1>1, Enumerated
    <3>2. Notes(snap, home) \subseteq NoteRec
      BY <1>1, NotesAreNotes
    <3> QED
      BY <3>1, <3>2
  <2>3. PICK n \in Nat : n = Len(es)
    BY <2>2
  <2>4. /\ log' \in LogRec
        /\ log'.epoch = log.epoch /\ log'.next = log.next + n
        /\ \A h, place : LogLeads(h, log, place) /\ EventsLead(h, es) => LogLeads(h, log', place)
    BY <1>1, <2>1, <2>2, <2>3, LoggedLeads
  <2>5. PICK b : b = Stamps(es)
    OBVIOUS
  <2>6. /\ b \in Seq(EntryRec) /\ Len(b) = n
        /\ \A i \in 1..n : b[i] = [cursor |-> Cursor(log.epoch, log.next + i), event |-> es[i]]
    <3>1. b = [i \in 1..n |-> [cursor |-> Cursor(log.epoch, log.next + i), event |-> es[i]]]
      BY <2>2, <2>3, <2>5 DEF Stamps
    <3>2. \A i \in 1..n : es[i] \in NoteRec
      BY <2>2, <2>3
    <3>3. \A i \in 1..n : b[i] \in EntryRec
      BY <1>1, <3>1, <3>2 DEF EntryRec, CursorRec, Cursor
    <3> QED
      BY <2>3, <3>1, <3>3
  <2>7. b \in Seq(FrameRec) /\ inbox \in Seq(FrameRec)
    BY <1>1, <2>6, EntriesAreFrames
  <2>8. PICK m \in Nat : m = Len(inbox)
    BY <2>7
  <2>9. PICK j : j = inbox \o b
    OBVIOUS
  <2>10. /\ j \in Seq(FrameRec) /\ Len(j) = m + n
         /\ \A i \in 1..m : j[i] = inbox[i]
         /\ \A i \in 1..n : j[m + i] = b[i]
    <3>1. /\ inbox \o b \in Seq(FrameRec)
          /\ Len(inbox \o b) = Len(inbox) + Len(b)
          /\ \A i \in 1..Len(inbox) : (inbox \o b)[i] = inbox[i]
          /\ \A i \in 1..Len(b) : (inbox \o b)[Len(inbox) + i] = b[i]
      BY <2>7, Joined
    <3> QED
      BY <2>6, <2>8, <2>9, <3>1
  <2>11. \A i \in 1..m + n : i \in 1..m \/ \E k \in 1..n : i = m + k
    <3> SUFFICES ASSUME NEW i \in 1..m + n, i \notin 1..m
                 PROVE  \E k \in 1..n : i = m + k
      OBVIOUS
    <3>1. i - m \in 1..n /\ i = m + (i - m)
      OBVIOUS
    <3> QED
      BY <3>1
  <2>12. inbox' = IF watching THEN j ELSE inbox
    BY <2>1, <2>5, <2>9
  <2>13. FollowTypeOK'
    BY <1>1, <1>2, <2>4, <2>10, <2>12 DEF FollowTypeOK
  <2>14. \A i \in 1..n : b[i].cursor.epoch = log.epoch
    BY <2>6 DEF Cursor
  <2>15. EpochsAreBehind'
    <3>1. \A i \in 1..m : inbox[i].cursor.epoch <= log.epoch
      BY <1>1, <2>8 DEF EpochsAreBehind
    <3>2. ASSUME NEW i \in 1..m + n PROVE j[i].cursor.epoch <= log.epoch
      <4>1. CASE i \in 1..m
        BY <2>10, <3>1, <4>1
      <4>2. CASE \E k \in 1..n : i = m + k
        <5>1. PICK k \in 1..n : i = m + k
          BY <4>2
        <5>2. j[i].cursor.epoch = log.epoch
          BY <2>10, <2>14, <5>1
        <5> QED
          BY <1>1, <5>2
      <4> QED
        BY <2>11, <4>1, <4>2
    <3> QED
      BY <1>1, <1>2, <2>4, <2>8, <2>10, <2>12, <3>1, <3>2 DEF EpochsAreBehind
  <2>16. WatchingPolls'
    BY <1>1, <1>2, <2>1 DEF WatchingPolls
  <2>17. ASSUME Following' PROVE \E g : IsTrail(g)'
    <3>1. PICK h : IsTrail(h)
      BY <1>2, <2>17 DEF FollowInv, Following
    <3>2. PICK x \in Nat : x = log.next
      BY <1>1
    <3>b. PICK held : held = h[x]
      OBVIOUS
    <3>c. IsMap(held) /\ \A p \in Path \ unclear : Agree(held, snap, p)
      BY <3>1, <3>2, <3>b DEF IsTrail, TellsScan
    <3> DEFINE mid(i) == Midway(held, snap, home, es, i)
    <3>0. PICK g : g = [k \in Nat |-> IF k <= x THEN h[k] ELSE mid(k - x)]
      OBVIOUS
    <3>3. \A k \in Nat : k <= x => g[k] = h[k]
      BY <3>0
    <3>4. /\ mid(0) = held /\ IsMap(mid(n))
          /\ \A p \in Path \ StillUnclear(unclear, snap, home) : Agree(mid(n), home, p)
      BY <1>1, <2>3, <3>c, MidwayEnds
    <3>5. \A k \in 0..n : g[x + k] = mid(k)
      <4> SUFFICES ASSUME NEW k \in 0..n PROVE g[x + k] = mid(k)
        OBVIOUS
      <4>1. CASE k = 0
        BY <3>3, <3>4, <3>b, <4>1
      <4>2. CASE k # 0
        <5>1. x + k \in Nat /\ ~(x + k <= x) /\ (x + k) - x = k
          BY <4>2
        <5> QED
          BY <3>0, <5>1
      <4> QED
        BY <4>1, <4>2
    <3>6. \A k \in 1..n : mid(k) = Followed(mid(k - 1), {es[k].change}, es[k].scan)
      <4> SUFFICES ASSUME NEW k \in 1..n
                   PROVE  mid(k) = Followed(mid(k - 1), {es[k].change}, es[k].scan)
        OBVIOUS
      <4>1. k \in 1..Len(es)
        BY <2>3
      <4>2. Midway(held, snap, home, es, k) =
                Followed(Midway(held, snap, home, es, k - 1), {es[k].change}, es[k].scan)
        <5>1. snap \in Scans /\ home \in Scans
          BY <1>1
        <5> QED
          BY <4>1, <5>1, MidwayStep
      <4> QED
        BY <4>2
    <3> HIDE DEF mid
    <3>7. ASSUME NEW i \in 1..n
          PROVE  g[x + i] = Followed(g[x + i - 1], {es[i].change}, es[i].scan)
      <4>1. i \in 0..n /\ i - 1 \in 0..n /\ x + i - 1 = x + (i - 1)
        OBVIOUS
      <4>2. g[x + i] = mid(i) /\ g[x + (i - 1)] = mid(i - 1)
        BY <3>5, <4>1
      <4> QED
        BY <3>6, <4>1, <4>2
    <3>8. EventsLead(g, es)
      BY <2>3, <3>2, <3>7 DEF EventsLead
    <3>9. ASSUME NEW k \in Nat, k <= x, NEW e, Leads(h, k, e), k > 0 PROVE Leads(g, k, e)
      <4>1. k - 1 \in Nat /\ k - 1 <= x
        BY <3>9
      <4> QED
        BY <3>3, <3>9, <4>1 DEF Leads
    <3>10. LogLeads(g, log, Place)
      <4>1. PICK a \in Nat : a = Len(log.events)
        BY <1>1 DEF LogRec
      <4>2. /\ a <= x
            /\ \A i \in 1..a : /\ log.events[i].cursor.epoch = log.epoch
                               /\ Oldest(log) + i > Place => Leads(h, Oldest(log) + i, log.events[i])
        BY <3>1, <3>2, <4>1 DEF IsTrail, LogLeads
      <4>3. ASSUME NEW i \in 1..a, Oldest(log) + i > Place
            PROVE  Leads(g, Oldest(log) + i, log.events[i])
        <5>1. PICK k \in Nat : k = Oldest(log) + i /\ k <= x /\ k > 0
          BY <3>2, <4>1, <4>2 DEF Oldest
        <5> QED
          BY <3>9, <4>2, <4>3, <5>1
      <4> QED
        BY <3>2, <4>1, <4>2, <4>3 DEF LogLeads
    <3>11. LogLeads(g, log, Place)'
      <4>1. LogLeads(g, log', Place)
        BY <2>4, <3>8, <3>10
      <4>2. CASE cursor.epoch = log.epoch
        BY <1>2, <2>4, <4>1, <4>2 DEF Place
      <4>3. CASE cursor.epoch # log.epoch
        <5>1. LogLeads(g, log', log'.next)
          BY <2>4, <4>1, AtTheEnd
        <5> QED
          BY <1>2, <2>4, <4>3, <5>1 DEF Place
      <4> QED
        BY <4>2, <4>3
    <3>12. TellsScan(g[log.next])'
      <4>1. g[log'.next] = mid(n)
        <5>1. n \in 0..n
          OBVIOUS
        <5> QED
          BY <2>4, <3>2, <3>5, <5>1
      <4>2. IsMap(g[log'.next]) /\ \A p \in Path \ unclear' : Agree(g[log'.next], snap', p)
        BY <1>2, <3>4, <4>1
      <4> QED
        BY <4>2 DEF TellsScan
    <3>13. SeenIsAtCursor(g)'
      <4>1. ASSUME cursor.epoch = log.epoch PROVE cursor.seq <= log'.next /\ seen = g[cursor.seq]
        <5>1. cursor.seq \in Nat /\ cursor.seq <= x /\ seen = h[cursor.seq]
          BY <1>1, <3>1, <3>2, <4>1 DEF IsTrail, SeenIsAtCursor, CursorRec
        <5>2. cursor.seq <= x + n
          BY <5>1
        <5> QED
          BY <2>4, <3>2, <3>3, <5>1, <5>2
      <4> QED
        BY <1>2, <2>4, <4>1 DEF SeenIsAtCursor
    <3>14. InboxLeads(g)'
      <4>1. CASE watching
        <5>1. PICK y \in Nat : y = cursor.seq
          BY <1>1 DEF CursorRec
        <5>2. /\ cursor.epoch = log.epoch /\ y + m = x
              /\ \A i \in 1..m : inbox[i].cursor.epoch = log.epoch /\ Leads(h, y + i, inbox[i])
          BY <2>8, <3>1, <3>2, <4>1, <5>1 DEF IsTrail, InboxLeads
        <5>3. ASSUME NEW i \in 1..m
              PROVE  j[i].cursor.epoch = log.epoch /\ Leads(g, y + i, j[i])
          <6>1. y + i \in Nat /\ y + i <= x /\ y + i > 0
            BY <5>2
          <6> QED
            BY <2>10, <3>9, <5>2, <6>1
        <5>4. ASSUME NEW i \in 1..n
              PROVE  j[m + i].cursor.epoch = log.epoch /\ Leads(g, y + (m + i), j[m + i])
          <6>1. j[m + i] = [cursor |-> Cursor(log.epoch, x + i), event |-> es[i]]
            BY <2>6, <2>10, <3>2
          <6>2. y + (m + i) = x + i
            BY <5>2
          <6>3. ~es[i].end
            <7>1. es[i] \in NoteRec
              BY <2>2, <2>3
            <7> QED
              BY <7>1 DEF NoteRec
          <6>4. Leads(g, x + i, j[m + i])
            BY <3>7, <6>1, <6>3 DEF Leads, Cursor
          <6> QED
            BY <6>1, <6>2, <6>4 DEF Cursor
        <5>5. \A i \in 1..m + n : j[i].cursor.epoch = log.epoch /\ Leads(g, y + i, j[i])
          BY <2>11, <5>3, <5>4
        <5>6. y + (m + n) = log'.next
          BY <2>4, <3>2, <5>2
        <5>7. watching' /\ inbox' = j
          BY <2>1, <2>12, <4>1, Zenon
        <5>8. cursor'.epoch = log'.epoch /\ cursor'.seq + Len(inbox') = log'.next
          BY <1>2, <2>4, <2>10, <5>1, <5>2, <5>6, <5>7
        <5>9. ASSUME NEW i \in 1..Len(inbox')
              PROVE  inbox'[i].cursor.epoch = log'.epoch /\ Leads(g, cursor'.seq + i, inbox'[i])
          BY <1>2, <2>4, <2>10, <5>1, <5>5, <5>7
        <5> QED
          BY <5>7, <5>8, <5>9 DEF InboxLeads
      <4>2. CASE ~watching
        <5>1. ~watching' /\ inbox' = inbox
          BY <2>1, <2>12, <4>2, Zenon
        <5>2. \A i \in 1..Len(inbox) : inbox[i].cursor.epoch # log.epoch
          BY <3>1, <4>2 DEF IsTrail, InboxLeads
        <5> QED
          BY <2>4, <5>1, <5>2 DEF InboxLeads
      <4> QED
        BY <4>1, <4>2
    <3>15. IsTrail(g)'
      BY <3>11, <3>12, <3>13, <3>14 DEF IsTrail
    <3> QED
      BY <3>15
  <2> QED
    BY <2>13, <2>15, <2>16, <2>17 DEF FollowInv
<1> QED
  BY <1>5, <1>6

LEMMA FollowStep ==
    ASSUME IsFiniteSet(Path), FollowInv, [Next]_vars
    PROVE  FollowInv'
<1>0. home \in Scans /\ Dir \in Kinds /\ \A h \in Hash : h \in Kinds
  BY DEF FollowInv, FollowTypeOK, Kinds
<1>1. ASSUME NEW p \in Path, NEW kind \in Kinds, GuestChange(Put(home, p, kind), {p})
      PROVE  FollowInv'
  BY <1>0, <1>1, PutScan, GuestKeepsTrail
<1>2. ASSUME NEW p \in Path, GuestRemove(p) PROVE FollowInv'
  BY <1>0, <1>2, DropScan, GuestKeepsTrail DEF GuestRemove
<1>3. ASSUME NEW p \in Path, NEW q \in Path, GuestRename(p, q) PROVE FollowInv'
  <2>1. p \in DOMAIN home /\ GuestChange(Move(home, p, q), {p, q})
    BY <1>3 DEF GuestRename, CanRename
  <2> QED
    BY <1>0, <2>1, MoveScan, GuestKeepsTrail
<1>4. ASSUME NEW p \in Path, NEW kind \in Kinds, ApplyPut(p, kind) PROVE FollowInv'
  BY <1>0, <1>4, PutScan, ApplyKeepsTrail DEF ApplyPut
<1>5. ASSUME NEW p \in Path, ApplyDelete(p) PROVE FollowInv'
  BY <1>0, <1>5, DropScan, ApplyKeepsTrail DEF ApplyDelete
<1>6. ASSUME NEW p \in Path, NEW q \in Path, ApplyMove(p, q) PROVE FollowInv'
  <2>1. p \in DOMAIN home /\ Apply(Move(home, p, q), {p, q})
    BY <1>6 DEF ApplyMove, CanRename
  <2> QED
    BY <1>0, <2>1, MoveScan, ApplyKeepsTrail
<1>7. ASSUME NEW tree \in Trees, ReplaceTree(tree) PROVE FollowInv'
  BY <1>7, ReplaceKeepsTrail
<1>8. ASSUME NEW tree \in Trees, NEW paths, ReplaceFails(tree, paths) PROVE FollowInv'
  <2>1. /\ Restrict(home, DOMAIN home \ paths) \in Scans
        /\ Restrict(tree, DOMAIN tree \ paths) \in Scans
    BY <1>0, RestrictScan, HomeAssumption
  <2> QED
    BY <1>8, <2>1, FailedKeepsTrail DEF ReplaceFails
<1>9. ASSUME NEW lost, ApplyFails(lost) PROVE FollowInv'
  <2>1. Restrict(home, DOMAIN home \ lost) \in Scans
    BY <1>0, RestrictScan
  <2> QED
    BY <1>9, <2>1, FailedKeepsTrail DEF ApplyFails
<1>10. ASSUME NEW after, Watch(after) PROVE FollowInv'
  BY <1>10, WatchKeepsTrail
<1>11. CASE WatchLagged \/ Thaw \/ Freeze
  BY <1>11, StoppedKeepsTrail
<1>12. CASE Poll
  BY <1>12, PollKeepsTrail
<1>13. CASE Receive
  BY <1>13, ReceiveKeepsTrail
<1>14. CASE ReceiveEnd \/ Close
  BY <1>14, EndKeepsTrail
<1>15. CASE UNCHANGED vars
  BY <1>0, <1>15, HomeKeepsTrail DEF vars
<1> QED
  BY <1>0, <1>1, <1>2, <1>3, <1>4, <1>5, <1>6, <1>7, <1>8, <1>9, <1>10, <1>11, <1>12, <1>13,
     <1>14, <1>15 DEF Next, GuestWrite, GuestMkdir

\* A client that closes its observation and resumes it from its cursor, at any
\* time and any number of times, has received exactly what became of the scan
\* it started from, for any number of paths and any size of the log: across
\* files and directories, and calls that fail half way.  Left open are the
\* paths that are unclear: those that turned from a file into a directory or
\* back, and those where a successful Apply found something else than the last
\* scan, until the next event that names them.
THEOREM EventsAreComplete ==
    ASSUME IsFiniteSet(Path)
    PROVE  Spec => []EventsTrackScans
<1>1. Init => FollowInv
  <2> SUFFICES ASSUME Init PROVE FollowInv
    OBVIOUS
  <2>1. /\ home = <<>> /\ snap = <<>> /\ log = NewLog(1) /\ inbox = <<>>
        /\ cursor = NoCursor /\ seen = <<>>
        /\ watching = FALSE /\ polling = FALSE
    BY DEF Init
  <2>2. log \in LogRec /\ log.epoch = 1 /\ log.next = 0 /\ log.events = <<>>
    BY <2>1 DEF NewLog, LogRec
  <2>3. cursor \in CursorRec /\ cursor.epoch = 0
    BY <2>1 DEF NoCursor, Cursor, CursorRec
  <2>4. FollowTypeOK /\ EpochsAreBehind /\ WatchingPolls
    BY <2>1, <2>2, <2>3, EmptyScan DEF FollowTypeOK, EpochsAreBehind, WatchingPolls
  <2>5. PICK h : h = [k \in {0} |-> snap]
    OBVIOUS
  <2>6. IsTrail(h)
    <3>1. LogLeads(h, log, Place)
      BY <2>2 DEF LogLeads
    <3>2. TellsScan(h[log.next])
      BY <2>1, <2>2, <2>5, EmptyScan, ScanIs DEF TellsScan, Agree
    <3> QED
      BY <2>1, <2>2, <2>3, <3>1, <3>2 DEF IsTrail, SeenIsAtCursor, InboxLeads
  <2> QED
    BY <2>4, <2>6 DEF FollowInv
<1>2. FollowInv /\ [Next]_vars => FollowInv'
  BY FollowStep
<1>3. FollowInv => EventsTrackScans
  <2> SUFFICES ASSUME FollowInv, Drained, NEW p \in Path \ unclear PROVE Agree(seen, snap, p)
    BY DEF EventsTrackScans
  <2>1. FollowTypeOK /\ Following
    BY DEF FollowInv, Drained, WatchingPolls, Following
  <2>2. PICK h : IsTrail(h)
    BY <2>1 DEF FollowInv
  <2>3. cursor.epoch = log.epoch /\ cursor.seq + Len(inbox) = log.next /\ Len(inbox) = 0
    BY <2>2 DEF Drained, IsTrail, InboxLeads
  <2>4. cursor.seq = log.next
    BY <2>1, <2>3 DEF FollowTypeOK, CursorRec
  <2> QED
    BY <2>2, <2>3, <2>4 DEF IsTrail, SeenIsAtCursor, TellsScan
<1> QED
  BY <1>1, <1>2, <1>3, PTL DEF Spec
=============================================================================
