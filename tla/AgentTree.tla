----------------------------- MODULE AgentTree -----------------------------
(***************************************************************************)
(* ReplaceTree and Apply on the agent: what the caller projected, which    *)
(* decides whether a call is accepted (src/internal/tree/tree.go), and the *)
(* files under Home (src/agent/tree.go), where the call may fail at every  *)
(* step.  Between calls the guest does what it likes to Home; during one   *)
(* it is left out.  Paths are not nested, so a directory is empty.         *)
(***************************************************************************)
EXTENDS TreeOps

CONSTANTS
    Trees,      \* arguments of ReplaceTree
    Batches,    \* arguments of Apply
    Mutations   \* the mutations that the properties put together

MutationRec ==
    [op : STRING, path : Path, from : Path, kind : {"file", "dir"},
     version : Version \cup {NoVersion}, expected : Version \cup {NoVersion},
     data : Nat \cup {NoData}]

ItemRec ==
    [path : Path, kind : {"file", "dir"}, version : Version \cup {NoVersion},
     data : Nat \cup {NoData}]

ASSUME CallAssumption ==
    /\ Trees \subseteq Seq(ItemRec)
    /\ Batches \subseteq Seq(MutationRec)
    /\ Mutations \subseteq MutationRec

VARIABLES
    projected,  \* server.projected
    home,       \* the files under Home
    phase,      \* what the server does
    next,       \* the projection if the call succeeds
    batch,      \* mutations still to be applied
    undos,      \* what applyHome would undo
    stashes,    \* files moved aside, named by the number of their mutation
    arg,        \* history: Batch.Mutations of the call
    before,     \* history: Home before the call
    old,        \* history: the projection before the call
    over        \* history: the call replaced or removed a file for good

treeVars == <<projected, home, phase, next, batch, undos, stashes, arg, before, old, over>>

Is(label) == phase = label

\* What a snapshot looks like on disk.
DiskFile(d) == File(NoVersion, d)
OnDisk(snap) ==
    [p \in DOMAIN snap |-> IF snap[p].kind = "dir" THEN Dir ELSE DiskFile(snap[p].data)]

TreeInit ==
    /\ projected = <<>> /\ home = <<>> /\ phase = "idle" /\ next = <<>>
    /\ batch = <<>> /\ undos = <<>> /\ stashes = {}
    /\ arg = <<>> /\ before = <<>> /\ old = <<>> /\ over = FALSE

----------------------------------------------------------------------------
(* Faults: what the code would do without one of its precautions.          *)

OldestUndo == 1
WrittenIfAbsent(files, mut) ==
    IF mut.path \in DOMAIN files THEN files[mut.path] ELSE DiskFile(mut.data)

----------------------------------------------------------------------------
(* The guest, between calls.                                               *)

GuestWrites(p, node) ==
    /\ Is("idle")
    /\ home' = With(home, p, node)
    /\ UNCHANGED <<projected, phase, next, batch, undos, stashes, arg, before, old, over>>

GuestRemoves(p) ==
    /\ Is("idle") /\ p \in DOMAIN home
    /\ home' = Without(home, p)
    /\ UNCHANGED <<projected, phase, next, batch, undos, stashes, arg, before, old, over>>

----------------------------------------------------------------------------
(* server.replace and rewriteHome.  A refused call changes nothing.        *)

ReplaceTree(tree) ==
    /\ Is("idle") /\ CanReplace(projected, tree)
    /\ next' = Replace(projected, tree)
    /\ before' = home /\ old' = projected
    /\ phase' = "staging"
    /\ UNCHANGED <<projected, home, batch, undos, stashes, arg, over>>

\* writeNodes into the sibling directory, all or not all of it.
WriteStaging ==
    /\ Is("staging")
    /\ phase' \in {"clearing", "failed"}
    /\ UNCHANGED <<projected, home, next, batch, undos, stashes, arg, before, old, over>>

\* clearChildren, one entry at a time.
ClearChild(p) ==
    /\ Is("clearing") /\ p \in DOMAIN home
    /\ \/ home' = Without(home, p) /\ over' = TRUE /\ UNCHANGED phase
       \/ phase' = "failed" /\ UNCHANGED <<home, over>>
    /\ UNCHANGED <<projected, next, batch, undos, stashes, arg, before, old>>

Cleared == DOMAIN home = {}

\* Every entry of the staging directory is renamed into Home.
StartRenaming ==
    /\ Is("clearing") /\ Cleared
    /\ phase' = "renaming"
    /\ UNCHANGED <<projected, home, next, batch, undos, stashes, arg, before, old, over>>

RenameChild(p) ==
    /\ Is("renaming") /\ p \in DOMAIN next \ DOMAIN home
    /\ \/ home' = With(home, p, OnDisk(next)[p]) /\ over' = TRUE /\ UNCHANGED phase
       \/ phase' = "failed" /\ UNCHANGED <<home, over>>
    /\ UNCHANGED <<projected, next, batch, undos, stashes, arg, before, old>>

ReplaceDone ==
    /\ Is("renaming") /\ DOMAIN next \subseteq DOMAIN home
    /\ projected' = next
    /\ phase' = "replaced"
    /\ UNCHANGED <<home, next, batch, undos, stashes, arg, before, old, over>>

----------------------------------------------------------------------------
(* server.apply, applyHome, applyDisk and stash.                           *)

ApplyBatch(muts) ==
    /\ Is("idle") /\ Apply(projected, muts).ok
    /\ next' = Apply(projected, muts).snap
    /\ batch' = muts /\ arg' = muts
    /\ before' = home /\ old' = projected
    /\ phase' = "applying"
    /\ UNCHANGED <<projected, home, undos, stashes, over>>

\* stash: what is at the path, if anything, moved aside.  The undo of a
\* mutation brings it back, or removes the path.
Number == Len(undos) + 1
Undo(mut) ==
    [op |-> mut.op, path |-> mut.path, number |-> Number,
     from |-> IF mut.op = "move" THEN mut.from ELSE mut.path,
     was |-> IF mut.path \in DOMAIN home THEN {home[mut.path]} ELSE {}]

\* What create and replace leave at the path.
Written(files, mut) == IF mut.kind = "dir" THEN Dir ELSE DiskFile(mut.data)

\* The mutation on disk.
Effect(files, mut) ==
    CASE mut.op \in {"create", "replace"} -> With(files, mut.path, Written(files, mut))
      [] mut.op = "delete" -> Without(files, mut.path)
      [] mut.op = "move" -> With(Without(files, mut.from), mut.path, files[mut.from])

\* os.Rename needs something to rename.  It refuses a new name that is a
\* directory, and a directory where a file is.
CanRename(mut) ==
    /\ mut.from \in DOMAIN home
    /\ mut.path \in DOMAIN home => {home[mut.path].kind, home[mut.from].kind} = {"file"}

\* applyDisk succeeds.  A move is not preceded by a stash of what it replaces.
ApplyDisk ==
    /\ Is("applying") /\ batch # <<>>
    /\ LET mut == Head(batch) IN
           /\ mut.op = "move" => CanRename(mut)
           /\ home' = Effect(home, mut)
           /\ undos' = Append(undos, Undo(mut))
           /\ stashes' = IF mut.op # "move" /\ mut.path \in DOMAIN home
                         THEN stashes \cup {Number} ELSE stashes
           /\ over' = (over \/ (mut.op = "move" /\ mut.path \in DOMAIN home))
    /\ batch' = Tail(batch)
    /\ UNCHANGED <<projected, phase, next, arg, before, old>>

\* applyDisk fails: a full disk, a directory in the way, nothing to rename.
\* What it had stashed itself is already back.
ApplyFails ==
    /\ Is("applying") /\ batch # <<>>
    /\ phase' = "undoing"
    /\ UNCHANGED <<projected, home, next, batch, undos, stashes, arg, before, old, over>>

\* rollback takes the last one first.
NextUndo == Len(undos)

\* Home after one undo.
Undone(files, u) ==
    CASE u.op = "move" ->
             IF u.path \in DOMAIN files
             THEN With(Without(files, u.path), u.from, files[u.path]) ELSE files
      [] u.op # "move" /\ u.was = {} -> Without(files, u.path)
      [] u.op # "move" /\ u.was # {} -> With(files, u.path, CHOOSE b \in u.was : TRUE)

Rollback ==
    /\ Is("undoing") /\ undos # <<>>
    /\ home' = Undone(home, undos[NextUndo])
    /\ stashes' = stashes \ {undos[NextUndo].number}
    /\ undos' = RemoveAt(undos, NextUndo)
    /\ UNCHANGED <<projected, phase, next, batch, arg, before, old, over>>

RolledBack ==
    /\ Is("undoing") /\ undos = <<>>
    /\ phase' = "failed"
    /\ UNCHANGED <<projected, home, next, batch, undos, stashes, arg, before, old, over>>

\* applyHome discards the stash files.
ApplyDone ==
    /\ Is("applying") /\ batch = <<>>
    /\ projected' = next
    /\ phase' = "applied"
    /\ stashes' = {}
    /\ UNCHANGED <<home, next, batch, undos, arg, before, old, over>>

----------------------------------------------------------------------------
Ended == phase \in {"replaced", "applied", "failed"}

\* The reply.
Return ==
    /\ Ended
    /\ phase' = "idle" /\ next' = <<>> /\ batch' = <<>> /\ undos' = <<>>
    /\ arg' = <<>> /\ before' = <<>> /\ old' = <<>> /\ over' = FALSE
    /\ UNCHANGED <<projected, home, stashes>>

TreeNext ==
    \/ \E p \in ValidPath, node \in {Dir, DiskFile(MaxFileBytes)} : GuestWrites(p, node)
    \/ \E p \in ValidPath : GuestRemoves(p) \/ ClearChild(p) \/ RenameChild(p)
    \/ \E tree \in Trees : ReplaceTree(tree)
    \/ WriteStaging \/ StartRenaming \/ ReplaceDone
    \/ \E muts \in Batches : ApplyBatch(muts)
    \/ ApplyDisk \/ ApplyFails \/ Rollback \/ RolledBack \/ ApplyDone
    \/ Return

TreeSpec == TreeInit /\ [][TreeNext]_treeVars

----------------------------------------------------------------------------
(* Properties of the disk.                                                 *)

Touched(mut) == {mut.path} \cup (IF mut.op = "move" THEN {mut.from} ELSE {})
TouchedBy(muts) == UNION {Touched(muts[i]) : i \in 1 .. Len(muts)}

\* A batch that fails half way, whatever it did to one path several times,
\* is undone to what was there, unless a move replaced a file (rollback); a
\* ReplaceTree that could not write the new files leaves Home as it was
\* (rewriteHome's staging directory); and no file that was moved aside stays
\* in Home under its temporary name, where the next scan would report it as
\* the guest's (applyHome's drop and stash's undo).
FailureIsUndone ==
    /\ Is("failed") /\ ~over => home = before
    /\ Ended => stashes = {}

\* The batch moves r, and p has its body: in the projection, and on disk,
\* where the guest may have changed it before the call.
MovedWithBody(r, p) ==
    /\ \E i \in 1 .. Len(arg) : arg[i].op = "move" /\ arg[i].from = r
    /\ r \in DOMAIN before /\ r \in DOMAIN old
    /\ home[p] = before[r] /\ projected[p] = old[r]

\* After a ReplaceTree that succeeds Home is the projection, whatever earlier
\* calls left there when they failed.  After an Apply that succeeds the paths
\* that the batch names exist exactly if they are projected, with the body
\* that the batch gave them or moved there as the guest had left it; the
\* guest's other files are as they were (server.replace, server.apply).
SuccessIsOnDisk ==
    /\ Is("replaced") => home = OnDisk(projected)
    /\ Is("applied") =>
         /\ TouchedBy(arg) \cap DOMAIN home = TouchedBy(arg) \cap DOMAIN projected
         /\ \A p \in TouchedBy(arg) \cap DOMAIN home :
               home[p] = OnDisk(projected)[p] \/ \E r \in Path : MovedWithBody(r, p)
         /\ LET rest == ValidPath \ TouchedBy(arg)
            IN  Restrict(home, DOMAIN home \cap rest) = Restrict(before, DOMAIN before \cap rest)

\* "The whole batch succeeds or nothing changes" (README, Apply).
WholeBatchOrNothing == Is("failed") /\ arg # <<>> => home = before

----------------------------------------------------------------------------
(* Properties of the projection: what the next calls would make of it.     *)

\* The order of mutations that touch different paths does not matter: the
\* batch is accepted in both orders or in neither, with the same result.
DisjointMutationsCommute ==
    Is("idle") => \A m1, m2 \in Mutations : Touched(m1) \cap Touched(m2) = {} =>
        LET a == Apply(projected, <<m1, m2>>)
            b == Apply(projected, <<m2, m1>>)
        IN  a.ok = b.ok /\ (a.ok => a.snap = b.snap)

----------------------------------------------------------------------------
(* What the code does not guarantee, although callers may expect it: the   *)
(* README describes the counterexamples.                                   *)

\* A ReplaceTree that fails leaves Home as it was or as it should be: once
\* clearChildren has begun, a failure leaves some of the files.
FailedReplaceKeepsHome ==
    Is("failed") /\ arg = <<>> => home \in {before, OnDisk(next)}

\* "Directories ignore Data and require an empty Version."
DirectoriesIgnoreData ==
    \A p \in ValidPath, d \in 0..MaxFileBytes :
        CanReplace(projected, <<[path |-> p, kind |-> "dir",
                                 version |-> NoVersion, data |-> d]>>)
=============================================================================
