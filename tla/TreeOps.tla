------------------------------ MODULE TreeOps ------------------------------
(***************************************************************************)
(* The projection of a caller's tree (src/internal/tree/tree.go): what     *)
(* ReplaceTree and Apply make of a snapshot, or why they refuse.  A        *)
(* snapshot is a function from the paths that exist to their nodes.  A     *)
(* body is represented by its length.                                      *)
(***************************************************************************)
EXTENDS Integers, Sequences, SequencesExt, FiniteSets, Functions

CONSTANTS
    Path,            \* the paths callers send
    ValidPath,       \* the ones ValidatePath accepts
    Version,         \* the non-empty versions
    MaxTreeEntries,  \* limits of src/tree.go
    MaxFileBytes,
    MaxTreeBytes

NoVersion == ""     \* the empty Version, and the empty Expected
NoData == -1        \* a nil Data

ASSUME TreeAssumption ==
    /\ ValidPath \subseteq Path
    /\ NoVersion \notin Version
    /\ {MaxTreeEntries, MaxFileBytes, MaxTreeBytes} \subseteq Nat

Dir == [kind |-> "dir", version |-> NoVersion, data |-> NoData]
File(v, d) == [kind |-> "file", version |-> v, data |-> d]

Without(snap, p) == Restrict(snap, DOMAIN snap \ {p})
With(snap, p, node) ==
    [q \in DOMAIN snap \cup {p} |-> IF q = p THEN node ELSE snap[q]]

----------------------------------------------------------------------------
(* Replace.  A tree is a sequence of items [path, kind, version, data].    *)

\* resolveBody succeeds: the body is sent, or the host already has the file
\* at that version.
HasBody(snap, item) ==
    \/ item.data # NoData
    \/ /\ item.path \in DOMAIN snap
       /\ snap[item.path].kind = "file"
       /\ snap[item.path].version # NoVersion
       /\ snap[item.path].version = item.version

\* resolveBody
BodyOf(snap, item) ==
    IF item.data # NoData THEN item.data ELSE snap[item.path].data

ItemOK(snap, item) ==
    /\ item.path \in ValidPath
    /\ \/ item.kind = "dir" /\ item.version = NoVersion /\ item.data = NoData
       \/ /\ item.kind = "file"
          /\ HasBody(snap, item)
          /\ BodyOf(snap, item) <= MaxFileBytes

\* The sum of the bodies of the files of a tree.
TreeBytes(snap, tree) ==
    FoldLeft(LAMBDA sum, item : IF item.kind = "file"
                                THEN sum + BodyOf(snap, item) ELSE sum,
             0, tree)

CanReplace(snap, tree) ==
    /\ Len(tree) <= MaxTreeEntries
    /\ \A i, j \in 1..Len(tree) : tree[i].path = tree[j].path => i = j
    /\ \A i \in 1..Len(tree) : ItemOK(snap, tree[i])
    /\ TreeBytes(snap, tree) <= MaxTreeBytes

Replace(snap, tree) ==
    [p \in {tree[i].path : i \in 1..Len(tree)} |->
        LET item == CHOOSE item \in ToSet(tree) : item.path = p
        IN  IF item.kind = "dir" THEN Dir
                                 ELSE File(item.version, BodyOf(snap, item))]

----------------------------------------------------------------------------
(* Apply.  A mutation is [op, path, from, kind, version, expected, data].  *)
(* The batch is folded over a copy; the fold carries the snapshot, the     *)
(* bytes put so far and whether no mutation was refused.                   *)

\* The optimistic fence on a file's version.
Fenced(node, mut) ==
    mut.expected # NoVersion /\ node.version # mut.expected

\* put, in the branch of a file and of a directory
CanPut(acc, mut) ==
    \/ mut.kind = "dir" /\ mut.data = NoData /\ mut.version = NoVersion
    \/ /\ mut.kind = "file"
       /\ mut.data \in 0..MaxFileBytes
       /\ acc.total + mut.data <= MaxTreeBytes

Put(acc, mut) ==
    IF mut.kind = "dir"
    THEN [acc EXCEPT !.snap = With(@, mut.path, Dir)]
    ELSE [acc EXCEPT !.snap = With(@, mut.path, File(mut.version, mut.data)),
                     !.total = @ + mut.data]

CanCreate(acc, mut) == mut.path \notin DOMAIN acc.snap /\ CanPut(acc, mut)

CanReplaceFile(acc, mut) ==
    /\ mut.path \in DOMAIN acc.snap
    /\ acc.snap[mut.path].kind = "file"
    /\ ~Fenced(acc.snap[mut.path], mut)
    /\ CanPut(acc, mut)

CanDelete(acc, mut) ==
    /\ mut.path \in DOMAIN acc.snap
    /\ acc.snap[mut.path].kind = "file" => ~Fenced(acc.snap[mut.path], mut)

CanMove(acc, mut) ==
    /\ mut.from \in ValidPath
    /\ mut.from \in DOMAIN acc.snap
    /\ acc.snap[mut.from].kind = "file" => ~Fenced(acc.snap[mut.from], mut)
    /\ mut.path \notin DOMAIN acc.snap

\* applyOne
Mutate(acc, mut) ==
    LET refused == [acc EXCEPT !.ok = FALSE] IN
    IF mut.path \notin ValidPath THEN refused ELSE
    CASE mut.op = "create" /\ CanCreate(acc, mut) -> Put(acc, mut)
      [] mut.op = "replace" /\ CanReplaceFile(acc, mut) -> Put(acc, mut)
      [] mut.op = "delete" /\ CanDelete(acc, mut) ->
            [acc EXCEPT !.snap = Without(@, mut.path)]
      [] mut.op = "move" /\ CanMove(acc, mut) ->
            [acc EXCEPT !.snap = With(Without(@, mut.from), mut.path,
                                      @[mut.from])]
      [] OTHER -> refused

\* Fault: only the last mutation's error is kept.
MutateRegardless(acc, mut) == Mutate([acc EXCEPT !.ok = TRUE], mut)

\* The first refused mutation ends the batch.
ApplyOne(acc, mut) == IF acc.ok THEN Mutate(acc, mut) ELSE acc

\* What the fold carries after each of the first mutations.
Steps(snap, batch) ==
    LET acc[n \in 0..Len(batch)] ==
            IF n = 0
            THEN [ok |-> Len(batch) <= MaxTreeEntries, snap |-> snap, total |-> 0]
            ELSE ApplyOne(acc[n - 1], batch[n])
    IN  acc

\* Whether the batch is accepted, and the snapshot it leads to.
Apply(snap, batch) == Steps(snap, batch)[Len(batch)]
=============================================================================
