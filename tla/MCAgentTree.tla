---------------------------- MODULE MCAgentTree ----------------------------
(* Small inputs for AgentTree: two valid paths and an invalid one, two     *)
(* versions, bodies up to one byte over the limit of a file.               *)
EXTENDS AgentTree

Item(p, k, v, d) == [path |-> p, kind |-> k, version |-> v, data |-> d]
MCItems ==
    {Item(p, "dir", NoVersion, NoData) : p \in ValidPath}
    \cup {Item(p, "file", v, d) : p \in ValidPath, v \in {NoVersion, "v1"},
                                  d \in {NoData, 1, 2}}
    \cup {Item("/bad", "file", "v1", 1), Item("p", "file", "v1", MaxFileBytes + 1)}
MCTrees == {<<>>} \cup {<<i>> : i \in MCItems} \cup (MCItems \X MCItems)

Mut(op, p, f, k, v, e, d) ==
    [op |-> op, path |-> p, from |-> f, kind |-> k, version |-> v,
     expected |-> e, data |-> d]

\* The mutations of batches.
MCOps ==
    {Mut(op, p, p, "file", "v1", NoVersion, 1) : op \in {"create", "replace"}, p \in ValidPath}
    \cup {Mut("create", p, p, "dir", NoVersion, NoVersion, NoData) : p \in ValidPath}
    \cup {Mut("delete", p, p, "file", NoVersion, NoVersion, NoData) : p \in ValidPath}
    \cup {Mut("move", p, f, "file", NoVersion, NoVersion, NoData) : p, f \in ValidPath}
MCShortBatches == {<<m>> : m \in MCOps} \cup (MCOps \X MCOps)

\* Batches of three that some projection accepts.
MCStarts == UNION {[S -> {Dir, File("v1", 1)}] : S \in SUBSET ValidPath}
MCBatches ==
    MCShortBatches \cup
    {b \in MCOps \X MCOps \X MCOps : \E snap \in MCStarts : Apply(snap, b).ok}

\* The mutations that are put together by DisjointMutationsCommute.
MCMutations ==
    MCOps \cup
    {Mut("create", p, p, "file", v, NoVersion, d) :
        p \in Path, v \in {NoVersion, "v1"}, d \in {2, 3}}
    \cup {Mut("replace", p, p, k, "v1", "v1", d) :
        p \in ValidPath, k \in {"file", "dir"}, d \in {NoData, 2}}
    \cup {Mut(op, p, "p", "file", NoVersion, "v1", NoData) : op \in {"delete", "move"}, p \in Path}
=============================================================================
