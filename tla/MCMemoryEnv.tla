---------------------------- MODULE MCMemoryEnv ----------------------------
(* Small inputs for MemoryEnv.                                             *)
EXTENDS MemoryEnv

Keep == [path |-> "p", kind |-> "file", version |-> "guest", data |-> NoData]

\* The empty tree, and one that keeps what the guest wrote.
MCTrees == {<<>>, <<Keep>>}

MCMutations ==
    {[op |-> "delete", path |-> "p", from |-> "p", kind |-> "file",
      version |-> NoVersion, expected |-> NoVersion, data |-> NoData]}
=============================================================================
