---------------------------- MODULE MCAgentHome ----------------------------
(* A small home directory. *)
EXTENDS AgentHome, TLC

CONSTANTS p1, p2, h1, h2

TwoTrees == {p1 :> Dir, p1 :> h1 @@ p2 :> h2}
=============================================================================
