-------------------------- MODULE MCAgentSession --------------------------
(* Small instances of the agent link. *)
EXTENDS AgentSession, TLC

TwoCallers == Permutations(Caller)
=============================================================================
