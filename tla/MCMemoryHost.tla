---------------------------- MODULE MCMemoryHost ----------------------------
(* Symmetry for the model-checking runs of MemoryHost.                     *)
EXTENDS MemoryHost, TLC

CallersAndIDs == Permutations(Caller) \cup Permutations(ID)
=============================================================================
