--------------------------- MODULE MCIsolatedHost ---------------------------
(* Symmetry for the model-checking runs of IsolatedHost.                   *)
EXTENDS IsolatedHost, TLC

CallersAndIDs == Permutations(Caller) \cup Permutations(ID)
=============================================================================
