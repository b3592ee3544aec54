\* Two callers and every call, with contexts that end before the response, and
\* a link that is hung up or lost.
SPECIFICATION Spec
CONSTANTS
    Caller = {c1, c2}
    Ops = {"attach", "detach", "watch", "unwatch", "freeze", "thaw", "replace"}
    Expires = TRUE
    LossBy = 2
    Buffer = 1
    MaxCalls = 3
    MaxFrames = 2
SYMMETRY TwoCallers
INVARIANTS
    NoSilentObservation
    RunningShellIsKnown
    ShellHasOwner
    OneAnswer
    NobodyStranded
\* The calls are bounded.
CHECK_DEADLOCK FALSE
