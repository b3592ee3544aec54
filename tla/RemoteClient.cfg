\* One client with every kind of call on one grant, contexts that end before
\* the answer, an end of the connection, and one event.
SPECIFICATION Spec
CONSTANTS
    Grant = {g1}
    Methods = {"ensure", "attach", "detach", "watch", "unwatch", "freeze",
               "revoke"}
    MaxCalls = 3
    MaxEvents = 1
INVARIANTS
    NoSilentHandle
    SuccessEndsThem
    EntriesHaveOwners
\* The calls are bounded.
CHECK_DEADLOCK FALSE
