\* One client with every kind of frame on one grant, as many as fit the
\* channel, and the end of the connection at any point.
SPECIFICATION FairSpec
CONSTANTS
    Grant = {g1}
    Methods = {"ensure", "attach", "detach", "watch", "unwatch", "freeze",
               "revoke", "pty"}
    MaxInflight = 2
    MaxOps = 3
INVARIANTS
    ArrivalOrder
    InUseIsReachable
    NoObservationStays
PROPERTIES
    OperationsEnd
\* The operations are bounded.
CHECK_DEADLOCK FALSE
