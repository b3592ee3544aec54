\* Two callers and one id with a slot to spare: one launch
\* at a time, and what must eventually happen.
CONSTANTS
    ID = {i1}
    Caller = {c1, c2}
    Image = {m1}
    Catalog = {m1}
    Network = {"none"}
    Allow = TRUE
    Slots = 2
    None = None
    MaxLaunches = 2
    MaxCrashes = 0
SPECIFICATION ResponsiveSpec
INVARIANTS
    OneLaunchPerID
PROPERTY
    RevokeReturns
