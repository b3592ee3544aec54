CONSTANTS
    ID = {i1, i2}
    Caller = {c1, c2}
    Image = {m1, m2}
    Catalog = {m1}
    Network = {"none", "allowlist"}
    Allow = TRUE
    Slots = 1
    None = None
    MaxLaunches = 2
    MaxCrashes = 1
SYMMETRY CallersAndIDs
SPECIFICATION Spec
INVARIANTS
    TypeOK
    WaitersHaveRunner
    VMAccounted
    TapAccounted
    EnsureGetsWhatItAsked
    RevokeEndsWhatItSaw
PROPERTY ImplementsOccupancy
