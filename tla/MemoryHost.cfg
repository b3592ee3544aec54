\* Three ids for two slots, and two callers that revoke.
CONSTANTS
    ID = {i1, i2, i3}
    Caller = {c1, c2}
    Image = {m1, m2}
    Images = {m1}
    Network = {"none", "allowlist"}
    Slots = 2
    NoEnv = NoEnv
    MaxEnvs = 4
SYMMETRY CallersAndIDs
SPECIFICATION HostSpec
INVARIANTS
    OneFate
PROPERTY ImplementsOccupancy
