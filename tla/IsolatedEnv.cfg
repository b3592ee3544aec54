\* Two controllers freeze and thaw while two users call and the grant is
\* revoked.
SPECIFICATION FairSpec
CONSTANTS
    Controller = {k1, k2}
    User = {u1, u2}
    Revoker = {r1}
    MaxCalls = 4
INVARIANTS
    FrozenIsQuiet
    MachineFollows
PROPERTIES
    ThawReturns
\* The calls are bounded.
CHECK_DEADLOCK FALSE
