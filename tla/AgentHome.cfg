SPECIFICATION Spec
CONSTANTS
    p1 = p1
    p2 = p2
    h1 = h1
    h2 = h2
    Path = {p1, p2}
    Hash = {h1, h2}
    Dir = Dir
    Trees <- TwoTrees
    LogCapacity = 1
    MaxChanges = 3
    MaxCalls = 1
    MaxEpochs = 2
INVARIANTS
    EventsTrackScans
    OwnChangesAreSilent
