\* A client follows the guest through overflow, eviction, resumption and new
\* generations, and terminals come and go with readers asleep in them.
CONSTANTS
    Path = {"p", "q"}
    ValidPath = {"p", "q"}
    Version = {"guest"}
    MaxTreeEntries = 1
    MaxFileBytes = 1
    MaxTreeBytes = 1
    Watcher = {w1}
    Terminal = {t1, t2}
    None = None
    Trees <- MCTrees
    Mutations <- MCMutations
    LogCapacity = 2
    WatchBuffer = 1
    MaxEvents = 3
    MaxEpochs = 2
    MaxBytes = 1
SPECIFICATION FairSpec
INVARIANTS
    NoGap
    RecentCursorResumes
    StoppedIsQuiet
PROPERTIES
    EventsArrive
    HangupEndsRead
\* A revoked environment has come to its end.
CHECK_DEADLOCK FALSE
