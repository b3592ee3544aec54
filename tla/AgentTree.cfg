\* One ReplaceTree or Apply may carry three entries and three bytes.
SPECIFICATION TreeSpec
CONSTANTS
    Path = {"p", "q", "/bad"}
    ValidPath = {"p", "q"}
    Version = {"v1"}
    MaxTreeEntries = 3
    MaxFileBytes = 2
    MaxTreeBytes = 3
    Trees <- MCTrees
    Batches <- MCBatches
    Mutations <- MCMutations
INVARIANTS
    FailureIsUndone
    SuccessIsOnDisk
    DisjointMutationsCommute
