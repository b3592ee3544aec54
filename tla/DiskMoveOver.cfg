\* Batches of up to two mutations.
SPECIFICATION TreeSpec
CONSTANTS
    Path = {"p", "q", "/bad"}
    ValidPath = {"p", "q"}
    Version = {"v1"}
    MaxTreeEntries = 3
    MaxFileBytes = 2
    MaxTreeBytes = 3
    Trees <- MCTrees
    Batches <- MCShortBatches
    Mutations <- MCMutations
INVARIANTS
    WholeBatchOrNothing
