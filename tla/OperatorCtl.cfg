\* An operator gives three commands, and one of their steps fails or is cut
\* off, on an empty machine or one with images of any release.
SPECIFICATION Spec
CONSTANTS
    Ids = {py, go}
    Releases = {1, 2, 3}
    KernelOf <- OneKernel
    Published <- Everything
    MaxCommands = 3
    MaxFaults = 1
    None = None
    Bad = Bad
INVARIANTS
    SuccessIsServed
    CatalogTellsTruth
    NothingLeftBehind
PROPERTIES
    OnlyItsInstallBreaksAnImage
