CONSTANTS
    pr = pr
    h1 = h1
    h2 = h2
    alice = alice
    None = None
    PRs <- OnePR
    Handlers <- TwoHandlers
    Users <- OneUser
    MaxDeliveries = 2
    MaxReceipts = 3
    MaxFaults = 2
SPECIFICATION Spec
SYMMETRY HandlerSymmetry
INVARIANTS
    TypeOK
    MixedSnapshotsOverlapped
    RepeatNeedsOther
    JobsOnlyIfOpen
    FilesReflectHead
    DuplicateWasHandled
    FailureShown
