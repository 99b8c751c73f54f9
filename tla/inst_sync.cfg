CONSTANTS
    i1 = i1
    i2 = i2
    r1 = r1
    r2 = r2
    r3 = r3
    alice = alice
    bob = bob
    p1 = p1
    p2 = p2
    None = None
    Insts <- TwoInsts
    Repos <- ThreeRepos
    Users <- OneUser
    Procs <- TwoProcs
    Rank <- ThreeRanks
    PageSize = 1
    MaxEvents = 3
    MaxServed = 2
SPECIFICATION Spec
SYMMETRY SyncSymmetry
INVARIANTS
    SyncExact
    TypeOK
    NothingSkipped
    PagesBounded
