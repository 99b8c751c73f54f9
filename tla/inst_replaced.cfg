CONSTANTS
    i1 = i1
    i2 = i2
    r1 = r1
    r2 = r2
    r3 = r3
    alice = alice
    bob = bob
    p1 = p1
    p2 = p2
    None = None
    Insts <- OneInst
    Repos <- OneRepo
    Users <- TwoUsers
    Procs <- TwoProcs
    Rank <- OneRank
    PageSize = 1
    MaxEvents = 1
    MaxServed = 3
SPECIFICATION Spec
PROPERTY OwnerNeverReplaced
