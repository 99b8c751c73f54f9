CONSTANTS
    alice = alice
    bob = bob
    r1 = r1
    r2 = r2
    None = None
    Users <- TwoUsers
    Reviews <- TwoReviews
    MaxTurns = 3
SPECIFICATION Spec
SYMMETRY ChatSymmetry
INVARIANTS
    TypeOK
    WholeTurns
    Scoped
    TurnKept
