CONSTANTS
    alice = alice
    c1 = c1
    c2 = c2
    openai = openai
    OpenRouter = OpenRouter
    None = None
    Users <- OneUser
    Calls <- TwoCalls
    Providers <- TwoProviders
    dailyLimit = 2
    MaxDay = 1
    MaxCount = 4
    MaxFaults = 1
SPECIFICATION Spec
SYMMETRY CallSymmetry
INVARIANTS
    TypeOK
    LimitKept
    RefusedAtLimit
    CountersExpire
    OwnKeyUnmetered
