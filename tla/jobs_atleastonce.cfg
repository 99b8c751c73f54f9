CONSTANTS
    pr = pr
    w1 = w1
    w2 = w2
    q1 = q1
    q2 = q2
    line = line
    whole = whole
    odd = odd
    junk = junk
    None = None
    PRs <- OnePR
    Workers <- TwoWorkers
    Requests <- NoRequests
    Entries <- AllEntries
    Answers <- MixedAnswers
    Findings <- AllFindings
    Lines <- LineAndOdd
    Storable <- LineAndWhole
    MaxJobs = 1
    MaxAttempts = 2
    MaxStalled = 1
    MaxFaults = 1
SPECIFICATION FairSpec
INVARIANTS
    TypeOK
    PostsBounded
    MarkedLinesShown
    AttemptsBounded
    VerdictHonest
    AnswerStored
    CompletedShown
PROPERTIES
    KeepsLifecycle
    JobsSettle
