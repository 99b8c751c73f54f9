CONSTANTS
    pr = pr
    w1 = w1
    w2 = w2
    q1 = q1
    q2 = q2
    line = line
    whole = whole
    odd = odd
    junk = junk
    None = None
    PRs <- OnePR
    Workers <- OneWorker
    Requests <- TwoRequests
    Entries <- OneFinding
    Answers <- FailOrFinding
    Findings <- OneFinding
    Lines <- OnlyLine
    Storable <- OneFinding
    MaxJobs = 3
    MaxAttempts = 1
    MaxStalled = 0
    MaxFaults = 1
SPECIFICATION FairSpec
INVARIANTS
    RetryQueued
PROPERTIES
    KeepsLifecycle
    AttemptsResolve
