CONSTANTS
    pr = pr
    w1 = w1
    w2 = w2
    q1 = q1
    q2 = q2
    line = line
    whole = whole
    odd = odd
    junk = junk
    None = None
    PRs <- OnePR
    Workers <- TwoWorkers
    Requests <- NoRequests
    Entries <- OneFinding
    Answers <- OneAnswer
    Findings <- OneFinding
    Lines <- OnlyLine
    Storable <- OneFinding
    MaxJobs = 1
    MaxAttempts = 2
    MaxStalled = 1
    MaxFaults = 1
SPECIFICATION Spec
INVARIANT OnePostPerJob
