----------------------------- MODULE ReviewJobs -----------------------------
(***************************************************************************)
(* From a job on the BullMQ queue 'review' to a review on GitHub.          *)
(*                                                                         *)
(* A worker takes a job, runs ReviewGenerationService.runReview and then   *)
(* ReviewPublisherService.publish; each await is a step.  BullMQ delivers  *)
(* at least once: a job whose attempt throws is put back while attempts    *)
(* remain, and a job whose lock is lost (its worker died or was paused) is *)
(* put back while the worker may still be running it.  A user may retry a  *)
(* FAILED review at any time, through ReviewsService.retryReview.          *)
(*                                                                         *)
(* Every take of a job creates at most one Review row, so a row is named   *)
(* by its job and the number of the take.  The fields retried and answer   *)
(* of a row and the field for of a job are history.                        *)
(***************************************************************************)
EXTENDS Naturals, FiniteSets

CONSTANTS PRs,           \* pull request rows that jobs may name
          Workers,       \* jobs that can be running at once, over all processes
          Requests,      \* retry requests that can be running at once
          Entries,       \* what the array of findings in an answer may contain
          Answers,       \* answers the model may give; None is one that is not
                         \* JSON, or that has no array of findings
          Findings,      \* the entries that are objects
          Lines,         \* the findings that carry a line number
          Storable,      \* the findings PostgreSQL takes: lines that are an Int
          None,          \* nobody, nothing
          MaxJobs,       \* bound: jobs ever added
          MaxAttempts,   \* attempts a job is given (3 in the code)
          MaxStalled,    \* times a stalled job is put back (1 in BullMQ)
          MaxFaults      \* bound: crashes and failed database calls

ASSUME JobsAssumption ==
    /\ Findings \subseteq Entries
    /\ Answers \subseteq (SUBSET Entries) \cup {None}
    /\ Lines \subseteq Findings
    /\ Storable \subseteq Findings
    /\ MaxJobs \in Nat /\ MaxFaults \in Nat /\ MaxStalled \in Nat
    /\ MaxAttempts \in Nat \ {0}
    /\ IsFiniteSet(Requests)
    /\ None \notin Workers \cup PRs
    /\ \A found \in SUBSET Entries : found # None

Jobs == 1..MaxJobs
Takes == 1..(MaxAttempts + MaxStalled)
Reviews == Jobs \X Takes

VARIABLES
    pulls,      \* the PullRequest rows that exist
    jobs,       \* jobs[j]: a job as BullMQ keeps it
    added,      \* number of jobs added so far
    review,     \* review[r]: a Review row and its ReviewComment rows
    github,     \* github[r]: what GitHub has received of it
    workers,    \* workers[w]: the local state of a worker
    requests,   \* requests[q]: the local state of a retry request
    faults      \* number of faults so far

vars == <<pulls, jobs, added, review, github, workers, requests, faults>>

NoJob == [state |-> "none", pr |-> None, fails |-> 0, stalls |-> 0, takes |-> 0,
          owner |-> None, for |-> None]
NoReview == [status |-> "none", pr |-> None, comments |-> None, posted |-> {},
             retried |-> FALSE, answer |-> None, createdAt |-> 0]
NoPost == [posts |-> 0, shown |-> {}]
Free == [pc |-> "idle", r |-> None, found |-> {}]
NoRequest == [pc |-> "idle", r |-> None]

Init ==
    /\ pulls = PRs
    /\ jobs = [j \in Jobs |-> NoJob]
    /\ added = 0
    /\ review = [r \in Reviews |-> NoReview]
    /\ github = [r \in Reviews |-> NoPost]
    /\ workers = [w \in Workers |-> Free]
    /\ requests = [q \in Requests |-> NoRequest]
    /\ faults = 0

-----------------------------------------------------------------------------
(* The queue, as BullMQ keeps it.                                           *)

Enqueued(p, r) ==
    [jobs EXCEPT ![added + 1] = [NoJob EXCEPT !.state = "waiting", !.pr = p, !.for = r]]

\* requests that have passed the check will add a job
Promised == Cardinality({q \in Requests : requests[q].pc # "idle"})

\* WebhookService adds a job; an uninstall may have deleted the row meanwhile
Submit(p) ==
    /\ added + Promised < MaxJobs
    /\ jobs' = Enqueued(p, None)
    /\ added' = added + 1
    /\ UNCHANGED <<pulls, review, github, workers, requests, faults>>

Take(w, j) ==
    /\ workers[w].pc = "idle"
    /\ jobs[j].state = "waiting"
    /\ jobs' = [jobs EXCEPT ![j].state = "active", ![j].owner = w, ![j].takes = @ + 1]
    /\ workers' = [workers EXCEPT ![w] = [Free EXCEPT !.pc = "load",
                                               !.r = <<j, jobs[j].takes + 1>>]]
    /\ UNCHANGED <<pulls, added, review, github, requests, faults>>

PutBack(j, again) == IF again THEN "waiting" ELSE "failed"

\* the lock of an active job expires: its worker is dead, or only slow
MayStall(j) == jobs[j].stalls < MaxStalled

Stall(j) ==
    /\ jobs[j].state = "active"
    /\ jobs' = [jobs EXCEPT ![j].state = PutBack(j, MayStall(j)), ![j].owner = None,
                            ![j].stalls = @ + 1]
    /\ UNCHANGED <<pulls, added, review, github, workers, requests, faults>>

-----------------------------------------------------------------------------
(* A worker.                                                                *)

R(w) == workers[w].r
Job(w) == R(w)[1]
PrOf(w) == jobs[Job(w)].pr
Exists(r) == review[r].status \notin {"none", "deleted"}

At(w, pc) == workers[w].pc = pc
Goto(w, pc) == workers' = [workers EXCEPT ![w].pc = pc]
Release(w) == workers' = [workers EXCEPT ![w] = Free]

\* runReview reads the pull request; NotFoundException is thrown before the try
LoadPull(w) ==
    /\ At(w, "load")
    /\ Goto(w, IF PrOf(w) \in pulls THEN "create" ELSE "throw")
    /\ UNCHANGED <<pulls, jobs, added, review, github, requests, faults>>

\* a clock that moves when a row is created
Now == Cardinality({r \in Reviews : review[r].status # "none"}) + 1

\* the foreign key fails when the pull request is gone
CreateReview(w) ==
    /\ At(w, "create")
    /\ \/ /\ PrOf(w) \in pulls
          /\ review' = [review EXCEPT ![R(w)].status = "PENDING", ![R(w)].pr = PrOf(w),
                                      ![R(w)].createdAt = Now]
          /\ Goto(w, "diff")
       \/ /\ PrOf(w) \notin pulls
          /\ Goto(w, "throw")
          /\ UNCHANGED review
    /\ UNCHANGED <<pulls, jobs, added, github, requests, faults>>

\* GitHub does not answer, or the diff is empty
FetchDiff(w) ==
    /\ At(w, "diff")
    /\ Goto(w, "llm") \/ Goto(w, "saveFailed")
    /\ UNCHANGED <<pulls, jobs, added, review, github, requests, faults>>

\* parseReviewResponse: an answer of another shape is refused as a whole; an
\* entry that is no object is left out, and an object whose fields are missing
\* or of another type gets defaults
Rejected(answer) == answer = None

UnfilteredBug(answer) == answer
Parsed(answer) == answer \cap Findings

\* no key, quota, provider error, timeout, or an answer that is refused
CallLlm(w) ==
    /\ At(w, "llm")
    /\ \/ Goto(w, "saveFailed") /\ UNCHANGED review
       \/ \E answer \in Answers :
             /\ ~Rejected(answer)
             /\ workers' = [workers EXCEPT ![w].pc = "save", ![w].found = Parsed(answer)]
             /\ review' = [review EXCEPT ![R(w)].answer = answer \cap Findings]
    /\ UNCHANGED <<pulls, jobs, added, github, requests, faults>>

\* one transaction: status and comments; it fails when the row is gone, or when
\* one finding cannot be stored
SaveCompleted(w) ==
    /\ At(w, "save")
    /\ \/ /\ Exists(R(w)) /\ workers[w].found \subseteq Storable
          /\ review' = [review EXCEPT ![R(w)].status = "COMPLETED",
                                      ![R(w)].comments = workers[w].found]
          /\ Goto(w, "publish")
       \/ /\ ~Exists(R(w)) \/ ~(workers[w].found \subseteq Storable)
          /\ Goto(w, "saveFailed")
          /\ UNCHANGED review
    /\ UNCHANGED <<pulls, jobs, added, github, requests, faults>>

\* the catch: FAILED, or one more exception when the row is gone; then rethrow
CaughtBug == [status |-> "PENDING", next |-> "throw"]
NoRethrowBug == [status |-> "FAILED", next |-> "publish"]
RetryInPlaceBug == [status |-> "FAILED", next |-> "llm"]
Caught == [status |-> "FAILED", next |-> "throw"]

SaveFailed(w) ==
    /\ At(w, "saveFailed")
    /\ review' = IF Exists(R(w)) THEN [review EXCEPT ![R(w)].status = Caught.status]
                                 ELSE review
    /\ Goto(w, Caught.next)
    /\ UNCHANGED <<pulls, jobs, added, github, requests, faults>>

\* publish reads the review with its unposted comments
LoadReview(w) ==
    /\ At(w, "publish")
    /\ Goto(w, IF Exists(R(w)) THEN "post" ELSE "done")
    /\ UNCHANGED <<pulls, jobs, added, review, github, requests, faults>>

\* createPullRequestReview takes only the comments with a line number; the
\* answer may be lost after GitHub has acted.  Errors end the publication; they
\* are swallowed, for the review itself is good.
RethrowBug == [lost |-> "throw", refused |-> "throw"]
MarkAnywayBug == [lost |-> "done", refused |-> "mark"]
CatchPublishBug == [lost |-> "done", refused |-> "saveFailed"]
PostError == [lost |-> "done", refused |-> "done"]

Post(w) ==
    LET told == [github EXCEPT ![R(w)].posts = @ + 1,
                               ![R(w)].shown = workers[w].found \cap Lines]
    IN
    /\ At(w, "post")
    /\ \/ github' = told /\ Goto(w, "mark")
       \/ github' = told /\ Goto(w, PostError.lost)
       \/ Goto(w, PostError.refused) /\ UNCHANGED github
    /\ UNCHANGED <<pulls, jobs, added, review, requests, faults>>

\* updateMany marks every comment not yet marked
MarkPosted(w) ==
    /\ At(w, "mark")
    /\ review' = IF Exists(R(w))
                 THEN [review EXCEPT ![R(w)].posted = review[R(w)].comments]
                 ELSE review
    /\ Goto(w, "done")
    /\ UNCHANGED <<pulls, jobs, added, github, requests, faults>>

\* BullMQ accepts an outcome only from the worker that holds the job's lock
Owns(w) == jobs[Job(w)].state = "active" /\ jobs[Job(w)].owner = w

FinishJob(w) ==
    /\ At(w, "done")
    /\ jobs' = IF Owns(w)
               THEN [jobs EXCEPT ![Job(w)].state = "completed", ![Job(w)].owner = None]
               ELSE jobs
    /\ Release(w)
    /\ UNCHANGED <<pulls, added, review, github, requests, faults>>

\* the option "attempts" of queue.add
AttemptsBug == MaxAttempts + 1
Attempts == MaxAttempts

MayRetry(j) == jobs[j].fails + 1 < Attempts

FailAttempt(w) ==
    LET j == Job(w) IN
    /\ At(w, "throw")
    /\ jobs' = IF Owns(w)
               THEN [jobs EXCEPT ![j].state = PutBack(j, MayRetry(j)), ![j].owner = None,
                                 ![j].fails = @ + 1]
               ELSE jobs
    /\ Release(w)
    /\ UNCHANGED <<pulls, added, review, github, requests, faults>>

Work(w) ==
    \/ LoadPull(w) \/ CreateReview(w) \/ FetchDiff(w) \/ CallLlm(w) \/ SaveCompleted(w)
    \/ SaveFailed(w) \/ LoadReview(w) \/ Post(w) \/ MarkPosted(w)
    \/ FinishJob(w) \/ FailAttempt(w)

\* the process dies: the job keeps its lock until it expires
Crash(w) ==
    /\ ~At(w, "idle")
    /\ faults < MaxFaults
    /\ faults' = faults + 1
    /\ Release(w)
    /\ UNCHANGED <<pulls, jobs, added, review, github, requests>>

\* a database call throws where nothing catches it but BullMQ, where runReview
\* records it, or where process() swallows it
DatabaseError(w) ==
    /\ faults < MaxFaults
    /\ faults' = faults + 1
    /\ \/ workers[w].pc \in {"load", "create", "saveFailed"} /\ Goto(w, "throw")
       \/ At(w, "save") /\ Goto(w, "saveFailed")
       \/ workers[w].pc \in {"publish", "mark"} /\ Goto(w, "done")
    /\ UNCHANGED <<pulls, jobs, added, review, github, requests>>

-----------------------------------------------------------------------------
(* retryReview, one request at a time per q.                                *)

OnlyFailedBug(r) == Exists(r)
OnlyFailed(r) == review[r].status = "FAILED"

\* other statuses, and missing rows, are refused without a change
RetryCheck(q, r) ==
    /\ requests[q].pc = "idle"
    /\ added + Promised < MaxJobs
    /\ OnlyFailed(r)
    /\ requests' = [requests EXCEPT ![q] = [pc |-> "reset", r |-> r]]
    /\ UNCHANGED <<pulls, jobs, added, review, github, workers, faults>>

\* the update does not test the status again; it fails when the row is gone
RetryReset(q) ==
    LET r == requests[q].r IN
    /\ requests[q].pc = "reset"
    /\ \/ /\ Exists(r)
          /\ review' = [review EXCEPT ![r].status = "PENDING", ![r].retried = TRUE]
          /\ requests' = [requests EXCEPT ![q].pc = "enqueue"]
       \/ /\ ~Exists(r)
          /\ requests' = [requests EXCEPT ![q] = NoRequest]
          /\ UNCHANGED review
    /\ UNCHANGED <<pulls, jobs, added, github, workers, faults>>

\* the job names the pull request, not the review, and has no id of its own
\* under which the queue would take it for one it already has
KnownBug(r) == IF \E j \in Jobs : jobs[j].pr = review[r].pr THEN jobs
                                                            ELSE Enqueued(review[r].pr, r)
RetryJob(r) == Enqueued(review[r].pr, r)

RetryEnqueue(q) ==
    /\ requests[q].pc = "enqueue"
    /\ jobs' = RetryJob(requests[q].r)
    /\ added' = added + 1
    /\ requests' = [requests EXCEPT ![q] = NoRequest]
    /\ UNCHANGED <<pulls, review, github, workers, faults>>

\* the process dies, or the database or Redis throws
RetryFault(q) ==
    /\ requests[q].pc # "idle"
    /\ faults < MaxFaults
    /\ faults' = faults + 1
    /\ requests' = [requests EXCEPT ![q] = NoRequest]
    /\ UNCHANGED <<pulls, jobs, added, review, github, workers>>

Retry(q) == RetryReset(q) \/ RetryEnqueue(q)

\* the cascade of an uninstall; the findings of a deleted row are kept as history
Uninstall(p) ==
    /\ p \in pulls
    /\ pulls' = pulls \ {p}
    /\ review' = [r \in Reviews |-> IF Exists(r) /\ review[r].pr = p
                                    THEN [review[r] EXCEPT !.status = "deleted",
                                                           !.answer = None, !.createdAt = 0]
                                    ELSE review[r]]
    /\ UNCHANGED <<jobs, added, github, workers, requests, faults>>

\* findByPullRequestForUser, and a pull request with its review: the last row
\* created, whatever its status
RowsOf(p) == {r \in Reviews : Exists(r) /\ review[r].pr = p}

OldestBug(p) == {r \in RowsOf(p) : \A s \in RowsOf(p) : review[r].createdAt <= review[s].createdAt}
ShownFor(p) == {r \in RowsOf(p) : \A s \in RowsOf(p) : review[s].createdAt <= review[r].createdAt}

\* every job has settled: the queue waits for the next webhook
Quiet ==
    /\ \A j \in Jobs : jobs[j].state \in {"none", "completed", "failed"}
    /\ \A w \in Workers : At(w, "idle")
    /\ \A q \in Requests : requests[q].pc = "idle"
    /\ UNCHANGED vars

Next ==
    \/ \E p \in PRs : Submit(p) \/ Uninstall(p)
    \/ \E j \in Jobs : Stall(j) \/ \E w \in Workers : Take(w, j)
    \/ \E w \in Workers : Work(w) \/ Crash(w) \/ DatabaseError(w)
    \/ \E q \in Requests : Retry(q) \/ RetryFault(q) \/ \E r \in Reviews : RetryCheck(q, r)
    \/ Quiet

Spec == Init /\ [][Next]_vars

\* A worker that has a job goes on, an idle one polls the queue, the stalled
\* check runs periodically, and a request that was accepted is served.  Users
\* and GitHub are under no obligation.
Orphan(j) == \A w \in Workers : ~(~At(w, "idle") /\ Job(w) = j /\ Owns(w))

FairSpec ==
    /\ Spec
    /\ \A w \in Workers : WF_vars(Work(w)) /\ WF_vars(\E j \in Jobs : Take(w, j))
    /\ \A j \in Jobs : WF_vars(Orphan(j) /\ Stall(j))
    /\ \A q \in Requests : WF_vars(Retry(q))

-----------------------------------------------------------------------------
(* What is checked.                                                         *)

WorkerPcs == {"idle", "load", "create", "diff", "llm", "save", "saveFailed", "publish",
              "post", "mark", "done", "throw"}
JobRows == [state : {"none", "waiting", "active", "completed", "failed"},
            pr : PRs \cup {None}, fails : Nat, stalls : Nat, takes : Nat,
            owner : Workers \cup {None}, for : Reviews \cup {None}]
ReviewRows == [status : {"none", "PENDING", "COMPLETED", "FAILED", "deleted"},
               pr : PRs \cup {None}, comments : (SUBSET Findings) \cup {None},
               posted : SUBSET Findings, retried : BOOLEAN,
               answer : (SUBSET Findings) \cup {None}, createdAt : Nat]
Posts == [posts : Nat, shown : SUBSET Lines]

\* Every variable stays in its type; a busy worker works on a take of a job
\* that names a pull request, and a retry on a row that was written.
TypeOK ==
    /\ pulls \in SUBSET PRs
    /\ jobs \in [Jobs -> JobRows]
    /\ added \in 0..MaxJobs
    /\ review \in [Reviews -> ReviewRows]
    /\ github \in [Reviews -> Posts]
    /\ workers \in [Workers -> [pc : WorkerPcs, r : Reviews \cup {None}, found : SUBSET Findings]]
    /\ requests \in [Requests -> [pc : {"idle", "reset", "enqueue"}, r : Reviews \cup {None}]]
    /\ \A w \in Workers : ~At(w, "idle") => R(w) \in Reviews /\ PrOf(w) \in PRs
    /\ \A q \in Requests : requests[q].pc # "idle" =>
          requests[q].r \in Reviews /\ review[requests[q].r].pr \in PRs
    /\ faults \in 0..MaxFaults

\* The whole machine keeps the promises of ReviewLifecycle about every row: an
\* attempt settles its own review once, nothing overwrites COMPLETED (neither a
\* stale worker nor a retry), and GitHub is told at most once per row, after
\* the findings are stored.
Lifecycle == INSTANCE ReviewLifecycle WITH
    status <- [r \in Reviews |-> review[r].status],
    comments <- [r \in Reviews |-> review[r].comments],
    announced <- [r \in Reviews |-> github[r].posts > 0]

KeepsLifecycle == Lifecycle!Spec

\* How far OnePostPerJob can fail.  GitHub is told of a row at most once, and
\* of a job by one row, and one more for each time its lock was lost: a worker
\* that lost it may publish as well, but trouble with GitHub runs nothing again.
PostsBounded ==
    \A j \in Jobs :
        LET posted == {t \in Takes : github[<<j, t>>].posts > 0} IN
        /\ \A t \in Takes : github[<<j, t>>].posts <= 1
        /\ Cardinality(posted) <= jobs[j].stalls + 1
        /\ Cardinality(posted) <= MaxStalled + 1

\* A finding with a line number is marked as posted only if GitHub has it.
MarkedLinesShown == \A r \in Reviews : review[r].posted \cap Lines \subseteq github[r].shown

\* A review that was answered keeps the whole answer, or fails for a reason: a
\* COMPLETED row has every finding of its answer, and a FAILED one had an answer
\* with a finding that cannot be stored, unless the database failed it.  No
\* entry that is not a finding, and no trouble with GitHub afterwards, loses it.
AnswerStored ==
    \A r \in Reviews : review[r].answer # None =>
        /\ review[r].status = "COMPLETED" => review[r].comments = review[r].answer
        /\ review[r].status = "FAILED" /\ faults = 0 =>
              ~(review[r].answer \subseteq Storable)

\* However failures and lost locks combine, a job runs (and is billed for) at
\* most attempts + maxStalledCount times.
AttemptsBounded == \A j \in Jobs : jobs[j].takes <= MaxAttempts + MaxStalled

\* The queue's verdict is the truth about the reviews: a completed job has a
\* review that is COMPLETED (or was deleted since), and a job that failed
\* without ever losing its lock has none that is.
VerdictHonest ==
    \A j \in Jobs :
        /\ jobs[j].state = "completed" =>
              review[<<j, jobs[j].takes>>].status \in {"COMPLETED", "deleted"}
        /\ jobs[j].state = "failed" /\ jobs[j].stalls = 0 =>
              \A t \in Takes : review[<<j, t>>].comments = None

\* Every attempt makes a row, and users are shown the last one created.  When all
\* jobs of a pull request were completed and none had lost its lock, it is one
\* that is COMPLETED, whatever failed before and whoever retried.
CompletedShown ==
    \A p \in pulls :
        LET own == {j \in Jobs : jobs[j].pr = p} IN
        own # {} /\ (\A j \in own : jobs[j].state = "completed" /\ jobs[j].stalls = 0) =>
            ShownFor(p) # {} /\ \A r \in ShownFor(p) : review[r].status = "COMPLETED"

\* The row is reset before the job is queued, and two requests may reset one row
\* together.  Short of a fault, a review that waits for a retry has a job that
\* was queued for it, or a request that is about to queue one.
RetryQueued ==
    \A r \in Reviews : review[r].status = "PENDING" /\ review[r].retried =>
        \/ \E j \in Jobs : jobs[j].for = r
        \/ \E q \in Requests : requests[q] = [pc |-> "enqueue", r |-> r]
        \/ faults > 0

\* Every job that is added is eventually completed or failed.
JobsSettle == \A j \in Jobs :
    jobs[j].state # "none" ~> jobs[j].state \in {"completed", "failed"}

\* A review started by a worker does not stay PENDING, as long as no process
\* dies and the database answers, even if the worker loses its lock.
AttemptsResolve == \A r \in Reviews :
    review[r].status = "PENDING" /\ ~review[r].retried
        ~> review[r].status # "PENDING" \/ review[r].retried \/ faults > 0

\* "Re-enqueue the review job so the worker picks it up again": a review that a
\* user retried is picked up, and leaves PENDING.
RetriedReviewResolves == \A r \in Reviews :
    review[r].status = "PENDING" /\ review[r].retried ~> review[r].status # "PENDING"

\* "idempotency for posting to GitHub": a job tells GitHub at most once.
OnePostPerJob == \A j \in Jobs : \A s, t \in Takes :
    github[<<j, s>>].posts > 0 /\ github[<<j, t>>].posts > 0 => s = t
=============================================================================
