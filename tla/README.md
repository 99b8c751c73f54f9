# A TLA+ model of PR Sentinel's backend

PR Sentinel is a NestJS server. GitHub tells it of pull requests by webhook; it
stores them in PostgreSQL, queues a review on BullMQ (Redis), lets a worker ask a
language model for findings, stores these and posts them on the pull request.
Users connect GitHub App installations to their account, retry failed reviews
and chat about a review.

Everything runs concurrently. Node gives up the CPU at every `await`, so two
webhook handlers, two requests or a handler and a worker interleave between any
two database statements, Redis commands or calls to GitHub; there is one
transaction in the program (`review-generation.service.ts`), and no lock.
That is what the models are about: a model's step is one awaited call, and its
properties are what holds between the calls.

Paths below are relative to `src/src/` unless they start with `src/`.

## 1. Inventory

| Part | State it keeps | Operations | What must hold |
|---|---|---|---|
| Pull request webhook: `webhook/webhook.service.ts`, `pull-request/pull-request.service.ts` | `PullRequest` (last delivery id, status), `PrFile` | one handler per delivery: suspended test, repository lookup, duplicate test and upsert, file fetch, delete and insert of the files, job | a delivery is not processed twice, the files are those of one head, no review for a suspended installation, every delivery is answered |
| Installations and repositories: `repository/repository.service.ts`, `github/github.controller.ts` | `Installation` (owner, suspended), `Repository` (installation, active) | installation and installation_repositories events, claim, synchronise | an owner is not replaced, webhooks never touch the owner, a synchronisation ends with what GitHub lists |
| Review queue and worker: `reviews/processors`, `reviews/services`, the queue options in `webhook.service.ts` | BullMQ jobs, `Review`, `ReviewComment` | take, run, settle, retry a job; create, complete, fail a review; post and mark comments | a review is settled once, COMPLETED is final, nothing is posted before it is stored nor marked without being posted, every job ends |
| Retry: `reviews/reviews.service.ts` | `Review.status` | `retryReview` | only FAILED reviews are reset, and a reset review is settled again |
| LLM access: `llm/` | quota counters in Redis, `UserLlmConfig`, `User.llmMode` | consume quota, set and remove configurations, switch mode | at most the daily limit of free calls, counters expire, whoever has a key of their own is not metered |
| State tokens: `auth/oauth-state.service.ts`, `github/install-state.service.ts` | Redis keys with a time to live | create, consume | a token is used once, up to requests that overlap, and for the user it was made for |
| Chat: `reviews/reviews.service.ts` | conversations in Redis | one turn | a conversation is whole turns of one user about one review; only overlapping turns may be lost |
| Accounts: `auth/` | `User`; access tokens in the browser | register, log in, GitHub login | a session stays that of the identity proved, whoever registered can log in again |
| Parsing and prompts: `reviews/utils`, `reviews/prompts` | none | parse a model's answer, build a prompt | an answer is refused, or stored whole |
| GitHub client, LLM provider, key encryption, Redis and Prisma wrappers, HTTP shell, generated client | none of their own | calls | |

How the parts meet:

- The webhook controller checks a signature and calls `handleGithubWebhook`, which
  awaits the whole handling before it answers. GitHub sends deliveries in no
  fixed order, may send one again and may drop one.
- The handler and the worker share only the database rows and the queue: a job
  carries a pull request uuid and a user id.
- An uninstall deletes the `Installation` row; foreign keys cascade over
  repositories, pull requests, files, reviews and comments. Every other
  operation may be holding a uuid of one of those rows.
- BullMQ delivers a job at least once: an attempt that throws is put back up to
  3 times (`attempts: 3`), an attempt whose lock expires is put back once
  (`maxStalledCount`), and in that case two workers may be running the job.

The hard behaviours are listed, with their lines, under "hazards" in
`PROJECT.json`.

## 2. Modules

| Module | What it is |
|---|---|
| `Ingest` | the handling of `pull_request` deliveries |
| `IngestProofs`, `IngestHistoryProofs` | its theorems: types and stored files; what the history of handlings allows |
| `Installations` | the `Installation` and `Repository` rows: webhook events, claims, synchronisations page by page |
| `SharedRows` | the rows that `Installations` and `Ingest` share, as an instance of `Ingest` |
| `InstallationsProofs` | the theorems of `Installations`, and that it implements `SharedRows` |
| `ReviewLifecycle` | what the queue, the worker, the publisher and the retry endpoint promise about one `Review` row |
| `ReviewJobs` | the queue, the workers, the parsing of answers and the retry endpoint; implements `ReviewLifecycle` |
| `ReviewJobsProofs` | its theorems, the refinement among them |
| `LlmAccess` | which key pays for a call of the model: daily quota, configurations, mode |
| `LlmAccessProofs` | its theorems |
| `Chat` | the chat about a review |
| `ChatProofs`, `ChatHistoryProofs` | its theorems: whose messages; which messages |
| `Accounts` | users, sessions, and the state tokens of GitHub logins and installations |
| `AccountsProofs` | its theorems |
| `MCIngest`, `MCInstallations`, `MCReviewJobs`, `MCLlmAccess`, `MCChat`, `MCAccounts` | the small instances TLC checks |

They fit together on the shared rows. `Ingest` lets its environment write the
`Installation` and `Repository` rows by six actions (`UpsertInstallation`,
`Claim`, `Suspend`, `Unsuspend`, `AddRepository`, `Uninstall`); `Installations`
models the code that writes them, statement by statement, and every behaviour of it
is one that `Ingest` allows its environment (`RowsFollowIngest` in `SharedRows`, an
instance of `Ingest` with no handler): the run `inst_owner` checks it and
`RowsImplemented` in `InstallationsProofs` proves it. `Ingest` ends where a job is added (`Enqueue`); `ReviewJobs`
begins there (`Submit`). A call of the language model is one step that answers or
fails in `ReviewJobs` (`CallLlm`) and `Chat` (`LlmAnswers`, `LlmRefuses`);
`LlmAccess` is what happens inside that step. `Accounts` ends where a request may
claim an installation (`Claim`), which is where `RequestClaim` of `Installations` begins,
for the same user.

### Ingest

`hs[h]` is the local state of a handler and its `pc` the next awaited call of
`handlePullRequestEvent`:

| pc | action | code |
|---|---|---|
| `guard` | `CheckSuspended` | the suspended test, `webhook.service.ts:110` |
| `findRepo`, `findInst`, `saveRepo` | `FindRepository`, `FindInstallation`, `SaveRepository` | `findOrUpsertRepository` |
| `readPr`, `writePr` | `ReadPullRequest`, `WritePullRequest` | `upsertPullRequest` |
| `fetch`, `deleteFiles`, `createFiles` | `FetchFiles`, `DeleteFiles`, `CreateFiles` | the `try`: GitHub's files, then `replacePrFiles` |
| `markFailed` | `MarkFailed` | the `catch` |
| `readLink`, `enqueue` | `ReadLink`, `Enqueue` | the owner is read, the job is added |

`Abort` is the death of the process or an exception outside the `try`, at any
point; `FilesFail` is any exception inside it. One bound, `MaxFaults`, covers both the
uninstalls (`epoch` counts them) and the aborts, and each of them also takes the place of
one of the `MaxReceipts` receipts (`Room`). A pull request may exist on GitHub, open or
closed, before the application is installed, so that a push or a reopening may be the
first the server hears of it. What is abstracted: a pull
request's files are a *snapshot*, identified by the handling that stored it and
the head it shows, and `createFiles` of an empty list succeeds although the row is gone
(`Created`), as `createMany` does; an uuid is the *incarnation* of the installation the row was
created under, which is enough to tell a live row from a deleted one because
rows are only deleted by the cascade of an uninstall. History kept for the
properties: `answers`, `writes`, and per handling the handlings that had ended
before it began (`seen`) and whether the installation was ever not suspended
during it (`open`).

### Installations

`procs[p]` is a request or an event being served. An event begins at the `pc` of
its kind (`saved` stands for created and new_permissions_accepted); a pull request event
reads the suspension, the repository and the installation in three steps (`pull`,
`findRepo`, `findInst`) before it adds the repository; a claim runs
`verify`, `check`, `readOwner`, `link` (`verifyAndSync` and
`upsertInstallationWithUser`) and goes on to the synchronisation `list`, `add`,
`readActive`, `drop` (`syncInstallationRepositories`), which `installation/sync`
enters directly. `list` is one request for a page of
`listInstallationRepositories` (`ListPage`): GitHub orders the repositories (`Rank`) and
may change the list between two pages, and the loop ends when it has counted as
many entries as GitHub has repositories at that moment. GitHub's own state is in `gh`; its events in `events`, handled in any
order, any number of times. A find that only decides whether the next write
succeeds is one step with the write. `install/claim` and `install/complete`
test the owner once more before `verifyAndSync` when no state token resolves;
they refuse there only what the second test would refuse at that time, so a
claim starts at `verify`. History: `open`, `rival`, `touched` and, for a synchronisation,
the repositories GitHub has covered since its first page without removing one before them
in the list (`kept`, `Undisturbed`).

### ReviewJobs and ReviewLifecycle

A take of a job creates at most one `Review` row, so a row is named by the job
and the number of the take. `workers[w].pc` follows `runReview` (`load`,
`create`, `diff`, `llm`, `save`, `saveFailed`; an answer of the model is an array of
*entries* or something else, `Rejected` and `Parsed` are `parseReviewResponse`, and `save`
fails when a finding is not `Storable`), `publish` (`publish`, `post`,
`mark`) and the end of the attempt (`done`, `throw`); a worker settles a job
only if it still owns its lock. `requests[q]` is a `retryReview` in flight:
the test, the reset and the new job are three steps. `Stall` takes the lock from
a worker that may be dead or alive. `ReviewLifecycle` knows only a row's status,
its stored findings and whether GitHub was told; `ReviewJobs` implements it
(`KeepsLifecycle`), so whatever retries, stale workers, crashes and uninstalls
do, no row leaves its life cycle. `ShownFor` is the row that users are shown, the
last one created. GitHub refuses a publication for any reason of its own (`Post`), a
line outside of the diff among them. History: `retried`, `answer` and a job's `for`.

### LlmAccess

`calls[c]` is a call of `LlmService.resolveKeyAndModel`: `user` reads the mode
and, being synchronous with it, the day of the key; `config` looks the user's
OpenRouter key up; `incr`, `expire` and `test` are `consumeFreeReview`;
`provider` is the call itself. `updateMode(BYOK)` also takes two steps (`mode`).
Time is the UTC day; a counter's expiry is the day at whose beginning Redis
drops it. The Redis client sends a command again when the connection is lost
after it (`Resend`). The platform's own key may be missing at any
call that would use it, which then ends before it is counted (`MissPlatformKey`); the
server's settings are not modelled beyond that. `FreeQuotaGuard` is not used by any route and is
left out. History: how many calls begun on a day were let through (`granted`),
how many of them were counted only after the day had ended (`late`), and
whether a user had a key of their own throughout a call (`steady`).

### Chat

`turns[t]` is a turn of `ReviewsService.chat`: `load` (with the choice of the
conversation), `llm`, and one of the two saves. A message is its role and turn;
a request may carry the id of any conversation a turn was answered with. A
review may change hands (`Reclaim`, which `Installations` shows possible) or be
deleted (`Uninstall`). A conversation may expire while a turn holds it.

### Accounts

`procs[p]` is a request: a GitHub callback runs `readToken`, `delete` (the two commands of
`consume`), `profile`, `upsert`; a registration `unused`, `create`; a login `find`; all
three end in `session` (`CreateAccessToken`), and a failure or death before it leaves a row
without a session. The
completion of an installation `readToken`, `delete`, `match` with a token that
resolves, and `owner` without one, both ending in `claim`. `install/claim` brings no
token and is in `Installations`. GitHub's side is `profile[g]`, the address an account shows,
which the account may change; GitHub keeps an address with one account however it is spelled,
the server compares spellings, of which only registration and login take the lower
case (`Normalized`). Prisma runs this upsert as one statement (one unique column, the same in
`where` and `create`), so the unique keys decide between upserts and registrations that
race. A password stands for its hash. `sessions` keeps what was proved for every access
token given out; logout and the expiry of an access token only end what the
properties allow.

## 3. Runs

| Run | Instance | Shows |
|---|---|---|
| `ingest_overlap` | 1 pull request, perhaps older than the installation, 2 handlers, 2 deliveries, 3 receipts, uninstalls or deaths in place of up to 2 of them | types; `MixedSnapshotsOverlapped`: files of two heads side by side only if their handlings overlapped; `RepeatNeedsOther`: a finished delivery is processed again only after another one; `JobsOnlyIfOpen`: a queued review means the installation was not suspended at some moment of the handling; `FilesReflectHead`: when the handlings that wrote the row did not overlap and none died, the stored files are those of the head; `DuplicateWasHandled`: a delivery answered as a duplicate was really taken up; `FailureShown`: a row is FAILED only by a handling whose files failed and that no later one has written over, and a failure vanishes only by a later write |
| `ingest_idempotent` | 2 handlers, 1 delivery, 2 receipts | **violated**: one delivery received twice at the same time queues two reviews, against `src/README.md:67` |
| `inst_owner` | 1 installation, 1 repository, 2 users, 3 events, 3 served, 2 at a time | `ConnectedHonest`, `OwnerKept`, `RowsFollowIngest`; `SyncExact` over a row that an uninstall deletes and a late event makes again |
| `inst_sync` | 2 installations, 3 repositories that may move between them, pages of 1, 1 user, 3 events, 2 served | types; `SyncExact`: a synchronisation ends with the list it was given, except for repositories others wrote meanwhile; `NothingSkipped`: however the list changes between two pages, it deactivates no repository covered throughout, unless GitHub removed another one before it in the list; `PagesBounded`: the page loop asks for no page that cannot exist |
| `inst_replaced` | 2 users | **violated**: overlapping claims replace an owner, against the comment at `repository/repository.service.ts:233` |
| `jobs_atleastonce` | 1 job, 2 workers, 2 attempts, 1 stall, 1 fault, answers of every shape, fair | types; `PostsBounded`: GitHub is told of a row at most once, and of a job by one row more than it lost its lock at most; `MarkedLinesShown`, `AttemptsBounded`, `VerdictHonest`, `KeepsLifecycle`, `JobsSettle`; `AnswerStored`: an answer is stored whole, or its review fails because of a finding that cannot be stored; `CompletedShown`: what users are shown of jobs that were completed is a completed review |
| `jobs_retry` | 3 jobs, 1 worker, 2 retry requests, 1 fault, an answer with a finding or none at all, fair | the same life cycle under racing retries; `RetryQueued`: a review waiting for a retry has a job queued for it; `AttemptsResolve`: without a fault a started review is settled |
| `jobs_stuckretry` | 1 worker, 1 retry request, no fault, fair | **violated**: a retried review stays PENDING for ever, against `reviews/reviews.service.ts:199` |
| `llm_access` | 1 user, 2 calls at a time, limit 2, 4 counted per day, 2 days, 1 fault | types; `LimitKept`: at most the limit of calls a day, plus those counted only after the day had ended; `RefusedAtLimit`: nobody is refused for calls they did not make; `CountersExpire`: without a fault no counter stays without expiry; `OwnKeyUnmetered` |
| `chat_turns` | 2 users, 2 reviews, 3 turns | types; `WholeTurns`: stored conversations are questions with their answers; `Scoped`: of one user and review (`src/README.md:88`); `TurnKept`: only an overlapping turn makes an answered one vanish |
| `accounts` | 2 GitHub accounts, 2 spellings of one mailbox, 2 passwords, 2 tokens, 4 requests, 2 at a time, 3 changes of address | types with the unique columns; `TokenHonoured`: no request that began after a token was deleted passes with it, and an installation only for the user it was made for; `SessionsHonest`: a session's row stays that of the account or password proved; `RegisteredFound`: every spelling of a registered address leads to its row |
| `jobs_repost` | 1 job, 2 workers, 2 attempts, 1 stall, 1 fault | **violated**: one job posts to GitHub twice, against the comment at `src/prisma/schema.prisma:183` |

Bounds, and why they are enough to meet the interesting cases:

- *Ingest.* Two handlers already give every race between two handlings; three
  receipts of two deliveries give a repetition with another delivery in between,
  a late delivery and an overlap followed by a third handling. A fault is an uninstall,
  after which every uuid a handler holds is stale and the installation may come back, or the
  death of a handler; with one there are two receipts, which are enough for two handlings
  that lose their rows and for a repetition of what a dead handler had begun, with two there
  is one.
- *Installations.* Three served requests and events, two at a time, give a
  claim that is overtaken by a second and a third one, and a synchronisation
  between an event and a deletion. Three GitHub events give an installation, a
  change and an uninstall. Three repositories on pages of one are the smallest list in
  which a repository can be added, or removed behind one that is still to be listed or was
  listed, after the first page and before the last.
- *ReviewJobs.* Two attempts and one stall are three takes, by two workers, so a
  stale worker overlaps its successor; more attempts repeat the pattern (the code
  has 3). In `jobs_retry` the lost lock fails the job while its worker goes on.
  Three jobs are the first review and one job for each retry. The four answers are
  none, an empty one, one with an entry that is no object and one with a finding that
  cannot be stored; which findings fail or pass together makes no other difference.
- *LlmAccess.* Two calls at a time give every race of two commands on a counter;
  four counts go two beyond the limit; two days give a key chosen before midnight
  and counted after it. The users' counters do not interact, so one is enough.
- *Chat.* A conversation needs an answered turn before two others can overlap on
  it, so three turns; two users and two reviews give every wrong pair.
- *Accounts.* Two sign-ins and two uses of one token fill four requests: two users who meet
  with one token, a registration and a sign-in that race for one address and a login after
  both. Three changes of address let one account show the address, give it up, and another
  account take it while the first one's row still has it. Both spellings are of one
  mailbox, since different mailboxes do not interact.

Symmetry is used only over interchangeable handlers, processes, repositories,
calls, users and reviews, and only in runs without liveness properties.

Fairness. `ReviewJobs!FairSpec`: a busy worker and an accepted request take their
next step, for an awaited call answers or throws in the end; an idle worker polls the
queue; BullMQ's stalled check runs periodically, so a job without a living owner is put back.
Nothing obliges GitHub or users to act, and no fairness is assumed of faults. The other
modules state no fairness: what they promise is safety.

Exceptions. Some properties leave out the very event that the code does not survive, and
say what holds without it; the notes of the hazards in `PROJECT.json` say the same:

| Property | Leaves out | What the code does then |
|---|---|---|
| `DuplicateWasHandled` | the death of a handler after it saved `lastDeliveryId` | the redelivery is a duplicate, and the delivery is lost |
| `JobsOnlyIfOpen` | a suspension after the test | the review is queued |
| `NothingSkipped` | the removal of a repository before another one while the list is read | the other one is skipped and deactivated |
| `RetryQueued` | a queue that cannot be reached after the reset | the review waits without a job |
| `CountersExpire` | a lost `EXPIRE` | the counter stays |
| `OwnKeyUnmetered` | a change of the mode or configuration during the call | the call fails or is metered |
| `TokenHonoured` | requests that overlap with one token | they may all pass |

What the models showed besides the listed disagreements:

- Without its conditions `FilesReflectHead` fails: `replacePrFiles` is two statements,
  so of two handlings that overlap the older fetch may be stored last, or both remain. The
  comment at `pull-request/pull-request.service.ts:112` ("always reflects") holds for
  one handling at a time.
- A repository that GitHub removes while a synchronisation is between two pages moves the rest
  of the list forward: the next page starts one too late, and the synchronisation
  deactivates a repository that the installation still covers
  (`github/github.service.ts:172`, `repository/repository.service.ts:348`). No event
  brings it back; the next synchronisation does.
- One line number that is a fraction fails the whole review, for `createMany` refuses it after
  `parseReviewResponse` let it pass; every attempt asks, and bills, the model again.
- A GitHub account whose address another row holds cannot sign in: the upsert runs into the
  unique key, and the user is told no more than that it failed. The other row may be a
  registration, or that of a GitHub account that has given the address up since its last
  sign-in.
- GitHub's spelling of an address is stored as it is, and registration looks for the lower case:
  one mailbox can have a GitHub row and a registered one.
- State tokens are read and deleted in two commands, so requests that overlap may all pass
  with one; the comment at `auth/oauth-state.service.ts:23` says "deleted atomically". A
  completion of an installation that brings another user's token spends it.
- The status of a user with several installations counts the repositories of one of them and
  lists those of all (`github/github.controller.ts:330`); queries are not modelled.
- `lastDeliveryId` is written before the work (`pull-request.service.ts:72`): a
  process that dies in between makes the redelivery a duplicate, which is the exception
  in `DuplicateWasHandled`.
- An installation suspended after the test at `webhook.service.ts:110` still gets
  its review queued.
- Findings without a line number are marked as posted without being sent
  (`review-publisher.service.ts:54`); `MarkedLinesShown` is the part that holds.
- A counter whose `EXPIRE` is lost stays in Redis for ever; its key names the day, so
  nobody is refused for it later. A refused call still counts.
- A user who removes the OpenRouter configuration stays in mode BYOK, and their
  calls then fail; `updateMode` accepts any provider, while calls only use OpenRouter.
- A chat turn that the model refuses stores the conversation as it was loaded, so
  it may undo a turn that was answered meanwhile. `src/README.md:228` still describes
  conversations as kept in memory.
- A claim can be answered `connected` for a row that another user owns, or, if an
  uninstall and a late event hit between its read and its write, nobody does; that
  is what the exceptions in `ConnectedHonest` are.

## 4. Proofs

Every invariant and every action property that the passing runs check is proved for all
values of the constants, and so are both refinements. Further
theorems say what no run asks: that handlings, requests and jobs come to an end (the variants that
the liveness properties rest on), and what the refinements imply. A proof's
invariant `IInv` (`HInv` in the history modules) is the list of its named parts; each
action preserves each part, by a lemma per action or per kind of step, and the theorems
combine them with PTL.

| Module | Theorem | Property |
|---|---|---|
| `IngestProofs` | `TypeCorrect`, `SnapshotsOverlapped` | `TypeOK`, `MixedSnapshotsOverlapped` |
| `IngestProofs` | `HandlingsTerminate` | `HandlingsEnd`: one answer, after at most 11 steps |
| `IngestHistoryProofs` | `RepeatsExplained`, `JobsWhileOpen`, `DuplicatesHandled`, `FilesOfHead`, `FailuresShown` | `RepeatNeedsOther`, `JobsOnlyIfOpen`, `DuplicateWasHandled`, `FilesReflectHead`, `FailureShown` |
| `InstallationsProofs` | `TypeCorrect`, `SyncsExact`, `KeptNotDropped`, `PagesWithinRepos`, `ClaimsHonest`, `OwnersKept` | `TypeOK`, `SyncExact`, `NothingSkipped`, `PagesBounded`, `ConnectedHonest`, `OwnerKept` |
| `InstallationsProofs` | `RowsImplemented`, `RowsImplementedAlone` | `RowsFollowIngest` |
| `InstallationsProofs` | `RowsStay` | the row of a repository GitHub does not transfer keeps its installation |
| `InstallationsProofs` | `ServingTerminates` | `StepsBounded`, `ServingEnds`: at most 3n + 8 steps for n repositories |
| `ReviewJobsProofs` | `TypeCorrect`, `PostsOnce`, `MarksHonest`, `AnswersStored`, `TakesBounded`, `VerdictsHonest`, `RetriesQueued`, `ShowsCompleted` | `TypeOK`, `PostsBounded`, `MarkedLinesShown`, `AnswerStored`, `AttemptsBounded`, `VerdictHonest`, `RetryQueued`, `CompletedShown` |
| `ReviewJobsProofs` | `Refines` | `KeepsLifecycle` |
| `ReviewJobsProofs` | `CompletedStays` | `CompletedForGood`: what the refinement says of a COMPLETED row |
| `ReviewJobsProofs` | `JobsWindDown` | `TurnsBounded`, `WindsDown`: the variant of `JobsSettle` |
| `ReviewJobsProofs` | `PendingIsHeld` | `PendingHeld`: the invariant of `AttemptsResolve` |
| `LlmAccessProofs` | `TypeCorrect`, `QuotaKept`, `RefusalsEarned`, `CountersGo`, `OwnKeyHonoured` | `TypeOK`, `LimitKept`, `RefusedAtLimit`, `CountersExpire`, `OwnKeyUnmetered` |
| `ChatProofs` | `TypeCorrect`, `ChatScoped` | `TypeOK`, `Scoped` |
| `ChatHistoryProofs` | `TurnsWhole`, `AnswersKept` | `WholeTurns`, `TurnKept` |
| `AccountsProofs` | `TypeCorrect`, `TokensSpentOnce`, `SessionsTrue`, `RegisteredKept` | `TypeOK`, `TokenHonoured`, `SessionsHonest`, `RegisteredFound` |

The assumptions are those the modules state of their constants, which TLC evaluates in
every run: bounds are natural numbers, null values differ from what they stand next to,
`Lower` is idempotent, `Rank` orders the repositories. Where a proof counts, what it
counts is finite: the retry requests in flight (`ReviewJobs`), the calls (`LlmAccess`), the
requests (`Accounts`), the repositories (`Installations`). Only `RowsImplemented` and
`RowsStay` assume more, of GitHub: `NotTransferred`, that no other installation ever covers
the repository `r1` of `i1`. `Ingest` has one installation, and a repository that moves to
another one would leave it without an uninstall. With one installation the condition
always holds (`RowsImplementedAlone`), and with several it is met by every behaviour in which
accounts keep their repositories.

### Ingest

`MixedSnapshotsOverlapped` is not inductive: it says nothing of a handler that is
about to insert its files. The invariant `IInv` adds

- `RunsOK`: the handlings in progress have distinct numbers, none of them answered
  or past the last receipt; what a handling has seen ended has ended;
- `RowsOK`: the repository and pull request rows that exist are of the current
  incarnation, and the row a handler holds is of it only if the row still exists,
  so a row once gone is never held again;
- `FilesOK`: a stored snapshot has seen only handlings that have ended, and while
  a handler that holds the current row stands between its delete and its insert,
  every snapshot it would leave beside its own is of a handling it overlapped;
- finiteness of `deliveries`, from which the next delivery number is a natural number.

`HandlingsTerminate` counts what is left of a handling by its `pc` (`StepsLeft`): its own
steps lower it, the steps of GitHub, of the installation and of the other handlers do not touch
it, and by `RunsOK` the answer at its end is the first of its run.

`IngestHistoryProofs` adds an invariant about the past, inductive next to that one:

- `WritesOK`: the handler that is past `upsertPullRequest` has its write in the history, and
  nobody else has one under its number; `LastOK`: the row remembers the delivery of the
  last write to it;
- `RepeatOK`: when a handler is about to write, after the duplicate test, a write of the same
  delivery by a handling that had ended before has been *superseded*, by another delivery or by
  an uninstall. This is what the duplicate test establishes and other handlers cannot undo, and
  `RepeatNeedsOther` follows from it at the write;
- `EndsOK`: a handling that wrote a row ends in one of three ways, unless it died or the
  row went; `DuplicatesOK`: whoever was answered as a duplicate has a write to be one of;
- `OpenOK`: a handler has met the installation open, or still stands before a test that
  will refuse it;
- `HeadOK`: as long as the writers of a row have been orderly, its only holder, at each
  point between its fetch and its job, holds, has deleted or has stored the files of a
  head that no delivery of the history is ahead of; and if there is no holder, so does the row.

`FailureShown` is inductive next to these, of which it needs `WritesOK`: a handling that sets
its row to FAILED has its write in the history and has not ended, so no write is by a handling
that began after its end (`StatusStep`).

### Installations

`ProcOK` says where each process is.

- `ClaimOK`, for `ConnectedHonest` and `OwnerKept`: a claim knows whether the row was without
  an owner, also between reading the owner and writing it; past the owner test the row is
  the claimer's, or `open` or `rival` says why not.
- `PageOK`, for `NothingSkipped` and `PagesBounded`: as many entries have been counted as fit
  on the earlier pages, and these were full; a repository that was there from the first
  page on has been listed already, or its position is past the earlier pages. That positions
  number the repositories without gaps is a lemma (`Places`), proved with the bijections of the library.
- `SyncOK`, for `SyncExact`: what was listed, has been written and was not written by others
  is active; once the rows have been read, every other active row is to be dropped.

`RowsImplemented` needs one fact more, `UninstallsOK`: every uninstall, done or about
to be, was served, so `Ingest`'s bound on its uninstalls is never in the way. Then each write of
the `Installation` row is one of `UpsertInstallation`, `Claim`, `Suspend` and `Unsuspend`, the
cascade is `Uninstall`, the insert of `r1` is `AddRepository`, and every other step stutters.
With several installations (`StaysOK`) no event and no process of another one ever names `r1`:
GitHub did not list it there, and what processes hand on to themselves they got from it.

`ServingTerminates` bounds the page loop, which in the code has no bound of its own. A process
that lists has at most a page per repository behind it (`PageOK`), and three statements at
most are left for each repository: to list, to add and to drop it.

### ReviewJobs

- `QueueOK` counts: the takes of a waiting job are its failures and stalls, and a job
  that is not settled has some left of each. That bounds them (`TakesBounded`), and since
  retries in flight are counted against `MaxJobs` from the beginning, a new job always has a number.
- `WorkersOK` (`Busy`, `Stage`): two workers are never at the same take, a worker that owns its
  lock is at the last one, and its place determines the status of its row, its findings and
  what GitHub has.
- `RowsOK`: what is true of a row whoever works on it: findings only once COMPLETED, a
  publication only with findings, at most one.
- `LeftOK`, `RetriesOK`: a FAILED row, and one that a retry is at, has no worker but one
  that is about to throw. So a late worker cannot settle a row a retry has reset.
- `WaitsOK`: a reset row has its job, its request or a fault, for `RetryQueued`.
- `VerdictsOK`: the rows of a job that never stalled are created in the order of its takes and
  only the last can have findings, for `VerdictHonest` and `CompletedShown`.

`PostsOnce` needs `LiveOK` besides `IInv`. The takes of a job that have findings, or
may still store some, are counted: each lost lock accounts for one of them, and the take that
holds the lock, or completed the job, for one more. An attempt that throws has stored nothing, so
it leaves the count when it leaves the job; therefore failures, however many are allowed,
never add a post, and a job that is retried for a lost answer of GitHub would break the count.

`Refines` maps a row to its status, findings and whether GitHub was told. Its rows change
one at a time (`Lives`), except in an uninstall, which is `ReviewLifecycle`'s own.
`CompletedStays` reads it back: of the steps of `ReviewLifecycle` none changes what is COMPLETED,
except its deletion.

`JobsWindDown` is the variant of `JobsSettle`: `Turns` is twice the takes a job has left, plus
one while it is taken; every change of the job lowers it, and it is zero exactly when the job
is settled. `Rank` does the same for an attempt. `PendingIsHeld` adds that, short of a fault, a
PENDING review which no user has reset has a worker in the part of the attempt that settles
it. What is left of `JobsSettle` and `AttemptsResolve` is that enabled steps are taken.

### LlmAccess

The counter of a day is not the number of calls let through: calls may be counted and not
yet tested, answers and keys may be lost. `MetersOK` relates them. The calls let through and
those that hold a count within the limit are, but for late ones, no more than the
counter while its day lasts, and no more than the limit ever after, for the counter outlives
its day. `Covers` is the converse, for `RefusedAtLimit`: a count is no higher than what was
let through, is held or was lost, unless that reaches the limit. `OwnedOK` and `ExpiringOK` are
`OwnKeyUnmetered` and `CountersExpire` for a call that is still under way.

### Chat

`Scoped` is inductive together with the types: a message belongs to a user through its turn,
so its turn has begun, and turns that have begun never change their user or
review. `StepScoped` says this once for every step of a turn.

`ChatHistoryProofs` adds what a turn carries: whole answered turns, and then at most its
own question and answer (`HistoryOK`, `MessagesOK`). For `TurnKept` (`KeptOK`), whoever may
still overwrite the conversation of an answered turn has its answer, or had loaded the
conversation before it was stored, or one such turn has ended.

### Accounts

`RowsOK` is the core: a row has a GitHub id and no password, or a password, no GitHub id and an
address in lower case, and no statement turns one into the other. With the unique columns in
`TypeOK`, the sessions and the registered addresses follow; `SessionsOK` covers the sessions
given out and those due to a request that stands before `session` (`Promised`). `ProcsOK` says what a request
has proved where it is, and which token it carries: one that it found after the token was
deleted never passes. `RoomOK` counts rows against the requests that may still make one.

### Model-checked only

- `JobsSettle`, `AttemptsResolve` and the liveness property of `jobs_stuckretry`: temporal
  properties under fairness are out of the prover's reach. Their variants and invariants are
  proved (`JobsWindDown`, `PendingIsHeld`).
- The violated runs: TLC's counterexamples are the result.

## 5. Plan

Done, in this order: `Ingest` with its proofs, `ReviewLifecycle` and
`ReviewJobs`, `Installations`, `LlmAccess`, `Chat` with its proofs, the page loop in
`Installations`, parsing in `ReviewJobs`, `Accounts`, then the proofs of the other
modules and the two refinements, then the variants behind the liveness properties and the
refinement for several installations. What is left:

1. `RowsImplemented` for a repository that moves between installations, which needs an
   `Ingest` whose repository may be transferred.
2. `Ingest` and `ReviewJobs` composed over the queue: a job of one is a `Submit` of the other.
3. Variants like `JobsWindDown` for the calls of `LlmAccess` and the turns of `Chat`.

## 6. Not modelled

- Text: prompts, comment bodies, diffs, logging, response formats. No property is
  about them.
- Cryptography: HMAC signatures, JWTs, bcrypt, AES-GCM are libraries without shared
  state.
- Queries (lists, counts, the installation's status): they change nothing. The one whose
  choice of a row matters, the review shown for a pull request, is in `ReviewJobs`.
- A pull request's files beyond the first page GitHub gives (`github/github.service.ts:206`):
  the contents of a snapshot is abstracted.
- The connections of the Redis and Prisma wrappers, migrations, Docker files and scripts.
- The Prisma client under `src/src/generated`: generated code, about three quarters of the lines of
  the repository's implementation. The models' tables are translated from
  `src/prisma/schema.prisma`, from which it is generated. Of the hand-written lines, about a
  third is mapped; the rest is mostly imports, DTOs, response shapes, logging and prompts.
- A database statement is atomic and either takes effect or throws; a commit whose
  acknowledgement is lost is left out for the database, but not for GitHub
  (`Post`).
