------------------------------- MODULE Ingest -------------------------------
(***************************************************************************)
(* The pull_request half of WebhookService: what one GitHub delivery does  *)
(* to the database and to the review queue, from its receipt to its answer.*)
(*                                                                         *)
(* Node runs many handlers at once and yields at every await, so a handler *)
(* is a little program whose steps are the database statements and the     *)
(* GitHub calls it awaits; the steps of different handlers interleave.     *)
(*                                                                         *)
(* A row's uuid is modelled by the incarnation of the installation it was  *)
(* created under: rows are deleted only by the cascade of an uninstall,    *)
(* which starts a new incarnation, so a handler that still holds an old    *)
(* uuid is one that holds an old incarnation.                              *)
(*                                                                         *)
(* The variable answers, the variable writes and the fields run, seen and  *)
(* open of a handler record history for the properties; no step reads them.*)
(***************************************************************************)
EXTENDS Naturals, Sequences, FiniteSets

CONSTANTS PRs,            \* pull requests of one repository
          Handlers,       \* webhook requests the server can be serving at once
          Users,          \* PR Sentinel users who may claim the installation
          None,           \* an absent row, and a null column
          MaxDeliveries,  \* bound: deliveries GitHub creates
          MaxReceipts,    \* bound: times it hands one to the server, and faults
          MaxFaults       \* bound: uninstalls and handlings that die part-way

Triggers == {"opened", "synchronize", "reopened"}   \* PR_TRIGGER_ACTIONS

Runs == 1..MaxReceipts
Incarnations == 1..(MaxFaults + 1)
Ids == 1..MaxDeliveries

Deliveries == [id : Ids, pr : PRs, action : Triggers \cup {"closed"}, head : Nat]
PullRows == [row : Incarnations, last : Ids, status : {"RECEIVED", "FAILED"}]
FileRows == [run : Runs, seen : SUBSET Runs, head : Nat]
JobRows == [run : Runs, pr : PRs, row : Incarnations, delivery : Ids,
            user : Users, open : BOOLEAN]
Answers == [run : Runs, pr : PRs, delivery : Ids,
            result : {"ignored", "suspended", "noRepository", "duplicate",
                      "filesFailed", "unlinked", "queued", "error"}]
Writes == [run : Runs, seen : SUBSET Runs, pr : PRs, row : Incarnations,
           delivery : Ids, head : Nat]

AfterWrite == {"fetch", "deleteFiles", "createFiles", "markFailed", "readLink", "enqueue"}
Pcs == {"idle", "guard", "findRepo", "findInst", "saveRepo", "readPr", "writePr"}
         \cup AfterWrite
Locals == [pc : Pcs, run : 0..MaxReceipts, seen : SUBSET Runs, open : BOOLEAN,
           d : Deliveries \cup {None}, repo : {0} \cup Incarnations, known : BOOLEAN,
           row : {0} \cup Incarnations, head : Nat, user : Users \cup {None}]

ASSUME IngestAssumption ==
    /\ None \notin Users \cup PullRows
    /\ MaxDeliveries \in Nat /\ MaxReceipts \in Nat
    /\ MaxFaults \in Nat

VARIABLES
    gh,          \* gh[p]: the pull request as GitHub has it
    deliveries,  \* every delivery GitHub has created; it may send each again
    received,    \* number of receipts so far
    epoch,       \* the current incarnation of the installation
    inst,        \* the Installation row
    repo,        \* the Repository row: the incarnation it was created in
    pull,        \* pull[p]: the PullRequest row
    files,       \* files[p]: the snapshots whose PrFile rows are stored
    jobs,        \* the jobs ever added to the BullMQ queue 'review'
    hs,          \* hs[h]: the local state of a handler
    aborts,      \* number of handlings that died
    answers,     \* history: how each handling ended
    writes       \* history: the PullRequest writes, in commit order

github == <<gh, deliveries>>
rows   == <<epoch, inst, repo, pull, files>>
vars   == <<github, received, rows, jobs, hs, aborts, answers, writes>>

Idle == [pc |-> "idle", run |-> 0, seen |-> {}, open |-> FALSE, d |-> None,
         repo |-> 0, known |-> FALSE, row |-> 0, head |-> 0, user |-> None]

Done == {a.run : a \in answers}
Suspended == inst # None /\ inst.suspended
UserOf == IF inst = None THEN None ELSE inst.user

\* bound: every fault stands for a receipt (epoch - 1 is the uninstalls)
Room == received + aborts + epoch <= MaxReceipts

\* a pull request may be older than the installation, or not be opened yet
Init ==
    /\ gh \in [PRs -> [open : BOOLEAN, head : {0, 1}] \ {[open |-> TRUE, head |-> 0]}]
    /\ deliveries = {}
    /\ received = 0
    /\ epoch = 1
    /\ inst = None
    /\ repo = 0
    /\ pull = [p \in PRs |-> None]
    /\ files = [p \in PRs |-> {}]
    /\ jobs = {}
    /\ hs = [h \in Handlers |-> Idle]
    /\ aborts = 0
    /\ answers = {}
    /\ writes = <<>>

-----------------------------------------------------------------------------
(* GitHub: a pull request is opened, pushed to, closed and reopened; each   *)
(* event creates one delivery.  Deliveries travel unordered, may be sent    *)
(* again (redelivery) and may never arrive.                                 *)

Deliver(p, action, new) ==
    /\ Cardinality(deliveries) < MaxDeliveries
    /\ gh' = [gh EXCEPT ![p] = new]
    /\ deliveries' = deliveries \cup
         {[id |-> Cardinality(deliveries) + 1, pr |-> p, action |-> action,
           head |-> new.head]}
    /\ UNCHANGED <<received, rows, jobs, hs, aborts, answers, writes>>

GithubOpen(p) ==
    gh[p].head = 0 /\ Deliver(p, "opened", [open |-> TRUE, head |-> 1])

GithubPush(p) ==
    gh[p].open /\ Deliver(p, "synchronize", [gh[p] EXCEPT !.head = @ + 1])

GithubClose(p) == gh[p].open /\ Deliver(p, "closed", [gh[p] EXCEPT !.open = FALSE])

GithubReopen(p) ==
    /\ gh[p].head > 0 /\ ~gh[p].open
    /\ Deliver(p, "reopened", [gh[p] EXCEPT !.open = TRUE])

-----------------------------------------------------------------------------
(* The installation's rows, which other handlers write.  Each action is one *)
(* SQL statement of theirs, so it covers any interleaving with them.        *)

Opened(b) == IF b THEN hs
             ELSE [h \in Handlers |-> IF hs[h].pc = "idle" THEN hs[h]
                                      ELSE [hs[h] EXCEPT !.open = TRUE]]

SaveInstallation(new) ==
    /\ inst' = new
    /\ hs' = Opened(new # None /\ new.suspended)
    /\ UNCHANGED <<github, received, epoch, repo, pull, files, jobs, aborts,
                   answers, writes>>

\* 'created' and the other actions that upsert: suspended is reset, userId is kept
UpsertInstallation == SaveInstallation([user |-> UserOf, suspended |-> FALSE])

\* a user connects: userId is written or kept, as an earlier read of it decided
Claim(u) ==
    \E user \in {u, UserOf} : SaveInstallation([user |-> user, suspended |-> FALSE])

\* without a row, a suspended placeholder is created
Suspend == SaveInstallation([user |-> UserOf, suspended |-> TRUE])

Unsuspend ==
    inst # None /\ SaveInstallation([user |-> UserOf, suspended |-> FALSE])

\* a repository seeded, added or synchronised under the installation
AddRepository ==
    /\ inst # None
    /\ repo = 0
    /\ repo' = epoch
    /\ UNCHANGED <<github, received, epoch, inst, pull, files, jobs, hs, aborts,
                   answers, writes>>

\* 'deleted': the cascade takes the repository, the pull requests, the files
Uninstall ==
    /\ inst # None
    /\ Room /\ aborts + epoch <= MaxFaults
    /\ epoch' = epoch + 1
    /\ inst' = None
    /\ repo' = 0
    /\ pull' = [p \in PRs |-> None]
    /\ files' = [p \in PRs |-> {}]
    /\ hs' = Opened(FALSE)
    /\ UNCHANGED <<github, received, jobs, aborts, answers, writes>>

Installation ==
    UpsertInstallation \/ Suspend \/ Unsuspend \/ AddRepository \/ Uninstall
    \/ \E u \in Users : Claim(u)

-----------------------------------------------------------------------------
(* One handler.  At(h, pc) is where it is; Go and Answer are how it goes on.*)

At(h, pc) == hs[h].pc = pc

PrOf(h) == hs[h].d.pr

Go(h, new) == hs' = [hs EXCEPT ![h] = new] /\ UNCHANGED answers

Step(h, pc) == Go(h, [hs[h] EXCEPT !.pc = pc])

Answer(h, result) ==
    /\ hs' = [hs EXCEPT ![h] = Idle]
    /\ answers' = answers \cup {[run |-> hs[h].run, pr |-> PrOf(h),
                                 delivery |-> hs[h].d.id, result |-> result]}

\* handlePullRequestEvent: actions that do not trigger a review, and payloads
\* without an installation, are answered at once; "closed" stands for both
Receive(h, d) ==
    /\ At(h, "idle")
    /\ Room
    /\ received' = received + 1
    /\ \/ /\ d.action \in Triggers
          /\ Go(h, [Idle EXCEPT !.pc = "guard", !.run = received + 1, !.seen = Done,
                                !.open = ~Suspended, !.d = d])
       \/ /\ d.action \notin Triggers
          /\ answers' = answers \cup {[run |-> received + 1, pr |-> d.pr,
                                       delivery |-> d.id, result |-> "ignored"]}
          /\ UNCHANGED hs
    /\ UNCHANGED <<github, rows, jobs, aborts, writes>>

\* refuse a suspended installation; without a row it is not suspended
RefusedBug == FALSE
Refused == Suspended

CheckSuspended(h) ==
    /\ At(h, "guard")
    /\ IF Refused THEN Answer(h, "suspended") ELSE Step(h, "findRepo")
    /\ UNCHANGED <<github, received, rows, jobs, aborts, writes>>

\* findOrUpsertRepository, its fast path
FindRepository(h) ==
    /\ At(h, "findRepo")
    /\ IF repo # 0 THEN Go(h, [hs[h] EXCEPT !.pc = "readPr", !.repo = repo])
                   ELSE Step(h, "findInst")
    /\ UNCHANGED <<github, received, rows, jobs, aborts, writes>>

FindInstallation(h) ==
    /\ At(h, "findInst")
    /\ IF inst = None THEN Answer(h, "noRepository")
                      ELSE Go(h, [hs[h] EXCEPT !.pc = "saveRepo", !.repo = epoch])
    /\ UNCHANGED <<github, received, rows, jobs, aborts, writes>>

\* upsertRepository; the foreign key fails when the installation found is gone
SaveRepository(h) ==
    /\ At(h, "saveRepo")
    /\ \/ /\ inst # None /\ hs[h].repo = epoch
          /\ repo' = epoch
          /\ Step(h, "readPr")
       \/ /\ inst = None \/ hs[h].repo # epoch
          /\ Answer(h, "error")
          /\ UNCHANGED repo
    /\ UNCHANGED <<github, received, epoch, inst, pull, files, jobs, aborts, writes>>

\* upsertPullRequest: findUnique and the duplicate test
DuplicateBug(h) == FALSE
KnownBug(h) == pull[PrOf(h)] # None
Duplicate(h) == pull[PrOf(h)] # None /\ pull[PrOf(h)].last = hs[h].d.id

ReadPullRequest(h) ==
    /\ At(h, "readPr")
    /\ IF Duplicate(h)
         THEN Answer(h, "duplicate")
         ELSE Go(h, [hs[h] EXCEPT !.pc = "writePr",
                                  !.known = (pull[PrOf(h)] # None)])
    /\ UNCHANGED <<github, received, rows, jobs, aborts, writes>>

\* upsertPullRequest: 'opened' and unknown pull requests are upserted, which
\* needs the repository row; the others are updated, which needs their own row
Saved(h) ==
    IF hs[h].d.action = "opened" \/ ~hs[h].known
    THEN repo # 0 /\ repo = hs[h].repo
    ELSE pull[PrOf(h)] # None

\* the written row: an existing one keeps its uuid
KeptStatusBug(h) ==
    IF pull[PrOf(h)] # None
    THEN [pull[PrOf(h)] EXCEPT !.last = hs[h].d.id]
    ELSE [row |-> hs[h].repo, last |-> hs[h].d.id, status |-> "RECEIVED"]
RowBug(h) == [row |-> IF pull[PrOf(h)] = None THEN hs[h].repo ELSE pull[PrOf(h)].row,
              last |-> hs[h].d.id]
Row(h) == [row |-> IF pull[PrOf(h)] = None THEN hs[h].repo ELSE pull[PrOf(h)].row,
           last |-> hs[h].d.id, status |-> "RECEIVED"]

WritePullRequest(h) ==
    LET p == PrOf(h)
        id == Row(h).row
    IN
    /\ At(h, "writePr")
    /\ \/ /\ Saved(h)
          /\ pull' = [pull EXCEPT ![p] = Row(h)]
          /\ writes' = Append(writes,
                [run |-> hs[h].run, seen |-> hs[h].seen, pr |-> p, row |-> id,
                 delivery |-> hs[h].d.id, head |-> hs[h].d.head])
          /\ Go(h, [hs[h] EXCEPT !.pc = "fetch", !.row = id])
       \/ /\ ~Saved(h)
          /\ Answer(h, "error")
          /\ UNCHANGED <<pull, writes>>
    /\ UNCHANGED <<github, received, epoch, inst, repo, files, jobs, aborts>>

\* getInstallationToken and getPullRequestFiles: what GitHub has now
FetchedBug(h) == hs[h].d.head
Fetched(h) == gh[PrOf(h)].head

FetchFiles(h) ==
    /\ At(h, "fetch")
    /\ Go(h, [hs[h] EXCEPT !.pc = "deleteFiles", !.head = Fetched(h)])
    /\ UNCHANGED <<github, received, rows, jobs, aborts, writes>>

\* the row the handler holds the uuid of
Held(h) == pull[PrOf(h)] # None /\ pull[PrOf(h)].row = hs[h].row

\* replacePrFiles: deleteMany, then createMany, in no transaction
RemainingBug(h) == files[PrOf(h)]
Remaining(h) == IF Held(h) THEN {} ELSE files[PrOf(h)]

DeleteFiles(h) ==
    /\ At(h, "deleteFiles")
    /\ files' = [files EXCEPT ![PrOf(h)] = Remaining(h)]
    /\ Step(h, "createFiles")
    /\ UNCHANGED <<github, received, epoch, inst, repo, pull, jobs, aborts, writes>>

\* a snapshot without any file needs no row; for the others, see FilesFail
Created(h) ==
    IF Held(h) THEN {[run |-> hs[h].run, seen |-> hs[h].seen, head |-> hs[h].head]} ELSE {}

CreateFiles(h) ==
    /\ At(h, "createFiles")
    /\ files' = [files EXCEPT ![PrOf(h)] = @ \cup Created(h)]
    /\ Step(h, "readLink")
    /\ UNCHANGED <<github, received, epoch, inst, repo, pull, jobs, aborts, writes>>

\* anything thrown inside the try: GitHub, the database, the foreign key
InTry == {"fetch", "deleteFiles", "createFiles"}

FilesFail(h) ==
    /\ hs[h].pc \in InTry
    /\ Step(h, "markFailed")
    /\ UNCHANGED <<github, received, rows, jobs, aborts, writes>>

\* markFailed throws when the row is gone
MarkFailed(h) ==
    /\ At(h, "markFailed")
    /\ pull' = IF Held(h) THEN [pull EXCEPT ![PrOf(h)].status = "FAILED"] ELSE pull
    /\ Answer(h, IF Held(h) THEN "filesFailed" ELSE "error")
    /\ UNCHANGED <<github, received, epoch, inst, repo, files, jobs, aborts, writes>>

\* the installation is read again, for the user the review is billed to
ReadLink(h) ==
    /\ At(h, "readLink")
    /\ IF UserOf = None
         THEN Answer(h, "unlinked")
         ELSE Go(h, [hs[h] EXCEPT !.pc = "enqueue", !.user = UserOf])
    /\ UNCHANGED <<github, received, rows, jobs, aborts, writes>>

Enqueue(h) ==
    /\ At(h, "enqueue")
    /\ jobs' = jobs \cup {[run |-> hs[h].run, pr |-> PrOf(h), row |-> hs[h].row,
                           delivery |-> hs[h].d.id, user |-> hs[h].user,
                           open |-> hs[h].open]}
    /\ Answer(h, "queued")
    /\ UNCHANGED <<github, received, rows, aborts, writes>>

\* the process dies, or a database or Redis call outside the try throws
Abort(h) ==
    /\ ~At(h, "idle")
    /\ Room /\ aborts + epoch <= MaxFaults
    /\ aborts' = aborts + 1
    /\ Answer(h, "error")
    /\ UNCHANGED <<github, received, rows, jobs, writes>>

Handle(h) ==
    \/ CheckSuspended(h) \/ FindRepository(h) \/ FindInstallation(h)
    \/ SaveRepository(h) \/ ReadPullRequest(h) \/ WritePullRequest(h)
    \/ FetchFiles(h) \/ DeleteFiles(h) \/ CreateFiles(h) \/ FilesFail(h)
    \/ MarkFailed(h) \/ ReadLink(h) \/ Enqueue(h)

Github == \E p \in PRs : GithubOpen(p) \/ GithubPush(p) \/ GithubClose(p) \/ GithubReopen(p)

Next ==
    \/ Github
    \/ Installation
    \/ \E h \in Handlers : \/ \E d \in deliveries : Receive(h, d)
                           \/ Handle(h)
                           \/ Abort(h)

Spec == Init /\ [][Next]_vars

-----------------------------------------------------------------------------
(* What is checked.                                                         *)

Complete(h) ==
    /\ ~At(h, "idle") => hs[h].run \in Runs /\ hs[h].d \in Deliveries
    /\ hs[h].pc \in AfterWrite => hs[h].row \in Incarnations
    /\ At(h, "enqueue") => hs[h].user \in Users

\* Every variable stays in its type, and a busy handler has a delivery, then a
\* row, then a user: what it writes to the tables and to the queue is complete.
TypeOK ==
    /\ gh \in [PRs -> [open : BOOLEAN, head : Nat]]
    /\ deliveries \in SUBSET Deliveries
    /\ received \in 0..MaxReceipts
    /\ epoch \in Incarnations
    /\ inst \in [user : Users \cup {None}, suspended : BOOLEAN] \cup {None}
    /\ repo \in {0} \cup Incarnations
    /\ pull \in [PRs -> PullRows \cup {None}]
    /\ files \in [PRs -> SUBSET FileRows]
    /\ jobs \in SUBSET JobRows
    /\ hs \in [Handlers -> Locals]
    /\ \A h \in Handlers : Complete(h)
    /\ aborts \in 0..MaxFaults
    /\ answers \in SUBSET Answers
    /\ writes \in Seq(Writes)

\* replacePrFiles deletes and inserts in two statements.  Whatever handlers do
\* between the two, a table holding the files of two snapshots was written by
\* handlings that overlapped: one that began after another had ended never
\* leaves the other's files beside its own.
MixedSnapshotsOverlapped ==
    \A p \in PRs : \A f, g \in files[p] : f # g => f.run \notin g.seen

\* upsertPullRequest remembers only the last delivery.  A delivery handled to
\* its end is processed once more only if another delivery of the same row was
\* processed in between.
RepeatNeedsOther ==
    \A i, j \in DOMAIN writes :
        /\ writes[i].pr = writes[j].pr
        /\ writes[i].row = writes[j].row
        /\ writes[i].delivery = writes[j].delivery
        /\ writes[i].run \in writes[j].seen
        => \E k \in (i + 1)..(j - 1) :
              /\ writes[k].pr = writes[j].pr
              /\ writes[k].row = writes[j].row
              /\ writes[k].delivery # writes[j].delivery

\* The suspended test is made once, early.  A review is queued only if the
\* installation was not suspended at some moment of the handling.
JobsOnlyIfOpen == \A j \in jobs : j.open

\* "so the table always reflects what GitHub reports for the current head
\* commit": once a delivery sent at the current head has been processed, the
\* row has not failed and no handler is busy with it, the PrFile rows are
\* those of the current head, as long as the handlings that wrote the row did
\* not overlap and none of them died.
Written(p) == {i \in DOMAIN writes : writes[i].pr = p /\ writes[i].row = pull[p].row}
Orderly(p) ==
    /\ \A i, j \in Written(p) : i < j => writes[i].run \in writes[j].seen
    /\ \A i \in Written(p), a \in answers : a.run = writes[i].run => a.result # "error"

FilesReflectHead ==
    \A p \in PRs :
        /\ pull[p] # None
        /\ pull[p].status = "RECEIVED"
        /\ \A h \in Handlers : At(h, "idle") \/ PrOf(h) # p
        /\ \E i \in Written(p) : writes[i].head = gh[p].head
        /\ Orderly(p)
        => {f.head : f \in files[p]} = {gh[p].head}

\* The delivery id is stored before the files and the job.  A delivery that is
\* answered as a duplicate was taken by another handling, which has queued its
\* review, is still running, failed and says so in the row, or found no owner;
\* it is lost without a trace only if that handling died or the installation
\* went.
DuplicateWasHandled ==
    \A a \in answers : a.result = "duplicate" =>
        \E i \in DOMAIN writes :
            /\ writes[i].pr = a.pr /\ writes[i].delivery = a.delivery
            /\ \A b \in answers : b.run = writes[i].run =>
                   \/ b.result \in {"queued", "filesFailed", "unlinked"}
                   \/ aborts > 0 \/ epoch > 1

\* Handlings of one pull request reset the status and set it to FAILED in
\* statements that interleave.  A row is FAILED only by a handling whose files
\* failed and that no handling begun after it has written over; a failure is
\* written over only by a handling that saved the row after the failed one had.
MarkedFailed(i) == \E a \in answers : a.run = writes[i].run /\ a.result = "filesFailed"

FailureShown ==
    \A p \in PRs : pull[p] # None =>
        IF pull[p].status = "FAILED"
        THEN \E i \in Written(p) :
                MarkedFailed(i) /\ \A j \in Written(p) : writes[i].run \notin writes[j].seen
        ELSE \A i \in Written(p) : MarkedFailed(i) => \E j \in Written(p) : j > i

\* "Uses GitHub delivery IDs to make repeated deliveries idempotent": one
\* delivery queues at most one review of a row.
RepeatedDeliveryIdempotent ==
    \A j, k \in jobs :
        j.row = k.row /\ j.pr = k.pr /\ j.delivery = k.delivery => j = k
=============================================================================
