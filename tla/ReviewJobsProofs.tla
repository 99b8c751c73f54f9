-------------------------- MODULE ReviewJobsProofs --------------------------
EXTENDS ReviewJobs, FiniteSetTheorems, TLAPS

(* The inductive invariant. *)

\* The queue: a job that is waiting or active has attempts left, and the number
\* of its takes is that of its failures and stalls, plus the take under way.
QueueOK ==
    /\ added + Promised <= MaxJobs
    /\ \A j \in Jobs :
          /\ j > added => jobs[j] = NoJob
          /\ j <= added => jobs[j].state # "none" /\ jobs[j].pr \in PRs
          /\ jobs[j].takes <= MaxAttempts + MaxStalled
          /\ jobs[j].state \in {"waiting", "active"} =>
                jobs[j].fails < MaxAttempts /\ jobs[j].stalls <= MaxStalled
          /\ jobs[j].state = "waiting" => jobs[j].takes = jobs[j].fails + jobs[j].stalls
          /\ jobs[j].state = "active" => jobs[j].takes = jobs[j].fails + jobs[j].stalls + 1

\* A busy worker is the only one at its take.  It holds the lock for the last
\* take of its job or for none, and for that one unless the job has stalled.
Busy(w) ==
    /\ Job(w) <= added
    /\ R(w)[2] <= jobs[Job(w)].takes
    /\ Owns(w) => R(w)[2] = jobs[Job(w)].takes
    /\ jobs[Job(w)].stalls = 0 => Owns(w)
    /\ \A v \in Workers \ {w} : ~At(v, "idle") => R(v) # R(w)

\* What is true of a row, whoever works on it.
Row(r) ==
    LET row == review[r] IN
    /\ row.status = "none" => row = NoReview /\ github[r] = NoPost
    /\ row.status # "none" => row.pr = jobs[r[1]].pr /\ row.pr \in PRs
                              /\ r[2] <= jobs[r[1]].takes
    /\ row.status \in {"PENDING", "FAILED"} => row.comments = None
    /\ row.status = "COMPLETED" => row.comments # None
    /\ row.status = "deleted" => row.pr \notin pulls
    /\ row.comments = None => github[r] = NoPost
    /\ github[r].posts <= 1
    /\ row.posted \cap Lines \subseteq github[r].shown
    /\ row.createdAt < Now
    /\ row.answer # None =>
          /\ row.status = "COMPLETED" => row.comments = row.answer
          /\ row.status = "FAILED" /\ faults = 0 => ~(row.answer \subseteq Storable)

\* Where a worker stands says what its row looks like.
Stage(w) ==
    LET row == review[R(w)] IN
    /\ workers[w].pc \in {"load", "create"} => row.status = "none"
    /\ workers[w].pc \in {"diff", "llm", "save", "saveFailed"} =>
          row.status \in {"PENDING", "deleted"} /\ row.comments = None
    /\ workers[w].pc \in {"diff", "llm"} => row.answer = None
    /\ At(w, "save") /\ row.status = "PENDING" => row.answer = workers[w].found
    /\ At(w, "saveFailed") /\ row.status = "PENDING" /\ faults = 0 =>
          row.answer = None \/ ~(row.answer \subseteq Storable)
    /\ workers[w].pc \in {"publish", "post", "mark", "done"} =>
          row.status \in {"COMPLETED", "deleted"} /\ row.comments = workers[w].found
    /\ workers[w].pc \in {"publish", "post"} => github[R(w)] = NoPost
    /\ At(w, "mark") => github[R(w)].shown = workers[w].found \cap Lines
    /\ At(w, "throw") => row.comments = None

\* The worker at the row is on its way out.
Left(r) == \A w \in Workers : ~At(w, "idle") /\ R(w) = r => At(w, "throw")

\* A retry works on a row that its worker has left, and that is not COMPLETED.
Retried(q) ==
    /\ review[requests[q].r].status \in {"FAILED", "PENDING", "deleted"}
    /\ Left(requests[q].r)

\* The findings of a job that has never stalled are those of its last take, and
\* its rows were created in the order of the takes.
Unstalled(j) ==
    \A t \in Takes :
        /\ review[<<j, t>>].comments # None =>
              t = jobs[j].takes /\ jobs[j].state \in {"active", "completed"}
        /\ \A s \in Takes : s < t /\ Exists(<<j, s>>) /\ Exists(<<j, t>>) =>
              review[<<j, s>>].createdAt < review[<<j, t>>].createdAt

Verdict(j) ==
    /\ jobs[j].state = "completed" =>
          /\ jobs[j].takes \in Takes
          /\ review[<<j, jobs[j].takes>>].status \in {"COMPLETED", "deleted"}
    /\ jobs[j].stalls = 0 => Unstalled(j)

Waits(r) ==
    review[r].status = "PENDING" /\ review[r].retried =>
        \/ \E j \in 1..added : jobs[j].for = r
        \/ \E q \in Requests : requests[q] = [pc |-> "enqueue", r |-> r]
        \/ faults > 0

RowsOK == \A r \in Reviews : Row(r)
WorkersOK == \A w \in Workers : ~At(w, "idle") => Busy(w) /\ Stage(w)
LeftOK == \A r \in Reviews : review[r].status = "FAILED" => Left(r)
RetriesOK == \A q \in Requests : requests[q].pc # "idle" => Retried(q)
WaitsOK == \A r \in Reviews : Waits(r)
VerdictsOK == \A j \in Jobs : Verdict(j)

IInv ==
    /\ TypeOK
    /\ QueueOK
    /\ WorkersOK
    /\ RowsOK
    /\ LeftOK
    /\ RetriesOK
    /\ WaitsOK
    /\ VerdictsOK

-----------------------------------------------------------------------------
(* Counting.                                                                *)

Open == {q \in Requests : requests[q].pc # "idle"}
Made == {r \in Reviews : review[r].status # "none"}

LEMMA OpenFinite == IsFiniteSet(Open) /\ Promised \in Nat
<1>1. IsFiniteSet(Open)
  BY JobsAssumption, FS_Subset DEF Open
<1> QED
  BY <1>1, FS_CardinalityType DEF Promised, Open

LEMMA ReviewsFinite == IsFiniteSet(Reviews)
<1>0. MaxJobs \in Int /\ MaxAttempts + MaxStalled \in Int
  BY JobsAssumption
<1>1. IsFiniteSet(Jobs) /\ IsFiniteSet(Takes)
  BY <1>0, FS_Interval DEF Jobs, Takes
<1> QED
  BY <1>1, FS_Product DEF Reviews

LEMMA MadeFinite == IsFiniteSet(Made) /\ Now \in Nat /\ Now = Cardinality(Made) + 1
<1>1. IsFiniteSet(Made)
  BY ReviewsFinite, FS_Subset DEF Made
<1> QED
  BY <1>1, FS_CardinalityType DEF Now, Made

\* what speaks of the rows, the jobs and the workers stays true with them
LEMMA SameRest ==
    ASSUME UNCHANGED <<pulls, jobs, added, review, github, workers, faults>>,
           RowsOK, LeftOK, WorkersOK, VerdictsOK
    PROVE  RowsOK' /\ LeftOK' /\ WorkersOK' /\ VerdictsOK'
<1>1. RowsOK'
  BY DEF RowsOK, Row, Now
<1>2. LeftOK'
  BY DEF LeftOK, Left, R, At
<1>3. VerdictsOK'
  BY DEF VerdictsOK, Verdict, Unstalled, Exists
<1>4. WorkersOK'
  <2>1. \A w \in Workers : Busy(w) => Busy(w)'
    BY DEF Busy, Owns, Job, R, At
  <2>2. \A w \in Workers : Stage(w) => Stage(w)'
    BY DEF Stage, R, At
  <2> QED BY <2>1, <2>2 DEF WorkersOK, At
<1> QED
  BY <1>1, <1>2, <1>3, <1>4

LEMMA SameQueue ==
    ASSUME UNCHANGED <<jobs, added>>, Promised' = Promised, QueueOK
    PROVE  QueueOK'
BY DEF QueueOK

\* a request begins, ends, or goes on
LEMMA PromisedStep ==
    ASSUME TypeOK, NEW q \in Requests, NEW new, requests' = [requests EXCEPT ![q] = new]
    PROVE  /\ requests[q].pc = "idle" /\ new.pc # "idle" => Promised' = Promised + 1
           /\ requests[q].pc # "idle" /\ new.pc = "idle" => Promised' = Promised - 1
           /\ (requests[q].pc = "idle" <=> new.pc = "idle") => Promised' = Promised
<1>0. Promised = Cardinality(Open) /\ Promised' = Cardinality(Open')
  BY DEF Promised, Open
<1>1. \A o \in Requests : requests'[o] = IF o = q THEN new ELSE requests[o]
  BY DEF TypeOK
<1>2. CASE requests[q].pc = "idle" /\ new.pc # "idle"
  <2>1. Open' = Open \cup {q} /\ q \notin Open
    BY <1>1, <1>2 DEF Open
  <2> QED BY <1>0, <1>2, <2>1, OpenFinite, FS_AddElement
<1>3. CASE requests[q].pc # "idle" /\ new.pc = "idle"
  <2>1. Open' = Open \ {q} /\ q \in Open
    BY <1>1, <1>3 DEF Open
  <2> QED BY <1>0, <1>3, <2>1, OpenFinite, FS_RemoveElement
<1>4. CASE requests[q].pc = "idle" <=> new.pc = "idle"
  <2>1. Open' = Open
    BY <1>1, <1>4 DEF Open
  <2> QED BY <1>0, <1>4, <2>1
<1> QED BY <1>2, <1>3, <1>4

\* a row begins, or no row does
LEMMA NowStep ==
    ASSUME NEW r \in Reviews
    PROVE  /\ (\A s \in Reviews : review'[s].status = "none" <=> review[s].status = "none")
              => Now' = Now
           /\ /\ review[r].status = "none" /\ review'[r].status # "none"
              /\ \A s \in Reviews \ {r} :
                    review'[s].status = "none" <=> review[s].status = "none"
              => Now' = Now + 1
<1>0. Now = Cardinality(Made) + 1 /\ Now' = Cardinality(Made') + 1
  BY DEF Now, Made
<1>1. ASSUME \A s \in Reviews : review'[s].status = "none" <=> review[s].status = "none"
      PROVE  Now' = Now
  <2>1. Made' = Made
    BY <1>1 DEF Made
  <2> QED BY <1>0, <2>1
<1>2. ASSUME review[r].status = "none", review'[r].status # "none",
             \A s \in Reviews \ {r} : review'[s].status = "none" <=> review[s].status = "none"
      PROVE  Now' = Now + 1
  <2>1. Made' = Made \cup {r} /\ r \notin Made
    BY <1>2 DEF Made
  <2> QED BY <1>0, <2>1, MadeFinite, FS_AddElement
<1> QED BY <1>1, <1>2

-----------------------------------------------------------------------------
(* A worker goes on with its row.                                           *)

LEMMA BusyType ==
    ASSUME TypeOK, NEW w \in Workers, ~At(w, "idle")
    PROVE  /\ R(w) \in Reviews /\ Job(w) \in Jobs /\ R(w)[2] \in Takes
           /\ R(w) = <<Job(w), R(w)[2]>> /\ PrOf(w) \in PRs
           /\ workers[w].pc \in WorkerPcs /\ workers[w].found \in SUBSET Findings
           /\ review[R(w)] \in ReviewRows /\ github[R(w)] \in Posts
<1>1. R(w) \in Reviews /\ PrOf(w) \in PRs
  BY DEF TypeOK
<1>2. Job(w) \in Jobs /\ R(w)[2] \in Takes /\ R(w) = <<Job(w), R(w)[2]>>
  BY <1>1 DEF Reviews, Job
<1> QED
  BY <1>1, <1>2 DEF TypeOK

\* w goes on as new, its row becomes row, and GitHub has post of it
Moves(w, new, row, post) ==
    /\ workers' = [workers EXCEPT ![w] = new]
    /\ review' = [review EXCEPT ![R(w)] = row]
    /\ github' = [github EXCEPT ![R(w)] = post]
    /\ UNCHANGED <<pulls, jobs, added, requests>>
    /\ faults' \in 0..MaxFaults /\ faults' >= faults
    /\ Now' \in Nat /\ Now' >= Now
    /\ row.status = "FAILED" => new.pc = "throw"
    /\ review[R(w)].status \in {"COMPLETED", "deleted"}
          => row.status \in {"COMPLETED", "deleted"}
    /\ row.status = "PENDING" /\ row.retried
          => review[R(w)].status = "PENDING" /\ review[R(w)].retried
    /\ row.status \notin {"none", "deleted"}
          => \/ Exists(R(w)) /\ row.createdAt = review[R(w)].createdAt
             \/ row.createdAt = Now

LEMMA Progress ==
    ASSUME IInv, NEW w \in Workers, workers[w].pc \notin {"idle", "throw"},
           NEW new \in [pc : WorkerPcs \ {"idle"}, r : {R(w)}, found : SUBSET Findings],
           NEW row \in ReviewRows, NEW post \in Posts,
           Moves(w, new, row, post), \A r \in {R(w)} : Row(r)', Stage(w)'
    PROVE  IInv'
<1> USE DEF IInv, Moves
<1>1. /\ R(w) \in Reviews /\ Job(w) \in Jobs /\ R(w)[2] \in Takes
      /\ R(w) = <<Job(w), R(w)[2]>> /\ PrOf(w) \in PRs /\ ~At(w, "idle")
  BY BusyType DEF At
<1>2. /\ workers'[w] = new /\ R(w)' = R(w) /\ ~At(w, "idle")'
      /\ \A v \in Workers \ {w} : workers'[v] = workers[v]
      /\ review'[R(w)] = row /\ github'[R(w)] = post
      /\ \A r \in Reviews \ {R(w)} : review'[r] = review[r] /\ github'[r] = github[r]
      /\ \A v \in Workers : R(v)' = R(v) /\ (At(v, "idle")' <=> At(v, "idle"))
  BY <1>1 DEF TypeOK, R, At
<1>3. \A v \in Workers \ {w} : ~At(v, "idle") => R(v) # R(w)
  BY <1>1 DEF WorkersOK, Busy
<1>4. \A q \in Requests : requests[q].pc # "idle" => requests[q].r # R(w)
  BY <1>1 DEF RetriesOK, Retried, Left, At
<1>5. review[R(w)].status # "FAILED"
  BY <1>1 DEF LeftOK, Left, At
<1>6. TypeOK'
  <2>1. \A v \in Workers : ~At(v, "idle")' => R(v)' \in Reviews /\ PrOf(v)' \in PRs
    BY <1>2 DEF TypeOK, PrOf, Job
  <2>2. \A q \in Requests : requests'[q].pc # "idle" =>
           requests'[q].r \in Reviews /\ review'[requests'[q].r].pr \in PRs
    BY <1>2, <1>4 DEF TypeOK
  <2>3. workers' \in [Workers -> [pc : WorkerPcs, r : Reviews \cup {None}, found : SUBSET Findings]]
    BY <1>1 DEF TypeOK
  <2>4. review' \in [Reviews -> ReviewRows] /\ github' \in [Reviews -> Posts]
    BY <1>1 DEF TypeOK
  <2> QED BY <2>1, <2>2, <2>3, <2>4 DEF TypeOK
<1>7. QueueOK'
  BY DEF QueueOK, Promised
<1>8. WorkersOK'
  <2>1. ASSUME NEW v \in Workers, ~At(v, "idle") PROVE Busy(v)'
    BY <1>2, <2>1 DEF WorkersOK, Busy, Owns, Job
  <2>2. ASSUME NEW v \in Workers \ {w}, ~At(v, "idle") PROVE Stage(v)'
    <3>1. R(v) \in Reviews \ {R(w)} /\ Stage(v) /\ faults \in Nat
      BY <1>3, <2>2, BusyType DEF WorkersOK, TypeOK
    <3>2. review'[R(v)'] = review[R(v)] /\ github'[R(v)'] = github[R(v)] /\ workers'[v] = workers[v]
      BY <3>1, <1>2
    <3> QED BY <3>1, <3>2 DEF Stage, At
  <2> QED BY <1>2, <2>1, <2>2 DEF WorkersOK
<1>9. RowsOK'
  <2>1. ASSUME NEW r \in Reviews \ {R(w)} PROVE Row(r)'
    <3>1. Row(r) /\ review'[r] = review[r] /\ github'[r] = github[r] /\ review[r].createdAt \in Nat
      BY <1>2 DEF RowsOK, TypeOK, ReviewRows
    <3>2. Now \in Nat /\ faults \in Nat
      BY MadeFinite DEF TypeOK
    <3> QED BY <3>1, <3>2 DEF Row
  <2> QED BY <2>1 DEF RowsOK
<1>10. LeftOK'
  <2>1. ASSUME NEW r \in Reviews \ {R(w)}, Left(r) PROVE Left(r)'
    BY <1>2, <2>1 DEF Left, At
  <2>2. row.status = "FAILED" => Left(R(w))'
    BY <1>2, <1>3 DEF Left, At
  <2> QED BY <1>1, <1>2, <2>1, <2>2 DEF LeftOK
<1>11. RetriesOK'
  <2>1. ASSUME NEW q \in Requests, requests[q].pc # "idle" PROVE Retried(q)'
    <3>1. requests[q].r \in Reviews \ {R(w)} /\ Retried(q)
      BY <1>4, <2>1 DEF TypeOK, RetriesOK
    <3> QED BY <1>2, <3>1 DEF Retried, Left, At
  <2> QED BY <2>1 DEF RetriesOK
<1>12. WaitsOK'
  BY <1>1, <1>2 DEF WaitsOK, Waits, TypeOK
<1>13. VerdictsOK'
  <2>1. ASSUME NEW j \in Jobs, jobs[j].state = "completed"
        PROVE  /\ jobs[j].takes \in Takes
               /\ review'[<<j, jobs[j].takes>>].status \in {"COMPLETED", "deleted"}
    BY <1>2, <2>1 DEF VerdictsOK, Verdict, Reviews
  <2>2. ASSUME NEW j \in Jobs, jobs[j].stalls = 0 PROVE Unstalled(j)'
    <3>0. Unstalled(j)
      BY <2>2 DEF VerdictsOK, Verdict
    <3>1. CASE j # Job(w)
      <4>1. \A t \in Takes : <<j, t>> \in Reviews \ {R(w)}
        BY <1>1, <3>1 DEF Reviews
      <4> QED BY <1>2, <3>0, <4>1 DEF Unstalled, Exists
    <3>2. CASE j = Job(w)
      <4>1. R(w)[2] = jobs[j].takes /\ jobs[j].state = "active"
        BY <1>1, <2>2, <3>2 DEF WorkersOK, Busy, Owns
      <4>2. \A t \in Takes : t # jobs[j].takes => <<j, t>> \in Reviews \ {R(w)}
        BY <1>1, <3>2, <4>1 DEF Reviews
      <4>3. R(w) = <<j, jobs[j].takes>> /\ jobs[j].takes \in Takes
        BY <1>1, <3>2, <4>1
      <4>4. \A t \in Takes : review'[<<j, t>>].comments # None => t = jobs[j].takes
        BY <1>2, <3>0, <4>2 DEF Unstalled
      <4>5. ASSUME NEW s \in Takes, NEW t \in Takes, s < t, Exists(<<j, s>>)', Exists(<<j, t>>)'
            PROVE  review'[<<j, s>>].createdAt < review'[<<j, t>>].createdAt
        <5>0. <<j, s>> \in Reviews /\ <<j, t>> \in Reviews
          BY <4>5 DEF Reviews
        <5>1. s # jobs[j].takes
          <6> SUFFICES ASSUME s = jobs[j].takes PROVE FALSE
            OBVIOUS
          <6>1. t # jobs[j].takes /\ t > jobs[j].takes
            BY <4>5 DEF Takes
          <6>2. review'[<<j, t>>] = review[<<j, t>>] /\ Row(<<j, t>>)
            BY <1>2, <4>2, <5>0, <6>1 DEF RowsOK
          <6>3. review[<<j, t>>].status # "none"
            BY <4>5, <6>2 DEF Exists
          <6>4. t <= jobs[j].takes /\ jobs[j].takes \in Nat
            BY <6>2, <6>3 DEF Row, TypeOK, JobRows
          <6> QED BY <6>1, <6>4 DEF Takes
        <5>2. review'[<<j, s>>] = review[<<j, s>>] /\ Exists(<<j, s>>) /\ Row(<<j, s>>)
          BY <1>2, <4>2, <4>5, <5>0, <5>1 DEF Exists, RowsOK
        <5>3. CASE t # jobs[j].takes
          <6>1. review'[<<j, t>>] = review[<<j, t>>] /\ Exists(<<j, t>>)
            BY <1>2, <4>2, <4>5, <5>3 DEF Exists
          <6> QED BY <3>0, <4>5, <5>2, <6>1 DEF Unstalled
        <5>4. CASE t = jobs[j].takes
          <6>1. review'[<<j, t>>] = row
            BY <1>2, <4>3, <5>4
          <6>2. CASE Exists(R(w)) /\ row.createdAt = review[R(w)].createdAt
            BY <3>0, <4>3, <4>5, <5>2, <5>4, <6>1, <6>2 DEF Unstalled
          <6>3. CASE row.createdAt = Now
            BY <5>2, <6>1, <6>3 DEF Row
          <6> QED BY <4>5, <6>1, <6>2, <6>3 DEF Exists
        <5> QED BY <5>3, <5>4
      <4> QED BY <4>1, <4>4, <4>5 DEF Unstalled
    <3> QED BY <3>1, <3>2
  <2> QED BY <2>1, <2>2 DEF VerdictsOK, Verdict
<1> QED
  BY <1>6, <1>7, <1>8, <1>9, <1>10, <1>11, <1>12, <1>13

\* steps that write neither the row nor GitHub
LEMMA GotoStep ==
    ASSUME IInv, NEW w \in Workers, workers[w].pc \notin {"idle", "throw"},
           NEW pc \in WorkerPcs \ {"idle"}, Goto(w, pc),
           UNCHANGED <<pulls, jobs, added, review, github, requests>>,
           faults' \in 0..MaxFaults, faults' >= faults, Stage(w)'
    PROVE  IInv'
<1>0. TypeOK /\ WorkersOK /\ RowsOK /\ LeftOK
  BY DEF IInv
<1> USE <1>0
<1> DEFINE new == [workers[w] EXCEPT !.pc = pc]
<1>1. R(w) \in Reviews /\ review[R(w)] \in ReviewRows /\ github[R(w)] \in Posts
      /\ workers[w].found \in SUBSET Findings /\ ~At(w, "idle")
  BY BusyType DEF At
<1>2. new \in [pc : WorkerPcs \ {"idle"}, r : {R(w)}, found : SUBSET Findings]
  BY <1>1 DEF TypeOK, R
<1>3. /\ workers' = [workers EXCEPT ![w] = new]
      /\ review' = [review EXCEPT ![R(w)] = review[R(w)]]
      /\ github' = [github EXCEPT ![R(w)] = github[R(w)]]
  BY <1>1 DEF Goto, TypeOK
<1>4. Now' = Now /\ Now \in Nat
  BY <1>1, NowStep, MadeFinite
<1>5. \A r \in {R(w)} : Row(r)'
  BY <1>1, <1>4 DEF RowsOK, Row, TypeOK
<1>6. review[R(w)].status # "FAILED"
  BY <1>1 DEF LeftOK, Left, At
<1>7. Moves(w, new, review[R(w)], github[R(w)])
  <2> HIDE DEF new
  <2>1. Now' \in Nat /\ Now' >= Now
    BY <1>4
  <2> QED BY <1>3, <1>6, <2>1, Zenon DEF Moves, Exists
<1> HIDE DEF new
<1> QED
  BY <1>1, <1>2, <1>5, <1>7, Progress

\* steps that write the row
\* w goes on as new and its row, which existed, becomes row
Rewrites(w, new, row) ==
    /\ workers' = [workers EXCEPT ![w] = new]
    /\ review' = [review EXCEPT ![R(w)] = row]
    /\ UNCHANGED <<pulls, jobs, added, github, requests, faults>>
    /\ row.status # "none" /\ review[R(w)].status # "none"
    /\ row.createdAt = review[R(w)].createdAt /\ row.retried = review[R(w)].retried
    /\ row.status = "FAILED" => new.pc = "throw"
    /\ review[R(w)].status \in {"COMPLETED", "deleted"}
          => row.status \in {"COMPLETED", "deleted"}
    /\ row.status = "PENDING" => review[R(w)].status = "PENDING"
    /\ row.status # "deleted" => review[R(w)].status # "deleted"

LEMMA WriteStep ==
    ASSUME IInv, NEW w \in Workers, workers[w].pc \notin {"idle", "throw"},
           NEW new \in [pc : WorkerPcs \ {"idle"}, r : {R(w)}, found : SUBSET Findings],
           NEW row \in ReviewRows, Rewrites(w, new, row), Stage(w)',
           Row(R(w)) /\ Now' = Now => \A r \in {R(w)} : Row(r)'
    PROVE  IInv'
<1>0. TypeOK /\ WorkersOK /\ RowsOK /\ LeftOK
  BY DEF IInv
<1> USE <1>0
<1>1. R(w) \in Reviews /\ github[R(w)] \in Posts
  BY BusyType DEF At
<1>2. github' = [github EXCEPT ![R(w)] = github[R(w)]]
  BY <1>1 DEF TypeOK, Rewrites
<1>3. Now' = Now /\ Now \in Nat
  <2>1. \A s \in Reviews : review'[s].status = "none" <=> review[s].status = "none"
    BY <1>1 DEF TypeOK, Rewrites
  <2> QED BY <1>1, <2>1, NowStep, MadeFinite
<1>4. \A r \in {R(w)} : Row(r)'
  BY <1>1, <1>3 DEF RowsOK
<1>5. Moves(w, new, row, github[R(w)])
  <2>1. /\ Now' \in Nat /\ Now' >= Now
        /\ faults' \in 0..MaxFaults /\ faults' >= faults
    BY <1>3 DEF TypeOK, Rewrites
  <2> QED BY <1>2, <2>1, Zenon DEF Moves, Rewrites, Exists
<1> QED
  BY <1>1, <1>4, <1>5, Progress

LEMMA LoadPullStep == ASSUME IInv, NEW w \in Workers, LoadPull(w) PROVE IInv'
<1>0. TypeOK /\ WorkersOK /\ RowsOK /\ LeftOK
  BY DEF IInv
<1> USE <1>0
<1>1. PICK pc \in {"create", "throw"} : Goto(w, pc)
  BY DEF LoadPull
<1>2. review[R(w)] = NoReview
  BY BusyType DEF LoadPull, WorkersOK, Stage, RowsOK, Row, At
<1>3. Stage(w)'
  BY <1>1, <1>2 DEF LoadPull, Stage, Goto, TypeOK, At, R, NoReview
<1> QED
  BY <1>1, <1>3, GotoStep DEF LoadPull, At, WorkerPcs, TypeOK

LEMMA FetchDiffStep == ASSUME IInv, NEW w \in Workers, FetchDiff(w) PROVE IInv'
<1>0. TypeOK /\ WorkersOK /\ RowsOK /\ LeftOK
  BY DEF IInv
<1> USE <1>0
<1>1. PICK pc \in {"llm", "saveFailed"} : Goto(w, pc)
  BY DEF FetchDiff
<1>2. Stage(w)'
  BY <1>1 DEF FetchDiff, WorkersOK, Stage, Goto, TypeOK, At, R
<1> QED
  BY <1>1, <1>2, GotoStep DEF FetchDiff, At, WorkerPcs, TypeOK

LEMMA LoadReviewStep == ASSUME IInv, NEW w \in Workers, LoadReview(w) PROVE IInv'
<1>0. TypeOK /\ WorkersOK /\ RowsOK /\ LeftOK
  BY DEF IInv
<1> USE <1>0
<1>1. PICK pc \in {"post", "done"} : Goto(w, pc)
  BY DEF LoadReview
<1>2. Stage(w)'
  BY <1>1 DEF LoadReview, WorkersOK, Stage, Goto, TypeOK, At, R
<1> QED
  BY <1>1, <1>2, GotoStep DEF LoadReview, At, WorkerPcs, TypeOK

LEMMA DatabaseErrorStep == ASSUME IInv, NEW w \in Workers, DatabaseError(w) PROVE IInv'
<1>0. TypeOK /\ WorkersOK /\ RowsOK /\ LeftOK
  BY DEF IInv
<1> USE <1>0
<1>1. faults' \in 0..MaxFaults /\ faults' >= faults /\ faults' # 0
  BY JobsAssumption DEF DatabaseError, TypeOK
<1>2. PICK pc \in {"throw", "saveFailed", "done"} : Goto(w, pc)
  BY DEF DatabaseError
<1>3. workers[w].pc \notin {"idle", "throw"}
  BY DEF DatabaseError, At
<1>4. workers[w].pc \in {"load", "create"} => review[R(w)] = NoReview
  BY BusyType DEF WorkersOK, Stage, RowsOK, Row, At
<1>5. Stage(w)'
  BY <1>1, <1>4 DEF DatabaseError, WorkersOK, Stage, Goto, TypeOK, At, R, NoReview
<1> QED
  BY <1>1, <1>2, <1>3, <1>5, GotoStep DEF DatabaseError, WorkerPcs

LEMMA CallLlmStep == ASSUME IInv, NEW w \in Workers, CallLlm(w) PROVE IInv'
<1>0. TypeOK /\ WorkersOK /\ RowsOK /\ LeftOK
  BY DEF IInv
<1> USE <1>0
<1>1. CASE Goto(w, "saveFailed") /\ UNCHANGED review
  <2>1. Stage(w)'
    BY <1>1 DEF CallLlm, WorkersOK, Stage, Goto, TypeOK, At, R
  <2> QED
    BY <1>1, <2>1, GotoStep DEF CallLlm, At, WorkerPcs, TypeOK
<1>2. ASSUME NEW answer \in Answers, ~Rejected(answer),
             workers' = [workers EXCEPT ![w].pc = "save", ![w].found = Parsed(answer)],
             review' = [review EXCEPT ![R(w)].answer = answer \cap Findings]
      PROVE  IInv'
  <2> DEFINE found == answer \cap Findings
             new == [workers[w] EXCEPT !.pc = "save", !.found = found]
             row == [review[R(w)] EXCEPT !.answer = found]
  <2>1. found \in SUBSET Findings
    OBVIOUS
  <2> HIDE DEF found
  <2>2. R(w) \in Reviews /\ review[R(w)] \in ReviewRows /\ At(w, "llm")
    BY BusyType DEF CallLlm, At
  <2>3. review[R(w)].status \in {"PENDING", "deleted"} /\ review[R(w)].comments = None
    BY <2>2 DEF WorkersOK, Stage, At
  <2>4. new \in [pc : WorkerPcs \ {"idle"}, r : {R(w)}, found : SUBSET Findings]
        /\ new.pc = "save" /\ new.found = found /\ new.r = R(w)
    BY <2>1 DEF TypeOK, R, WorkerPcs
  <2>5. row \in ReviewRows /\ row.answer = found
        /\ \A f \in {"status", "pr", "comments", "posted", "retried", "createdAt"} :
              row[f] = review[R(w)][f]
    BY <2>1, <2>2 DEF ReviewRows
  <2>6. workers' = [workers EXCEPT ![w] = new] /\ review' = [review EXCEPT ![R(w)] = row]
    BY <1>2 DEF Parsed, found, TypeOK
  <2>7. workers'[w] = new /\ review'[R(w)] = row /\ R(w)' = R(w)
    BY <2>2, <2>4, <2>6 DEF TypeOK, R
  <2> HIDE DEF new, row
  <2>8. Stage(w)'
    BY <2>3, <2>4, <2>5, <2>7 DEF Stage, At
  <2>9. Row(R(w)) /\ Now' = Now => \A r \in {R(w)} : Row(r)'
    BY <2>3, <2>5, <2>7 DEF Row, CallLlm
  <2>10. Rewrites(w, new, row)
    BY <2>3, <2>4, <2>5, <2>6 DEF Rewrites, CallLlm
  <2> QED
    BY <2>2, <2>4, <2>5, <2>8, <2>9, <2>10, WriteStep DEF At
<1> QED
  BY <1>1, <1>2 DEF CallLlm

LEMMA CreateReviewStep == ASSUME IInv, NEW w \in Workers, CreateReview(w) PROVE IInv'
<1>0. TypeOK /\ WorkersOK /\ RowsOK /\ LeftOK
  BY DEF IInv
<1> USE <1>0
<1>1. /\ R(w) \in Reviews /\ PrOf(w) \in PRs /\ At(w, "create") /\ ~At(w, "idle")
      /\ review[R(w)] = NoReview /\ github[R(w)] = NoPost /\ NoReview \in ReviewRows
      /\ R(w)[2] <= jobs[R(w)[1]].takes /\ PrOf(w) = jobs[R(w)[1]].pr
  BY BusyType DEF CreateReview, WorkersOK, Stage, Busy, RowsOK, Row, At, PrOf, Job, TypeOK
<1>2. CASE Goto(w, "throw") /\ UNCHANGED review
  <2>1. Stage(w)'
    <3>1. workers'[w].pc = "throw" /\ R(w)' = R(w)
      BY <1>2 DEF Goto, TypeOK, R
    <3> QED BY <1>1, <1>2, <3>1 DEF Stage, At, NoReview
  <2> QED
    BY <1>1, <1>2, <2>1, GotoStep DEF CreateReview, At, WorkerPcs, TypeOK
<1>3. CASE /\ PrOf(w) \in pulls
           /\ review' = [review EXCEPT ![R(w)].status = "PENDING", ![R(w)].pr = PrOf(w),
                                       ![R(w)].createdAt = Now]
           /\ Goto(w, "diff")
  <2> DEFINE new == [workers[w] EXCEPT !.pc = "diff"]
             row == [NoReview EXCEPT !.status = "PENDING", !.pr = PrOf(w), !.createdAt = Now]
  <2>1. new \in [pc : WorkerPcs \ {"idle"}, r : {R(w)}, found : SUBSET Findings]
        /\ new.pc = "diff"
    BY DEF TypeOK, R, WorkerPcs
  <2>2. /\ row \in ReviewRows /\ row.status = "PENDING" /\ row.pr = PrOf(w)
        /\ row.comments = None /\ row.posted = {} /\ ~row.retried /\ row.answer = None
        /\ row.createdAt = Now
    BY <1>1, MadeFinite DEF ReviewRows, NoReview
  <2>3. workers' = [workers EXCEPT ![w] = new] /\ review' = [review EXCEPT ![R(w)] = row]
    BY <1>1, <1>3 DEF Goto, TypeOK
  <2> HIDE DEF new, row
  <2>4. workers'[w] = new /\ review'[R(w)] = row /\ R(w)' = R(w)
        /\ \A s \in Reviews \ {R(w)} : review'[s] = review[s]
    BY <1>1, <2>1, <2>3 DEF TypeOK, R
  <2>5. Now' = Now + 1 /\ Now \in Nat
    BY <1>1, <2>2, <2>4, NowStep, MadeFinite DEF NoReview
  <2>6. Stage(w)'
    BY <2>1, <2>2, <2>4 DEF Stage, At
  <2>7. github' = github /\ UNCHANGED <<pulls, jobs, added, requests, faults>>
    BY DEF CreateReview
  <2>8. \A r \in {R(w)} : Row(r)'
    BY <1>1, <2>2, <2>4, <2>5, <2>7 DEF Row, NoPost
  <2>9. Moves(w, new, row, github[R(w)])
    <3>1. /\ Now' \in Nat /\ Now' >= Now
          /\ faults' \in 0..MaxFaults /\ faults' >= faults
      BY <2>5, <2>7 DEF TypeOK
    <3>2. github' = [github EXCEPT ![R(w)] = github[R(w)]]
      BY <1>1, <2>7 DEF TypeOK
    <3>3. review[R(w)].status = "none"
      BY <1>1 DEF NoReview
    <3> QED BY <2>2, <2>3, <2>7, <3>1, <3>2, <3>3 DEF Moves
  <2> QED
    BY <1>1, <2>1, <2>2, <2>6, <2>8, <2>9, BusyType, Progress DEF At
<1> QED
  BY <1>2, <1>3 DEF CreateReview

LEMMA SaveCompletedStep == ASSUME IInv, NEW w \in Workers, SaveCompleted(w) PROVE IInv'
<1>0. TypeOK /\ WorkersOK /\ RowsOK /\ LeftOK
  BY DEF IInv
<1> USE <1>0
<1>1. /\ R(w) \in Reviews /\ review[R(w)] \in ReviewRows /\ At(w, "save") /\ ~At(w, "idle")
      /\ workers[w].found \in SUBSET Findings
      /\ review[R(w)].status \in {"PENDING", "deleted"} /\ review[R(w)].comments = None
      /\ review[R(w)].status = "PENDING" => review[R(w)].answer = workers[w].found
      /\ workers[w].found # None
  BY BusyType, JobsAssumption DEF SaveCompleted, WorkersOK, Stage, At
<1>2. CASE (~Exists(R(w)) \/ ~(workers[w].found \subseteq Storable))
           /\ Goto(w, "saveFailed") /\ UNCHANGED review
  <2>1. Stage(w)'
    BY <1>1, <1>2 DEF SaveCompleted, Stage, Goto, TypeOK, At, R, Exists
  <2> QED
    BY <1>1, <1>2, <2>1, GotoStep DEF SaveCompleted, At, WorkerPcs, TypeOK
<1>3. CASE /\ Exists(R(w))
           /\ review' = [review EXCEPT ![R(w)].status = "COMPLETED",
                                       ![R(w)].comments = workers[w].found]
           /\ Goto(w, "publish")
  <2> DEFINE new == [workers[w] EXCEPT !.pc = "publish"]
             row == [review[R(w)] EXCEPT !.status = "COMPLETED", !.comments = workers[w].found]
  <2>1. new \in [pc : WorkerPcs \ {"idle"}, r : {R(w)}, found : SUBSET Findings]
        /\ new.pc = "publish" /\ new.found = workers[w].found
    BY DEF TypeOK, R, WorkerPcs
  <2>2. /\ row \in ReviewRows /\ row.status = "COMPLETED" /\ row.comments = workers[w].found
        /\ row.pr = review[R(w)].pr /\ row.posted = review[R(w)].posted
        /\ row.retried = review[R(w)].retried /\ row.answer = review[R(w)].answer
        /\ row.createdAt = review[R(w)].createdAt
    BY <1>1 DEF ReviewRows
  <2>3. workers' = [workers EXCEPT ![w] = new] /\ review' = [review EXCEPT ![R(w)] = row]
    BY <1>1, <1>3 DEF Goto, TypeOK
  <2> HIDE DEF new, row
  <2>4. workers'[w] = new /\ review'[R(w)] = row /\ R(w)' = R(w)
    BY <1>1, <2>1, <2>3 DEF TypeOK, R
  <2>5. review[R(w)].status = "PENDING" /\ github[R(w)] = NoPost
    BY <1>1, <1>3 DEF Exists, RowsOK, Row
  <2>6. github' = github /\ UNCHANGED <<pulls, jobs, added, requests, faults>>
    BY DEF SaveCompleted
  <2>7. Stage(w)'
    BY <2>1, <2>2, <2>4, <2>5, <2>6 DEF Stage, At
  <2>8. Row(R(w)) /\ Now' = Now => \A r \in {R(w)} : Row(r)'
    BY <1>1, <2>2, <2>4, <2>5, <2>6 DEF Row
  <2>9. Rewrites(w, new, row)
    BY <2>1, <2>2, <2>3, <2>5, <2>6 DEF Rewrites
  <2> QED
    BY <1>1, <2>1, <2>2, <2>7, <2>8, <2>9, WriteStep DEF At
<1> QED
  BY <1>2, <1>3 DEF SaveCompleted

LEMMA SaveFailedStep == ASSUME IInv, NEW w \in Workers, SaveFailed(w) PROVE IInv'
<1>0. TypeOK /\ WorkersOK /\ RowsOK /\ LeftOK
  BY DEF IInv
<1> USE <1>0
<1>1. /\ R(w) \in Reviews /\ review[R(w)] \in ReviewRows /\ At(w, "saveFailed") /\ ~At(w, "idle")
      /\ review[R(w)].status \in {"PENDING", "deleted"} /\ review[R(w)].comments = None
      /\ review[R(w)].status = "PENDING" /\ faults = 0 =>
            review[R(w)].answer = None \/ ~(review[R(w)].answer \subseteq Storable)
  BY BusyType DEF SaveFailed, WorkersOK, Stage, At
<1>2. Goto(w, "throw")
  BY DEF SaveFailed, Caught
<1>3. CASE ~Exists(R(w))
  <2>1. Stage(w)' /\ UNCHANGED review
    BY <1>1, <1>2, <1>3 DEF SaveFailed, Stage, Goto, TypeOK, At, R
  <2> QED
    BY <1>1, <1>2, <2>1, GotoStep DEF SaveFailed, At, WorkerPcs, TypeOK
<1>4. CASE Exists(R(w))
  <2> DEFINE new == [workers[w] EXCEPT !.pc = "throw"]
             row == [review[R(w)] EXCEPT !.status = "FAILED"]
  <2>1. new \in [pc : WorkerPcs \ {"idle"}, r : {R(w)}, found : SUBSET Findings]
        /\ new.pc = "throw"
    BY DEF TypeOK, R, WorkerPcs
  <2>2. /\ row \in ReviewRows /\ row.status = "FAILED" /\ row.comments = review[R(w)].comments
        /\ row.pr = review[R(w)].pr /\ row.posted = review[R(w)].posted
        /\ row.retried = review[R(w)].retried /\ row.answer = review[R(w)].answer
        /\ row.createdAt = review[R(w)].createdAt
    BY <1>1 DEF ReviewRows
  <2>3. workers' = [workers EXCEPT ![w] = new] /\ review' = [review EXCEPT ![R(w)] = row]
    BY <1>1, <1>2, <1>4 DEF SaveFailed, Caught, Goto, TypeOK
  <2> HIDE DEF new, row
  <2>4. workers'[w] = new /\ review'[R(w)] = row /\ R(w)' = R(w)
    BY <1>1, <2>1, <2>3 DEF TypeOK, R
  <2>5. review[R(w)].status = "PENDING"
    BY <1>1, <1>4 DEF Exists
  <2>6. github' = github /\ UNCHANGED <<pulls, jobs, added, requests, faults>>
    BY DEF SaveFailed
  <2>7. Stage(w)'
    BY <1>1, <2>1, <2>2, <2>4 DEF Stage, At
  <2>8. Row(R(w)) /\ Now' = Now => \A r \in {R(w)} : Row(r)'
    BY <1>1, <2>2, <2>4, <2>5, <2>6 DEF Row
  <2>9. Rewrites(w, new, row)
    BY <2>1, <2>2, <2>3, <2>5, <2>6 DEF Rewrites
  <2> QED
    BY <1>1, <2>1, <2>2, <2>7, <2>8, <2>9, WriteStep DEF At
<1> QED
  BY <1>3, <1>4

LEMMA MarkPostedStep == ASSUME IInv, NEW w \in Workers, MarkPosted(w) PROVE IInv'
<1>0. TypeOK /\ WorkersOK /\ RowsOK /\ LeftOK
  BY DEF IInv
<1> USE <1>0
<1>1. /\ R(w) \in Reviews /\ review[R(w)] \in ReviewRows /\ At(w, "mark") /\ ~At(w, "idle")
      /\ review[R(w)].status \in {"COMPLETED", "deleted"}
      /\ review[R(w)].comments = workers[w].found /\ workers[w].found \in SUBSET Findings
      /\ github[R(w)].shown = workers[w].found \cap Lines
  BY BusyType DEF MarkPosted, WorkersOK, Stage, At
<1>2. Goto(w, "done")
  BY DEF MarkPosted
<1>3. CASE ~Exists(R(w))
  <2>1. Stage(w)' /\ UNCHANGED review
    BY <1>1, <1>2, <1>3 DEF MarkPosted, Stage, Goto, TypeOK, At, R
  <2> QED
    BY <1>1, <1>2, <2>1, GotoStep DEF MarkPosted, At, WorkerPcs, TypeOK
<1>4. CASE Exists(R(w))
  <2> DEFINE new == [workers[w] EXCEPT !.pc = "done"]
             row == [review[R(w)] EXCEPT !.posted = review[R(w)].comments]
  <2>1. new \in [pc : WorkerPcs \ {"idle"}, r : {R(w)}, found : SUBSET Findings]
        /\ new.pc = "done" /\ new.found = workers[w].found
    BY DEF TypeOK, R, WorkerPcs
  <2>2. /\ row \in ReviewRows /\ row.status = review[R(w)].status
        /\ row.comments = review[R(w)].comments
        /\ row.pr = review[R(w)].pr /\ row.posted = workers[w].found
        /\ row.retried = review[R(w)].retried /\ row.answer = review[R(w)].answer
        /\ row.createdAt = review[R(w)].createdAt
    BY <1>1 DEF ReviewRows
  <2>3. workers' = [workers EXCEPT ![w] = new] /\ review' = [review EXCEPT ![R(w)] = row]
    BY <1>1, <1>2, <1>4 DEF MarkPosted, Goto, TypeOK
  <2> HIDE DEF new, row
  <2>4. workers'[w] = new /\ review'[R(w)] = row /\ R(w)' = R(w)
    BY <1>1, <2>1, <2>3 DEF TypeOK, R
  <2>5. review[R(w)].status = "COMPLETED"
    BY <1>1, <1>4 DEF Exists
  <2>6. github' = github /\ UNCHANGED <<pulls, jobs, added, requests, faults>>
    BY DEF MarkPosted
  <2>7. Stage(w)'
    BY <1>1, <2>1, <2>2, <2>4 DEF Stage, At
  <2>8. Row(R(w)) /\ Now' = Now => \A r \in {R(w)} : Row(r)'
    BY <1>1, <2>2, <2>4, <2>5, <2>6 DEF Row
  <2>9. Rewrites(w, new, row)
    BY <2>1, <2>2, <2>3, <2>5, <2>6 DEF Rewrites
  <2> QED
    BY <1>1, <2>1, <2>2, <2>7, <2>8, <2>9, WriteStep DEF At
<1> QED
  BY <1>3, <1>4

LEMMA PostStep == ASSUME IInv, NEW w \in Workers, Post(w) PROVE IInv'
<1>0. TypeOK /\ WorkersOK /\ RowsOK /\ LeftOK
  BY DEF IInv
<1> USE <1>0
<1>1. /\ R(w) \in Reviews /\ review[R(w)] \in ReviewRows /\ At(w, "post") /\ ~At(w, "idle")
      /\ review[R(w)].status \in {"COMPLETED", "deleted"}
      /\ review[R(w)].comments = workers[w].found /\ workers[w].found \in SUBSET Findings
      /\ github[R(w)] = NoPost /\ workers[w].found # None
  BY BusyType, JobsAssumption DEF Post, WorkersOK, Stage, At
<1>2. PICK pc \in {"mark", "done"} :
         /\ Goto(w, pc)
         /\ \/ github' = [github EXCEPT ![R(w)].posts = @ + 1,
                                       ![R(w)].shown = workers[w].found \cap Lines]
            \/ pc = "done" /\ UNCHANGED github
  BY DEF Post, PostError
<1>3. CASE pc = "done" /\ UNCHANGED github
  <2>1. Stage(w)'
    BY <1>1, <1>2, <1>3 DEF Post, Stage, Goto, TypeOK, At, R
  <2> QED
    BY <1>1, <1>2, <1>3, <2>1, GotoStep DEF Post, At, WorkerPcs, TypeOK
<1>4. CASE github' = [github EXCEPT ![R(w)].posts = @ + 1,
                                    ![R(w)].shown = workers[w].found \cap Lines]
  <2> DEFINE new == [workers[w] EXCEPT !.pc = pc]
             post == [github[R(w)] EXCEPT !.posts = @ + 1,
                                         !.shown = workers[w].found \cap Lines]
             row == review[R(w)]
  <2>1. new \in [pc : WorkerPcs \ {"idle"}, r : {R(w)}, found : SUBSET Findings]
        /\ new.pc = pc /\ new.found = workers[w].found
    BY DEF TypeOK, R, WorkerPcs
  <2>2. post \in Posts /\ post.posts = 1 /\ post.shown = workers[w].found \cap Lines
    <3>1. github[R(w)] \in Posts /\ github[R(w)].posts + 1 = 1
      BY <1>1, BusyType DEF NoPost
    <3>2. /\ [github[R(w)] EXCEPT !.posts = 1, !.shown = workers[w].found \cap Lines] \in Posts
          /\ [github[R(w)] EXCEPT !.posts = 1, !.shown = workers[w].found \cap Lines].posts = 1
          /\ [github[R(w)] EXCEPT !.posts = 1, !.shown = workers[w].found \cap Lines].shown
                = workers[w].found \cap Lines
      BY <3>1 DEF Posts
    <3> QED BY <3>1, <3>2, Zenon
  <2>3. workers' = [workers EXCEPT ![w] = new] /\ github' = [github EXCEPT ![R(w)] = post]
        /\ review' = [review EXCEPT ![R(w)] = row]
    BY <1>1, <1>2, <1>4 DEF Post, Goto, TypeOK
  <2> HIDE DEF new, post
  <2>4. workers'[w] = new /\ github'[R(w)] = post /\ R(w)' = R(w)
    BY <1>1, <2>1, <2>3 DEF TypeOK, R
  <2>5. UNCHANGED <<pulls, jobs, added, review, requests, faults>>
    BY DEF Post
  <2>6. Now' = Now /\ Now \in Nat
    BY <1>1, <2>5, NowStep, MadeFinite
  <2>7. Stage(w)'
    BY <1>1, <1>2, <2>1, <2>2, <2>4, <2>5 DEF Stage, At
  <2>8. \A r \in {R(w)} : Row(r)'
    <3>1. Row(R(w)) /\ github[R(w)].shown = {}
      BY <1>1 DEF RowsOK, NoPost
    <3> QED BY <1>1, <2>2, <2>4, <2>5, <2>6, <3>1 DEF Row
  <2>9. Moves(w, new, row, post)
    <3>1. /\ Now' \in Nat /\ Now' >= Now
          /\ faults' \in 0..MaxFaults /\ faults' >= faults
      BY <2>5, <2>6 DEF TypeOK
    <3> QED BY <1>1, <2>3, <2>5, <3>1, Zenon DEF Moves, Exists
  <2> HIDE DEF row
  <2>10. row \in ReviewRows
    BY <1>1 DEF row
  <2> QED
    BY <1>1, <2>1, <2>2, <2>7, <2>8, <2>9, <2>10, Progress DEF At
<1> QED
  BY <1>2, <1>3, <1>4

-----------------------------------------------------------------------------
(* The queue goes on with a job.                                            *)

\* no row is written, and a worker or a request that is busy afterwards was so
\* before, or is a worker that begins with a take that has no row
RowsKept ==
    /\ UNCHANGED <<pulls, review, github>>
    /\ faults' \in 0..MaxFaults /\ faults' >= faults
    /\ jobs' \in [Jobs -> JobRows]
    /\ \A j \in Jobs : /\ jobs'[j].takes >= jobs[j].takes
                       /\ jobs[j].pr \in PRs => jobs'[j].pr = jobs[j].pr
    /\ \A v \in Workers : ~At(v, "idle")' =>
          workers'[v] = workers[v] \/ review[R(v)'].status = "none"
    /\ \A q \in Requests : requests'[q].pc # "idle" => requests'[q] = requests[q]

LEMMA KeepRows ==
    ASSUME IInv, RowsKept
    PROVE  /\ RowsOK' /\ LeftOK' /\ RetriesOK'
           /\ \A v \in Workers : workers'[v] = workers[v] /\ Stage(v) => Stage(v)'
<1>0. TypeOK /\ RowsOK /\ LeftOK /\ RetriesOK
  BY DEF IInv
<1> USE <1>0
<1>1. faults \in Nat /\ faults' \in Nat /\ review' = review /\ github' = github /\ pulls' = pulls
      /\ (faults' = 0 => faults = 0)
  BY DEF TypeOK, RowsKept
<1>2. ASSUME NEW r \in Reviews PROVE Row(r)'
  <2>1. r[1] \in Jobs /\ r[2] \in Takes /\ jobs[r[1]] \in JobRows /\ jobs'[r[1]] \in JobRows
    BY DEF Reviews, TypeOK, RowsKept
  <2>2. jobs'[r[1]].takes >= jobs[r[1]].takes
        /\ (jobs[r[1]].pr \in PRs => jobs'[r[1]].pr = jobs[r[1]].pr)
    BY <2>1 DEF RowsKept
  <2>3. review[r].status # "none" =>
           /\ review[r].pr = jobs'[r[1]].pr /\ review[r].pr \in PRs
           /\ r[2] <= jobs'[r[1]].takes
    BY <2>1, <2>2 DEF RowsOK, Row, JobRows, Takes
  <2>4. Now' = Now
    BY <1>1 DEF Now
  <2>5. Row(r)
    BY DEF RowsOK
  <2> QED BY <1>1, <2>3, <2>4, <2>5 DEF Row
<1>3. ASSUME NEW r \in Reviews, review[r].status # "none", Left(r) PROVE Left(r)'
  BY <1>3 DEF Left, RowsKept, At, R
<1>4. LeftOK'
  BY <1>1, <1>3 DEF LeftOK
<1>5. ASSUME NEW q \in Requests, requests'[q].pc # "idle" PROVE Retried(q)'
  <2>1. requests'[q] = requests[q] /\ requests[q].r \in Reviews /\ Retried(q)
    BY <1>5 DEF RowsKept, TypeOK, RetriesOK
  <2> QED BY <1>1, <1>3, <2>1 DEF Retried
<1>6. ASSUME NEW v \in Workers, workers'[v] = workers[v], Stage(v) PROVE Stage(v)'
  <2>1. R(v)' = R(v)
    BY <1>6 DEF R
  <2> QED BY <1>1, <1>6, <2>1 DEF Stage, At
<1> QED
  BY <1>2, <1>4, <1>5, <1>6 DEF RowsOK, RetriesOK

\* job j, which was added, becomes new
JobMoves(j, new) ==
    /\ jobs' = [jobs EXCEPT ![j] = new]
    /\ new.pr = jobs[j].pr /\ new.for = jobs[j].for
    /\ new.state # "none" /\ new.takes >= jobs[j].takes
    /\ new.takes <= MaxAttempts + MaxStalled
    /\ new.state \in {"waiting", "active"} => new.fails < MaxAttempts /\ new.stalls <= MaxStalled
    /\ new.state = "waiting" => new.takes = new.fails + new.stalls
    /\ new.state = "active" => new.takes = new.fails + new.stalls + 1
    /\ UNCHANGED <<pulls, review, github, added, requests>>
    /\ faults' \in 0..MaxFaults /\ faults' >= faults

LEMMA JobStep ==
    ASSUME IInv, NEW j \in Jobs, j <= added, NEW new \in JobRows, JobMoves(j, new),
           workers' \in [Workers -> [pc : WorkerPcs, r : Reviews \cup {None}, found : SUBSET Findings]],
           \A v \in Workers : ~At(v, "idle")' =>
              /\ R(v)' \in Reviews /\ Busy(v)'
              /\ workers'[v] = workers[v] \/ (review[R(v)'].status = "none" /\ Stage(v)'),
           \A i \in {j} : Verdict(i)'
    PROVE  IInv'
<1>0. TypeOK /\ QueueOK /\ WorkersOK /\ WaitsOK /\ VerdictsOK
  BY DEF IInv
<1> USE <1>0
<1>1. /\ jobs'[j] = new /\ \A i \in Jobs \ {j} : jobs'[i] = jobs[i]
      /\ jobs' \in [Jobs -> JobRows] /\ added' = added /\ added \in Nat /\ requests' = requests
      /\ review' = review /\ faults \in Nat
  BY DEF JobMoves, TypeOK
<1>2. RowsKept
  <2>1. ASSUME NEW i \in Jobs
        PROVE  jobs'[i].takes >= jobs[i].takes /\ (jobs[i].pr \in PRs => jobs'[i].pr = jobs[i].pr)
    <3>1. jobs[i].takes \in Nat
      BY DEF TypeOK, JobRows
    <3> QED BY <1>1, <3>1 DEF JobMoves
  <2> QED BY <1>1, <2>1 DEF RowsKept, JobMoves
<1>3. RowsOK' /\ LeftOK' /\ RetriesOK'
      /\ \A v \in Workers : workers'[v] = workers[v] /\ Stage(v) => Stage(v)'
  BY <1>2, KeepRows
<1>4. QueueOK'
  <2>1. Promised' = Promised
    BY <1>1 DEF Promised
  <2>2. added + Promised <= MaxJobs
    BY DEF QueueOK
  <2>3. ASSUME NEW i \in Jobs
        PROVE  /\ i > added => jobs'[i] = NoJob
               /\ i <= added => jobs'[i].state # "none" /\ jobs'[i].pr \in PRs
               /\ jobs'[i].takes <= MaxAttempts + MaxStalled
               /\ jobs'[i].state \in {"waiting", "active"} =>
                     jobs'[i].fails < MaxAttempts /\ jobs'[i].stalls <= MaxStalled
               /\ jobs'[i].state = "waiting" => jobs'[i].takes = jobs'[i].fails + jobs'[i].stalls
               /\ jobs'[i].state = "active" => jobs'[i].takes = jobs'[i].fails + jobs'[i].stalls + 1
    <3>1. CASE i # j
      BY <1>1, <3>1 DEF QueueOK
    <3>2. CASE i = j
      <4>1. jobs[j].pr \in PRs /\ ~(j > added)
        BY <1>1 DEF QueueOK, Jobs
      <4> QED BY <1>1, <3>2, <4>1 DEF JobMoves
    <3> QED BY <3>1, <3>2
  <2> QED BY <1>1, <2>1, <2>2, <2>3 DEF QueueOK
<1>5. WorkersOK'
  BY <1>3 DEF WorkersOK, At
<1>6. TypeOK'
  <2>1. ASSUME NEW v \in Workers, ~At(v, "idle")' PROVE R(v)' \in Reviews /\ PrOf(v)' \in PRs
    <3>1. R(v)' \in Reviews /\ Job(v)' \in Jobs /\ Job(v)' <= added'
      BY <2>1 DEF Busy, Job, Reviews
    <3> QED BY <1>4, <3>1 DEF QueueOK, PrOf
  <2>2. \A q \in Requests : requests'[q].pc # "idle" =>
           requests'[q].r \in Reviews /\ review'[requests'[q].r].pr \in PRs
    BY <1>1 DEF TypeOK
  <2> QED BY <1>1, <2>1, <2>2 DEF TypeOK, JobMoves
<1>7. WaitsOK'
  <2>1. ASSUME NEW r \in Reviews PROVE Waits(r)'
    <3>0. 1..added \subseteq Jobs
      BY JobsAssumption DEF TypeOK, Jobs
    <3>1. Waits(r) /\ 1..added \subseteq Jobs
      BY <3>0 DEF WaitsOK
    <3>2. \A i \in 1..added : jobs'[i].for = jobs[i].for
      BY <1>1, <3>1 DEF JobMoves
    <3>3. faults > 0 => faults' > 0
      BY <1>1 DEF JobMoves
    <3> QED BY <1>1, <3>1, <3>2, <3>3 DEF Waits
  <2> QED BY <2>1 DEF WaitsOK
<1>8. VerdictsOK'
  <2>1. ASSUME NEW i \in Jobs \ {j} PROVE Verdict(i)'
    <3>1. Verdict(i) /\ jobs'[i] = jobs[i]
      BY <1>1 DEF VerdictsOK
    <3> QED BY <1>1, <3>1 DEF Verdict, Unstalled, Exists
  <2> QED BY <2>1 DEF VerdictsOK
<1> QED
  BY <1>3, <1>4, <1>5, <1>6, <1>7, <1>8 DEF IInv

\* a job that has a take, a lock or an attempt was added
LEMMA JobKnown ==
    ASSUME IInv, NEW j \in Jobs, jobs[j].state # "none"
    PROVE  /\ j <= added /\ jobs[j] \in JobRows
           /\ jobs[j].takes <= MaxAttempts + MaxStalled
           /\ jobs[j].state \in {"waiting", "active"} =>
                 jobs[j].fails < MaxAttempts /\ jobs[j].stalls <= MaxStalled
           /\ jobs[j].state = "waiting" => jobs[j].takes = jobs[j].fails + jobs[j].stalls
           /\ jobs[j].state = "active" => jobs[j].takes = jobs[j].fails + jobs[j].stalls + 1
           /\ Verdict(j)
<1>1. j > added => jobs[j] = NoJob
  BY DEF IInv, QueueOK
<1>2. j <= added
  BY <1>1 DEF IInv, TypeOK, NoJob, Jobs
<1> QED
  BY <1>2 DEF IInv, TypeOK, QueueOK, VerdictsOK

LEMMA TakeStep ==
    ASSUME IInv, NEW w \in Workers, NEW j \in Jobs, Take(w, j)
    PROVE  IInv'
<1>0. TypeOK /\ WorkersOK /\ RowsOK
  BY DEF IInv
<1> USE <1>0
<1> DEFINE k == jobs[j].takes + 1
           new == [jobs[j] EXCEPT !.state = "active", !.owner = w, !.takes = k]
<1>1. jobs[j].state = "waiting" /\ jobs[j] \in JobRows /\ jobs[j].takes \in Nat
      /\ jobs[j].fails \in Nat /\ jobs[j].stalls \in Nat
  BY DEF Take, TypeOK, JobRows
<1>2. /\ j <= added /\ jobs[j].fails < MaxAttempts /\ jobs[j].stalls <= MaxStalled
      /\ jobs[j].takes = jobs[j].fails + jobs[j].stalls /\ Verdict(j)
  BY <1>1, JobKnown
<1>3. k \in Takes /\ <<j, k>> \in Reviews
  BY <1>1, <1>2, JobsAssumption DEF Takes, Reviews
<1>4. /\ new \in JobRows /\ new.state = "active" /\ new.owner = w /\ new.takes = k
      /\ new.pr = jobs[j].pr /\ new.for = jobs[j].for /\ new.fails = jobs[j].fails
      /\ new.stalls = jobs[j].stalls
  <2>1. k \in Nat /\ w \in Workers \cup {None}
    BY <1>1
  <2> HIDE DEF k
  <2> QED BY <1>1, <2>1 DEF JobRows
<1>5. jobs' = [jobs EXCEPT ![j] = new]
  BY DEF Take
<1> HIDE DEF new
<1>6. jobs'[j] = new /\ \A i \in Jobs \ {j} : jobs'[i] = jobs[i]
  BY <1>4, <1>5 DEF TypeOK
<1>7. review' = review /\ github' = github /\ pulls' = pulls /\ added' = added
      /\ requests' = requests /\ faults' = faults
  BY DEF Take
<1>8. review[<<j, k>>].status = "none"
  <2>1. Row(<<j, k>>)
    BY <1>3 DEF RowsOK
  <2> QED BY <1>1, <2>1 DEF Row
<1>9. JobMoves(j, new)
  BY <1>1, <1>2, <1>4, <1>5, <1>7, <1>3 DEF JobMoves, TypeOK, Takes
<1>10. workers' \in [Workers -> [pc : WorkerPcs, r : Reviews \cup {None}, found : SUBSET Findings]]
       /\ workers'[w].pc = "load" /\ workers'[w].r = <<j, k>> /\ workers'[w].found = {}
       /\ \A v \in Workers \ {w} : workers'[v] = workers[v]
  BY <1>3 DEF Take, TypeOK, Free, WorkerPcs
<1>11. \A v \in Workers \ {w} : ~At(v, "idle") =>
          Busy(v) /\ R(v) \in Reviews /\ R(v) = <<Job(v), R(v)[2]>> /\ Job(v) \in Jobs
          /\ R(v)[2] \in Takes
  BY BusyType DEF WorkersOK
<1>12. Busy(w)' /\ R(w)' = <<j, k>> /\ Stage(w)'
  <2>1. R(w)' = <<j, k>> /\ Job(w)' = j
    BY <1>10 DEF R, Job
  <2>2. Owns(w)'
    BY <1>4, <1>6, <2>1 DEF Owns
  <2>3. \A v \in Workers \ {w} : ~At(v, "idle")' => R(v)' # <<j, k>>
    <3>1. ASSUME NEW v \in Workers \ {w}, ~At(v, "idle") PROVE R(v) # <<j, k>>
      BY <1>1, <1>11, <3>1 DEF Busy, Job
    <3> QED BY <1>10, <3>1 DEF R, At
  <2>4. Busy(w)'
    BY <1>2, <1>3, <1>4, <1>6, <1>7, <2>1, <2>2, <2>3 DEF Busy, Takes
  <2>5. Stage(w)'
    BY <1>7, <1>8, <1>10, <2>1 DEF Stage, At
  <2> QED BY <2>1, <2>4, <2>5
<1>13. ASSUME NEW v \in Workers \ {w}, ~At(v, "idle")' PROVE R(v)' \in Reviews /\ Busy(v)'
  <2>1. ~At(v, "idle") /\ R(v)' = R(v) /\ Job(v)' = Job(v) /\ workers'[v] = workers[v]
    BY <1>10, <1>13 DEF At, R, Job
  <2>2. \A u \in Workers \ {v} : ~At(u, "idle")' => R(u)' # R(v)'
    <3>1. CASE Job(v) = j
      BY <1>1, <1>10, <1>11, <1>12, <2>1, <3>1 DEF Busy, At, R
    <3>2. CASE Job(v) # j
      BY <1>10, <1>11, <1>12, <2>1, <3>2 DEF Busy, At, R, Job
    <3> QED BY <3>1, <3>2
  <2>3. CASE Job(v) # j
    <3>1. jobs'[Job(v)] = jobs[Job(v)]
      BY <1>6, <1>11, <2>1, <2>3
    <3> QED BY <1>7, <1>11, <2>1, <2>2, <3>1 DEF Busy, Owns
  <2>4. CASE Job(v) = j
    <3>1. ~Owns(v) /\ jobs[j].stalls # 0 /\ R(v)[2] <= jobs[j].takes /\ R(v)[2] \in Nat
      BY <1>1, <1>11, <2>1, <2>4 DEF Busy, Owns, Takes
    <3>2. ~Owns(v)'
      BY <1>4, <1>6, <2>1, <2>4 DEF Owns
    <3> QED BY <1>1, <1>2, <1>4, <1>6, <1>7, <1>11, <2>1, <2>2, <2>4, <3>1, <3>2 DEF Busy
  <2> QED BY <2>3, <2>4
<1>14. \A i \in {j} : Verdict(i)'
  BY <1>1, <1>2, <1>4, <1>6, <1>7 DEF Verdict, Unstalled, Exists
<1>15. \A v \in Workers : ~At(v, "idle")' =>
          /\ R(v)' \in Reviews /\ Busy(v)'
          /\ workers'[v] = workers[v] \/ (review[R(v)'].status = "none" /\ Stage(v)')
  BY <1>3, <1>8, <1>10, <1>12, <1>13
<1> HIDE DEF k
<1> QED
  BY <1>2, <1>4, <1>9, <1>10, <1>14, <1>15, JobStep

LEMMA StallStep == ASSUME IInv, NEW j \in Jobs, Stall(j) PROVE IInv'
<1>0. TypeOK /\ WorkersOK
  BY DEF IInv
<1> USE <1>0
<1> DEFINE to == PutBack(j, MayStall(j))
           stalls == jobs[j].stalls + 1
           new == [jobs[j] EXCEPT !.state = to, !.owner = None, !.stalls = stalls]
<1>1. jobs[j].state = "active" /\ jobs[j] \in JobRows /\ jobs[j].takes \in Nat
      /\ jobs[j].fails \in Nat /\ jobs[j].stalls \in Nat
  BY DEF Stall, TypeOK, JobRows
<1>2. /\ j <= added /\ jobs[j].fails < MaxAttempts /\ jobs[j].stalls <= MaxStalled
      /\ jobs[j].takes = jobs[j].fails + jobs[j].stalls + 1
      /\ jobs[j].takes <= MaxAttempts + MaxStalled
  BY <1>1, JobKnown
<1>3. to \in {"waiting", "failed"} /\ (to = "waiting" => jobs[j].stalls < MaxStalled)
      /\ stalls \in Nat
  BY <1>1 DEF PutBack, MayStall
<1> HIDE DEF to
<1>4. /\ new \in JobRows /\ new.state = to /\ new.takes = jobs[j].takes
      /\ new.pr = jobs[j].pr /\ new.for = jobs[j].for /\ new.fails = jobs[j].fails
      /\ new.stalls = stalls
  <2> HIDE DEF stalls
  <2> QED BY <1>1, <1>3 DEF JobRows
<1>5. jobs' = [jobs EXCEPT ![j] = new]
  BY DEF Stall, to
<1> HIDE DEF new
<1>6. jobs'[j] = new /\ \A i \in Jobs \ {j} : jobs'[i] = jobs[i]
  BY <1>4, <1>5 DEF TypeOK
<1>7. added' = added /\ workers' = workers /\ faults' = faults /\ review' = review
  BY DEF Stall
<1>8. JobMoves(j, new)
  <2>1. /\ to = "waiting" => new.stalls <= MaxStalled /\ new.takes = new.fails + new.stalls
        /\ new.takes >= jobs[j].takes /\ new.fails < MaxAttempts
    BY <1>1, <1>2, <1>3, <1>4, JobsAssumption
  <2>2. faults' \in 0..MaxFaults /\ faults' >= faults
        /\ UNCHANGED <<pulls, review, github, added, requests>>
    BY DEF Stall, TypeOK
  <2> HIDE DEF stalls
  <2> QED BY <1>2, <1>3, <1>4, <1>5, <2>1, <2>2 DEF JobMoves
<1>9. ASSUME NEW v \in Workers, ~At(v, "idle") PROVE Busy(v)' /\ R(v) \in Reviews
  <2>1. R(v) \in Reviews /\ Job(v) \in Jobs /\ Busy(v)
    BY <1>9, BusyType DEF WorkersOK
  <2>2. R(v)' = R(v) /\ Job(v)' = Job(v)
        /\ \A u \in Workers : R(u)' = R(u) /\ (At(u, "idle")' <=> At(u, "idle"))
    BY <1>7 DEF R, Job, At
  <2>3. CASE Job(v) # j
    <3>1. jobs'[Job(v)] = jobs[Job(v)]
      BY <1>6, <2>1, <2>3
    <3> QED BY <1>7, <2>1, <2>2, <3>1 DEF Busy, Owns
  <2>4. CASE Job(v) = j
    BY <1>1, <1>3, <1>4, <1>6, <1>7, <2>1, <2>2, <2>4 DEF Busy, Owns
  <2> QED BY <2>1, <2>3, <2>4
<1>10. \A i \in {j} : Verdict(i)'
  BY <1>1, <1>3, <1>4, <1>6 DEF Verdict
<1> HIDE DEF stalls
<1> QED
  BY <1>2, <1>4, <1>7, <1>8, <1>9, <1>10, JobStep DEF TypeOK, At, R

\* w leaves its job, which becomes new: w gives up the lock if it holds it
LEMMA ReleaseStep ==
    ASSUME IInv, NEW w \in Workers, ~At(w, "idle"), Release(w), NEW new \in JobRows,
           JobMoves(Job(w), new), new.takes = jobs[Job(w)].takes,
           new.stalls = jobs[Job(w)].stalls,
           new = jobs[Job(w)] \/ (Owns(w) /\ new.state # "active"),
           \A i \in {Job(w)} : Verdict(i)'
    PROVE  IInv'
<1>0. TypeOK /\ WorkersOK
  BY DEF IInv
<1> USE <1>0
<1>1. Job(w) \in Jobs /\ Job(w) <= added
  BY BusyType DEF WorkersOK, Busy
<1>2. /\ workers' \in [Workers -> [pc : WorkerPcs, r : Reviews \cup {None}, found : SUBSET Findings]]
      /\ At(w, "idle")' /\ \A v \in Workers \ {w} : workers'[v] = workers[v]
  BY DEF Release, Free, TypeOK, WorkerPcs, At
<1>3. jobs'[Job(w)] = new /\ \A i \in Jobs \ {Job(w)} : jobs'[i] = jobs[i]
  BY <1>1 DEF TypeOK, JobMoves
<1>4. ASSUME NEW v \in Workers \ {w}, ~At(v, "idle") PROVE Busy(v)' /\ R(v) \in Reviews
  <2>1. R(v) \in Reviews /\ Job(v) \in Jobs /\ Busy(v)
    BY <1>4, BusyType DEF WorkersOK
  <2>2. R(v)' = R(v) /\ Job(v)' = Job(v) /\ added' = added
        /\ \A u \in Workers \ {w} : R(u)' = R(u) /\ (At(u, "idle")' <=> At(u, "idle"))
    BY <1>2 DEF R, Job, At, JobMoves
  <2>3. CASE jobs'[Job(v)] = jobs[Job(v)]
    BY <1>2, <2>1, <2>2, <2>3 DEF Busy, Owns
  <2>4. CASE Job(v) = Job(w) /\ Owns(w) /\ new.state # "active"
    <3>1. ~Owns(v) /\ ~Owns(v)'
      BY <1>3, <2>2, <2>4 DEF Owns
    <3> QED BY <1>2, <1>3, <2>1, <2>2, <2>4, <3>1 DEF Busy
  <2> QED BY <1>3, <2>1, <2>3, <2>4
<1>5. \A v \in Workers : ~At(v, "idle")' => Busy(v)' /\ R(v)' \in Reviews /\ workers'[v] = workers[v]
  BY <1>2, <1>4 DEF At, R
<1> QED
  BY <1>1, <1>2, <1>5, JobStep

\* the worker keeps its job as it is when it no longer owns it
LEMMA LeaveStep ==
    ASSUME IInv, NEW w \in Workers, ~At(w, "idle"), Release(w),
           UNCHANGED <<pulls, jobs, added, review, github, requests>>,
           faults' \in 0..MaxFaults, faults' >= faults
    PROVE  IInv'
<1>0. TypeOK /\ WorkersOK /\ QueueOK /\ VerdictsOK
  BY DEF IInv
<1> USE <1>0
<1>1. Job(w) \in Jobs /\ Job(w) <= added /\ added \in Nat
  BY BusyType DEF WorkersOK, Busy, TypeOK
<1>2. jobs[Job(w)].state # "none" /\ jobs[Job(w)].takes \in Nat /\ jobs[Job(w)] \in JobRows
  BY <1>1 DEF QueueOK, TypeOK, JobRows
<1>3. jobs' = [jobs EXCEPT ![Job(w)] = jobs[Job(w)]]
  BY <1>1 DEF TypeOK
<1>4. JobMoves(Job(w), jobs[Job(w)])
  <2>1. jobs[Job(w)].takes >= jobs[Job(w)].takes
    BY <1>2
  <2> QED BY <1>1, <1>2, <1>3, <2>1, JobKnown DEF JobMoves
<1>5. \A i \in {Job(w)} : Verdict(i)'
  BY <1>1 DEF VerdictsOK, Verdict, Unstalled, Exists
<1> QED
  BY <1>2, <1>4, <1>5, ReleaseStep

LEMMA CrashStep == ASSUME IInv, NEW w \in Workers, Crash(w) PROVE IInv'
<1>1. faults' \in 0..MaxFaults /\ faults' >= faults
  BY JobsAssumption DEF Crash, IInv, TypeOK
<1> QED
  BY <1>1, LeaveStep DEF Crash

LEMMA FinishJobStep == ASSUME IInv, NEW w \in Workers, FinishJob(w) PROVE IInv'
<1>0. TypeOK /\ WorkersOK
  BY DEF IInv
<1> USE <1>0
<1>1. /\ At(w, "done") /\ ~At(w, "idle") /\ Release(w)
      /\ UNCHANGED <<pulls, added, review, github, requests, faults>>
      /\ faults' \in 0..MaxFaults /\ faults' >= faults
  BY DEF FinishJob, At, TypeOK
<1>2. CASE ~Owns(w)
  BY <1>1, <1>2, LeaveStep DEF FinishJob
<1>3. CASE Owns(w)
  <2> DEFINE new == [jobs[Job(w)] EXCEPT !.state = "completed", !.owner = None]
  <2>1. Job(w) \in Jobs /\ jobs[Job(w)] \in JobRows /\ jobs[Job(w)].takes \in Nat
        /\ R(w) = <<Job(w), jobs[Job(w)].takes>> /\ jobs[Job(w)].takes \in Takes
    BY <1>1, <1>3, BusyType DEF TypeOK, JobRows, WorkersOK, Busy
  <2>2. jobs[Job(w)].takes <= MaxAttempts + MaxStalled /\ Verdict(Job(w))
        /\ jobs[Job(w)].state = "active"
    BY <1>3, <2>1, JobKnown DEF Owns
  <2>3. /\ new \in JobRows /\ new.state = "completed" /\ new.takes = jobs[Job(w)].takes
        /\ new.pr = jobs[Job(w)].pr /\ new.for = jobs[Job(w)].for
        /\ new.stalls = jobs[Job(w)].stalls
    BY <2>1 DEF JobRows
  <2>4. jobs' = [jobs EXCEPT ![Job(w)] = new]
    BY <1>3 DEF FinishJob
  <2> HIDE DEF new
  <2>5. jobs'[Job(w)] = new
    BY <2>1, <2>4 DEF TypeOK
  <2>6. JobMoves(Job(w), new)
    BY <1>1, <2>1, <2>2, <2>3, <2>4 DEF JobMoves
  <2>7. \A i \in {Job(w)} : Verdict(i)'
    BY <1>1, <2>1, <2>2, <2>3, <2>5 DEF Verdict, Unstalled, Exists, WorkersOK, Stage, At
  <2> QED
    BY <1>1, <1>3, <2>3, <2>6, <2>7, ReleaseStep
<1> QED
  BY <1>2, <1>3

LEMMA FailAttemptStep == ASSUME IInv, NEW w \in Workers, FailAttempt(w) PROVE IInv'
<1>0. TypeOK /\ WorkersOK
  BY DEF IInv
<1> USE <1>0
<1>1. /\ At(w, "throw") /\ ~At(w, "idle") /\ Release(w)
      /\ UNCHANGED <<pulls, added, review, github, requests, faults>>
      /\ faults' \in 0..MaxFaults /\ faults' >= faults
  BY DEF FailAttempt, At, TypeOK
<1>2. CASE ~Owns(w)
  BY <1>1, <1>2, LeaveStep DEF FailAttempt
<1>3. CASE Owns(w)
  <2> DEFINE to == PutBack(Job(w), MayRetry(Job(w)))
             fails == jobs[Job(w)].fails + 1
             new == [jobs[Job(w)] EXCEPT !.state = to, !.owner = None, !.fails = fails]
  <2>1. Job(w) \in Jobs /\ jobs[Job(w)] \in JobRows /\ jobs[Job(w)].takes \in Nat
        /\ jobs[Job(w)].fails \in Nat /\ jobs[Job(w)].stalls \in Nat
        /\ R(w) = <<Job(w), jobs[Job(w)].takes>> /\ jobs[Job(w)].takes \in Takes
    BY <1>1, <1>3, BusyType DEF TypeOK, JobRows, WorkersOK, Busy
  <2>2. /\ jobs[Job(w)].takes <= MaxAttempts + MaxStalled /\ Verdict(Job(w))
        /\ jobs[Job(w)].state = "active" /\ jobs[Job(w)].stalls <= MaxStalled
        /\ jobs[Job(w)].takes = jobs[Job(w)].fails + jobs[Job(w)].stalls + 1
    BY <1>3, <2>1, JobKnown DEF Owns
  <2>3. to \in {"waiting", "failed"} /\ (to = "waiting" => fails < MaxAttempts) /\ fails \in Nat
    BY <2>1 DEF PutBack, MayRetry, Attempts
  <2> HIDE DEF to
  <2>4. /\ new \in JobRows /\ new.state = to /\ new.takes = jobs[Job(w)].takes
        /\ new.pr = jobs[Job(w)].pr /\ new.for = jobs[Job(w)].for
        /\ new.stalls = jobs[Job(w)].stalls /\ new.fails = fails
    <3> HIDE DEF fails
    <3> QED BY <2>1, <2>3 DEF JobRows
  <2>5. jobs' = [jobs EXCEPT ![Job(w)] = new]
    BY <1>3 DEF FailAttempt, to
  <2> HIDE DEF new
  <2>6. jobs'[Job(w)] = new
    BY <2>1, <2>4, <2>5 DEF TypeOK
  <2>7. JobMoves(Job(w), new)
    <3>1. new.takes >= jobs[Job(w)].takes
          /\ (to = "waiting" => new.takes = new.fails + new.stalls)
      BY <2>1, <2>2, <2>4
    <3> HIDE DEF fails
    <3> QED BY <1>1, <2>2, <2>3, <2>4, <2>5, <3>1 DEF JobMoves
  <2>8. \A i \in {Job(w)} : Verdict(i)'
    <3>1. review[R(w)].comments = None
      BY <1>1 DEF WorkersOK, Stage, At
    <3> HIDE DEF fails
    <3> QED BY <1>1, <2>1, <2>2, <2>3, <2>4, <2>6, <3>1 DEF Verdict, Unstalled, Exists
  <2> QED
    BY <1>1, <1>3, <2>3, <2>4, <2>7, <2>8, ReleaseStep
<1> QED
  BY <1>2, <1>3

-----------------------------------------------------------------------------
(* A job is added.                                                          *)

\* the next job names p, and serves the retry of r if there is one
Enqueues(p, r) ==
    /\ jobs' = Enqueued(p, r) /\ added' = added + 1
    /\ added' + Promised' <= MaxJobs
    /\ UNCHANGED <<pulls, review, github, workers, faults>>
    /\ requests' \in [Requests -> [pc : {"idle", "reset", "enqueue"}, r : Reviews \cup {None}]]
    /\ \A q \in Requests : requests'[q].pc # "idle" => requests'[q] = requests[q]
    /\ \A q \in Requests : requests[q].pc = "enqueue" =>
          requests'[q] = requests[q] \/ requests[q].r = r

LEMMA EnqueueStep ==
    ASSUME IInv, NEW p \in PRs, NEW r \in Reviews \cup {None}, added < MaxJobs, Enqueues(p, r)
    PROVE  IInv'
<1>0. TypeOK /\ QueueOK /\ WorkersOK /\ RowsOK /\ WaitsOK /\ VerdictsOK
  BY DEF IInv
<1> USE <1>0
<1> DEFINE j == added + 1
           new == [NoJob EXCEPT !.state = "waiting", !.pr = p, !.for = r]
<1>1. added \in Nat /\ j \in Jobs /\ j \notin 1..added /\ 1..(added + 1) = 1..added \cup {j}
      /\ 1..added \subseteq Jobs
  BY JobsAssumption DEF TypeOK, Jobs
<1>2. jobs[j] = NoJob /\ NoJob \in JobRows
  BY <1>1 DEF QueueOK, NoJob, JobRows
<1>3. /\ new \in JobRows /\ new.state = "waiting" /\ new.pr = p /\ new.for = r
      /\ new.fails = 0 /\ new.stalls = 0 /\ new.takes = 0
  BY <1>2 DEF JobRows, NoJob
<1>4. jobs' = [jobs EXCEPT ![j] = new]
  BY DEF Enqueues, Enqueued
<1> HIDE DEF new
<1>5. jobs'[j] = new /\ \A i \in Jobs \ {j} : jobs'[i] = jobs[i]
  BY <1>1, <1>3, <1>4 DEF TypeOK
<1>6. review' = review /\ github' = github /\ workers' = workers /\ faults' = faults
      /\ pulls' = pulls /\ added' = j /\ faults \in Nat /\ jobs' \in [Jobs -> JobRows]
  <2>1. jobs' \in [Jobs -> JobRows]
    BY <1>3, <1>4 DEF TypeOK
  <2> QED BY <2>1 DEF Enqueues, TypeOK
<1> HIDE DEF j
<1>7. \A t \in Takes : review[<<j, t>>] = NoReview
  <2>1. ASSUME NEW t \in Takes PROVE review[<<j, t>>] = NoReview
    <3>1. <<j, t>> \in Reviews
      BY <1>1 DEF Reviews
    <3>2. Row(<<j, t>>) /\ NoJob.pr = None
      BY <3>1 DEF RowsOK, NoJob
    <3> QED BY <1>2, <3>2, JobsAssumption DEF Row
  <2> QED BY <2>1
<1>8. RowsKept
  <2>1. ASSUME NEW i \in Jobs
        PROVE  jobs'[i].takes >= jobs[i].takes /\ (jobs[i].pr \in PRs => jobs'[i].pr = jobs[i].pr)
    <3>1. CASE i # j
      <4>1. jobs[i].takes \in Nat
        BY DEF TypeOK, JobRows
      <4> QED BY <1>5, <3>1, <4>1
    <3>2. CASE i = j
      BY <1>2, <1>3, <1>5, <3>2, JobsAssumption DEF NoJob
    <3> QED BY <3>1, <3>2
  <2> QED BY <1>6, <2>1 DEF RowsKept, Enqueues, TypeOK
<1>9. RowsOK' /\ LeftOK' /\ RetriesOK'
      /\ \A v \in Workers : workers'[v] = workers[v] /\ Stage(v) => Stage(v)'
  BY <1>8, KeepRows
<1>10. QueueOK'
  <2>1. ASSUME NEW i \in Jobs
        PROVE  /\ i > added' => jobs'[i] = NoJob
               /\ i <= added' => jobs'[i].state # "none" /\ jobs'[i].pr \in PRs
               /\ jobs'[i].takes <= MaxAttempts + MaxStalled
               /\ jobs'[i].state \in {"waiting", "active"} =>
                     jobs'[i].fails < MaxAttempts /\ jobs'[i].stalls <= MaxStalled
               /\ jobs'[i].state = "waiting" => jobs'[i].takes = jobs'[i].fails + jobs'[i].stalls
               /\ jobs'[i].state = "active" => jobs'[i].takes = jobs'[i].fails + jobs'[i].stalls + 1
    <3>1. CASE i # j
      <4>1. i \in Int /\ (i > added' => i > added) /\ (i <= added' => i <= added)
        BY <1>1, <1>6, <3>1 DEF j, Jobs
      <4> QED BY <1>5, <3>1, <4>1 DEF QueueOK
    <3>2. CASE i = j
      BY <1>1, <1>3, <1>5, <1>6, <3>2, JobsAssumption DEF Jobs
    <3> QED BY <3>1, <3>2
  <2> QED BY <2>1 DEF QueueOK, Enqueues
<1>11. WorkersOK'
  <2>1. ASSUME NEW v \in Workers, ~At(v, "idle") PROVE Busy(v)' /\ Stage(v)'
    <3>1. Job(v) \in Jobs /\ Busy(v) /\ Stage(v) /\ workers'[v] = workers[v]
      BY <1>6, <2>1, BusyType DEF WorkersOK
    <3>2. R(v)' = R(v) /\ Job(v)' = Job(v)
          /\ \A u \in Workers : R(u)' = R(u) /\ (At(u, "idle")' <=> At(u, "idle"))
      BY <1>6 DEF R, Job, At
    <3>3. Job(v) # j /\ Job(v) <= added'
      BY <1>1, <1>6, <3>1 DEF Busy, Jobs, j
    <3>4. jobs'[Job(v)] = jobs[Job(v)]
      BY <1>5, <3>1, <3>3
    <3> QED BY <1>9, <3>1, <3>2, <3>3, <3>4 DEF Busy, Owns
  <2> QED BY <1>6, <2>1 DEF WorkersOK, At
<1>12. TypeOK'
  <2>1. ASSUME NEW v \in Workers, ~At(v, "idle")' PROVE R(v)' \in Reviews /\ PrOf(v)' \in PRs
    <3>1. R(v)' \in Reviews /\ Job(v)' \in Jobs /\ Job(v)' <= added'
      BY <1>6, <1>11, <2>1, BusyType DEF WorkersOK, Busy, Job, At, R
    <3> QED BY <1>10, <3>1 DEF QueueOK, PrOf
  <2>2. ASSUME NEW q \in Requests, requests'[q].pc # "idle"
        PROVE  requests'[q].r \in Reviews /\ review'[requests'[q].r].pr \in PRs
    BY <1>6, <2>2 DEF Enqueues, TypeOK
  <2>3. added' \in 0..MaxJobs
    BY <1>1, <1>6, JobsAssumption DEF TypeOK, j
  <2> QED BY <1>6, <2>1, <2>2, <2>3 DEF TypeOK, Enqueues
<1>13. WaitsOK'
  <2>1. ASSUME NEW s \in Reviews, review[s].status = "PENDING", review[s].retried
        PROVE  \/ \E i \in 1..added' : jobs'[i].for = s
               \/ \E q \in Requests : requests'[q] = [pc |-> "enqueue", r |-> s]
               \/ faults' > 0
    <3>1. 1..added' = 1..added \cup {j} /\ \A i \in 1..added : jobs'[i] = jobs[i]
      BY <1>1, <1>5, <1>6 DEF j
    <3>2. CASE \E i \in 1..added : jobs[i].for = s
      BY <3>1, <3>2
    <3>3. CASE \E q \in Requests : requests[q] = [pc |-> "enqueue", r |-> s]
      BY <1>3, <1>5, <3>1, <3>3 DEF Enqueues
    <3> QED BY <1>6, <2>1, <3>2, <3>3 DEF WaitsOK, Waits
  <2> QED BY <1>6, <2>1 DEF WaitsOK, Waits
<1>14. VerdictsOK'
  <2>1. ASSUME NEW i \in Jobs \ {j} PROVE Verdict(i)'
    BY <1>5, <1>6 DEF VerdictsOK, Verdict, Unstalled, Exists
  <2>2. \A i \in {j} : Verdict(i)'
    BY <1>3, <1>5, <1>6, <1>7 DEF Verdict, Unstalled, Exists, NoReview
  <2> QED BY <2>1, <2>2 DEF VerdictsOK
<1> QED
  BY <1>9, <1>10, <1>11, <1>12, <1>13, <1>14 DEF IInv

LEMMA SubmitStep == ASSUME IInv, NEW p \in PRs, Submit(p) PROVE IInv'
<1>1. added \in Nat /\ MaxJobs \in Nat /\ Promised \in Nat /\ Promised' = Promised
  BY OpenFinite, JobsAssumption DEF IInv, TypeOK, Submit, Promised
<1>2. added < MaxJobs /\ added' + Promised' <= MaxJobs
  BY <1>1 DEF Submit
<1>3. Enqueues(p, None)
  BY <1>2 DEF Submit, Enqueues, IInv, TypeOK
<1> QED
  BY <1>2, <1>3, EnqueueStep

LEMMA RetryEnqueueStep == ASSUME IInv, NEW q \in Requests, RetryEnqueue(q) PROVE IInv'
<1>0. TypeOK /\ QueueOK /\ RetriesOK
  BY DEF IInv
<1> USE <1>0
<1> DEFINE r == requests[q].r
<1>1. requests[q].pc = "enqueue" /\ requests' = [requests EXCEPT ![q] = NoRequest]
      /\ r \in Reviews /\ review[r].pr \in PRs
  BY DEF RetryEnqueue, TypeOK
<1>2. added \in Nat /\ MaxJobs \in Nat /\ Promised \in Nat /\ Promised' = Promised - 1
  <2>1. NoRequest.pc = "idle"
    BY DEF NoRequest
  <2>2. Promised' = Promised - 1
    BY <1>1, <2>1, PromisedStep
  <2> QED BY <2>2, OpenFinite, JobsAssumption DEF TypeOK
<1>3. Promised >= 1
  <2>1. Promised' \in Nat
    <3>1. Open' \subseteq Requests
      BY DEF Open
    <3>2. IsFiniteSet(Open')
      BY <3>1, JobsAssumption, FS_Subset
    <3> QED BY <3>2, FS_CardinalityType DEF Promised, Open
  <2> QED BY <1>2, <2>1
<1>4. added < MaxJobs /\ added' + Promised' <= MaxJobs
  BY <1>2, <1>3 DEF QueueOK, RetryEnqueue
<1>5. Enqueues(review[r].pr, r)
  <2>1. requests' \in [Requests -> [pc : {"idle", "reset", "enqueue"}, r : Reviews \cup {None}]]
    BY <1>1 DEF NoRequest, TypeOK
  <2>2. \A o \in Requests : requests'[o] = IF o = q THEN NoRequest ELSE requests[o]
    BY <1>1 DEF TypeOK
  <2>3. jobs' = Enqueued(review[r].pr, r) /\ added' = added + 1
        /\ UNCHANGED <<pulls, review, github, workers, faults>>
    BY DEF RetryEnqueue, RetryJob
  <2> QED BY <1>1, <1>4, <2>1, <2>2, <2>3 DEF Enqueues, NoRequest
<1> HIDE DEF r
<1> QED
  BY <1>1, <1>4, <1>5, EnqueueStep

-----------------------------------------------------------------------------
(* A request begins, fails, or resets its row.                              *)

LEMMA RetryFaultStep == ASSUME IInv, NEW q \in Requests, RetryFault(q) PROVE IInv'
<1>0. TypeOK /\ QueueOK /\ WorkersOK /\ VerdictsOK
  BY DEF IInv
<1> USE <1>0
<1>1. /\ requests[q].pc # "idle" /\ requests' = [requests EXCEPT ![q] = NoRequest]
      /\ faults' \in 0..MaxFaults /\ faults' >= faults /\ faults' > 0
  BY JobsAssumption DEF RetryFault, TypeOK
<1>2. pulls' = pulls /\ jobs' = jobs /\ added' = added /\ review' = review
      /\ github' = github /\ workers' = workers
  BY DEF RetryFault
<1>3. requests' \in [Requests -> [pc : {"idle", "reset", "enqueue"}, r : Reviews \cup {None}]]
      /\ \A o \in Requests : requests'[o] = IF o = q THEN NoRequest ELSE requests[o]
  BY <1>1 DEF TypeOK, NoRequest
<1>4. RowsKept
  <2>1. \A j \in Jobs : jobs[j].takes >= jobs[j].takes
    BY DEF TypeOK, JobRows
  <2> QED BY <1>1, <1>2, <1>3, <2>1 DEF RowsKept, NoRequest, TypeOK
<1>5. RowsOK' /\ LeftOK' /\ RetriesOK'
      /\ \A v \in Workers : workers'[v] = workers[v] /\ Stage(v) => Stage(v)'
  BY <1>4, KeepRows
<1>6. QueueOK'
  <2>2. Promised' = Promised - 1 /\ Promised \in Nat
    <3>1. NoRequest.pc = "idle"
      BY DEF NoRequest
    <3> QED BY <1>1, <3>1, PromisedStep, OpenFinite
  <2>3. added + Promised' <= MaxJobs
    BY <2>2, JobsAssumption DEF QueueOK, TypeOK
  <2> QED BY <1>2, <2>3 DEF QueueOK
<1>7. WorkersOK'
  BY <1>2, <1>5 DEF WorkersOK, Busy, Owns, Job, R, At
<1>8. VerdictsOK'
  BY <1>2 DEF VerdictsOK, Verdict, Unstalled, Exists
<1>9. WaitsOK'
  BY <1>1 DEF WaitsOK, Waits
<1>10. TypeOK'
  BY <1>1, <1>2, <1>3 DEF TypeOK, NoRequest, At, R, PrOf, Job
<1> QED
  BY <1>5, <1>6, <1>7, <1>8, <1>9, <1>10 DEF IInv

LEMMA RetryCheckStep ==
    ASSUME IInv, NEW q \in Requests, NEW r \in Reviews, RetryCheck(q, r)
    PROVE  IInv'
<1>0. TypeOK /\ QueueOK /\ WorkersOK /\ RowsOK /\ LeftOK /\ RetriesOK /\ WaitsOK /\ VerdictsOK
  BY DEF IInv
<1> USE <1>0
<1> DEFINE new == [pc |-> "reset", r |-> r]
<1>1. requests[q].pc = "idle" /\ requests' = [requests EXCEPT ![q] = new]
      /\ added + Promised < MaxJobs /\ review[r].status = "FAILED"
  BY DEF RetryCheck, OnlyFailed
<1>2. pulls' = pulls /\ jobs' = jobs /\ added' = added /\ review' = review
      /\ github' = github /\ workers' = workers /\ faults' = faults
  BY DEF RetryCheck
<1>3. requests' \in [Requests -> [pc : {"idle", "reset", "enqueue"}, r : Reviews \cup {None}]]
      /\ \A o \in Requests : requests'[o] = IF o = q THEN new ELSE requests[o]
  BY <1>1 DEF TypeOK
<1>4. QueueOK'
  <2>1. Promised' = Promised + 1 /\ Promised \in Nat
    <3>1. new.pc # "idle"
      OBVIOUS
    <3> HIDE DEF new
    <3> QED BY <1>1, <3>1, PromisedStep, OpenFinite
  <2>2. added' + Promised' <= MaxJobs
    BY <1>1, <1>2, <2>1, JobsAssumption DEF TypeOK
  <2> QED BY <1>2, <2>2 DEF QueueOK
<1>5. RetriesOK'
  <2>1. Left(r)
    BY <1>1 DEF LeftOK
  <2>2. ASSUME NEW o \in Requests, requests'[o].pc # "idle" PROVE Retried(o)'
    BY <1>1, <1>2, <1>3, <2>1, <2>2 DEF RetriesOK, Retried, Left, At, R
  <2> QED BY <2>2 DEF RetriesOK
<1>6. TypeOK'
  <2>1. review[r].pr \in PRs
    BY <1>1 DEF RowsOK, Row
  <2>2. \A v \in Workers : ~At(v, "idle")' => R(v)' \in Reviews /\ PrOf(v)' \in PRs
    BY <1>2 DEF TypeOK, At, R, PrOf, Job
  <2>3. \A o \in Requests : requests'[o].pc # "idle" =>
           requests'[o].r \in Reviews /\ review'[requests'[o].r].pr \in PRs
    BY <1>2, <1>3, <2>1 DEF TypeOK
  <2> QED BY <1>2, <1>3, <2>2, <2>3 DEF TypeOK
<1>7. RowsOK' /\ LeftOK' /\ WorkersOK' /\ VerdictsOK'
  BY <1>2, SameRest
<1>8. WaitsOK'
  BY <1>1, <1>2, <1>3 DEF WaitsOK, Waits
<1> QED
  BY <1>4, <1>5, <1>6, <1>7, <1>8 DEF IInv

LEMMA RetryResetStep == ASSUME IInv, NEW q \in Requests, RetryReset(q) PROVE IInv'
<1>0. TypeOK /\ QueueOK /\ WorkersOK /\ RowsOK /\ LeftOK /\ RetriesOK /\ WaitsOK /\ VerdictsOK
  BY DEF IInv
<1> USE <1>0
<1> DEFINE r == requests[q].r
<1>1. requests[q].pc = "reset" /\ r \in Reviews /\ review[r].pr \in PRs
  BY DEF RetryReset, TypeOK
<1>2. pulls' = pulls /\ jobs' = jobs /\ added' = added /\ github' = github
      /\ workers' = workers /\ faults' = faults
  BY DEF RetryReset
<1>3. Left(r) /\ review[r].status \in {"FAILED", "PENDING", "deleted"}
  BY <1>1 DEF RetriesOK, Retried
<1>4. CASE ~Exists(r) /\ requests' = [requests EXCEPT ![q] = NoRequest] /\ review' = review
  <2>1. requests' \in [Requests -> [pc : {"idle", "reset", "enqueue"}, r : Reviews \cup {None}]]
        /\ \A o \in Requests : requests'[o] = IF o = q THEN NoRequest ELSE requests[o]
    BY <1>4 DEF TypeOK, NoRequest
  <2>2. QueueOK'
    <3>1. NoRequest.pc = "idle"
      BY DEF NoRequest
    <3>2. Promised' = Promised - 1 /\ Promised \in Nat
      BY <1>1, <1>4, <3>1, PromisedStep, OpenFinite
    <3>3. added' + Promised' <= MaxJobs
      BY <1>2, <3>2, JobsAssumption DEF TypeOK, QueueOK
    <3> QED BY <1>2, <3>3 DEF QueueOK
  <2>3. RetriesOK'
    BY <1>2, <1>4, <2>1 DEF RetriesOK, Retried, Left, At, R, NoRequest
  <2>4. TypeOK'
    BY <1>2, <1>4, <2>1 DEF TypeOK, At, R, PrOf, Job, NoRequest
  <2>5. RowsOK' /\ LeftOK' /\ WorkersOK' /\ VerdictsOK'
    BY <1>2, <1>4, SameRest
  <2>6. WaitsOK'
    BY <1>1, <1>2, <1>4, <2>1 DEF WaitsOK, Waits
  <2> QED
    BY <2>2, <2>3, <2>4, <2>5, <2>6 DEF IInv
<1>5. CASE /\ Exists(r)
           /\ review' = [review EXCEPT ![r].status = "PENDING", ![r].retried = TRUE]
           /\ requests' = [requests EXCEPT ![q].pc = "enqueue"]
  <2> DEFINE row == [review[r] EXCEPT !.status = "PENDING", !.retried = TRUE]
  <2>1. /\ row \in ReviewRows /\ row.status = "PENDING" /\ row.retried
        /\ row.pr = review[r].pr /\ row.comments = review[r].comments
        /\ row.posted = review[r].posted /\ row.answer = review[r].answer
        /\ row.createdAt = review[r].createdAt
    <3>1. review[r] \in ReviewRows
      BY <1>1 DEF TypeOK
    <3> QED BY <3>1 DEF ReviewRows
  <2>2. review' = [review EXCEPT ![r] = row]
    BY <1>5
  <2> HIDE DEF row
  <2>3. /\ review' \in [Reviews -> ReviewRows] /\ review'[r] = row
        /\ \A s \in Reviews \ {r} : review'[s] = review[s]
    BY <1>1, <2>1, <2>2 DEF TypeOK
  <2>4. /\ requests' \in [Requests -> [pc : {"idle", "reset", "enqueue"}, r : Reviews \cup {None}]]
        /\ requests'[q] = [pc |-> "enqueue", r |-> r]
        /\ \A o \in Requests \ {q} : requests'[o] = requests[o]
    BY <1>5 DEF TypeOK
  <2>5. review[r].status \in {"FAILED", "PENDING"} /\ review[r].comments = None /\ Row(r)
    BY <1>1, <1>3, <1>5 DEF Exists, RowsOK, Row
  <2>6. Now' = Now
    BY <1>1, <2>1, <2>3, <2>5, NowStep
  <2>7. QueueOK'
    <3>1. \A o \in Requests : requests'[o].pc = "idle" <=> requests[o].pc = "idle"
      BY <1>1, <2>4
    <3>2. Promised' = Promised
      BY <3>1 DEF Promised
    <3> QED BY <1>2, <3>2, SameQueue
  <2>8. \A v \in Workers : R(v)' = R(v) /\ Job(v)' = Job(v) /\ PrOf(v)' = PrOf(v)
           /\ (Owns(v)' <=> Owns(v)) /\ workers'[v] = workers[v] /\ (At(v, "idle")' <=> At(v, "idle"))
    BY <1>2 DEF R, Job, Owns, PrOf, At
  <2>9. WorkersOK'
    <3>1. ASSUME NEW v \in Workers, ~At(v, "idle") PROVE Busy(v)' /\ Stage(v)'
      <4>1. Busy(v) /\ Stage(v) /\ R(v) \in Reviews
        BY <3>1, BusyType DEF WorkersOK
      <4>2. CASE R(v) # r
        BY <1>2, <2>3, <2>8, <4>1, <4>2 DEF Busy, Stage, At
      <4>3. CASE R(v) = r
        <5>1. workers[v].pc = "throw"
          BY <1>3, <3>1, <4>3 DEF Left, At
        <5> QED BY <1>2, <2>1, <2>3, <2>5, <2>8, <4>1, <4>3, <5>1 DEF Busy, Stage, At
      <4> QED BY <4>2, <4>3
    <3> QED BY <2>8, <3>1 DEF WorkersOK
  <2>10. RowsOK'
    <3>1. ASSUME NEW s \in Reviews \ {r} PROVE Row(s)'
      BY <1>2, <2>3, <2>6 DEF RowsOK, Row
    <3>2. \A s \in {r} : Row(s)'
      BY <1>2, <2>1, <2>3, <2>5, <2>6 DEF Row
    <3> QED BY <3>1, <3>2 DEF RowsOK
  <2>11. LeftOK' /\ \A s \in Reviews : Left(s) => Left(s)'
    BY <2>1, <2>3, <2>8 DEF LeftOK, Left, At
  <2>12. RetriesOK'
    <3>1. ASSUME NEW o \in Requests, requests'[o].pc # "idle" PROVE Retried(o)'
      <4>1. requests'[o].r = requests[o].r /\ requests[o].pc # "idle" /\ requests[o].r \in Reviews
        BY <1>1, <2>4, <3>1 DEF TypeOK
      <4>2. Retried(o)
        BY <4>1 DEF RetriesOK
      <4> QED BY <1>1, <1>3, <2>1, <2>3, <2>11, <4>1, <4>2 DEF Retried
    <3> QED BY <3>1 DEF RetriesOK
  <2>13. TypeOK'
    <3>1. \A o \in Requests : requests'[o].pc # "idle" =>
             requests'[o].r \in Reviews /\ review'[requests'[o].r].pr \in PRs
      BY <1>1, <2>1, <2>3, <2>4 DEF TypeOK
    <3> QED BY <1>2, <2>3, <2>4, <2>8, <3>1 DEF TypeOK
  <2>14. WaitsOK'
    BY <1>1, <1>2, <2>3, <2>4 DEF WaitsOK, Waits
  <2>15. VerdictsOK'
    <3>1. ASSUME NEW j \in Jobs PROVE Verdict(j)'
      <4>1. \A t \in Takes : <<j, t>> \in Reviews
        BY DEF Reviews
      <4>2. Verdict(j)
        BY DEF VerdictsOK
      <4>3. \A t \in Takes : /\ review'[<<j, t>>].comments = review[<<j, t>>].comments
                             /\ review'[<<j, t>>].createdAt = review[<<j, t>>].createdAt
                             /\ Exists(<<j, t>>)' <=> Exists(<<j, t>>)
                             /\ review[<<j, t>>].status \in {"COMPLETED", "deleted"} =>
                                   review'[<<j, t>>].status \in {"COMPLETED", "deleted"}
        BY <2>1, <2>3, <2>5, <4>1 DEF Exists
      <4> QED BY <1>2, <4>2, <4>3 DEF Verdict, Unstalled
    <3> QED BY <3>1 DEF VerdictsOK
  <2> QED
    BY <2>7, <2>9, <2>10, <2>11, <2>12, <2>13, <2>14, <2>15 DEF IInv
<1> QED
  BY <1>4, <1>5 DEF RetryReset

LEMMA UninstallStep == ASSUME IInv, NEW p \in PRs, Uninstall(p) PROVE IInv'
<1>0. TypeOK /\ QueueOK /\ WorkersOK /\ RowsOK /\ LeftOK /\ RetriesOK /\ WaitsOK /\ VerdictsOK
  BY DEF IInv
<1> USE <1>0
<1> DEFINE Gone(r) == Exists(r) /\ review[r].pr = p
           Cut(r) == [review[r] EXCEPT !.status = "deleted", !.answer = None, !.createdAt = 0]
<1>1. jobs' = jobs /\ added' = added /\ github' = github /\ workers' = workers
      /\ requests' = requests /\ faults' = faults /\ pulls' = pulls \ {p}
  BY DEF Uninstall
<1>2. \A r \in Reviews :
         /\ Cut(r) \in ReviewRows /\ Cut(r).status = "deleted" /\ Cut(r).pr = review[r].pr
         /\ Cut(r).comments = review[r].comments /\ Cut(r).posted = review[r].posted
         /\ Cut(r).retried = review[r].retried /\ Cut(r).answer = None /\ Cut(r).createdAt = 0
  <2>1. ASSUME NEW r \in Reviews
        PROVE  /\ Cut(r) \in ReviewRows /\ Cut(r).status = "deleted" /\ Cut(r).pr = review[r].pr
               /\ Cut(r).comments = review[r].comments /\ Cut(r).posted = review[r].posted
               /\ Cut(r).retried = review[r].retried /\ Cut(r).answer = None /\ Cut(r).createdAt = 0
    <3>1. review[r] \in ReviewRows
      BY DEF TypeOK
    <3> QED BY <3>1 DEF ReviewRows
  <2> QED BY <2>1
<1>3. review' = [r \in Reviews |-> IF Gone(r) THEN Cut(r) ELSE review[r]]
  BY DEF Uninstall
<1> HIDE DEF Cut
<1>4. ASSUME NEW r \in Reviews
      PROVE  /\ review'[r] \in ReviewRows /\ review'[r].pr = review[r].pr
             /\ review'[r].comments = review[r].comments
             /\ review'[r].posted = review[r].posted /\ review'[r].retried = review[r].retried
             /\ \/ review'[r] = review[r] /\ ~Gone(r)
                \/ /\ Gone(r) /\ review'[r].status = "deleted" /\ review[r].status # "none"
                   /\ review'[r].answer = None /\ review'[r].createdAt = 0
  <2>1. CASE Gone(r)
    <3>1. review'[r] = Cut(r)
      BY <1>3, <2>1
    <3> QED BY <1>2, <2>1, <3>1 DEF Exists
  <2>2. CASE ~Gone(r)
    <3>1. review'[r] = review[r] /\ review[r] \in ReviewRows
      BY <1>3, <2>2 DEF TypeOK
    <3> QED BY <2>2, <3>1
  <2> QED BY <2>1, <2>2
<1>5. review' \in [Reviews -> ReviewRows]
  <2>1. \A r \in Reviews : (IF Gone(r) THEN Cut(r) ELSE review[r]) \in ReviewRows
    BY <1>2 DEF TypeOK
  <2> HIDE DEF Gone
  <2> QED BY <1>3, <2>1
<1>6. Now' = Now /\ Now \in Nat /\ Now > 0
  <2>1. \A r \in Reviews : review'[r].status = "none" <=> review[r].status = "none"
    BY <1>4
  <2>2. Made' = Made
    BY <2>1 DEF Made
  <2>3. Now > 0
    BY MadeFinite, FS_CardinalityType
  <2> QED BY <2>2, <2>3, MadeFinite DEF Now, Made
<1>7. \A v \in Workers : R(v)' = R(v) /\ Job(v)' = Job(v) /\ PrOf(v)' = PrOf(v)
         /\ (Owns(v)' <=> Owns(v)) /\ workers'[v] = workers[v] /\ (At(v, "idle")' <=> At(v, "idle"))
  BY <1>1 DEF R, Job, Owns, PrOf, At
<1>8. QueueOK'
  BY <1>1 DEF QueueOK, Promised
<1>9. WorkersOK'
  <2>1. ASSUME NEW v \in Workers, ~At(v, "idle") PROVE Busy(v)' /\ Stage(v)'
    <3>1. Busy(v) /\ Stage(v) /\ R(v) \in Reviews
      BY <2>1, BusyType DEF WorkersOK
    <3>2. Busy(v)'
      BY <1>1, <1>7, <3>1 DEF Busy
    <3>3. CASE review'[R(v)] = review[R(v)]
      BY <1>1, <1>7, <3>1, <3>2, <3>3 DEF Stage, At
    <3>4. CASE /\ Gone(R(v)) /\ review'[R(v)].status = "deleted" /\ review[R(v)].status # "none"
               /\ review'[R(v)].answer = None
      BY <1>1, <1>4, <1>7, <3>1, <3>2, <3>4 DEF Stage, At
    <3> QED BY <1>4, <3>1, <3>3, <3>4
  <2> QED BY <1>7, <2>1 DEF WorkersOK
<1>10. RowsOK'
  <2>1. ASSUME NEW r \in Reviews PROVE Row(r)'
    <3>1. Row(r)
      BY DEF RowsOK
    <3>2. CASE review'[r] = review[r]
      BY <1>1, <1>6, <3>1, <3>2 DEF Row
    <3>3. CASE /\ Gone(r) /\ review'[r].status = "deleted" /\ review[r].status # "none"
               /\ review'[r].answer = None /\ review'[r].createdAt = 0
      <4>1. review'[r].createdAt < Now'
        BY <1>6, <3>3
      <4> QED BY <1>1, <1>4, <3>1, <3>3, <4>1 DEF Row
    <3> QED BY <1>4, <3>2, <3>3
  <2> QED BY <2>1 DEF RowsOK
<1>11. LeftOK' /\ \A r \in Reviews : Left(r) => Left(r)'
  BY <1>4, <1>7 DEF LeftOK, Left, At
<1>12. RetriesOK'
  <2>1. ASSUME NEW q \in Requests, requests[q].pc # "idle" PROVE Retried(q)'
    <3>1. Retried(q) /\ requests[q].r \in Reviews
      BY <2>1 DEF RetriesOK, TypeOK
    <3> QED BY <1>1, <1>4, <1>11, <3>1 DEF Retried
  <2> QED BY <1>1, <2>1 DEF RetriesOK
<1>13. TypeOK'
  <2>1. \A q \in Requests : requests'[q].pc # "idle" =>
           requests'[q].r \in Reviews /\ review'[requests'[q].r].pr \in PRs
    BY <1>1, <1>4 DEF TypeOK
  <2> QED BY <1>1, <1>5, <1>7, <2>1 DEF TypeOK
<1>14. WaitsOK'
  <2>1. ASSUME NEW r \in Reviews PROVE Waits(r)'
    BY <1>1, <1>4 DEF WaitsOK, Waits
  <2> QED BY <2>1 DEF WaitsOK
<1>15. VerdictsOK'
  <2>1. ASSUME NEW j \in Jobs PROVE Verdict(j)'
    <3>1. \A t \in Takes : <<j, t>> \in Reviews
      BY DEF Reviews
    <3>2. Verdict(j)
      BY DEF VerdictsOK
    <3>3. \A t \in Takes : /\ review'[<<j, t>>].comments = review[<<j, t>>].comments
                           /\ Exists(<<j, t>>)' => Exists(<<j, t>>)
                                  /\ review'[<<j, t>>].createdAt = review[<<j, t>>].createdAt
                           /\ review[<<j, t>>].status \in {"COMPLETED", "deleted"} =>
                                 review'[<<j, t>>].status \in {"COMPLETED", "deleted"}
      BY <1>4, <3>1 DEF Exists
    <3> QED BY <1>1, <3>2, <3>3 DEF Verdict, Unstalled
  <2> QED BY <2>1 DEF VerdictsOK
<1> QED
  BY <1>8, <1>9, <1>10, <1>11, <1>12, <1>13, <1>14, <1>15 DEF IInv

-----------------------------------------------------------------------------
(* The invariant is one.                                                    *)

LEMMA StutterStep == ASSUME IInv, UNCHANGED vars PROVE IInv'
<1>1. pulls' = pulls /\ jobs' = jobs /\ added' = added /\ review' = review /\ github' = github
      /\ workers' = workers /\ requests' = requests /\ faults' = faults
  BY DEF vars
<1>2. TypeOK'
  BY <1>1 DEF IInv, TypeOK, At, R, PrOf, Job
<1>3. QueueOK'
  BY <1>1 DEF IInv, QueueOK, Promised
<1>4. RowsOK' /\ LeftOK' /\ WorkersOK' /\ VerdictsOK'
  BY <1>1, SameRest DEF IInv
<1>5. RetriesOK'
  BY <1>1 DEF IInv, RetriesOK, Retried, Left, At, R
<1>6. WaitsOK'
  BY <1>1 DEF IInv, WaitsOK, Waits
<1> QED
  BY <1>2, <1>3, <1>4, <1>5, <1>6 DEF IInv

LEMMA InitInv == Init => IInv
<1> SUFFICES ASSUME Init PROVE IInv
  OBVIOUS
<1>1. /\ \A j \in Jobs : jobs[j] = NoJob
      /\ \A r \in Reviews : review[r] = NoReview /\ github[r] = NoPost
      /\ \A w \in Workers : workers[w] = Free /\ At(w, "idle")
      /\ \A q \in Requests : requests[q] = NoRequest
  BY DEF Init, Free, At
<1>2. TypeOK
  <2>1. NoJob \in JobRows /\ NoReview \in ReviewRows /\ NoPost \in Posts
    BY DEF NoJob, NoReview, NoPost, JobRows, ReviewRows, Posts
  <2>2. Free \in [pc : WorkerPcs, r : Reviews \cup {None}, found : SUBSET Findings]
        /\ NoRequest \in [pc : {"idle", "reset", "enqueue"}, r : Reviews \cup {None}]
        /\ NoRequest.pc = "idle"
    BY DEF Free, NoRequest, WorkerPcs
  <2> HIDE DEF ReviewRows
  <2> QED BY <1>1, <2>1, <2>2, JobsAssumption DEF Init, TypeOK
<1>3. QueueOK
  <2>1. Promised = 0
    <3>1. Open = {}
      BY <1>1 DEF Open, NoRequest
    <3> QED BY <3>1, FS_EmptySet DEF Promised, Open
  <2> QED BY <1>1, <2>1, JobsAssumption DEF Init, QueueOK, NoJob, Jobs
<1>4. RowsOK
  <2>1. Now > 0
    BY MadeFinite, FS_CardinalityType
  <2>2. /\ NoReview.status = "none" /\ NoReview.comments = None /\ NoReview.answer = None
        /\ NoReview.posted = {} /\ NoReview.createdAt = 0 /\ NoPost.posts = 0
    BY DEF NoReview, NoPost
  <2> QED BY <1>1, <2>1, <2>2 DEF RowsOK, Row
<1>5. WorkersOK /\ LeftOK /\ RetriesOK /\ WaitsOK
  BY <1>1 DEF WorkersOK, LeftOK, RetriesOK, WaitsOK, Waits, NoRequest, NoReview
<1>6. VerdictsOK
  BY <1>1 DEF VerdictsOK, Verdict, Unstalled, Exists, NoJob, NoReview, Reviews
<1> QED
  BY <1>2, <1>3, <1>4, <1>5, <1>6 DEF IInv

LEMMA Inductive == IInv /\ [Next]_vars => IInv'
<1> SUFFICES ASSUME IInv, [Next]_vars PROVE IInv'
  OBVIOUS
<1>1. CASE \E p \in PRs : Submit(p) \/ Uninstall(p)
  BY <1>1, SubmitStep, UninstallStep
<1>2. CASE \E j \in Jobs : Stall(j) \/ \E w \in Workers : Take(w, j)
  BY <1>2, StallStep, TakeStep
<1>3. CASE \E w \in Workers : Work(w)
  BY <1>3, LoadPullStep, CreateReviewStep, FetchDiffStep, CallLlmStep, SaveCompletedStep,
     SaveFailedStep, LoadReviewStep, PostStep, MarkPostedStep, FinishJobStep, FailAttemptStep
     DEF Work
<1>4. CASE \E w \in Workers : Crash(w) \/ DatabaseError(w)
  BY <1>4, CrashStep, DatabaseErrorStep
<1>5. CASE \E q \in Requests : Retry(q) \/ RetryFault(q) \/ \E r \in Reviews : RetryCheck(q, r)
  BY <1>5, RetryResetStep, RetryEnqueueStep, RetryFaultStep, RetryCheckStep DEF Retry
<1>6. CASE UNCHANGED vars
  BY <1>6, StutterStep
<1> QED
  BY <1>1, <1>2, <1>3, <1>4, <1>5, <1>6 DEF Next, Quiet

LEMMA Safety == Spec => []IInv
  BY InitInv, Inductive, PTL DEF Spec

-----------------------------------------------------------------------------
(* What users are shown.                                                    *)

\* a finite choice: some row of p was created last
LEMMA LastCreated ==
    ASSUME TypeOK, RowsOK, NEW p, RowsOf(p) # {}
    PROVE  ShownFor(p) # {}
<1> DEFINE age(r) == Now - review[r].createdAt
           Ages == {age(r) : r \in RowsOf(p)}
<1>1. \A r \in RowsOf(p) : r \in Reviews /\ review[r].createdAt \in Nat /\ Now \in Nat
                           /\ age(r) \in Nat
  BY MadeFinite DEF RowsOf, TypeOK, ReviewRows, RowsOK, Row
<1>2. Ages \subseteq Nat /\ Ages # {}
  BY <1>1
<1>3. PICK a \in Ages : \A b \in Ages : ~(<<b, a>> \in OpToRel(<, Nat))
  <2> HIDE DEF Ages
  <2> QED BY <1>2, NatLessThanWellFounded, WFMin
<1>4. PICK r \in RowsOf(p) : a = age(r)
  OBVIOUS
<1>5. ASSUME NEW s \in RowsOf(p) PROVE review[s].createdAt <= review[r].createdAt
  <2>1. age(s) \in Ages /\ age(s) \in Nat /\ age(r) \in Nat
    BY <1>1
  <2>2. ~(age(s) < age(r))
    BY <1>3, <1>4, <2>1 DEF OpToRel
  <2> QED BY <1>1, <2>2
<1> QED
  BY <1>5 DEF ShownFor

LEMMA LastTakeShown ==
    ASSUME IInv, NEW p \in pulls, NEW j \in Jobs, jobs[j].pr = p, jobs[j].state = "completed"
    PROVE  /\ <<j, jobs[j].takes>> \in RowsOf(p) /\ jobs[j].takes \in Takes
           /\ review[<<j, jobs[j].takes>>].status = "COMPLETED"
<1> DEFINE last == <<j, jobs[j].takes>>
<1>1. jobs[j].takes \in Takes /\ last \in Reviews
      /\ review[last].status \in {"COMPLETED", "deleted"}
  BY DEF IInv, VerdictsOK, Verdict, Reviews
<1>2. Row(last) /\ last[1] = j
  BY <1>1 DEF IInv, RowsOK
<1> HIDE DEF last
<1>3. review[last].pr = p /\ review[last].status = "COMPLETED"
  BY <1>1, <1>2 DEF Row
<1> QED
  BY <1>1, <1>3 DEF RowsOf, Exists, last

LEMMA LastShown ==
    ASSUME IInv, NEW p \in pulls, NEW r \in ShownFor(p),
           \A j \in Jobs : jobs[j].pr = p => jobs[j].state = "completed" /\ jobs[j].stalls = 0
    PROVE  review[r].status = "COMPLETED"
<1> DEFINE j == r[1]
           last == <<j, jobs[j].takes>>
<1>1. r \in Reviews /\ r \in RowsOf(p) /\ Exists(r) /\ review[r].pr = p
      /\ \A s \in RowsOf(p) : review[s].createdAt <= review[r].createdAt
  BY DEF ShownFor, RowsOf
<1>2. j \in Jobs /\ r[2] \in Takes /\ r = <<j, r[2]>>
  BY <1>1 DEF Reviews
<1>3. jobs[j].pr = p /\ r[2] <= jobs[j].takes
  BY <1>1 DEF IInv, RowsOK, Row, Exists
<1>4. jobs[j].state = "completed" /\ jobs[j].stalls = 0
  BY <1>2, <1>3
<1>5. last \in RowsOf(p) /\ jobs[j].takes \in Takes /\ review[last].status = "COMPLETED"
  BY <1>2, <1>3, <1>4, LastTakeShown
<1>6. CASE r[2] = jobs[j].takes
  BY <1>2, <1>5, <1>6
<1>7. CASE r[2] # jobs[j].takes
  <2>1. r[2] < jobs[j].takes
    BY <1>2, <1>3, <1>5, <1>7 DEF Takes
  <2>2. Unstalled(j)
    BY <1>2, <1>4 DEF IInv, VerdictsOK, Verdict
  <2>3. Exists(<<j, r[2]>>) /\ Exists(last)
    BY <1>1, <1>2, <1>5 DEF RowsOf
  <2>4. review[<<j, r[2]>>].createdAt < review[last].createdAt
    BY <1>2, <1>5, <2>1, <2>2, <2>3 DEF Unstalled
  <2>5. review[last].createdAt <= review[r].createdAt
        /\ review[last].createdAt \in Nat /\ review[r].createdAt \in Nat
    BY <1>1, <1>5 DEF RowsOf, IInv, TypeOK, ReviewRows
  <2> HIDE DEF last
  <2> QED BY <1>2, <2>4, <2>5
<1> QED
  BY <1>6, <1>7

-----------------------------------------------------------------------------
(* The refinement of ReviewLifecycle.                                       *)

Status == [r \in Reviews |-> review[r].status]
Comments == [r \in Reviews |-> review[r].comments]
Announced == [r \in Reviews |-> github[r].posts > 0]

LEMMA RowMapped ==
    ASSUME TypeOK, NEW r \in Reviews, NEW row, review' = [review EXCEPT ![r] = row]
    PROVE  /\ Status[r] = review[r].status /\ Comments[r] = review[r].comments
           /\ Status' = [Status EXCEPT ![r] = row.status]
           /\ Comments' = [Comments EXCEPT ![r] = row.comments]
           /\ row.status = review[r].status => Status' = Status
           /\ row.comments = review[r].comments => Comments' = Comments
<1>1. \A s \in Reviews : review'[s] = IF s = r THEN row ELSE review[s]
  BY DEF TypeOK
<1>2. Status[r] = review[r].status /\ Comments[r] = review[r].comments
  BY DEF Status, Comments
<1>3. Status' = [Status EXCEPT ![r] = row.status]
  <2>1. [Status EXCEPT ![r] = row.status]
          = [s \in Reviews |-> IF s = r THEN row.status ELSE review[s].status]
    BY DEF Status
  <2>2. Status' = [s \in Reviews |-> IF s = r THEN row.status ELSE review[s].status]
    BY <1>1 DEF Status
  <2> QED BY <2>1, <2>2
<1>4. Comments' = [Comments EXCEPT ![r] = row.comments]
  <2>1. [Comments EXCEPT ![r] = row.comments]
          = [s \in Reviews |-> IF s = r THEN row.comments ELSE review[s].comments]
    BY DEF Comments
  <2>2. Comments' = [s \in Reviews |-> IF s = r THEN row.comments ELSE review[s].comments]
    BY <1>1 DEF Comments
  <2> QED BY <2>1, <2>2
<1>5. Status = [Status EXCEPT ![r] = Status[r]] /\ Comments = [Comments EXCEPT ![r] = Comments[r]]
  BY DEF Status, Comments
<1> QED
  BY <1>2, <1>3, <1>4, <1>5

LEMMA LifecycleInit == Init => Lifecycle!Init
<1> SUFFICES ASSUME Init PROVE Lifecycle!Init
  OBVIOUS
<1>1. \A r \in Reviews : review[r].status = "none" /\ review[r].comments = None
                         /\ (github[r].posts > 0) = FALSE
  BY DEF Init, NoReview, NoPost
<1> QED
  BY <1>1 DEF Lifecycle!Init

\* the row of r becomes row, as one step of its life or none
Lives(old, row) ==
    \/ row.status = old.status /\ row.comments = old.comments
    \/ old.status = "none" /\ row.status = "PENDING" /\ row.comments = old.comments
    \/ old.status = "PENDING" /\ row.status = "COMPLETED" /\ row.comments \in SUBSET Findings
    \/ old.status = "PENDING" /\ row.status = "FAILED" /\ row.comments = old.comments
    \/ old.status = "FAILED" /\ row.status = "PENDING" /\ row.comments = old.comments

LEMMA RowLives ==
    ASSUME TypeOK, NEW r \in Reviews, NEW row, review' = [review EXCEPT ![r] = row],
           github' = github, Lives(review[r], row)
    PROVE  [Lifecycle!Next]_<<Status, Comments, Announced>>
<1>0. /\ Status[r] = review[r].status /\ Comments[r] = review[r].comments
      /\ Status' = [Status EXCEPT ![r] = row.status]
      /\ Comments' = [Comments EXCEPT ![r] = row.comments]
      /\ row.status = review[r].status => Status' = Status
      /\ row.comments = review[r].comments => Comments' = Comments
      /\ Announced' = Announced
  BY RowMapped DEF Announced
<1>1. CASE row.status = review[r].status /\ row.comments = review[r].comments
  BY <1>0, <1>1
<1>2. CASE review[r].status = "none" /\ row.status = "PENDING" /\ row.comments = review[r].comments
  <2>1. Status[r] = "none" /\ Status' = [Status EXCEPT ![r] = "PENDING"]
        /\ Comments' = Comments /\ Announced' = Announced
    BY <1>0, <1>2
  <2>2. Lifecycle!Begin(r)
    BY <2>1, Zenon DEF Lifecycle!Begin, Lifecycle!Become, Status, Comments, Announced
  <2> QED BY <2>2, Zenon DEF Lifecycle!Next
<1>3. CASE review[r].status = "PENDING" /\ row.status = "COMPLETED" /\ row.comments \in SUBSET Findings
  <2>1. Status[r] = "PENDING" /\ Status' = [Status EXCEPT ![r] = "COMPLETED"]
        /\ Comments' = [Comments EXCEPT ![r] = row.comments] /\ Announced' = Announced
    BY <1>0, <1>3
  <2>2. Lifecycle!Complete(r)
    BY <1>3, <2>1, Zenon DEF Lifecycle!Complete, Lifecycle!Become, Status, Comments, Announced
  <2> QED BY <2>2, Zenon DEF Lifecycle!Next
<1>4. CASE review[r].status = "PENDING" /\ row.status = "FAILED" /\ row.comments = review[r].comments
  <2>1. Status[r] = "PENDING" /\ Status' = [Status EXCEPT ![r] = "FAILED"]
        /\ Comments' = Comments /\ Announced' = Announced
    BY <1>0, <1>4
  <2>2. Lifecycle!Fail(r)
    BY <2>1, Zenon DEF Lifecycle!Fail, Lifecycle!Become, Status, Comments, Announced
  <2> QED BY <2>2, Zenon DEF Lifecycle!Next
<1>5. CASE review[r].status = "FAILED" /\ row.status = "PENDING" /\ row.comments = review[r].comments
  <2>1. Status[r] = "FAILED" /\ Status' = [Status EXCEPT ![r] = "PENDING"]
        /\ Comments' = Comments /\ Announced' = Announced
    BY <1>0, <1>5
  <2>2. Lifecycle!Reset(r)
    BY <2>1, Zenon DEF Lifecycle!Reset, Lifecycle!Become, Status, Comments, Announced
  <2> QED BY <2>2, Zenon DEF Lifecycle!Next
<1> QED
  BY <1>1, <1>2, <1>3, <1>4, <1>5 DEF Lives

\* every step of a worker that writes a row
LEMMA WriteLives ==
    ASSUME IInv, NEW w \in Workers,
           CreateReview(w) \/ CallLlm(w) \/ SaveCompleted(w) \/ SaveFailed(w) \/ MarkPosted(w),
           review' # review
    PROVE  [Lifecycle!Next]_<<Status, Comments, Announced>>
<1>0. TypeOK /\ WorkersOK
  BY DEF IInv
<1> USE <1>0
<1>1. R(w) \in Reviews /\ review[R(w)] \in ReviewRows /\ workers[w].found \in SUBSET Findings
      /\ ~At(w, "idle") /\ github' = github
  BY BusyType DEF CreateReview, CallLlm, SaveCompleted, SaveFailed, MarkPosted, At
<1> DEFINE old == review[R(w)]
<1>2. CASE CreateReview(w)
  <2> DEFINE row == [old EXCEPT !.status = "PENDING", !.pr = PrOf(w), !.createdAt = Now]
  <2>1. review' = [review EXCEPT ![R(w)] = row] /\ old.status = "none"
    BY <1>1, <1>2 DEF CreateReview, WorkersOK, Stage, At
  <2>2. row.status = "PENDING" /\ row.comments = old.comments
    BY <1>1 DEF ReviewRows
  <2> HIDE DEF row
  <2>3. Lives(old, row)
    BY <2>1, <2>2 DEF Lives
  <2> QED BY <1>1, <2>1, <2>3, RowLives
<1>3. CASE CallLlm(w)
  <2>1. PICK found : review' = [review EXCEPT ![R(w)].answer = found]
    BY <1>3 DEF CallLlm
  <2> DEFINE row == [old EXCEPT !.answer = found]
  <2>2. row.status = old.status /\ row.comments = old.comments
    BY <1>1 DEF ReviewRows
  <2>3. review' = [review EXCEPT ![R(w)] = row]
    BY <2>1
  <2> HIDE DEF row
  <2>4. Lives(old, row)
    BY <2>2 DEF Lives
  <2> QED BY <1>1, <2>3, <2>4, RowLives
<1>4. CASE SaveCompleted(w)
  <2> DEFINE row == [old EXCEPT !.status = "COMPLETED", !.comments = workers[w].found]
  <2>1. review' = [review EXCEPT ![R(w)] = row] /\ old.status = "PENDING"
    BY <1>1, <1>4 DEF SaveCompleted, WorkersOK, Stage, At, Exists
  <2>2. row.status = "COMPLETED" /\ row.comments \in SUBSET Findings
    BY <1>1 DEF ReviewRows
  <2> HIDE DEF row
  <2>3. Lives(old, row)
    BY <2>1, <2>2 DEF Lives
  <2> QED BY <1>1, <2>1, <2>3, RowLives
<1>5. CASE SaveFailed(w)
  <2> DEFINE row == [old EXCEPT !.status = "FAILED"]
  <2>1. review' = [review EXCEPT ![R(w)] = row] /\ old.status = "PENDING"
    BY <1>1, <1>5 DEF SaveFailed, WorkersOK, Stage, At, Exists, Caught
  <2>2. row.status = "FAILED" /\ row.comments = old.comments
    BY <1>1 DEF ReviewRows
  <2> HIDE DEF row
  <2>3. Lives(old, row)
    BY <2>1, <2>2 DEF Lives
  <2> QED BY <1>1, <2>1, <2>3, RowLives
<1>6. CASE MarkPosted(w)
  <2> DEFINE row == [old EXCEPT !.posted = old.comments]
  <2>1. review' = [review EXCEPT ![R(w)] = row]
    BY <1>6 DEF MarkPosted
  <2>2. row.status = old.status /\ row.comments = old.comments
    BY <1>1 DEF ReviewRows
  <2> HIDE DEF row
  <2>3. Lives(old, row)
    BY <2>2 DEF Lives
  <2> QED BY <1>1, <2>1, <2>3, RowLives
<1> QED
  BY <1>2, <1>3, <1>4, <1>5, <1>6

LEMMA ResetLives ==
    ASSUME IInv, NEW q \in Requests, RetryReset(q), review' # review
    PROVE  [Lifecycle!Next]_<<Status, Comments, Announced>>
<1>0. TypeOK /\ RetriesOK
  BY DEF IInv
<1> USE <1>0
<1> DEFINE r == requests[q].r
           row == [review[r] EXCEPT !.status = "PENDING", !.retried = TRUE]
<1>1. /\ review' = [review EXCEPT ![r] = row] /\ github' = github /\ r \in Reviews
      /\ review[r].status \in {"FAILED", "PENDING"} /\ review[r] \in ReviewRows
  BY DEF RetryReset, TypeOK, RetriesOK, Retried, Exists
<1>2. row.status = "PENDING" /\ row.comments = review[r].comments
  BY <1>1 DEF ReviewRows
<1> HIDE DEF row, r
<1>3. Lives(review[r], row)
  BY <1>1, <1>2 DEF Lives
<1> QED
  BY <1>1, <1>3, RowLives

LEMMA PostLives ==
    ASSUME IInv, NEW w \in Workers, Post(w), github' # github
    PROVE  [Lifecycle!Next]_<<Status, Comments, Announced>>
<1>0. TypeOK /\ WorkersOK
  BY DEF IInv
<1> USE <1>0
<1>1. PICK r \in Reviews : r = R(w)
  BY BusyType DEF Post, At
<1>2. /\ review' = review
      /\ github' = [github EXCEPT ![r].posts = @ + 1, ![r].shown = workers[w].found \cap Lines]
  BY <1>1 DEF Post
<1>3. github[r] \in Posts /\ github[r].posts = 0 /\ review[r].comments # None
  BY <1>1, BusyType, JobsAssumption DEF Post, At, WorkersOK, Stage, NoPost
<1>4. github'[r].posts = 1 /\ \A s \in Reviews \ {r} : github'[s] = github[s]
  BY <1>2, <1>3 DEF TypeOK, Posts
<1>5. Announced' = [Announced EXCEPT ![r] = TRUE]
  <2>1. [Announced EXCEPT ![r] = TRUE] = [s \in Reviews |-> IF s = r THEN TRUE ELSE github[s].posts > 0]
    BY DEF Announced
  <2>2. \A s \in Reviews : (github'[s].posts > 0) = IF s = r THEN TRUE ELSE github[s].posts > 0
    <3>1. (github'[r].posts > 0) = TRUE
      BY <1>4
    <3>2. \A s \in Reviews \ {r} : (github'[s].posts > 0) = (github[s].posts > 0)
      BY <1>4
    <3> QED BY <3>1, <3>2, Zenon
  <2>3. Announced' = [s \in Reviews |-> IF s = r THEN TRUE ELSE github[s].posts > 0]
    BY <2>2, Zenon DEF Announced
  <2> QED BY <2>1, <2>3
<1>6. Status' = Status /\ Comments' = Comments /\ ~Announced[r] /\ Comments[r] # None
  <2>1. Status' = Status /\ Comments' = Comments /\ Comments[r] # None
    BY <1>2, <1>3 DEF Status, Comments
  <2>2. Announced[r] = (github[r].posts > 0)
    BY Zenon DEF Announced
  <2>3. ~(github[r].posts > 0)
    BY <1>3
  <2> QED BY <2>1, <2>2, <2>3, Zenon
<1>7. Lifecycle!Announce(r)
  BY <1>5, <1>6, Zenon DEF Lifecycle!Announce, Status, Comments, Announced
<1> QED
  BY <1>7, Zenon DEF Lifecycle!Next

LEMMA UninstallLives ==
    ASSUME IInv, NEW p \in PRs, Uninstall(p)
    PROVE  [Lifecycle!Next]_<<Status, Comments, Announced>>
<1>0. TypeOK
  BY DEF IInv
<1> USE <1>0
<1>1. PICK gone \in SUBSET Reviews : gone = {r \in Reviews : Exists(r) /\ review[r].pr = p}
  OBVIOUS
<1>2. \A r \in Reviews : review'[r].comments = review[r].comments
         /\ review'[r].status = IF r \in gone THEN "deleted" ELSE Status[r]
  <2>1. ASSUME NEW r \in Reviews
        PROVE  review'[r].comments = review[r].comments
               /\ review'[r].status = IF r \in gone THEN "deleted" ELSE Status[r]
    <3>1. review[r] \in ReviewRows
      BY DEF TypeOK
    <3> QED BY <1>1, <3>1 DEF Uninstall, Status, ReviewRows
  <2> QED BY <2>1
<1>3. /\ Status' = [r \in Reviews |-> IF r \in gone THEN "deleted" ELSE Status[r]]
      /\ Comments' = Comments /\ Announced' = Announced
  BY <1>2 DEF Status, Comments, Announced, Uninstall
<1>4. \A r \in gone : Status[r] # "none"
  BY <1>1 DEF Status, Exists
<1>5. Lifecycle!Delete(gone)
  BY <1>3, <1>4, Zenon DEF Lifecycle!Delete, Status, Comments, Announced
<1> QED
  BY <1>5, Zenon DEF Lifecycle!Next

LEMMA StepLives ==
    ASSUME IInv, [Next]_vars
    PROVE  [Lifecycle!Next]_<<Status, Comments, Announced>>
<1>1. CASE review' = review /\ github' = github
  BY <1>1 DEF Status, Comments, Announced
<1>2. CASE review' # review
  <2>1. CASE \E w \in Workers : Work(w)
    <3>1. PICK w \in Workers : CreateReview(w) \/ CallLlm(w) \/ SaveCompleted(w) \/ SaveFailed(w)
                               \/ MarkPosted(w)
      BY <1>2, <2>1 DEF Work, LoadPull, FetchDiff, LoadReview, Post, FinishJob, FailAttempt
    <3> QED BY <1>2, <3>1, WriteLives
  <2>2. CASE \E q \in Requests : RetryReset(q)
    BY <1>2, <2>2, ResetLives
  <2>3. CASE \E p \in PRs : Uninstall(p)
    BY <2>3, UninstallLives
  <2> QED
    BY <1>2, <2>1, <2>2, <2>3 DEF Next, vars, Submit, Stall, Take, Crash, DatabaseError, Retry,
       RetryEnqueue, RetryFault, RetryCheck, Quiet
<1>3. CASE github' # github
  <2>1. PICK w \in Workers : Post(w)
    BY <1>3 DEF Next, vars, Submit, Uninstall, Stall, Take, Work, LoadPull, CreateReview, FetchDiff,
       CallLlm, SaveCompleted, SaveFailed, LoadReview, MarkPosted, FinishJob, FailAttempt, Crash,
       DatabaseError, Retry, RetryReset, RetryEnqueue, RetryFault, RetryCheck, Quiet
  <2> QED BY <1>3, <2>1, PostLives
<1> QED
  BY <1>1, <1>2, <1>3

-----------------------------------------------------------------------------
(* How an attempt and a job come to their end.                              *)

\* so many steps at most are left of an attempt
Rank(pc) ==
    CASE pc = "idle" -> 0
      [] pc \in {"throw", "done"} -> 1
      [] pc \in {"saveFailed", "mark"} -> 2
      [] pc = "post" -> 3
      [] pc = "publish" -> 4
      [] pc = "save" -> 5
      [] pc = "llm" -> 6
      [] pc = "diff" -> 7
      [] pc = "create" -> 8
      [] pc = "load" -> 9

LEMMA RankAt ==
    /\ Rank("idle") = 0 /\ Rank("throw") = 1 /\ Rank("done") = 1
    /\ Rank("saveFailed") = 2 /\ Rank("mark") = 2 /\ Rank("post") = 3
    /\ Rank("publish") = 4 /\ Rank("save") = 5 /\ Rank("llm") = 6
    /\ Rank("diff") = 7 /\ Rank("create") = 8 /\ Rank("load") = 9
<1>1. Rank("idle") = 0 /\ Rank("throw") = 1 /\ Rank("done") = 1
  BY DEF Rank
<1>2. Rank("saveFailed") = 2 /\ Rank("mark") = 2 /\ Rank("post") = 3
  BY DEF Rank
<1>3. Rank("publish") = 4 /\ Rank("save") = 5 /\ Rank("llm") = 6
  BY DEF Rank
<1>4. Rank("diff") = 7 /\ Rank("create") = 8 /\ Rank("load") = 9
  BY DEF Rank
<1> QED
  BY <1>1, <1>2, <1>3, <1>4

LEMMA GotoMoves ==
    ASSUME IInv, NEW w \in Workers, NEW pc, Goto(w, pc)
    PROVE  /\ workers'[w].pc = pc /\ R(w)' = R(w)
           /\ \A v \in Workers \ {w} : workers'[v] = workers[v]
<1>1. workers[w] \in [pc : WorkerPcs, r : Reviews \cup {None}, found : SUBSET Findings]
      /\ \A v \in Workers : workers'[v] = IF v = w THEN [workers[w] EXCEPT !.pc = pc] ELSE workers[v]
  BY DEF Goto, IInv, TypeOK
<1> QED
  BY <1>1 DEF R

\* the steps of an attempt before the last
Inner(w) ==
    \/ LoadPull(w) \/ CreateReview(w) \/ FetchDiff(w) \/ CallLlm(w) \/ SaveCompleted(w)
    \/ SaveFailed(w) \/ LoadReview(w) \/ Post(w) \/ MarkPosted(w) \/ DatabaseError(w)

\* They leave the queue, the other workers and the findings of the other rows
\* alone, and the attempt has fewer steps to go.
LEMMA InnerMoves ==
    ASSUME IInv, NEW w \in Workers, Inner(w)
    PROVE  /\ UNCHANGED <<jobs, added>>
           /\ R(w) \in Reviews /\ ~At(w, "idle") /\ ~At(w, "idle")' /\ R(w)' = R(w)
           /\ Rank(workers'[w].pc) < Rank(workers[w].pc)
           /\ \A v \in Workers \ {w} : workers'[v] = workers[v]
           /\ \A r \in Reviews \ {R(w)} : review'[r].comments = review[r].comments
<1>1. UNCHANGED <<jobs, added>>
  BY DEF Inner, LoadPull, CreateReview, FetchDiff, CallLlm, SaveCompleted, SaveFailed, LoadReview,
         Post, MarkPosted, DatabaseError
<1>2. ~At(w, "idle") /\ R(w) \in Reviews
  <2>1. ~At(w, "idle")
    BY DEF Inner, LoadPull, CreateReview, FetchDiff, CallLlm, SaveCompleted, SaveFailed, LoadReview,
           Post, MarkPosted, DatabaseError, At
  <2> QED BY <2>1, BusyType DEF IInv
<1>3. \A r \in Reviews \ {R(w)} : review'[r].comments = review[r].comments
  <2>1. review' = review \/ \E row : review' = [review EXCEPT ![R(w)] = row]
    BY DEF Inner, LoadPull, CreateReview, FetchDiff, CallLlm, SaveCompleted, SaveFailed, LoadReview,
           Post, MarkPosted, DatabaseError
  <2> QED BY <2>1 DEF IInv, TypeOK
<1>4. ASSUME NEW pc, Goto(w, pc), pc # "idle", Rank(pc) < Rank(workers[w].pc)
      PROVE  /\ ~At(w, "idle")' /\ R(w)' = R(w) /\ Rank(workers'[w].pc) < Rank(workers[w].pc)
             /\ \A v \in Workers \ {w} : workers'[v] = workers[v]
  BY <1>4, GotoMoves DEF At
<1>5. CASE LoadPull(w) \/ LoadReview(w)
  <2>1. \/ At(w, "load") /\ (Goto(w, "create") \/ Goto(w, "throw"))
        \/ At(w, "publish") /\ (Goto(w, "post") \/ Goto(w, "done"))
    BY <1>5 DEF LoadPull, LoadReview
  <2> QED BY <1>1, <1>2, <1>3, <1>4, <2>1, RankAt DEF At
<1>6. CASE CreateReview(w) \/ FetchDiff(w)
  <2>1. \/ At(w, "create") /\ (Goto(w, "diff") \/ Goto(w, "throw"))
        \/ At(w, "diff") /\ (Goto(w, "llm") \/ Goto(w, "saveFailed"))
    BY <1>6 DEF CreateReview, FetchDiff
  <2> QED BY <1>1, <1>2, <1>3, <1>4, <2>1, RankAt DEF At
<1>7. CASE CallLlm(w)
  <2>1. CASE At(w, "llm") /\ Goto(w, "saveFailed")
    BY <1>1, <1>2, <1>3, <1>4, <2>1, RankAt DEF At
  <2>2. CASE \E found : At(w, "llm") /\ workers' = [workers EXCEPT ![w].pc = "save", ![w].found = found]
    <3>1. workers[w] \in [pc : WorkerPcs, r : Reviews \cup {None}, found : SUBSET Findings]
      BY DEF IInv, TypeOK
    <3>2. workers'[w].pc = "save" /\ workers'[w].r = workers[w].r /\ workers[w].pc = "llm"
          /\ \A v \in Workers \ {w} : workers'[v] = workers[v]
      BY <2>2, <3>1 DEF IInv, TypeOK, At
    <3> QED BY <1>1, <1>2, <1>3, <3>2, RankAt DEF At, R
  <2> QED BY <1>7, <2>1, <2>2 DEF CallLlm
<1>8. CASE SaveCompleted(w) \/ SaveFailed(w)
  <2>1. \/ At(w, "save") /\ (Goto(w, "publish") \/ Goto(w, "saveFailed"))
        \/ At(w, "saveFailed") /\ Goto(w, "throw")
    BY <1>8 DEF SaveCompleted, SaveFailed, Caught
  <2> QED BY <1>1, <1>2, <1>3, <1>4, <2>1, RankAt DEF At
<1>9. CASE Post(w) \/ MarkPosted(w)
  <2>1. \/ At(w, "post") /\ (Goto(w, "mark") \/ Goto(w, "done"))
        \/ At(w, "mark") /\ Goto(w, "done")
    BY <1>9 DEF Post, MarkPosted, PostError
  <2> QED BY <1>1, <1>2, <1>3, <1>4, <2>1, RankAt DEF At
<1>10. CASE DatabaseError(w)
  <2>1. \/ workers[w].pc \in {"load", "create", "saveFailed"} /\ Goto(w, "throw")
        \/ At(w, "save") /\ Goto(w, "saveFailed")
        \/ workers[w].pc \in {"publish", "mark"} /\ Goto(w, "done")
    BY <1>10 DEF DatabaseError
  <2> QED BY <1>1, <1>2, <1>3, <1>4, <2>1, RankAt DEF At
<1> QED
  BY <1>5, <1>6, <1>7, <1>8, <1>9, <1>10 DEF Inner

LEMMA ReleaseMoves ==
    ASSUME IInv, NEW w \in Workers, ~At(w, "idle"), Release(w)
    PROVE  /\ At(w, "idle")' /\ Rank(workers'[w].pc) < Rank(workers[w].pc)
           /\ \A v \in Workers \ {w} : workers'[v] = workers[v]
<1>1. workers'[w] = Free /\ \A v \in Workers \ {w} : workers'[v] = workers[v]
  BY DEF Release, IInv, TypeOK
<1>2. workers[w].pc \in WorkerPcs \ {"idle"}
  BY DEF IInv, TypeOK, At
<1>3. Rank(workers[w].pc) \in Nat /\ Rank(workers[w].pc) # 0
  BY <1>2, RankAt DEF WorkerPcs
<1> QED
  BY <1>1, <1>3, RankAt DEF Free, At

\* a job is added to the end of the queue
LEMMA AddedLast ==
    ASSUME IInv, NEW p, NEW r, jobs' = Enqueued(p, r), added < MaxJobs
    PROVE  /\ added + 1 \in Jobs /\ jobs[added + 1] = NoJob
           /\ jobs'[added + 1].state = "waiting" /\ jobs'[added + 1].stalls = 0
           /\ \A j \in Jobs \ {added + 1} : jobs'[j] = jobs[j]
<1>1. added \in Nat /\ added + 1 \in Jobs /\ jobs[added + 1] = NoJob /\ added + 1 > added
  BY JobsAssumption DEF IInv, TypeOK, QueueOK, Jobs
<1>2. PICK k : k = added + 1
  OBVIOUS
<1>3. jobs' = [jobs EXCEPT ![k] = [NoJob EXCEPT !.state = "waiting", !.pr = p, !.for = r]]
  BY <1>2 DEF Enqueued
<1>4. jobs'[k] = [NoJob EXCEPT !.state = "waiting", !.pr = p, !.for = r]
      /\ \A j \in Jobs \ {k} : jobs'[j] = jobs[j]
  BY <1>1, <1>2, <1>3 DEF IInv, TypeOK
<1> QED
  BY <1>1, <1>2, <1>4 DEF NoJob

LEMMA EnqueueBound ==
    ASSUME IInv, NEW q \in Requests, RetryEnqueue(q)
    PROVE  added < MaxJobs
<1>1. q \in Open /\ IsFiniteSet(Open) /\ Promised = Cardinality(Open)
  BY OpenFinite DEF Open, RetryEnqueue, Promised
<1>2. Promised \in Nat /\ Promised # 0
  BY <1>1, FS_EmptySet, FS_CardinalityType
<1>3. added + Promised <= MaxJobs /\ added \in Nat
  BY JobsAssumption DEF IInv, TypeOK, QueueOK
<1> QED
  BY <1>2, <1>3, JobsAssumption

LEMMA QueuesLast ==
    ASSUME IInv, (\E p \in PRs : Submit(p)) \/ (\E q \in Requests : RetryEnqueue(q))
    PROVE  /\ added + 1 \in Jobs /\ jobs[added + 1] = NoJob
           /\ jobs'[added + 1].state = "waiting" /\ jobs'[added + 1].stalls = 0
           /\ \A j \in Jobs \ {added + 1} : jobs'[j] = jobs[j]
           /\ UNCHANGED <<review, workers>>
<1>1. added < MaxJobs
  <2>1. CASE \E p \in PRs : Submit(p)
    BY <2>1, OpenFinite, JobsAssumption DEF Submit, IInv, TypeOK
  <2> QED BY <2>1, EnqueueBound
<1>2. \E p, r : jobs' = Enqueued(p, r)
  BY DEF Submit, RetryEnqueue, RetryJob
<1> QED
  BY <1>1, <1>2, AddedLast DEF Submit, RetryEnqueue

-----------------------------------------------------------------------------
(* How many turns a job has left in the queue.                              *)

\* so many times at most the queue changes its record of a job: for each take
\* that is left to it, once to hand it out and once to get it back
Turns(j) ==
    IF jobs[j].state \in {"waiting", "active"}
    THEN 2 * (MaxAttempts + MaxStalled - jobs[j].takes) + (IF jobs[j].state = "active" THEN 1 ELSE 0)
    ELSE 0

TurnsBounded ==
    \A j \in 1..added :
        /\ Turns(j) \in 0..(2 * (MaxAttempts + MaxStalled))
        /\ Turns(j) = 0 <=> jobs[j].state \in {"completed", "failed"}

\* Whatever happens to a job brings it nearer to its end, and whatever a worker
\* does brings it nearer to the end of its attempt, unless it begins one.
WindsDown ==
    [][/\ \A j \in 1..added : jobs'[j] # jobs[j] => Turns(j)' < Turns(j)
       /\ \A w \in Workers : workers'[w] # workers[w] =>
             \/ Rank(workers'[w].pc) < Rank(workers[w].pc)
             \/ \E j \in Jobs : Take(w, j)]_vars

LEMMA TurnsCounted ==
    ASSUME IInv
    PROVE  TurnsBounded
<1> SUFFICES ASSUME NEW j \in 1..added
             PROVE  /\ Turns(j) \in 0..(2 * (MaxAttempts + MaxStalled))
                    /\ Turns(j) = 0 <=> jobs[j].state \in {"completed", "failed"}
  BY DEF TurnsBounded
<1>1. j \in Jobs /\ j <= added
  BY JobsAssumption DEF IInv, TypeOK, Jobs
<1>2. jobs[j] \in JobRows /\ jobs[j].state # "none"
  BY <1>1 DEF IInv, TypeOK, QueueOK
<1>3. MaxAttempts \in Nat /\ MaxStalled \in Nat /\ jobs[j].takes \in Nat /\ jobs[j].fails \in Nat
      /\ jobs[j].stalls \in Nat
  BY <1>2, JobsAssumption DEF JobRows
<1>4. CASE jobs[j].state = "waiting"
  <2>1. jobs[j].takes < MaxAttempts + MaxStalled
    <3>1. jobs[j].fails < MaxAttempts /\ jobs[j].stalls <= MaxStalled
          /\ jobs[j].takes = jobs[j].fails + jobs[j].stalls
      BY <1>1, <1>4 DEF IInv, QueueOK
    <3> QED BY <1>3, <3>1
  <2>2. Turns(j) = 2 * (MaxAttempts + MaxStalled - jobs[j].takes)
    BY <1>3, <1>4 DEF Turns
  <2> QED BY <1>3, <1>4, <2>1, <2>2
<1>5. CASE jobs[j].state = "active"
  <2>1. jobs[j].takes <= MaxAttempts + MaxStalled /\ jobs[j].takes >= 1
    <3>1. jobs[j].fails < MaxAttempts /\ jobs[j].stalls <= MaxStalled
          /\ jobs[j].takes = jobs[j].fails + jobs[j].stalls + 1
      BY <1>1, <1>5 DEF IInv, QueueOK
    <3> QED BY <1>3, <3>1
  <2>2. Turns(j) = 2 * (MaxAttempts + MaxStalled - jobs[j].takes) + 1
    BY <1>3, <1>5 DEF Turns
  <2> QED BY <1>3, <1>5, <2>1, <2>2
<1>6. CASE jobs[j].state \in {"completed", "failed"}
  <2>1. Turns(j) = 0
    BY <1>6 DEF Turns
  <2> QED BY <1>3, <1>6, <2>1
<1> QED
  BY <1>2, <1>4, <1>5, <1>6 DEF JobRows

\* what can happen to the record of a job
LEMMA JobTurns ==
    ASSUME IInv, [Next]_vars, NEW j \in 1..added, jobs'[j] # jobs[j]
    PROVE  \/ /\ jobs[j].state = "waiting" /\ jobs'[j].state = "active"
              /\ jobs'[j].takes = jobs[j].takes + 1
           \/ /\ jobs[j].state = "active" /\ jobs'[j].state \in {"waiting", "completed", "failed"}
              /\ jobs'[j].takes = jobs[j].takes
<1>1. j \in Jobs /\ j # added + 1
  BY JobsAssumption DEF IInv, TypeOK, Jobs
<1>2. jobs[j] \in JobRows
  BY <1>1 DEF IInv, TypeOK
<1>3. CASE \E w \in Workers, i \in Jobs : Take(w, i)
  <2>1. PICK w \in Workers, i \in Jobs : Take(w, i)
    BY <1>3
  <2>2. jobs' = [jobs EXCEPT ![i].state = "active", ![i].owner = w, ![i].takes = @ + 1]
        /\ jobs[i].state = "waiting"
    BY <2>1 DEF Take
  <2>3. i = j
    BY <1>1, <2>2 DEF IInv, TypeOK
  <2> QED BY <1>1, <1>2, <2>2, <2>3 DEF IInv, TypeOK, JobRows
<1>4. CASE \E i \in Jobs : Stall(i)
  <2>1. PICK i \in Jobs : Stall(i)
    BY <1>4
  <2>2. jobs' = [jobs EXCEPT ![i].state = PutBack(i, MayStall(i)), ![i].owner = None,
                             ![i].stalls = @ + 1]
        /\ jobs[i].state = "active"
    BY <2>1 DEF Stall
  <2>3. i = j
    BY <1>1, <2>2 DEF IInv, TypeOK
  <2> QED BY <1>1, <1>2, <2>2, <2>3 DEF IInv, TypeOK, JobRows, PutBack
<1>5. CASE \E w \in Workers : FinishJob(w) \/ FailAttempt(w)
  <2>1. PICK w \in Workers : FinishJob(w) \/ FailAttempt(w)
    BY <1>5
  <2>2. PICK i : i = Job(w)
    OBVIOUS
  <2>3. jobs[i].state = "active"
        /\ \/ jobs' = [jobs EXCEPT ![i].state = "completed", ![i].owner = None]
           \/ jobs' = [jobs EXCEPT ![i].state = PutBack(i, MayRetry(i)), ![i].owner = None,
                                   ![i].fails = @ + 1]
    BY <2>1, <2>2 DEF FinishJob, FailAttempt, Owns
  <2>4. i = j
    BY <1>1, <2>3 DEF IInv, TypeOK
  <2> QED BY <1>1, <1>2, <2>3, <2>4 DEF IInv, TypeOK, JobRows, PutBack
<1>6. CASE (\E p \in PRs : Submit(p)) \/ (\E q \in Requests : RetryEnqueue(q))
  BY <1>1, <1>6, QueuesLast
<1>7. ~UNCHANGED jobs
  OBVIOUS
<1>8. \A w \in Workers : ~Inner(w)
  BY <1>7, InnerMoves
<1>9. /\ \A w \in Workers : ~Crash(w)
      /\ \A q \in Requests : ~RetryFault(q) /\ ~RetryReset(q) /\ \A r \in Reviews : ~RetryCheck(q, r)
      /\ \A p \in PRs : ~Uninstall(p)
  BY <1>7 DEF Crash, RetryFault, RetryReset, RetryCheck, Uninstall
<1> QED
  BY <1>3, <1>4, <1>5, <1>6, <1>7, <1>8, <1>9 DEF Next, Work, Inner, Retry, Quiet, vars

LEMMA WorkerMoves ==
    ASSUME IInv, [Next]_vars, NEW w \in Workers, workers'[w] # workers[w]
    PROVE  \/ Rank(workers'[w].pc) < Rank(workers[w].pc)
           \/ \E j \in Jobs : Take(w, j)
<1>1. ~UNCHANGED workers
  OBVIOUS
<1>2. CASE \E v \in Workers : Inner(v)
  BY <1>2, InnerMoves
<1>3. CASE \E v \in Workers : FinishJob(v) \/ FailAttempt(v) \/ Crash(v)
  <2>1. PICK v \in Workers : ~At(v, "idle") /\ Release(v)
    BY <1>3 DEF FinishJob, FailAttempt, Crash, At
  <2> QED BY <2>1, ReleaseMoves
<1>4. CASE \E v \in Workers, j \in Jobs : Take(v, j)
  <2>1. PICK v \in Workers, j \in Jobs : Take(v, j)
    BY <1>4
  <2>2. v = w
    BY <2>1 DEF Take, IInv, TypeOK
  <2> QED BY <2>1, <2>2
<1>5. /\ \A j \in Jobs : ~Stall(j)
      /\ \A q \in Requests : ~RetryFault(q) /\ ~Retry(q) /\ \A r \in Reviews : ~RetryCheck(q, r)
      /\ \A p \in PRs : ~Uninstall(p) /\ ~Submit(p)
  BY <1>1 DEF Stall, Retry, RetryFault, RetryReset, RetryEnqueue, RetryCheck, Uninstall, Submit
<1> QED
  BY <1>1, <1>2, <1>3, <1>4, <1>5 DEF Next, Work, Inner, Quiet, vars

LEMMA TurnsFall ==
    ASSUME IInv, [Next]_vars, NEW j \in 1..added, jobs'[j] # jobs[j]
    PROVE  Turns(j)' < Turns(j)
<1>1. j \in Jobs
  BY JobsAssumption DEF IInv, TypeOK, Jobs
<1>2. MaxAttempts \in Nat /\ MaxStalled \in Nat /\ jobs[j].takes \in Nat
      /\ jobs[j].takes <= MaxAttempts + MaxStalled
  BY <1>1, JobsAssumption DEF IInv, TypeOK, JobRows, QueueOK
<1>3. CASE jobs[j].state = "waiting" /\ jobs'[j].state = "active" /\ jobs'[j].takes = jobs[j].takes + 1
  BY <1>2, <1>3 DEF Turns
<1>4. CASE jobs[j].state = "active" /\ jobs'[j].state \in {"waiting", "completed", "failed"}
           /\ jobs'[j].takes = jobs[j].takes
  BY <1>2, <1>4 DEF Turns
<1> QED
  BY <1>3, <1>4, JobTurns

-----------------------------------------------------------------------------
(* How often GitHub can be told of one job.                                 *)

\* The takes of a job that have findings or may still store some: one for each
\* time the lock was lost, and the one that holds it or completed the job.  An
\* attempt that throws holds it too, and has stored none.
Live(j) ==
    {t \in Takes : \/ review[<<j, t>>].comments # None
                   \/ \E w \in Workers : ~At(w, "idle") /\ R(w) = <<j, t>>}
Holds(j) == jobs[j].state \in {"active", "completed"}
LiveFor(j) ==
    /\ Cardinality(Live(j)) <= jobs[j].stalls + (IF Holds(j) THEN 1 ELSE 0)
    /\ jobs[j].stalls <= MaxStalled + (IF jobs[j].state = "failed" THEN 1 ELSE 0)
LiveOK == \A j \in Jobs : LiveFor(j)

LEMMA LiveFinite ==
    ASSUME NEW S \in SUBSET Takes
    PROVE  /\ IsFiniteSet(S) /\ Cardinality(S) \in Nat
           /\ \A T \in SUBSET S : Cardinality(T) <= Cardinality(S)
           /\ \A t \in S : Cardinality(S \ {t}) = Cardinality(S) - 1
           /\ \A t \in Takes \ S : Cardinality(S \cup {t}) = Cardinality(S) + 1
<1>1. IsFiniteSet(S)
  <2>1. 1 \in Int /\ MaxAttempts + MaxStalled \in Int
    BY JobsAssumption
  <2> QED BY <2>1, FS_Interval, FS_Subset DEF Takes
<1> QED
  BY <1>1, FS_CardinalityType, FS_Subset, FS_AddElement, FS_RemoveElement

\* a step that adds no such take, and takes no chance away
LEMMA StaysLive ==
    ASSUME IInv, NEW j \in Jobs, LiveFor(j), Live(j)' \subseteq Live(j),
           jobs'[j].stalls = jobs[j].stalls, Holds(j) => Holds(j)',
           jobs[j].state = "failed" => jobs'[j].state = "failed"
    PROVE  LiveFor(j)'
<1>1. jobs[j].stalls \in Nat /\ MaxStalled \in Nat
  BY JobsAssumption DEF IInv, TypeOK, JobRows
<1>2. Live(j) \in SUBSET Takes /\ Live(j)' \in SUBSET Takes
  BY DEF Live
<1>3. /\ Cardinality(Live(j)') <= Cardinality(Live(j))
      /\ Cardinality(Live(j)') \in Nat /\ Cardinality(Live(j)) \in Nat
  BY <1>2, LiveFinite
<1> QED
  BY <1>1, <1>3 DEF LiveFor

\* the findings stay, and no worker begins
LEMMA LiveShrinks ==
    ASSUME NEW j \in Jobs, \A r \in Reviews : review'[r].comments = review[r].comments,
           \A v \in Workers : ~At(v, "idle")' => workers'[v] = workers[v]
    PROVE  Live(j)' \subseteq Live(j)
BY DEF Live, At, R, Reviews

LEMMA InnerLive ==
    ASSUME IInv, LiveOK, NEW w \in Workers, Inner(w)
    PROVE  LiveOK'
<1> SUFFICES ASSUME NEW j \in Jobs PROVE LiveFor(j)'
  BY DEF LiveOK
<1>1. Live(j)' \subseteq Live(j)
  <2> SUFFICES ASSUME NEW t \in Takes, t \in Live(j)' PROVE t \in Live(j)
    BY DEF Live
  <2>1. <<j, t>> \in Reviews
    BY DEF Reviews
  <2>2. CASE <<j, t>> = R(w)
    BY <2>2, InnerMoves DEF Live
  <2>3. CASE <<j, t>> # R(w) /\ review'[<<j, t>>].comments # None
    BY <2>1, <2>3, InnerMoves DEF Live
  <2>4. CASE <<j, t>> # R(w) /\ \E v \in Workers : ~At(v, "idle")' /\ R(v)' = <<j, t>>
    <3>1. PICK v \in Workers : ~At(v, "idle")' /\ R(v)' = <<j, t>>
      BY <2>4
    <3>2. v # w /\ workers'[v] = workers[v]
      BY <2>4, <3>1, InnerMoves
    <3> QED BY <3>1, <3>2 DEF Live, At, R
  <2> QED BY <2>2, <2>3, <2>4 DEF Live
<1> QED
  BY <1>1, InnerMoves, StaysLive DEF LiveOK, Holds

LEMMA TakeLive ==
    ASSUME IInv, LiveOK, NEW w \in Workers, NEW j \in Jobs, Take(w, j)
    PROVE  LiveOK'
<1>1. /\ jobs[j] \in JobRows /\ jobs[j].state = "waiting" /\ review' = review
      /\ jobs' = [jobs EXCEPT ![j].state = "active", ![j].owner = w, ![j].takes = @ + 1]
      /\ workers'[w].r = <<j, jobs[j].takes + 1>>
      /\ \A v \in Workers \ {w} : workers'[v] = workers[v]
  BY DEF Take, IInv, TypeOK, Free
<1>2. PICK k : k = jobs[j].takes + 1
  OBVIOUS
<1>3. ASSUME NEW i \in Jobs \ {j} PROVE LiveFor(i)'
  <2>1. jobs'[i] = jobs[i]
    BY <1>1 DEF IInv, TypeOK
  <2>2. Live(i)' \subseteq Live(i)
    <3> SUFFICES ASSUME NEW v \in Workers, NEW t \in Takes, ~At(v, "idle")', R(v)' = <<i, t>>
                 PROVE  t \in Live(i)
      BY <1>1 DEF Live
    <3>1. v # w
      BY <1>1 DEF R
    <3> QED BY <1>1, <3>1 DEF Live, At, R
  <2> QED BY <2>1, <2>2, StaysLive DEF LiveOK, Holds
<1>4. LiveFor(j)'
  <2>1. jobs'[j].state = "active" /\ jobs'[j].stalls = jobs[j].stalls /\ jobs[j].stalls \in Nat
    BY <1>1 DEF IInv, TypeOK, JobRows
  <2>2. Live(j)' \subseteq Live(j) \cup {k}
    <3> SUFFICES ASSUME NEW v \in Workers, NEW t \in Takes, ~At(v, "idle")', R(v)' = <<j, t>>
                 PROVE  t \in Live(j) \cup {k}
      BY <1>1 DEF Live
    <3>1. CASE v = w
      BY <1>1, <1>2, <3>1 DEF R
    <3>2. CASE v # w
      BY <1>1, <3>2 DEF Live, At, R
    <3> QED BY <3>1, <3>2
  <2>3. Cardinality(Live(j)') <= Cardinality(Live(j)) + 1
    <3>1. Live(j) \in SUBSET Takes /\ Live(j)' \in SUBSET Takes
      BY DEF Live
    <3>2. CASE Live(j)' \subseteq Live(j)
      BY <3>1, <3>2, LiveFinite
    <3>3. CASE ~(Live(j)' \subseteq Live(j))
      <4>1. k \in Takes \ Live(j) /\ Live(j) \cup {k} \in SUBSET Takes
        BY <2>2, <3>1, <3>3
      <4> QED BY <2>2, <3>1, <4>1, LiveFinite
    <3> QED BY <3>2, <3>3
  <2>4. Cardinality(Live(j)) \in Nat /\ Cardinality(Live(j)') \in Nat
    BY LiveFinite DEF Live
  <2>5. Cardinality(Live(j)) <= jobs[j].stalls /\ jobs[j].stalls <= MaxStalled
    BY <1>1, <2>1, JobsAssumption DEF LiveOK, LiveFor, Holds
  <2> QED BY <2>1, <2>3, <2>4, <2>5, JobsAssumption DEF LiveFor, Holds
<1> QED
  BY <1>3, <1>4 DEF LiveOK

LEMMA StallLive ==
    ASSUME IInv, LiveOK, NEW j \in Jobs, Stall(j)
    PROVE  LiveOK'
<1>1. /\ jobs[j] \in JobRows /\ jobs[j].state = "active"
      /\ UNCHANGED <<review, workers>>
      /\ jobs' = [jobs EXCEPT ![j].state = PutBack(j, MayStall(j)), ![j].owner = None,
                              ![j].stalls = @ + 1]
  BY DEF Stall, IInv, TypeOK
<1>2. \A i \in Jobs : Live(i)' \subseteq Live(i)
  BY <1>1, LiveShrinks
<1>3. ASSUME NEW i \in Jobs \ {j} PROVE LiveFor(i)'
  BY <1>1, <1>2, StaysLive DEF LiveOK, Holds, IInv, TypeOK
<1>4. LiveFor(j)'
  <2>1. jobs[j].stalls \in Nat /\ jobs[j].stalls <= MaxStalled /\ MaxStalled \in Nat
    BY <1>1, JobsAssumption DEF LiveOK, LiveFor, JobRows
  <2>2. jobs'[j].state = PutBack(j, MayStall(j)) /\ jobs'[j].stalls = jobs[j].stalls + 1
    BY <1>1 DEF IInv, TypeOK, JobRows
  <2>3. \/ jobs'[j].state = "waiting" /\ jobs[j].stalls < MaxStalled
        \/ jobs'[j].state = "failed"
    BY <2>2 DEF PutBack, MayStall
  <2>4. Live(j) \in SUBSET Takes /\ Live(j)' \in SUBSET Live(j)
    BY <1>2 DEF Live
  <2>5. /\ Cardinality(Live(j)') <= Cardinality(Live(j))
        /\ Cardinality(Live(j)') \in Nat /\ Cardinality(Live(j)) \in Nat
    BY <2>4, LiveFinite
  <2>6. Cardinality(Live(j)) <= jobs[j].stalls + 1
    BY <1>1 DEF LiveOK, LiveFor, Holds
  <2> QED BY <2>1, <2>2, <2>3, <2>5, <2>6 DEF LiveFor, Holds
<1> QED
  BY <1>3, <1>4 DEF LiveOK

\* the last step of an attempt: one that throws has stored nothing
LEMMA LastLive ==
    ASSUME IInv, LiveOK, NEW w \in Workers, FinishJob(w) \/ FailAttempt(w)
    PROVE  LiveOK'
<1>1. /\ ~At(w, "idle") /\ Release(w) /\ review' = review
      /\ R(w) \in Reviews /\ Job(w) \in Jobs /\ R(w) = <<Job(w), R(w)[2]>> /\ R(w)[2] \in Takes
  <2>1. ~At(w, "idle") /\ Release(w) /\ review' = review
    BY DEF FinishJob, FailAttempt, At
  <2> QED BY <2>1, BusyType DEF IInv
<1>2. \A i \in Jobs : Live(i)' \subseteq Live(i)
  BY <1>1, ReleaseMoves, LiveShrinks
<1>3. CASE UNCHANGED jobs
  BY <1>2, <1>3, StaysLive DEF LiveOK, Holds
<1>4. PICK j \in Jobs, t \in Takes : j = Job(w) /\ R(w) = <<j, t>>
  BY <1>1
<1>5. CASE FinishJob(w) /\ Owns(w)
  <2>1. jobs' = [jobs EXCEPT ![j].state = "completed", ![j].owner = None] /\ jobs[j].state = "active"
    BY <1>4, <1>5 DEF FinishJob, Owns
  <2>2. /\ jobs'[j].state = "completed" /\ jobs'[j].stalls = jobs[j].stalls
        /\ \A i \in Jobs \ {j} : jobs'[i] = jobs[i]
    BY <2>1 DEF IInv, TypeOK, JobRows
  <2> QED BY <1>2, <2>1, <2>2, StaysLive DEF LiveOK, Holds
<1>6. CASE FailAttempt(w) /\ Owns(w)
  <2>1. /\ jobs' = [jobs EXCEPT ![j].state = PutBack(j, MayRetry(j)), ![j].owner = None,
                                ![j].fails = @ + 1]
        /\ jobs[j].state = "active" /\ At(w, "throw")
    BY <1>4, <1>6 DEF FailAttempt, Owns
  <2>2. /\ jobs'[j].state \in {"waiting", "failed"} /\ jobs'[j].stalls = jobs[j].stalls
        /\ \A i \in Jobs \ {j} : jobs'[i] = jobs[i]
    BY <2>1 DEF IInv, TypeOK, JobRows, PutBack
  <2>3. t \in Live(j) /\ t \notin Live(j)'
    <3>1. review'[<<j, t>>].comments = None
      BY <1>1, <1>4, <2>1 DEF IInv, WorkersOK, Stage, At
    <3>2. ASSUME NEW v \in Workers, ~At(v, "idle")' PROVE R(v)' # <<j, t>>
      <4>1. v # w /\ workers'[v] = workers[v] /\ ~At(v, "idle")
        BY <1>1, <3>2, ReleaseMoves DEF At
      <4> QED BY <1>1, <1>4, <4>1 DEF IInv, WorkersOK, Busy, R
    <3> QED BY <1>1, <1>4, <3>1, <3>2 DEF Live
  <2>4. LiveFor(j)'
    <3>1. Live(j) \in SUBSET Takes /\ Live(j)' \in SUBSET (Live(j) \ {t})
          /\ Live(j) \ {t} \in SUBSET Takes
      BY <1>2, <2>3 DEF Live
    <3>2. /\ Cardinality(Live(j)') <= Cardinality(Live(j)) - 1
          /\ Cardinality(Live(j)') \in Nat /\ Cardinality(Live(j)) \in Nat
      BY <2>3, <3>1, LiveFinite
    <3>3. /\ Cardinality(Live(j)) <= jobs[j].stalls + 1 /\ jobs[j].stalls <= MaxStalled
          /\ jobs[j].stalls \in Nat /\ MaxStalled \in Nat
      BY <2>1, JobsAssumption DEF LiveOK, LiveFor, Holds, IInv, TypeOK, JobRows
    <3> QED BY <2>2, <3>2, <3>3 DEF LiveFor, Holds
  <2>5. ASSUME NEW i \in Jobs \ {j} PROVE LiveFor(i)'
    BY <1>2, <2>2, <2>5, StaysLive DEF LiveOK, Holds
  <2> QED BY <2>4, <2>5 DEF LiveOK
<1> QED
  BY <1>3, <1>5, <1>6 DEF FinishJob, FailAttempt

LEMMA QueueLive ==
    ASSUME IInv, LiveOK, (\E p \in PRs : Submit(p)) \/ (\E q \in Requests : RetryEnqueue(q))
    PROVE  LiveOK'
<1>1. PICK k \in Jobs :
         /\ jobs[k] = NoJob /\ jobs'[k].state = "waiting" /\ jobs'[k].stalls = 0
         /\ \A j \in Jobs \ {k} : jobs'[j] = jobs[j]
         /\ UNCHANGED <<review, workers>>
  BY QueuesLast
<1>2. \A j \in Jobs : Live(j)' \subseteq Live(j)
  BY <1>1, LiveShrinks
<1> QED
  BY <1>1, <1>2, StaysLive DEF LiveOK, Holds, NoJob

LEMMA LiveInductive ==
    ASSUME IInv, LiveOK, [Next]_vars
    PROVE  LiveOK'
<1>1. ASSUME UNCHANGED jobs, \A r \in Reviews : review'[r].comments = review[r].comments,
             \A v \in Workers : ~At(v, "idle")' => workers'[v] = workers[v]
      PROVE  LiveOK'
  BY <1>1, LiveShrinks, StaysLive DEF LiveOK, Holds
<1>2. CASE UNCHANGED vars
  BY <1>1, <1>2 DEF vars
<1>3. CASE \E w \in Workers : Inner(w)
  BY <1>3, InnerLive
<1>4. CASE \E w \in Workers, j \in Jobs : Take(w, j)
  BY <1>4, TakeLive
<1>5. CASE \E j \in Jobs : Stall(j)
  BY <1>5, StallLive
<1>6. CASE \E w \in Workers : FinishJob(w) \/ FailAttempt(w)
  BY <1>6, LastLive
<1>7. CASE (\E p \in PRs : Submit(p)) \/ (\E q \in Requests : RetryEnqueue(q))
  BY <1>7, QueueLive
<1>8. CASE \E w \in Workers : Crash(w)
  <2>1. PICK w \in Workers : Crash(w)
    BY <1>8
  <2>2. UNCHANGED <<jobs, review>> /\ \A v \in Workers : ~At(v, "idle")' => workers'[v] = workers[v]
    BY <2>1, ReleaseMoves DEF Crash
  <2> QED BY <1>1, <2>2
<1>9. CASE \E q \in Requests : RetryFault(q) \/ \E r \in Reviews : RetryCheck(q, r)
  BY <1>1, <1>9 DEF RetryFault, RetryCheck
<1>10. CASE \E q \in Requests : RetryReset(q)
  <2>1. PICK q \in Requests : RetryReset(q)
    BY <1>10
  <2>2. /\ UNCHANGED <<jobs, workers>>
        /\ \/ review' = review
           \/ \E r : review' = [review EXCEPT ![r].status = "PENDING", ![r].retried = TRUE]
    BY <2>1 DEF RetryReset
  <2>3. \A r \in Reviews : review[r] \in ReviewRows
    BY DEF IInv, TypeOK
  <2>4. ASSUME NEW s \in Reviews PROVE review'[s].comments = review[s].comments
    <3>1. CASE review' = review
      BY <3>1
    <3>2. CASE \E r : review' = [review EXCEPT ![r].status = "PENDING", ![r].retried = TRUE]
      <4>1. PICK r : review' = [review EXCEPT ![r].status = "PENDING", ![r].retried = TRUE]
        BY <3>2
      <4>2. review'[s] = review[s]
            \/ review'[s] = [review[s] EXCEPT !.status = "PENDING", !.retried = TRUE]
        <5>1. review \in [Reviews -> ReviewRows]
          BY DEF IInv, TypeOK
        <5> QED BY <4>1, <5>1
      <4> QED BY <2>3, <4>2 DEF ReviewRows
    <3> QED BY <2>2, <3>1, <3>2
  <2> QED BY <1>1, <2>2, <2>4
<1>11. CASE \E p \in PRs : Uninstall(p)
  <2>1. PICK p \in PRs : Uninstall(p)
    BY <1>11
  <2>2. UNCHANGED <<jobs, workers>>
    BY <2>1 DEF Uninstall
  <2>3. ASSUME NEW r \in Reviews PROVE review'[r].comments = review[r].comments
    <3>1. review[r] \in ReviewRows
      BY DEF IInv, TypeOK
    <3> QED BY <2>1, <3>1 DEF Uninstall, ReviewRows
  <2> QED BY <1>1, <2>2, <2>3
<1> QED
  BY <1>2, <1>3, <1>4, <1>5, <1>6, <1>7, <1>8, <1>9, <1>10, <1>11
     DEF Next, Work, Inner, Retry, Quiet

LEMMA LiveInitial ==
    ASSUME Init
    PROVE  LiveOK
<1> SUFFICES ASSUME NEW j \in Jobs PROVE LiveFor(j)
  BY DEF LiveOK
<1>1. Live(j) = {}
  BY DEF Init, Live, NoReview, Free, At, Reviews
<1>2. jobs[j].stalls = 0 /\ jobs[j].state = "none"
  BY DEF Init, NoJob
<1> QED
  BY <1>1, <1>2, FS_EmptySet, JobsAssumption DEF LiveFor, Holds

-----------------------------------------------------------------------------
(* Who settles a review that is PENDING.                                    *)

\* The review of an attempt is PENDING while the attempt can still settle it,
\* whether the worker has the lock or has lost it; short of a fault, and of a
\* user who resets the row, nobody else's review is.
Settles(w) == workers[w].pc \in {"diff", "llm", "save", "saveFailed"}

HeldRow(r) ==
    review[r].status = "PENDING" /\ ~review[r].retried /\ faults = 0 =>
        \E w \in Workers : Settles(w) /\ R(w) = r

PendingHeld == \A r \in Reviews : HeldRow(r)

LEMMA InnerHeld ==
    ASSUME IInv, PendingHeld, NEW w \in Workers, Inner(w), NEW r \in Reviews
    PROVE  HeldRow(r)'
<1>1. CASE R(w) # r
  <2>1. review'[r] = review[r]
    <3>1. review' = review \/ \E row : review' = [review EXCEPT ![R(w)] = row]
      BY DEF Inner, LoadPull, CreateReview, FetchDiff, CallLlm, SaveCompleted, SaveFailed, LoadReview,
             Post, MarkPosted, DatabaseError
    <3> QED BY <1>1, <3>1 DEF IInv, TypeOK
  <2>2. faults' = faults \/ faults' = faults + 1
    BY DEF Inner, LoadPull, CreateReview, FetchDiff, CallLlm, SaveCompleted, SaveFailed, LoadReview,
           Post, MarkPosted, DatabaseError
  <2>3. faults' = 0 => faults = 0
    BY <2>2, JobsAssumption DEF IInv, TypeOK
  <2>4. \A v \in Workers : R(v) = r => workers'[v] = workers[v]
    BY <1>1, InnerMoves
  <2> QED BY <2>1, <2>3, <2>4 DEF PendingHeld, HeldRow, Settles, R
<1>2. CASE R(w) = r /\ Settles(w)'
  BY <1>2, InnerMoves DEF HeldRow
<1>3. CASE R(w) = r /\ ~Settles(w)'
  <2>1. review[r] \in ReviewRows /\ Stage(w)
    BY InnerMoves DEF IInv, TypeOK, WorkersOK
  <2>2. CASE LoadPull(w) \/ LoadReview(w) \/ Post(w)
    <3>1. workers[w].pc \in {"load", "publish", "post"} /\ review' = review
      BY <2>2 DEF LoadPull, LoadReview, Post, At
    <3>2. review[r].status # "PENDING"
      BY <1>3, <2>1, <3>1 DEF Stage
    <3> QED BY <3>1, <3>2 DEF HeldRow
  <2>3. CASE CreateReview(w)
    <3>1. At(w, "create") /\ (Goto(w, "diff") \/ review' = review)
      BY <2>3 DEF CreateReview
    <3>2. review' = review
      BY <1>3, <3>1, GotoMoves DEF Settles
    <3>3. review[r].status # "PENDING"
      BY <1>3, <2>1, <3>1 DEF Stage, At
    <3> QED BY <3>2, <3>3 DEF HeldRow
  <2>4. CASE FetchDiff(w)
    <3>1. Goto(w, "llm") \/ Goto(w, "saveFailed")
      BY <2>4 DEF FetchDiff
    <3> QED BY <1>3, <3>1, GotoMoves DEF Settles
  <2>5. CASE CallLlm(w)
    <3>1. Goto(w, "saveFailed")
          \/ \E found : workers' = [workers EXCEPT ![w].pc = "save", ![w].found = found]
      BY <2>5 DEF CallLlm
    <3>2. ASSUME NEW found, workers' = [workers EXCEPT ![w].pc = "save", ![w].found = found]
          PROVE  workers'[w].pc = "save"
      BY <3>2 DEF IInv, TypeOK
    <3> QED BY <1>3, <3>1, <3>2, GotoMoves DEF Settles
  <2>6. CASE SaveCompleted(w)
    <3>1. Goto(w, "saveFailed")
          \/ review' = [review EXCEPT ![r].status = "COMPLETED", ![r].comments = workers[w].found]
      BY <1>3, <2>6 DEF SaveCompleted
    <3>2. review' = [review EXCEPT ![r].status = "COMPLETED", ![r].comments = workers[w].found]
      BY <1>3, <3>1, GotoMoves DEF Settles
    <3>3. review'[r].status = "COMPLETED"
      BY <2>1, <3>2 DEF IInv, TypeOK, ReviewRows
    <3> QED BY <3>3 DEF HeldRow
  <2>7. CASE SaveFailed(w)
    <3>1. review' = IF Exists(r) THEN [review EXCEPT ![r].status = "FAILED"] ELSE review
      BY <1>3, <2>7 DEF SaveFailed, Caught
    <3>2. review'[r].status # "PENDING"
      BY <2>1, <3>1 DEF IInv, TypeOK, ReviewRows, Exists
    <3> QED BY <3>2 DEF HeldRow
  <2>8. CASE MarkPosted(w)
    <3>1. At(w, "mark")
          /\ review' = IF Exists(r) THEN [review EXCEPT ![r].posted = review[r].comments] ELSE review
      BY <1>3, <2>8 DEF MarkPosted
    <3>2. review[r].status # "PENDING"
      BY <1>3, <2>1, <3>1 DEF Stage, At
    <3>3. review'[r].status = review[r].status
      BY <2>1, <3>1 DEF IInv, TypeOK, ReviewRows
    <3> QED BY <3>2, <3>3 DEF HeldRow
  <2>9. CASE DatabaseError(w)
    <3>1. faults' = faults + 1 /\ faults \in Nat
      BY <2>9, JobsAssumption DEF DatabaseError, IInv, TypeOK
    <3> QED BY <3>1 DEF HeldRow
  <2> QED BY <2>2, <2>3, <2>4, <2>5, <2>6, <2>7, <2>8, <2>9 DEF Inner
<1> QED
  BY <1>1, <1>2, <1>3

LEMMA HeldInductive ==
    ASSUME IInv, PendingHeld, [Next]_vars
    PROVE  PendingHeld'
<1> SUFFICES ASSUME NEW r \in Reviews PROVE HeldRow(r)'
  BY DEF PendingHeld
<1>0. faults \in Nat /\ review[r] \in ReviewRows
  BY JobsAssumption DEF IInv, TypeOK
<1>1. ASSUME faults' = faults, \A w \in Workers : Settles(w) => workers'[w] = workers[w],
             review'[r].status = "PENDING" /\ ~review'[r].retried =>
                review[r].status = "PENDING" /\ ~review[r].retried
      PROVE  HeldRow(r)'
  BY <1>1 DEF PendingHeld, HeldRow, Settles, R
<1>2. CASE faults' = faults + 1
  BY <1>0, <1>2 DEF HeldRow
<1>3. CASE \E w \in Workers : Inner(w)
  BY <1>3, InnerHeld
<1>4. CASE \E w \in Workers : FinishJob(w) \/ FailAttempt(w)
  <2>1. PICK w \in Workers : FinishJob(w) \/ FailAttempt(w)
    BY <1>4
  <2>2. ~Settles(w) /\ ~At(w, "idle") /\ Release(w) /\ UNCHANGED <<review, faults>>
    BY <2>1 DEF FinishJob, FailAttempt, Settles, At
  <2> QED BY <1>1, <2>2, ReleaseMoves
<1>5. CASE \E w \in Workers, j \in Jobs : Take(w, j)
  <2>1. PICK w \in Workers, j \in Jobs : Take(w, j)
    BY <1>5
  <2>2. /\ ~Settles(w) /\ UNCHANGED <<review, faults>>
        /\ \A v \in Workers \ {w} : workers'[v] = workers[v]
    BY <2>1 DEF Take, Settles, IInv, TypeOK
  <2> QED BY <1>1, <2>2
<1>6. CASE UNCHANGED <<review, workers, faults>>
  BY <1>1, <1>6
<1>7. CASE \E q \in Requests : RetryReset(q)
  <2>1. PICK q \in Requests : RetryReset(q)
    BY <1>7
  <2>2. PICK s : s = requests[q].r
    OBVIOUS
  <2>3. /\ UNCHANGED <<workers, faults>>
        /\ \/ review' = review
           \/ review' = [review EXCEPT ![s].status = "PENDING", ![s].retried = TRUE]
    BY <2>1, <2>2 DEF RetryReset
  <2>4. \/ review'[r] = review[r]
        \/ review'[r] = [review[r] EXCEPT !.status = "PENDING", !.retried = TRUE]
    <3>1. review \in [Reviews -> ReviewRows]
      BY DEF IInv, TypeOK
    <3> QED BY <2>3, <3>1
  <2> QED BY <1>0, <1>1, <2>3, <2>4 DEF ReviewRows
<1>8. CASE \E p \in PRs : Uninstall(p)
  <2>1. PICK p \in PRs : Uninstall(p)
    BY <1>8
  <2>2. UNCHANGED <<workers, faults>>
        /\ \/ review'[r] = review[r]
           \/ review'[r] = [review[r] EXCEPT !.status = "deleted", !.answer = None, !.createdAt = 0]
    BY <2>1 DEF Uninstall
  <2> QED BY <1>0, <1>1, <2>2 DEF ReviewRows
<1>9. ASSUME NEW w \in Workers PROVE ~Crash(w) \/ faults' = faults + 1
  BY DEF Crash
<1>10. ASSUME NEW q \in Requests
       PROVE  /\ RetryFault(q) => faults' = faults + 1
              /\ RetryEnqueue(q) => UNCHANGED <<review, workers, faults>>
              /\ \A s \in Reviews : RetryCheck(q, s) => UNCHANGED <<review, workers, faults>>
  BY DEF RetryFault, RetryEnqueue, RetryCheck
<1>11. /\ \A p \in PRs : Submit(p) => UNCHANGED <<review, workers, faults>>
       /\ \A j \in Jobs : Stall(j) => UNCHANGED <<review, workers, faults>>
  BY DEF Submit, Stall
<1> QED
  BY <1>2, <1>3, <1>4, <1>5, <1>6, <1>7, <1>8, <1>9, <1>10, <1>11
     DEF Next, Work, Inner, Retry, Quiet, vars

-----------------------------------------------------------------------------
(* The theorems.                                                            *)

(* Every variable of the queue, its workers and the retry endpoint stays in    *)
(* its type, for any number of jobs, workers, requests, attempts and faults;   *)
(* in particular a busy worker works on a take of a job that was added.        *)
THEOREM TypeCorrect == Spec => []TypeOK
<1>1. IInv => TypeOK
  BY DEF IInv
<1> QED
  BY <1>1, Safety, PTL

(* GitHub is told at most once of each Review row, although a job may be taken *)
(* again while a worker that lost its lock is still publishing, and of a job   *)
(* by at most maxStalledCount + 1 rows: short of a lost lock, by one.          *)
THEOREM PostsOnce == Spec => []PostsBounded
<1>1. ASSUME IInv, LiveOK PROVE PostsBounded
  <2> SUFFICES ASSUME NEW j \in Jobs
               PROVE  LET posted == {t \in Takes : github[<<j, t>>].posts > 0} IN
                      /\ \A t \in Takes : github[<<j, t>>].posts <= 1
                      /\ Cardinality(posted) <= jobs[j].stalls + 1
                      /\ Cardinality(posted) <= MaxStalled + 1
    BY DEF PostsBounded
  <2> DEFINE posted == {t \in Takes : github[<<j, t>>].posts > 0}
  <2>1. \A t \in Takes : Row(<<j, t>>)
    BY <1>1 DEF IInv, RowsOK, Reviews
  <2>2. \A t \in Takes : github[<<j, t>>].posts <= 1
    BY <2>1 DEF Row
  <2>3. posted \subseteq Live(j)
    BY <2>1 DEF Row, NoPost, Live
  <2>4. /\ Cardinality(posted) <= Cardinality(Live(j))
        /\ Cardinality(posted) \in Nat /\ Cardinality(Live(j)) \in Nat
    <3>1. Live(j) \in SUBSET Takes /\ posted \in SUBSET Takes
      BY DEF Live
    <3> HIDE DEF posted
    <3> QED BY <2>3, <3>1, LiveFinite
  <2>5. jobs[j].stalls \in Nat /\ MaxStalled \in Nat /\ LiveFor(j)
    BY <1>1, JobsAssumption DEF IInv, TypeOK, JobRows, LiveOK
  <2>6. Cardinality(posted) <= jobs[j].stalls + 1 /\ Cardinality(posted) <= MaxStalled + 1
    <3> HIDE DEF posted
    <3> QED BY <2>4, <2>5 DEF LiveFor, Holds
  <2> QED BY <2>2, <2>6
<1>2. Init => LiveOK
  BY LiveInitial
<1>3. IInv /\ LiveOK /\ [Next]_vars => LiveOK'
  BY LiveInductive
<1> QED
  BY <1>1, <1>2, <1>3, Safety, PTL DEF Spec

(* However failures, lost locks, crashes and retries interleave, every job     *)
(* that was added has a number of turns left, none exactly when it is settled, *)
(* and each change of its record uses one up; every step of a worker brings it *)
(* nearer to the end of its attempt.  So no job goes around for ever: what is  *)
(* left of JobsSettle is that the steps that can be taken are taken.           *)
THEOREM JobsWindDown == Spec => []TurnsBounded /\ WindsDown
<1>1. IInv => TurnsBounded
  BY TurnsCounted
<1>2. ASSUME IInv, [Next]_vars
      PROVE  /\ \A j \in 1..added : jobs'[j] # jobs[j] => Turns(j)' < Turns(j)
             /\ \A w \in Workers : workers'[w] # workers[w] =>
                   \/ Rank(workers'[w].pc) < Rank(workers[w].pc)
                   \/ \E j \in Jobs : Take(w, j)
  BY <1>2, TurnsFall, WorkerMoves
<1> QED
  BY <1>1, <1>2, Safety, PTL DEF Spec, WindsDown

(* Short of a fault, a review that a worker started and that is PENDING has a  *)
(* worker at it that will settle it: losing the lock, an uninstall, or other   *)
(* takes of the same job leave none behind.  With JobsWindDown this is what    *)
(* AttemptsResolve needs besides fairness.                                     *)
THEOREM PendingIsHeld == Spec => []PendingHeld
<1>1. Init => PendingHeld
  BY DEF Init, PendingHeld, HeldRow, NoReview
<1>2. IInv /\ PendingHeld /\ [Next]_vars => PendingHeld'
  BY HeldInductive
<1> QED
  BY <1>1, <1>2, Safety, PTL DEF Spec

(* A comment with a line number is marked as posted only if GitHub has it,     *)
(* whoever marks it and whatever was lost on the way.                          *)
THEOREM MarksHonest == Spec => []MarkedLinesShown
<1>1. IInv => MarkedLinesShown
  BY DEF IInv, RowsOK, Row, MarkedLinesShown
<1> QED
  BY <1>1, Safety, PTL

(* A COMPLETED row holds the whole answer of the model, and without a fault a  *)
(* row that was answered is FAILED only when a finding cannot be stored.       *)
THEOREM AnswersStored == Spec => []AnswerStored
<1>1. IInv => AnswerStored
  BY DEF IInv, RowsOK, Row, AnswerStored
<1> QED
  BY <1>1, Safety, PTL

(* Failures and lost locks together never make a job run more often than       *)
(* attempts + maxStalledCount.                                                 *)
THEOREM TakesBounded == Spec => []AttemptsBounded
<1>1. IInv => AttemptsBounded
  BY DEF IInv, QueueOK, AttemptsBounded
<1> QED
  BY <1>1, Safety, PTL

(* A completed job has a review that is COMPLETED or was deleted since, and a  *)
(* job that failed without losing its lock has no review with findings.        *)
THEOREM VerdictsHonest == Spec => []VerdictHonest
<1>1. IInv => VerdictHonest
  BY DEF IInv, VerdictsOK, Verdict, Unstalled, VerdictHonest
<1> QED
  BY <1>1, Safety, PTL

(* Short of a fault, a review that was reset for a retry has a job queued for  *)
(* it or a request about to queue one, even if two requests reset it together. *)
THEOREM RetriesQueued == Spec => []RetryQueued
<1>1. ASSUME IInv PROVE RetryQueued
  <2>1. 1..added \subseteq Jobs
    BY <1>1, JobsAssumption DEF IInv, TypeOK, Jobs
  <2> QED BY <1>1, <2>1 DEF IInv, WaitsOK, Waits, RetryQueued
<1> QED
  BY <1>1, Safety, PTL

(* When all jobs of a pull request were completed and none had lost its lock,  *)
(* the row users are shown exists and is COMPLETED.                            *)
THEOREM ShowsCompleted == Spec => []CompletedShown
<1>1. ASSUME IInv PROVE CompletedShown
  <2> SUFFICES ASSUME NEW p \in pulls, NEW j \in Jobs, jobs[j].pr = p,
                      \A i \in Jobs : jobs[i].pr = p =>
                         jobs[i].state = "completed" /\ jobs[i].stalls = 0
               PROVE  ShownFor(p) # {} /\ \A r \in ShownFor(p) : review[r].status = "COMPLETED"
    BY DEF CompletedShown
  <2>1. RowsOf(p) # {}
    BY <1>1, LastTakeShown
  <2>2. ShownFor(p) # {}
    BY <1>1, <2>1, LastCreated DEF IInv
  <2> QED BY <1>1, <2>2, LastShown
<1> QED
  BY <1>1, Safety, PTL

(* The whole machine implements ReviewLifecycle: an attempt settles its own    *)
(* row once, nothing overwrites COMPLETED, and GitHub is told of a row at most *)
(* once and only after its findings are stored.                                *)
THEOREM Refines == Spec => KeepsLifecycle
<1>1. Init => Lifecycle!Init
  BY LifecycleInit
<1>2. IInv /\ [Next]_vars => [Lifecycle!Next]_<<Status, Comments, Announced>>
  BY StepLives
<1> QED
  BY <1>1, <1>2, Safety, PTL DEF Spec, KeepsLifecycle, Lifecycle!Spec, Status, Comments, Announced

\* A COMPLETED review stays so until it is deleted, its findings are those it
\* was stored with, and what GitHub was told of it, it had.
CompletedForGood ==
    [][\A r \in Reviews :
          /\ review[r].status = "COMPLETED" => review'[r].status \in {"COMPLETED", "deleted"}
          /\ review[r].comments # None => review'[r].comments = review[r].comments
          /\ github[r].posts > 0 => review[r].comments # None /\ github'[r].posts > 0]_vars

(* Neither a late worker, another take of the job, a retry nor a failed        *)
(* publication changes a review that was COMPLETED, its findings, or that      *)
(* GitHub was told of them: what users and GitHub have seen stays true.  It    *)
(* follows from the steps of ReviewLifecycle, which the machine implements.    *)
THEOREM CompletedStays == Spec => CompletedForGood
<1>1. ASSUME IInv, [Next]_vars, NEW r \in Reviews
      PROVE  /\ review[r].status = "COMPLETED" => review'[r].status \in {"COMPLETED", "deleted"}
             /\ review[r].comments # None => review'[r].comments = review[r].comments
             /\ github[r].posts > 0 => review[r].comments # None /\ github'[r].posts > 0
  <2>1. [Lifecycle!Next]_<<Status, Comments, Announced>>
    BY <1>1, StepLives
  <2>2. /\ Status[r] = review[r].status /\ Status'[r] = review'[r].status
        /\ Comments[r] = review[r].comments /\ Comments'[r] = review'[r].comments
        /\ Announced[r] = (github[r].posts > 0) /\ Announced'[r] = (github'[r].posts > 0)
    BY <1>1 DEF Status, Comments, Announced
  <2>3. /\ review[r].status \in {"none", "PENDING", "FAILED"} => review[r].comments = None
        /\ github[r].posts > 0 => review[r].comments # None
    BY <1>1 DEF IInv, RowsOK, Row, NoReview, NoPost
  <2>4. /\ Status[r] = "COMPLETED" => Status'[r] \in {"COMPLETED", "deleted"}
        /\ Comments[r] # None => Comments'[r] = Comments[r]
        /\ Announced[r] => Announced'[r]
    <3>1. CASE UNCHANGED <<Status, Comments, Announced>>
      BY <3>1
    <3>2. CASE \E gone \in SUBSET Reviews : Lifecycle!Delete(gone)
      BY <3>2 DEF Lifecycle!Delete, Status, Comments, Announced
    <3>3. ASSUME NEW s \in Reviews,
                 \/ Lifecycle!Begin(s) \/ Lifecycle!Complete(s) \/ Lifecycle!Fail(s)
                 \/ Lifecycle!Reset(s) \/ Lifecycle!Announce(s)
          PROVE  /\ Status[r] = "COMPLETED" => Status'[r] \in {"COMPLETED", "deleted"}
                 /\ Comments[r] # None => Comments'[r] = Comments[r]
                 /\ Announced[r] => Announced'[r]
      BY <2>2, <2>3, <3>3 DEF Lifecycle!Begin, Lifecycle!Complete, Lifecycle!Fail, Lifecycle!Reset,
         Lifecycle!Announce, Lifecycle!Become, Status, Comments, Announced
    <3> QED BY <2>1, <3>1, <3>2, <3>3 DEF Lifecycle!Next
  <2> QED BY <2>2, <2>3, <2>4
<1>2. ASSUME IInv, [Next]_vars
      PROVE  \A r \in Reviews :
                /\ review[r].status = "COMPLETED" => review'[r].status \in {"COMPLETED", "deleted"}
                /\ review[r].comments # None => review'[r].comments = review[r].comments
                /\ github[r].posts > 0 => review[r].comments # None /\ github'[r].posts > 0
  BY <1>1, <1>2
<1> QED
  BY <1>2, Safety, PTL DEF Spec, CompletedForGood
=============================================================================
