---------------------------- MODULE IngestProofs ----------------------------
EXTENDS Ingest, FiniteSetTheorems, TLAPS

(* The inductive invariant. *)
RunsOK ==
    /\ \A a \in answers : a.run <= received
    /\ \A h \in Handlers : ~At(h, "idle") =>
          /\ hs[h].run <= received
          /\ hs[h].run \notin Done
          /\ hs[h].seen \subseteq Done
          /\ \A k \in Handlers \ {h} : ~At(k, "idle") => hs[k].run # hs[h].run

RowsOK ==
    /\ repo # 0 => repo = epoch
    /\ \A p \in PRs : pull[p] # None => repo = epoch /\ pull[p].row = epoch
    /\ \A h \in Handlers : hs[h].pc \in AfterWrite =>
          hs[h].row <= epoch /\ (hs[h].row = epoch => pull[PrOf(h)] # None)

FilesOK ==
    /\ \A p \in PRs : \A f \in files[p] : f.seen \subseteq Done
    /\ \A h \in Handlers : At(h, "createFiles") /\ hs[h].row = epoch =>
          \A f \in files[PrOf(h)] : f.run \notin hs[h].seen

IInv ==
    /\ TypeOK
    /\ IsFiniteSet(deliveries)
    /\ RunsOK
    /\ RowsOK
    /\ FilesOK
    /\ MixedSnapshotsOverlapped


LEMMA InitInv == Init => IInv
<1> SUFFICES ASSUME Init PROVE IInv
  OBVIOUS
<1>1. TypeOK
  <2>1. Idle \in Locals
    BY IngestAssumption DEF Idle, Locals, Pcs
  <2>2. inst \in [user : Users \cup {None}, suspended : BOOLEAN] \cup {None}
    BY DEF Init
  <2>3. gh \in [PRs -> [open : BOOLEAN, head : Nat]]
    BY DEF Init
  <2> QED
    BY <2>1, <2>2, <2>3, IngestAssumption DEF Init, TypeOK, Complete, At, Idle, AfterWrite, Incarnations
<1>2. IsFiniteSet(deliveries)
  BY FS_EmptySet DEF Init
<1>3. RunsOK /\ RowsOK /\ FilesOK /\ MixedSnapshotsOverlapped
  BY DEF Init, RunsOK, RowsOK, FilesOK, MixedSnapshotsOverlapped, At, Idle, AfterWrite
<1> QED
  BY <1>1, <1>2, <1>3 DEF IInv

(* What Go and Answer, the two ways a handler goes on, do to the types of the *)
(* variables they write; Go is used for a new local state or a mere new pc.   *)
LocalsTyped ==
    /\ hs \in [Handlers -> Locals]
    /\ \A h \in Handlers : Complete(h)
    /\ answers \in SUBSET Answers

LEMMA IdleLocal == Idle \in Locals
  BY IngestAssumption DEF Idle, Locals, Pcs, AfterWrite

LEMMA GoType ==
    ASSUME TypeOK, NEW h \in Handlers, NEW new \in Locals, Go(h, new),
           new.pc # "idle", new.run \in Runs, new.d \in Deliveries,
           new.pc \in AfterWrite => new.row \in Incarnations,
           new.pc = "enqueue" => new.user \in Users
    PROVE  LocalsTyped'
  BY DEF TypeOK, Go, Complete, At, LocalsTyped

LEMMA StepType ==
    ASSUME TypeOK, NEW h \in Handlers, ~At(h, "idle"), NEW pc \in Pcs \ {"idle", "enqueue"},
           Step(h, pc), pc \in AfterWrite => hs[h].row \in Incarnations
    PROVE  LocalsTyped'
<1> DEFINE new == [hs[h] EXCEPT !.pc = pc]
<1>1. /\ new \in Locals /\ new.run \in Runs /\ new.d \in Deliveries
      /\ new.pc = pc /\ new.row = hs[h].row
  <2>1. hs[h] \in Locals /\ hs[h].run \in Runs /\ hs[h].d \in Deliveries
    BY DEF TypeOK, Complete
  <2> QED BY <2>1 DEF Locals
<1>2. Go(h, new)
  BY DEF Step
<1> QED
  <2> HIDE DEF new
  <2> QED BY <1>1, <1>2, GoType

LEMMA AnswerType ==
    ASSUME TypeOK, NEW h \in Handlers, ~At(h, "idle"), NEW result, Answer(h, result),
           result \in {"ignored", "suspended", "noRepository", "duplicate",
                       "filesFailed", "unlinked", "queued", "error"}
    PROVE  LocalsTyped'
<1>1. hs' = [hs EXCEPT ![h] = Idle] /\ Idle \in Locals
  BY IdleLocal DEF Answer
<1>2. hs' \in [Handlers -> Locals] /\ \A k \in Handlers : Complete(k)'
  BY <1>1 DEF TypeOK, Complete, At, Idle, AfterWrite
<1>3. [run |-> hs[h].run, pr |-> PrOf(h), delivery |-> hs[h].d.id, result |-> result] \in Answers
  BY DEF TypeOK, Complete, Answers, PrOf, Deliveries
<1> QED
  BY <1>2, <1>3 DEF Answer, TypeOK, LocalsTyped

LEMMA TypeStep ==
    ASSUME TypeOK, IsFiniteSet(deliveries), Next
    PROVE  TypeOK' /\ IsFiniteSet(deliveries)'
<1>1. ASSUME NEW p \in PRs, GithubOpen(p) \/ GithubPush(p) \/ GithubClose(p) \/ GithubReopen(p)
      PROVE  TypeOK' /\ IsFiniteSet(deliveries)'
  <2>1. gh[p] \in [open : BOOLEAN, head : Nat]
    BY DEF TypeOK
  <2>2. PICK action \in Triggers \cup {"closed"}, new \in [open : BOOLEAN, head : Nat] :
            Deliver(p, action, new)
    <3>1. CASE GithubOpen(p)
      BY <3>1 DEF GithubOpen, Triggers
    <3>2. CASE GithubPush(p)
      BY <2>1, <3>2 DEF GithubPush, Triggers
    <3>3. CASE GithubClose(p)
      BY <2>1, <3>3 DEF GithubClose
    <3>4. CASE GithubReopen(p)
      BY <2>1, <3>4 DEF GithubReopen, Triggers
    <3> QED BY <1>1, <3>1, <3>2, <3>3, <3>4
  <2>3. Cardinality(deliveries) + 1 \in Ids
    BY <2>2, FS_CardinalityType, IngestAssumption DEF Deliver, Ids
  <2>4. deliveries' \in SUBSET Deliveries /\ IsFiniteSet(deliveries')
    <3> DEFINE d == [id |-> Cardinality(deliveries) + 1, pr |-> p, action |-> action,
                     head |-> new.head]
    <3>1. d \in Deliveries
      BY <2>2, <2>3 DEF Deliveries
    <3>2. deliveries' = deliveries \cup {d}
      BY <2>2 DEF Deliver
    <3> HIDE DEF d
    <3> QED BY <3>1, <3>2, FS_AddElement DEF TypeOK
  <2>5. gh' \in [PRs -> [open : BOOLEAN, head : Nat]]
    BY <2>2 DEF Deliver, TypeOK
  <2> QED
    BY <2>2, <2>4, <2>5 DEF Deliver, TypeOK, rows, Complete, At
<1>2. ASSUME Installation
      PROVE  TypeOK' /\ IsFiniteSet(deliveries)'
  <2>1. ASSUME NEW b \in BOOLEAN, hs' = Opened(b)
        PROVE  hs' \in [Handlers -> Locals] /\ \A h \in Handlers : Complete(h)'
    <3>1. ASSUME NEW h \in Handlers
          PROVE  hs'[h] = hs[h] \/ hs'[h] = [hs[h] EXCEPT !.open = TRUE]
      BY <2>1 DEF Opened
    <3>2. hs' = [h \in Handlers |-> hs'[h]]
      BY <2>1 DEF Opened, TypeOK
    <3>3. ASSUME NEW h \in Handlers
          PROVE  hs'[h] \in Locals /\ Complete(h)'
      <4>1. hs[h] \in Locals /\ Complete(h)
        BY DEF TypeOK
      <4>2. CASE hs'[h] = hs[h]
        BY <4>1, <4>2 DEF Complete, At
      <4>3. CASE hs'[h] = [hs[h] EXCEPT !.open = TRUE]
        BY <4>1, <4>3 DEF Complete, At, Locals
      <4> QED BY <3>1, <4>2, <4>3
    <3> QED BY <3>2, <3>3
  <2>2. ASSUME NEW new \in [user : Users \cup {None}, suspended : BOOLEAN], SaveInstallation(new)
        PROVE  TypeOK' /\ IsFiniteSet(deliveries)'
    <3>1. hs' \in [Handlers -> Locals] /\ \A h \in Handlers : Complete(h)'
      BY <2>1, <2>2 DEF SaveInstallation
    <3> QED BY <2>2, <3>1 DEF SaveInstallation, TypeOK, github
  <2>3. UserOf \in Users \cup {None}
    BY DEF UserOf, TypeOK
  <2>4. CASE UpsertInstallation \/ Suspend \/ Unsuspend \/ \E u \in Users : Claim(u)
    BY <2>2, <2>3, <2>4 DEF UpsertInstallation, Suspend, Unsuspend, Claim
  <2>5. CASE AddRepository
    BY <2>5 DEF AddRepository, TypeOK, github, Complete, At
  <2>6. CASE Uninstall
    <3>1. hs' \in [Handlers -> Locals] /\ \A h \in Handlers : Complete(h)'
      BY <2>1, <2>6 DEF Uninstall
    <3>2. epoch' \in Incarnations
      BY <2>6, IngestAssumption DEF Uninstall, TypeOK, Incarnations
    <3> QED BY <2>6, <3>1, <3>2 DEF Uninstall, TypeOK, github
  <2> QED
    BY <1>2, <2>4, <2>5, <2>6 DEF Installation
<1>3. ASSUME NEW h \in Handlers, NEW d \in deliveries, Receive(h, d)
      PROVE  TypeOK' /\ IsFiniteSet(deliveries)'
  <2>0. received + 1 \in Runs
    BY <1>3, IngestAssumption DEF Receive, Room, TypeOK, Runs, Incarnations
  <2>1. received + 1 \in Runs /\ Done \in SUBSET Runs /\ d \in Deliveries /\ Suspended \in BOOLEAN
    BY <1>3, <2>0 DEF TypeOK, Done, Answers, Suspended
  <2>2. LocalsTyped'
    <3>1. CASE d.action \in Triggers
      <4> DEFINE new == [Idle EXCEPT !.pc = "guard", !.run = received + 1, !.seen = Done,
                                     !.open = ~Suspended, !.d = d]
      <4>1. /\ new \in Locals /\ new.pc = "guard"
            /\ new.run \in Runs /\ new.d \in Deliveries
        <5>1. received + 1 \in 0..MaxReceipts /\ "guard" \in Pcs
          BY <2>1, IngestAssumption DEF Runs, Pcs
        <5> QED BY <2>1, <5>1, IdleLocal DEF Locals
      <4>2. Go(h, new)
        BY <1>3, <3>1 DEF Receive
      <4> HIDE DEF new
      <4> QED BY <4>1, <4>2, GoType DEF AfterWrite
    <3>2. CASE d.action \notin Triggers
      BY <1>3, <2>1, <3>2 DEF Receive, LocalsTyped, TypeOK, Answers, Deliveries, Complete, At
    <3> QED BY <3>1, <3>2
  <2> QED
    BY <1>3, <2>1, <2>2 DEF Receive, TypeOK, LocalsTyped, github, rows, Runs
<1>4. ASSUME NEW h \in Handlers, CheckSuspended(h)
      PROVE  TypeOK' /\ IsFiniteSet(deliveries)'
  <2>1. LocalsTyped'
    BY <1>4, StepType, AnswerType DEF CheckSuspended, At, Pcs, AfterWrite
  <2> QED BY <1>4, <2>1 DEF CheckSuspended, TypeOK, LocalsTyped, github, rows
<1>5. ASSUME NEW h \in Handlers, FindRepository(h)
      PROVE  TypeOK' /\ IsFiniteSet(deliveries)'
  <2>1. CASE repo # 0
    <3> DEFINE new == [hs[h] EXCEPT !.pc = "readPr", !.repo = repo]
    <3>1. /\ new \in Locals /\ new.pc = "readPr"
          /\ new.run \in Runs /\ new.d \in Deliveries
      BY <1>5, ZenonT(40) DEF FindRepository, TypeOK, Complete, At, Locals, Pcs
    <3>2. Go(h, new)
      BY <1>5, <2>1 DEF FindRepository
    <3> HIDE DEF new
    <3>3. LocalsTyped'
      BY <3>1, <3>2, GoType DEF AfterWrite
    <3> QED BY <1>5, <3>3 DEF FindRepository, TypeOK, LocalsTyped, github, rows
  <2>2. CASE repo = 0
    <3>1. LocalsTyped'
      BY <1>5, <2>2, StepType DEF FindRepository, At, Pcs, AfterWrite
    <3> QED BY <1>5, <3>1 DEF FindRepository, TypeOK, LocalsTyped, github, rows
  <2> QED BY <2>1, <2>2
<1>6. ASSUME NEW h \in Handlers, FindInstallation(h)
      PROVE  TypeOK' /\ IsFiniteSet(deliveries)'
  <2>1. CASE inst # None
    <3> DEFINE new == [hs[h] EXCEPT !.pc = "saveRepo", !.repo = epoch]
    <3>1. /\ new \in Locals /\ new.pc = "saveRepo"
          /\ new.run \in Runs /\ new.d \in Deliveries
      BY <1>6, ZenonT(40) DEF FindInstallation, TypeOK, Complete, At, Locals, Pcs
    <3>2. Go(h, new)
      BY <1>6, <2>1 DEF FindInstallation
    <3> HIDE DEF new
    <3>3. LocalsTyped'
      BY <3>1, <3>2, GoType DEF AfterWrite
    <3> QED BY <1>6, <3>3 DEF FindInstallation, TypeOK, LocalsTyped, github, rows
  <2>2. CASE inst = None
    <3>1. LocalsTyped'
      BY <1>6, <2>2, AnswerType DEF FindInstallation, At
    <3> QED BY <1>6, <3>1 DEF FindInstallation, TypeOK, LocalsTyped, github, rows
  <2> QED BY <2>1, <2>2
<1>7. ASSUME NEW h \in Handlers, SaveRepository(h)
      PROVE  TypeOK' /\ IsFiniteSet(deliveries)'
  <2>1. LocalsTyped'
    BY <1>7, StepType, AnswerType DEF SaveRepository, At, Pcs, AfterWrite
  <2> QED BY <1>7, <2>1 DEF SaveRepository, TypeOK, LocalsTyped, github
<1>8. ASSUME NEW h \in Handlers, ReadPullRequest(h)
      PROVE  TypeOK' /\ IsFiniteSet(deliveries)'
  <2>1. CASE ~Duplicate(h)
    <3> DEFINE new == [hs[h] EXCEPT !.pc = "writePr", !.known = (pull[PrOf(h)] # None)]
    <3>1. /\ new \in Locals /\ new.pc = "writePr"
          /\ new.run \in Runs /\ new.d \in Deliveries
      BY <1>8, ZenonT(40) DEF ReadPullRequest, TypeOK, Complete, At, Locals, Pcs
    <3>2. Go(h, new)
      BY <1>8, <2>1 DEF ReadPullRequest
    <3> HIDE DEF new
    <3>3. LocalsTyped'
      BY <3>1, <3>2, GoType DEF AfterWrite
    <3> QED BY <1>8, <3>3 DEF ReadPullRequest, TypeOK, LocalsTyped, github, rows
  <2>2. CASE Duplicate(h)
    <3>1. LocalsTyped'
      BY <1>8, <2>2, AnswerType DEF ReadPullRequest, At
    <3> QED BY <1>8, <3>1 DEF ReadPullRequest, TypeOK, LocalsTyped, github, rows
  <2> QED BY <2>1, <2>2
<1>9. ASSUME NEW h \in Handlers, WritePullRequest(h)
      PROVE  TypeOK' /\ IsFiniteSet(deliveries)'
  <2>0. /\ hs[h] \in Locals /\ hs[h].run \in Runs /\ hs[h].d \in Deliveries /\ PrOf(h) \in PRs
    BY <1>9 DEF WritePullRequest, TypeOK, Complete, At, PrOf, Deliveries
  <2>1. CASE Saved(h)
    <3>1. Row(h) \in PullRows
      BY <2>0, <2>1 DEF Saved, Row, TypeOK, PullRows, Deliveries, PrOf, Locals
    <3> DEFINE new == [hs[h] EXCEPT !.pc = "fetch", !.row = Row(h).row]
    <3>2. /\ new \in Locals /\ new.pc = "fetch" /\ new.row \in Incarnations
          /\ new.run \in Runs /\ new.d \in Deliveries
      BY <2>0, <3>1 DEF Locals, Pcs, AfterWrite, PullRows
    <3>3. Go(h, new)
      BY <1>9, <2>1 DEF WritePullRequest
    <3> HIDE DEF new
    <3>4. LocalsTyped'
      BY <3>2, <3>3, GoType
    <3>5. pull' \in [PRs -> PullRows \cup {None}]
      BY <1>9, <2>1, <3>1 DEF WritePullRequest, TypeOK
    <3>6. writes' \in Seq(Writes)
      <4> DEFINE w == [run |-> hs[h].run, seen |-> hs[h].seen, pr |-> PrOf(h),
                       row |-> Row(h).row, delivery |-> hs[h].d.id,
                       head |-> hs[h].d.head]
      <4>1. w \in Writes
        BY <2>0, <3>1 DEF Writes, PullRows, Locals, Deliveries
      <4>2. writes' = Append(writes, w)
        BY <1>9, <2>1 DEF WritePullRequest
      <4> HIDE DEF w
      <4> QED BY <4>1, <4>2 DEF TypeOK
    <3> QED BY <1>9, <3>4, <3>5, <3>6 DEF WritePullRequest, TypeOK, LocalsTyped, github
  <2>2. CASE ~Saved(h)
    <3>1. LocalsTyped'
      BY <1>9, <2>2, AnswerType DEF WritePullRequest, At
    <3> QED BY <1>9, <2>2, <3>1 DEF WritePullRequest, TypeOK, LocalsTyped, github
  <2> QED BY <2>1, <2>2
<1>10. ASSUME NEW h \in Handlers, FetchFiles(h)
       PROVE  TypeOK' /\ IsFiniteSet(deliveries)'
  <2> DEFINE new == [hs[h] EXCEPT !.pc = "deleteFiles", !.head = Fetched(h)]
  <2>1. PrOf(h) \in PRs
    BY <1>10 DEF FetchFiles, TypeOK, Complete, At, PrOf, Deliveries
  <2>2. Fetched(h) \in Nat
    BY <2>1 DEF Fetched, TypeOK
  <2>3. /\ new \in Locals /\ new.pc = "deleteFiles" /\ new.row \in Incarnations
        /\ new.run \in Runs /\ new.d \in Deliveries
    BY <1>10, <2>2, ZenonT(40) DEF FetchFiles, TypeOK, Complete, At, Locals, Pcs, AfterWrite
  <2>4. Go(h, new)
    BY <1>10 DEF FetchFiles
  <2> HIDE DEF new
  <2>5. LocalsTyped'
    BY <2>3, <2>4, GoType
  <2> QED BY <1>10, <2>5 DEF FetchFiles, TypeOK, LocalsTyped, github, rows
<1>11. ASSUME NEW h \in Handlers, DeleteFiles(h)
       PROVE  TypeOK' /\ IsFiniteSet(deliveries)'
  <2>1. hs[h].row \in Incarnations
    BY <1>11 DEF DeleteFiles, TypeOK, Complete, At, AfterWrite
  <2>2. LocalsTyped'
    BY <1>11, <2>1, StepType DEF DeleteFiles, At, Pcs, AfterWrite
  <2> QED BY <1>11, <2>2 DEF DeleteFiles, Remaining, TypeOK, LocalsTyped, github
<1>12. ASSUME NEW h \in Handlers, CreateFiles(h)
       PROVE  TypeOK' /\ IsFiniteSet(deliveries)'
  <2>1. hs[h].row \in Incarnations
    BY <1>12 DEF CreateFiles, TypeOK, Complete, At, AfterWrite
  <2>2. LocalsTyped'
    BY <1>12, <2>1, StepType DEF CreateFiles, At, Pcs, AfterWrite
  <2>3. [run |-> hs[h].run, seen |-> hs[h].seen, head |-> hs[h].head] \in FileRows
    BY <1>12 DEF CreateFiles, TypeOK, Complete, At, FileRows, Locals
  <2>4. files' \in [PRs -> SUBSET FileRows]
    BY <1>12, <2>3 DEF CreateFiles, Created, TypeOK
  <2> QED BY <1>12, <2>2, <2>4 DEF CreateFiles, TypeOK, LocalsTyped, github
<1>13. ASSUME NEW h \in Handlers, FilesFail(h)
       PROVE  TypeOK' /\ IsFiniteSet(deliveries)'
  <2>1. hs[h].row \in Incarnations
    BY <1>13 DEF FilesFail, InTry, TypeOK, Complete, AfterWrite
  <2>2. LocalsTyped'
    BY <1>13, <2>1, StepType DEF FilesFail, InTry, At, Pcs, AfterWrite
  <2> QED BY <1>13, <2>2 DEF FilesFail, TypeOK, LocalsTyped, github, rows
<1>14. ASSUME NEW h \in Handlers, MarkFailed(h)
       PROVE  TypeOK' /\ IsFiniteSet(deliveries)'
  <2>1. LocalsTyped'
    BY <1>14, AnswerType DEF MarkFailed, At
  <2>2. pull' \in [PRs -> PullRows \cup {None}]
    BY <1>14 DEF MarkFailed, Held, TypeOK, PullRows
  <2> QED BY <1>14, <2>1, <2>2 DEF MarkFailed, TypeOK, LocalsTyped, github
<1>15. ASSUME NEW h \in Handlers, ReadLink(h)
       PROVE  TypeOK' /\ IsFiniteSet(deliveries)'
  <2>1. CASE UserOf # None
    <3> DEFINE new == [hs[h] EXCEPT !.pc = "enqueue", !.user = UserOf]
    <3>1. /\ new \in Locals /\ new.pc = "enqueue" /\ new.row \in Incarnations
          /\ new.run \in Runs /\ new.d \in Deliveries /\ new.user \in Users
      <4>1. UserOf \in Users
        BY <2>1 DEF UserOf, TypeOK
      <4>2. /\ hs[h] \in Locals /\ hs[h].row \in Incarnations
            /\ hs[h].run \in Runs /\ hs[h].d \in Deliveries
        BY <1>15 DEF ReadLink, TypeOK, Complete, At, AfterWrite
      <4> QED BY <4>1, <4>2 DEF Locals, Pcs, AfterWrite
    <3>2. Go(h, new)
      BY <1>15, <2>1 DEF ReadLink
    <3> HIDE DEF new
    <3>3. LocalsTyped'
      BY <3>1, <3>2, GoType
    <3> QED BY <1>15, <3>3 DEF ReadLink, TypeOK, LocalsTyped, github, rows
  <2>2. CASE UserOf = None
    <3>1. LocalsTyped'
      BY <1>15, <2>2, AnswerType DEF ReadLink, At
    <3> QED BY <1>15, <3>1 DEF ReadLink, TypeOK, LocalsTyped, github, rows
  <2> QED BY <2>1, <2>2
<1>16. ASSUME NEW h \in Handlers, Enqueue(h)
       PROVE  TypeOK' /\ IsFiniteSet(deliveries)'
  <2>1. LocalsTyped'
    BY <1>16, AnswerType DEF Enqueue, At
  <2>2. [run |-> hs[h].run, pr |-> PrOf(h), row |-> hs[h].row, delivery |-> hs[h].d.id,
         user |-> hs[h].user, open |-> hs[h].open] \in JobRows
    BY <1>16 DEF Enqueue, TypeOK, Complete, At, AfterWrite, JobRows, Locals, Deliveries, PrOf
  <2> QED BY <1>16, <2>1, <2>2 DEF Enqueue, TypeOK, LocalsTyped, github, rows
<1>17. ASSUME NEW h \in Handlers, Abort(h)
       PROVE  TypeOK' /\ IsFiniteSet(deliveries)'
  <2>1. LocalsTyped'
    BY <1>17, AnswerType DEF Abort
  <2>2. aborts' \in 0..MaxFaults
    BY <1>17, IngestAssumption DEF Abort, TypeOK, Incarnations
  <2> QED BY <1>17, <2>1, <2>2 DEF Abort, TypeOK, LocalsTyped, github, rows
<1> QED
  BY <1>1, <1>2, <1>3, <1>4, <1>5, <1>6, <1>7, <1>8, <1>9, <1>10, <1>11, <1>12,
     <1>13, <1>14, <1>15, <1>16, <1>17
  DEF Next, Github, Handle

-----------------------------------------------------------------------------
(* For the rest of the invariant a step is one of a few kinds: a quiet one,   *)
(* an answer, or one of the steps that write the tables.                      *)
SameLocal(k) ==
    /\ hs'[k].run = hs[k].run /\ hs'[k].seen = hs[k].seen /\ hs'[k].d = hs[k].d
    /\ hs'[k].pc = "idle" <=> hs[k].pc = "idle"
    /\ hs'[k].pc \in AfterWrite => hs[k].pc \in AfterWrite /\ hs'[k].row = hs[k].row
    /\ hs'[k].pc = "createFiles" => hs[k].pc = "createFiles"

SameRows ==
    /\ epoch' = epoch /\ repo' \in {repo, epoch}
    /\ \A p \in PRs : pull[p] = None <=> pull'[p] = None
    /\ \A p \in PRs : pull[p] # None => pull'[p].row = pull[p].row

Quiet ==
    /\ \A k \in Handlers : SameLocal(k)
    /\ SameRows
    /\ files' = files /\ answers' = answers /\ received' = received

Answering(h) ==
    /\ ~At(h, "idle")
    /\ hs' = [hs EXCEPT ![h] = Idle]
    /\ Done' = Done \cup {hs[h].run}
    /\ \A a \in answers' : a \in answers \/ a.run = hs[h].run
    /\ SameRows
    /\ files' = files /\ received' = received

LEMMA AnswerKind ==
    ASSUME TypeOK, NEW h \in Handlers, ~At(h, "idle"), NEW result, Answer(h, result),
           SameRows, files' = files, received' = received
    PROVE  Answering(h)
<1> DEFINE a == [run |-> hs[h].run, pr |-> PrOf(h), delivery |-> hs[h].d.id,
                 result |-> result]
<1>1. answers' = answers \cup {a} /\ a.run = hs[h].run /\ hs' = [hs EXCEPT ![h] = Idle]
  BY DEF Answer
<1> HIDE DEF a
<1>2. Done' = {b.run : b \in answers'} /\ Done = {b.run : b \in answers}
  BY DEF Done
<1>3. Done' = Done \cup {hs[h].run}
  BY <1>1, <1>2
<1> QED BY <1>1, <1>3 DEF Answering

LEMMA GoKind ==
    ASSUME TypeOK, NEW h \in Handlers, NEW new, Go(h, new),
           new.run = hs[h].run, new.seen = hs[h].seen, new.d = hs[h].d,
           new.pc = "idle" <=> hs[h].pc = "idle",
           new.pc \in AfterWrite => hs[h].pc \in AfterWrite /\ new.row = hs[h].row,
           new.pc = "createFiles" => hs[h].pc = "createFiles",
           SameRows, files' = files, received' = received
    PROVE  Quiet
  BY DEF TypeOK, Go, Quiet, SameLocal

LEMMA StepKind ==
    ASSUME TypeOK, NEW h \in Handlers, NEW pc, Step(h, pc), pc # "idle", ~At(h, "idle"),
           pc \in AfterWrite => hs[h].pc \in AfterWrite, pc # "createFiles",
           SameRows, files' = files, received' = received
    PROVE  Quiet
<1> DEFINE new == [hs[h] EXCEPT !.pc = pc]
<1>1. /\ new.run = hs[h].run /\ new.seen = hs[h].seen /\ new.d = hs[h].d
      /\ new.pc = pc /\ new.row = hs[h].row
  BY DEF TypeOK, Locals
<1>2. Go(h, new)
  BY DEF Step
<1> HIDE DEF new
<1> QED BY <1>1, <1>2, GoKind DEF At

LEMMA GoLocal ==
    ASSUME TypeOK, NEW h \in Handlers, NEW new, Go(h, new)
    PROVE  /\ hs'[h] = new /\ answers' = answers
           /\ \A k \in Handlers \ {h} : hs'[k] = hs[k] /\ PrOf(k)' = PrOf(k)
  BY DEF TypeOK, Go, PrOf

LEMMA StepLocal ==
    ASSUME TypeOK, NEW h \in Handlers, NEW pc, Step(h, pc)
    PROVE  /\ hs'[h].pc = pc /\ answers' = answers
           /\ hs'[h].run = hs[h].run /\ hs'[h].seen = hs[h].seen
           /\ hs'[h].row = hs[h].row /\ PrOf(h)' = PrOf(h)
           /\ \A k \in Handlers \ {h} : hs'[k] = hs[k] /\ PrOf(k)' = PrOf(k)
<1>1. hs[h] \in Locals
  BY DEF TypeOK
<1> QED BY <1>1, GoLocal DEF Step, PrOf, Locals

LEMMA WriteLocal ==
    ASSUME TypeOK, NEW h \in Handlers, WritePullRequest(h), Saved(h)
    PROVE  /\ hs'[h].pc = "fetch" /\ answers' = answers
           /\ hs'[h].run = hs[h].run /\ hs'[h].seen = hs[h].seen
           /\ hs'[h].row = Row(h).row /\ PrOf(h)' = PrOf(h)
           /\ \A k \in Handlers \ {h} : hs'[k] = hs[k] /\ PrOf(k)' = PrOf(k)
<1> DEFINE new == [hs[h] EXCEPT !.pc = "fetch", !.row = Row(h).row]
<1>1. /\ new.pc = "fetch" /\ new.row = Row(h).row
      /\ new.run = hs[h].run /\ new.seen = hs[h].seen /\ new.d = hs[h].d
  BY DEF TypeOK, Locals
<1>2. Go(h, new)
  BY DEF WritePullRequest
<1> HIDE DEF new
<1> QED BY <1>1, <1>2, GoLocal DEF PrOf

LEMMA ReceiveLocal ==
    ASSUME TypeOK, NEW h \in Handlers, NEW d \in deliveries, Receive(h, d), d.action \in Triggers
    PROVE  /\ hs'[h].run = received + 1 /\ hs'[h].seen = Done /\ hs'[h].pc = "guard"
           /\ answers' = answers /\ received' = received + 1
           /\ \A k \in Handlers \ {h} : hs'[k] = hs[k] /\ PrOf(k)' = PrOf(k)
<1> DEFINE new == [Idle EXCEPT !.pc = "guard", !.run = received + 1, !.seen = Done,
                               !.open = ~Suspended, !.d = d]
<1>1. new.run = received + 1 /\ new.seen = Done /\ new.pc = "guard"
  BY DEF Idle
<1>2. Go(h, new) /\ received' = received + 1
  BY DEF Receive
<1> HIDE DEF new
<1> QED BY <1>1, <1>2, GoLocal

LEMMA OpenedLocal ==
    ASSUME TypeOK, NEW b \in BOOLEAN, hs' = Opened(b), NEW k \in Handlers
    PROVE  /\ hs'[k].run = hs[k].run /\ hs'[k].seen = hs[k].seen /\ hs'[k].d = hs[k].d
           /\ hs'[k].pc = hs[k].pc /\ hs'[k].row = hs[k].row
<1>1. hs'[k] = hs[k] \/ hs'[k] = [hs[k] EXCEPT !.open = TRUE]
  BY DEF Opened
<1>2. hs[k] \in Locals
  BY DEF TypeOK
<1> QED BY <1>1, <1>2 DEF Locals

LEMMA Kinds ==
    ASSUME TypeOK, Next
    PROVE  \/ Quiet
           \/ Uninstall
           \/ \E h \in Handlers, d \in deliveries : Receive(h, d)
           \/ \E h \in Handlers :
                 \/ Answering(h)
                 \/ WritePullRequest(h) /\ Saved(h)
                 \/ DeleteFiles(h)
                 \/ CreateFiles(h)
<1>1. CASE Github
  BY <1>1 DEF Github, GithubOpen, GithubPush, GithubClose, GithubReopen, Deliver, rows,
              Quiet, SameLocal, SameRows
<1>2. CASE Installation /\ ~Uninstall
  <2>1. ASSUME NEW new, SaveInstallation(new)
        PROVE  Quiet
    <3>1. \A k \in Handlers : hs'[k] = hs[k] \/ hs'[k] = [hs[k] EXCEPT !.open = TRUE]
      BY <2>1 DEF SaveInstallation, Opened
    <3>2. \A k \in Handlers : SameLocal(k)
      <4> TAKE k \in Handlers
      <4>1. hs[k] \in Locals
        BY DEF TypeOK
      <4>2. CASE hs'[k] = hs[k]
        BY <4>2 DEF SameLocal
      <4>3. CASE hs'[k] = [hs[k] EXCEPT !.open = TRUE]
        BY <4>1, <4>3 DEF SameLocal, Locals
      <4> QED BY <3>1, <4>2, <4>3
    <3> QED BY <2>1, <3>2 DEF SaveInstallation, Quiet, SameRows, github
  <2>2. CASE AddRepository
    BY <2>2 DEF AddRepository, Quiet, SameLocal, SameRows, github
  <2> QED
    BY <1>2, <2>1, <2>2 DEF Installation, UpsertInstallation, Suspend, Unsuspend, Claim
<1>3. ASSUME NEW h \in Handlers, Handle(h) \/ Abort(h)
      PROVE  Quiet \/ Answering(h) \/ (WritePullRequest(h) /\ Saved(h)) \/ DeleteFiles(h) \/ CreateFiles(h)
  <2> DEFINE Unchanged == UNCHANGED <<github, received, rows, writes>>
  <2>1. ASSUME Unchanged PROVE SameRows /\ files' = files /\ received' = received
    BY <2>1 DEF SameRows, rows
  <2>2. CASE CheckSuspended(h)
    <3>1. Unchanged BY <2>2 DEF CheckSuspended
    <3> QED BY <2>1, <2>2, <3>1, StepKind, AnswerKind DEF CheckSuspended, At, AfterWrite
  <2>3. CASE FindRepository(h)
    <3>1. Unchanged BY <2>3 DEF FindRepository
    <3>2. CASE repo # 0
      <4> DEFINE new == [hs[h] EXCEPT !.pc = "readPr", !.repo = repo]
      <4>1. /\ new.run = hs[h].run /\ new.seen = hs[h].seen /\ new.d = hs[h].d
            /\ new.pc = "readPr"
        BY DEF TypeOK, Locals
      <4>2. Go(h, new) BY <2>3, <3>2 DEF FindRepository
      <4> HIDE DEF new
      <4> QED BY <2>1, <2>3, <3>1, <4>1, <4>2, GoKind DEF FindRepository, At, AfterWrite
    <3>3. CASE repo = 0
      BY <2>1, <2>3, <3>1, <3>3, StepKind DEF FindRepository, At, AfterWrite
    <3> QED BY <3>2, <3>3
  <2>4. CASE FindInstallation(h)
    <3>1. Unchanged BY <2>4 DEF FindInstallation
    <3>2. CASE inst # None
      <4> DEFINE new == [hs[h] EXCEPT !.pc = "saveRepo", !.repo = epoch]
      <4>1. /\ new.run = hs[h].run /\ new.seen = hs[h].seen /\ new.d = hs[h].d
            /\ new.pc = "saveRepo"
        BY DEF TypeOK, Locals
      <4>2. Go(h, new) BY <2>4, <3>2 DEF FindInstallation
      <4> HIDE DEF new
      <4> QED BY <2>1, <2>4, <3>1, <4>1, <4>2, GoKind DEF FindInstallation, At, AfterWrite
    <3>3. CASE inst = None
      BY <2>1, <2>4, <3>1, <3>3, AnswerKind DEF FindInstallation, At
    <3> QED BY <3>2, <3>3
  <2>5. CASE SaveRepository(h)
    <3>1. SameRows /\ files' = files /\ received' = received
      BY <2>5 DEF SaveRepository, SameRows
    <3> QED BY <2>5, <3>1, StepKind, AnswerKind DEF SaveRepository, At, AfterWrite
  <2>6. CASE ReadPullRequest(h)
    <3>1. Unchanged BY <2>6 DEF ReadPullRequest
    <3>2. CASE ~Duplicate(h)
      <4> DEFINE new == [hs[h] EXCEPT !.pc = "writePr", !.known = (pull[PrOf(h)] # None)]
      <4>1. /\ new.run = hs[h].run /\ new.seen = hs[h].seen /\ new.d = hs[h].d
            /\ new.pc = "writePr"
        BY DEF TypeOK, Locals
      <4>2. Go(h, new) BY <2>6, <3>2 DEF ReadPullRequest
      <4> HIDE DEF new
      <4> QED BY <2>1, <2>6, <3>1, <4>1, <4>2, GoKind DEF ReadPullRequest, At, AfterWrite
    <3>3. CASE Duplicate(h)
      BY <2>1, <2>6, <3>1, <3>3, AnswerKind DEF ReadPullRequest, At
    <3> QED BY <3>2, <3>3
  <2>7. CASE WritePullRequest(h) /\ ~Saved(h)
    <3>1. SameRows /\ files' = files /\ received' = received
      BY <2>7 DEF WritePullRequest, SameRows
    <3> QED BY <2>7, <3>1, AnswerKind DEF WritePullRequest, At
  <2>8. CASE FetchFiles(h)
    <3>1. Unchanged BY <2>8 DEF FetchFiles
    <3> DEFINE new == [hs[h] EXCEPT !.pc = "deleteFiles", !.head = Fetched(h)]
    <3>2. /\ new.run = hs[h].run /\ new.seen = hs[h].seen /\ new.d = hs[h].d
          /\ new.pc = "deleteFiles" /\ new.row = hs[h].row
      BY DEF TypeOK, Locals
    <3>3. Go(h, new) BY <2>8 DEF FetchFiles
    <3> HIDE DEF new
    <3> QED BY <2>1, <2>8, <3>1, <3>2, <3>3, GoKind DEF FetchFiles, At, AfterWrite
  <2>9. CASE FilesFail(h)
    <3>1. Unchanged BY <2>9 DEF FilesFail
    <3> QED BY <2>1, <2>9, <3>1, StepKind DEF FilesFail, InTry, At, AfterWrite
  <2>10. CASE MarkFailed(h)
    <3>1. SameRows /\ files' = files /\ received' = received
      BY <2>10, IngestAssumption DEF MarkFailed, Held, SameRows, TypeOK, PullRows
    <3> QED BY <2>10, <3>1, AnswerKind DEF MarkFailed, At
  <2>11. CASE ReadLink(h)
    <3>1. Unchanged BY <2>11 DEF ReadLink
    <3>2. CASE UserOf # None
      <4> DEFINE new == [hs[h] EXCEPT !.pc = "enqueue", !.user = UserOf]
      <4>1. /\ new.run = hs[h].run /\ new.seen = hs[h].seen /\ new.d = hs[h].d
            /\ new.pc = "enqueue" /\ new.row = hs[h].row
        BY DEF TypeOK, Locals
      <4>2. Go(h, new) BY <2>11, <3>2 DEF ReadLink
      <4> HIDE DEF new
      <4> QED BY <2>1, <2>11, <3>1, <4>1, <4>2, GoKind DEF ReadLink, At, AfterWrite
    <3>3. CASE UserOf = None
      BY <2>1, <2>11, <3>1, <3>3, AnswerKind DEF ReadLink, At
    <3> QED BY <3>2, <3>3
  <2>12. CASE Enqueue(h)
    <3>1. Unchanged BY <2>12 DEF Enqueue
    <3> QED BY <2>1, <2>12, <3>1, AnswerKind DEF Enqueue, At
  <2>13. CASE Abort(h)
    <3>1. Unchanged BY <2>13 DEF Abort
    <3> QED BY <2>1, <2>13, <3>1, AnswerKind DEF Abort
  <2> QED
    BY <1>3, <2>2, <2>3, <2>4, <2>5, <2>6, <2>7, <2>8, <2>9, <2>10, <2>11, <2>12, <2>13
    DEF Handle
<1>4. CASE \E h \in Handlers : (\E d \in deliveries : Receive(h, d)) \/ Handle(h) \/ Abort(h)
  BY <1>3, <1>4
<1> QED
  BY <1>1, <1>2, <1>4 DEF Next

-----------------------------------------------------------------------------
(* Runs: a handling's number is its own and is in Done only once it has ended. *)
LEMMA RunsStep ==
    ASSUME TypeOK, RunsOK, Next
    PROVE  RunsOK'
<1>1. CASE Quiet
  BY <1>1 DEF Quiet, SameLocal, RunsOK, At, Done
<1>2. CASE Uninstall
  <2>1. \A k \in Handlers : hs'[k].run = hs[k].run /\ hs'[k].seen = hs[k].seen
                            /\ (hs'[k].pc = "idle" <=> hs[k].pc = "idle")
    BY <1>2, OpenedLocal DEF Uninstall
  <2> QED BY <1>2, <2>1, ZenonT(40) DEF Uninstall, RunsOK, At, Done
<1>3. ASSUME NEW h \in Handlers, Answering(h)
      PROVE  RunsOK'
  <2>1. hs'[h] = Idle /\ \A k \in Handlers \ {h} : hs'[k] = hs[k]
    BY <1>3 DEF Answering, TypeOK
  <2> QED BY <1>3, <2>1 DEF Answering, RunsOK, At, Idle
<1>4. ASSUME NEW h \in Handlers, NEW d \in deliveries, Receive(h, d)
      PROVE  RunsOK'
  <2>1. \A a \in answers : a.run <= received
    BY DEF RunsOK
  <2>2. received + 1 \notin Done /\ received \in Nat
    BY <2>1 DEF Done, TypeOK
  <2>3. CASE d.action \in Triggers
    <3>1. /\ hs'[h].run = received + 1 /\ hs'[h].seen = Done /\ hs'[h].pc = "guard"
          /\ \A k \in Handlers \ {h} : hs'[k] = hs[k]
          /\ answers' = answers /\ received' = received + 1
      BY <1>4, <2>3, ReceiveLocal
    <3>2. \A k \in Handlers : hs[k].run \in Nat
      BY DEF TypeOK, Locals
    <3>3. Done' = Done
      BY <3>1 DEF Done
    <3>4. \A b \in answers : b.run \in Nat
      BY IngestAssumption DEF TypeOK, Answers, Runs
    <3>5. \A a \in answers' : a.run <= received'
      BY <2>1, <2>2, <3>1, <3>4
    <3>6. \A k \in Handlers : hs'[k].pc # "idle" =>
             /\ hs'[k].run <= received'
             /\ hs'[k].run \notin Done'
             /\ hs'[k].seen \subseteq Done'
      BY <2>2, <3>1, <3>2, <3>3 DEF RunsOK, At
    <3>7. \A k, l \in Handlers : k # l /\ hs'[k].pc # "idle" /\ hs'[l].pc # "idle" =>
             hs'[k].run # hs'[l].run
      BY <2>2, <3>1, <3>2 DEF RunsOK, At
    <3> QED BY <3>5, <3>6, <3>7 DEF RunsOK, At
  <2>4. CASE d.action \notin Triggers
    <3> DEFINE a == [run |-> received + 1, pr |-> d.pr, delivery |-> d.id,
                     result |-> "ignored"]
    <3>1. /\ answers' = answers \cup {a} /\ a.run = received + 1
          /\ hs' = hs /\ received' = received + 1
      BY <1>4, <2>4 DEF Receive
    <3> HIDE DEF a
    <3>2. Done' = Done \cup {received + 1}
      <4>1. Done' = {b.run : b \in answers'}
        BY DEF Done
      <4> QED BY <3>1, <4>1 DEF Done
    <3>3. \A k \in Handlers : hs[k].run \in Nat
      BY DEF TypeOK, Locals
    <3>4. \A b \in answers : b.run \in Nat
      BY IngestAssumption DEF TypeOK, Answers, Runs
    <3> QED BY <2>2, <3>1, <3>2, <3>3, <3>4 DEF RunsOK, At
  <2> QED BY <2>3, <2>4
<1>5. ASSUME NEW h \in Handlers, \/ WritePullRequest(h) /\ Saved(h)
                                 \/ DeleteFiles(h)
                                 \/ CreateFiles(h)
      PROVE  RunsOK'
  <2>1. /\ \A k \in Handlers : hs'[k].run = hs[k].run /\ hs'[k].seen = hs[k].seen
                              /\ (hs'[k].pc = "idle" <=> hs[k].pc = "idle")
        /\ answers' = answers /\ received' = received
    <3>1. received' = received /\ ~At(h, "idle")
      BY <1>5 DEF WritePullRequest, DeleteFiles, CreateFiles, At
    <3>2. CASE WritePullRequest(h) /\ Saved(h)
      BY <3>1, <3>2, WriteLocal DEF At
    <3>3. CASE DeleteFiles(h) \/ CreateFiles(h)
      BY <3>1, <3>3, StepLocal DEF DeleteFiles, CreateFiles, At
    <3> QED BY <1>5, <3>2, <3>3
  <2> QED BY <2>1 DEF RunsOK, At, Done
<1> QED
  BY <1>1, <1>2, <1>3, <1>4, <1>5, Kinds

(* Rows: a handler that holds the uuid of the current incarnation holds a row. *)
LEMMA RowsStep ==
    ASSUME TypeOK, RowsOK, Next
    PROVE  RowsOK'
<1>0. /\ epoch \in Nat
      /\ \A k \in Handlers : /\ hs[k].pc # "idle" => PrOf(k) \in PRs
                             /\ hs[k].row \in Nat
                             /\ hs[k].pc \in AfterWrite => hs[k].pc # "idle"
  BY IngestAssumption DEF TypeOK, Complete, At, PrOf, Deliveries, Incarnations, Locals, AfterWrite
<1>1. CASE Quiet
  <2>1. \A k \in Handlers : /\ hs'[k].pc \in AfterWrite =>
                                 hs[k].pc \in AfterWrite /\ hs'[k].row = hs[k].row
                            /\ PrOf(k)' = PrOf(k)
    BY <1>1 DEF Quiet, SameLocal, PrOf
  <2> QED BY <1>0, <1>1, <2>1 DEF Quiet, SameRows, RowsOK
<1>2. CASE Uninstall
  <2>1. \A k \in Handlers : hs'[k].pc = hs[k].pc /\ hs'[k].row = hs[k].row
    BY <1>2, OpenedLocal DEF Uninstall
  <2>2. /\ epoch' = epoch + 1 /\ repo' = 0
        /\ \A p \in PRs : pull'[p] = None
    BY <1>2 DEF Uninstall
  <2>3. \A k \in Handlers : hs'[k].pc \in AfterWrite => hs'[k].row <= epoch
    BY <2>1 DEF RowsOK
  <2> QED BY <1>0, <2>1, <2>2, <2>3 DEF RowsOK
<1>3. ASSUME NEW h \in Handlers, Answering(h)
      PROVE  RowsOK'
  <2>1. /\ hs'[h].pc \notin AfterWrite
        /\ \A k \in Handlers \ {h} : hs'[k] = hs[k] /\ PrOf(k)' = PrOf(k)
    BY <1>3 DEF Answering, TypeOK, Idle, AfterWrite, PrOf
  <2> QED BY <1>0, <1>3, <2>1 DEF Answering, SameRows, RowsOK
<1>4. ASSUME NEW h \in Handlers, NEW d \in deliveries, Receive(h, d)
      PROVE  RowsOK'
  <2>1. /\ hs'[h].pc \in AfterWrite => hs' = hs
        /\ \A k \in Handlers \ {h} : hs'[k] = hs[k] /\ PrOf(k)' = PrOf(k)
    <3>1. CASE d.action \in Triggers
      BY <1>4, <3>1, ReceiveLocal DEF AfterWrite
    <3>2. CASE d.action \notin Triggers
      BY <1>4, <3>2 DEF Receive, PrOf
    <3> QED BY <3>1, <3>2
  <2>2. UNCHANGED <<epoch, repo, pull>>
    BY <1>4 DEF Receive, rows
  <2>3. hs' = hs => PrOf(h)' = PrOf(h)
    BY DEF PrOf
  <2> QED BY <1>0, <2>1, <2>2, <2>3 DEF RowsOK
<1>5. ASSUME NEW h \in Handlers, WritePullRequest(h), Saved(h)
      PROVE  RowsOK'
  <2>1. /\ pull' = [pull EXCEPT ![PrOf(h)] = Row(h)] /\ PrOf(h) \in PRs
        /\ UNCHANGED <<epoch, repo>>
    BY <1>0, <1>5 DEF WritePullRequest, At
  <2>2. repo = epoch /\ Row(h).row = epoch
    BY <1>5, <2>1 DEF Saved, Row, RowsOK
  <2>3. Row(h) # None
    <3>1. Row(h) \in PullRows
      BY <1>5, <2>2 DEF Row, PullRows, WritePullRequest, TypeOK, Complete, At, Deliveries
    <3> QED BY <3>1, IngestAssumption
  <2>4. /\ hs'[h].row = epoch /\ PrOf(h)' = PrOf(h)
        /\ \A k \in Handlers \ {h} : hs'[k] = hs[k] /\ PrOf(k)' = PrOf(k)
    BY <1>5, <2>2, WriteLocal
  <2>5. \A p \in PRs : pull'[p] = IF p = PrOf(h) THEN Row(h) ELSE pull[p]
    BY <2>1 DEF TypeOK
  <2> QED BY <1>0, <2>1, <2>2, <2>3, <2>4, <2>5 DEF RowsOK
<1>6. ASSUME NEW h \in Handlers, DeleteFiles(h) \/ CreateFiles(h)
      PROVE  RowsOK'
  <2>1. /\ UNCHANGED <<epoch, repo, pull>>
        /\ hs'[h].row = hs[h].row /\ PrOf(h)' = PrOf(h) /\ hs[h].pc \in AfterWrite
        /\ \A k \in Handlers \ {h} : hs'[k] = hs[k] /\ PrOf(k)' = PrOf(k)
    BY <1>6, StepLocal DEF DeleteFiles, CreateFiles, At, AfterWrite
  <2> QED BY <2>1 DEF RowsOK
<1> QED
  BY <1>1, <1>2, <1>3, <1>4, <1>5, <1>6, Kinds

(* Files: whoever is about to insert has deleted the rows of every handling   *)
(* that had ended before it began, and no such handling can insert again.     *)
LEMMA FilesStep ==
    ASSUME IInv, Next
    PROVE  FilesOK' /\ MixedSnapshotsOverlapped'
<1> USE DEF IInv
<1>0. /\ Done \subseteq Done'
      /\ epoch \in Nat
      /\ \A k \in Handlers : hs[k].row \in Nat
  <2>1. Done \subseteq Done'
    <3>1. answers \subseteq answers'
      <4>1. ASSUME NEW h \in Handlers, Handle(h) \/ Abort(h)
            PROVE  answers \subseteq answers'
        BY <4>1 DEF Handle, Abort, CheckSuspended, FindRepository, FindInstallation,
           SaveRepository, ReadPullRequest, WritePullRequest, FetchFiles, DeleteFiles,
           CreateFiles, FilesFail, MarkFailed, ReadLink, Enqueue, Step, Go, Answer
      <4>2. ASSUME NEW h \in Handlers, NEW d \in deliveries, Receive(h, d)
            PROVE  answers \subseteq answers'
        BY <4>2 DEF Receive, Go
      <4>3. CASE Github
        BY <4>3 DEF Github, GithubOpen, GithubPush, GithubClose, GithubReopen, Deliver
      <4>4. CASE Installation
        BY <4>4 DEF Installation, UpsertInstallation, Suspend, Unsuspend, Claim,
           SaveInstallation, AddRepository, Uninstall
      <4> QED BY <4>1, <4>2, <4>3, <4>4 DEF Next
    <3> QED BY <3>1 DEF Done
  <2> QED BY <2>1, IngestAssumption DEF TypeOK, Incarnations, Locals
<1>1. CASE Quiet
  <2>1. \A k \in Handlers : At(k, "createFiles")' =>
           At(k, "createFiles") /\ hs'[k].row = hs[k].row /\ hs'[k].seen = hs[k].seen
           /\ PrOf(k)' = PrOf(k)
    BY <1>1 DEF Quiet, SameLocal, At, PrOf, AfterWrite
  <2> QED BY <1>0, <1>1, <2>1 DEF Quiet, SameRows, FilesOK, MixedSnapshotsOverlapped
<1>2. CASE Uninstall
  <2>1. epoch' = epoch + 1 /\ \A p \in PRs : files'[p] = {}
    BY <1>2 DEF Uninstall
  <2>2. \A k \in Handlers : hs'[k].pc = hs[k].pc /\ hs'[k].row = hs[k].row
    BY <1>2, OpenedLocal DEF Uninstall
  <2>3. \A k \in Handlers : hs[k].pc = "createFiles" => hs[k].row <= epoch
    BY DEF RowsOK, AfterWrite
  <2> QED BY <1>0, <2>1, <2>2, <2>3 DEF FilesOK, MixedSnapshotsOverlapped, At
<1>3. ASSUME NEW h \in Handlers, Answering(h)
      PROVE  FilesOK' /\ MixedSnapshotsOverlapped'
  <2>1. /\ hs'[h].pc = "idle"
        /\ \A k \in Handlers \ {h} : hs'[k] = hs[k] /\ PrOf(k)' = PrOf(k)
        /\ files' = files /\ epoch' = epoch
    BY <1>3 DEF Answering, TypeOK, Idle, PrOf, SameRows
  <2> QED BY <1>0, <2>1 DEF FilesOK, MixedSnapshotsOverlapped, At
<1>4. ASSUME NEW h \in Handlers, NEW d \in deliveries, Receive(h, d)
      PROVE  FilesOK' /\ MixedSnapshotsOverlapped'
  <2>1. files' = files /\ epoch' = epoch
    BY <1>4 DEF Receive, rows
  <2>2. CASE d.action \in Triggers
    <3>1. hs'[h].pc = "guard" /\ \A k \in Handlers \ {h} : hs'[k] = hs[k] /\ PrOf(k)' = PrOf(k)
      BY <1>4, <2>2, ReceiveLocal
    <3> QED BY <1>0, <2>1, <3>1 DEF FilesOK, MixedSnapshotsOverlapped, At
  <2>3. CASE d.action \notin Triggers
    <3>1. hs' = hs
      BY <1>4, <2>3 DEF Receive
    <3> QED BY <1>0, <2>1, <3>1 DEF FilesOK, MixedSnapshotsOverlapped, At, PrOf
  <2> QED BY <2>2, <2>3
<1>5. ASSUME NEW h \in Handlers, WritePullRequest(h), Saved(h)
      PROVE  FilesOK' /\ MixedSnapshotsOverlapped'
  <2>1. files' = files /\ epoch' = epoch
    BY <1>5 DEF WritePullRequest
  <2>2. hs'[h].pc = "fetch" /\ \A k \in Handlers \ {h} : hs'[k] = hs[k] /\ PrOf(k)' = PrOf(k)
    BY <1>5, WriteLocal
  <2> QED BY <1>0, <2>1, <2>2 DEF FilesOK, MixedSnapshotsOverlapped, At
<1>6. ASSUME NEW h \in Handlers, DeleteFiles(h)
      PROVE  FilesOK' /\ MixedSnapshotsOverlapped'
  <2>1. PrOf(h) \in PRs /\ hs[h].pc \in AfterWrite
    BY <1>6 DEF DeleteFiles, TypeOK, Complete, At, PrOf, Deliveries, AfterWrite
  <2>2. /\ epoch' = epoch
        /\ \A p \in PRs : files'[p] \subseteq files[p]
        /\ files'[PrOf(h)] = Remaining(h)
    BY <1>6, <2>1 DEF DeleteFiles, Remaining, TypeOK
  <2>3. /\ hs'[h].row = hs[h].row /\ hs'[h].seen = hs[h].seen /\ PrOf(h)' = PrOf(h)
        /\ \A k \in Handlers \ {h} : hs'[k] = hs[k] /\ PrOf(k)' = PrOf(k)
    BY <1>6, StepLocal DEF DeleteFiles
  <2>4. hs[h].row = epoch => files'[PrOf(h)] = {}
    BY <2>1, <2>2 DEF RowsOK, Remaining, Held
  <2>5. \A k \in Handlers \ {h} : At(k, "createFiles") => PrOf(k) \in PRs
    BY DEF TypeOK, Complete, At, PrOf, Deliveries
  <2> QED BY <1>0, <2>1, <2>2, <2>3, <2>4, <2>5 DEF FilesOK, MixedSnapshotsOverlapped, At
<1>7. ASSUME NEW h \in Handlers, CreateFiles(h), Held(h)
      PROVE  FilesOK' /\ MixedSnapshotsOverlapped'
  <2> DEFINE new == [run |-> hs[h].run, seen |-> hs[h].seen, head |-> hs[h].head]
  <2>1. PrOf(h) \in PRs /\ hs[h].pc = "createFiles" /\ hs[h].row = epoch
    BY <1>7 DEF CreateFiles, Held, RowsOK, TypeOK, Complete, At, PrOf, Deliveries
  <2>2. /\ new.run = hs[h].run /\ new.seen = hs[h].seen
        /\ epoch' = epoch
        /\ \A p \in PRs : files'[p] = IF p = PrOf(h) THEN files[p] \cup {new} ELSE files[p]
    BY <1>7 DEF CreateFiles, Created, TypeOK
  <2>3. /\ hs'[h].pc = "readLink"
        /\ \A k \in Handlers \ {h} : hs'[k] = hs[k] /\ PrOf(k)' = PrOf(k)
    BY <1>7, StepLocal DEF CreateFiles
  <2>4. new.run \notin Done /\ new.seen \subseteq Done
    BY <2>1, <2>2 DEF RunsOK, At
  <2>5. \A k \in Handlers : At(k, "createFiles") => hs[k].seen \subseteq Done /\ PrOf(k) \in PRs
    BY DEF RunsOK, TypeOK, Complete, At, PrOf, Deliveries
  <2> HIDE DEF new
  <2>6. FilesOK'
    BY <1>0, <2>1, <2>2, <2>3, <2>4, <2>5, ZenonT(40) DEF FilesOK, At
  <2>7. \A f \in files[PrOf(h)] : f.run \notin new.seen /\ new.run \notin f.seen
    BY <2>1, <2>2, <2>4 DEF FilesOK, At
  <2>8. ASSUME NEW p \in PRs, NEW f \in files'[p], NEW g \in files'[p], f # g
        PROVE  f.run \notin g.seen
    <3>1. CASE f \in files[p] /\ g \in files[p]
      BY <2>8, <3>1 DEF MixedSnapshotsOverlapped
    <3>2. CASE p = PrOf(h) /\ (f = new \/ g = new)
      BY <2>2, <2>7, <2>8, <3>2
    <3> QED BY <2>2, <3>1, <3>2
  <2> QED BY <2>6, <2>8 DEF MixedSnapshotsOverlapped
<1>8. ASSUME NEW h \in Handlers, CreateFiles(h), ~Held(h)
      PROVE  FilesOK' /\ MixedSnapshotsOverlapped'
  <2>1. epoch' = epoch /\ \A p \in PRs : files'[p] = files[p]
    BY <1>8 DEF CreateFiles, Created, TypeOK
  <2>2. /\ hs'[h].pc = "readLink"
        /\ \A k \in Handlers \ {h} : hs'[k] = hs[k] /\ PrOf(k)' = PrOf(k)
    BY <1>8, StepLocal DEF CreateFiles
  <2>3. \A k \in Handlers : At(k, "createFiles") => PrOf(k) \in PRs
    BY DEF TypeOK, Complete, At, PrOf, Deliveries
  <2> QED BY <1>0, <2>1, <2>2, <2>3 DEF FilesOK, MixedSnapshotsOverlapped, At
<1> QED
  BY <1>1, <1>2, <1>3, <1>4, <1>5, <1>6, <1>7, <1>8, Kinds

LEMMA Inductive == IInv /\ [Next]_vars => IInv'
<1>1. ASSUME IInv, Next PROVE IInv'
  BY <1>1, TypeStep, RunsStep, RowsStep, FilesStep DEF IInv
<1>2. ASSUME IInv, UNCHANGED vars PROVE IInv'
  BY <1>2 DEF IInv, vars, github, rows, TypeOK, Complete, RunsOK, RowsOK, FilesOK,
     MixedSnapshotsOverlapped, At, PrOf, Done
<1> QED
  BY <1>1, <1>2

-----------------------------------------------------------------------------
(* How a handling goes on, and how it ends.                                   *)

\* so many steps at most are left of a handling
StepsLeft(pc) ==
    CASE pc = "idle" -> 0
      [] pc \in {"markFailed", "enqueue"} -> 1
      [] pc = "readLink" -> 2
      [] pc = "createFiles" -> 3
      [] pc = "deleteFiles" -> 4
      [] pc = "fetch" -> 5
      [] pc = "writePr" -> 6
      [] pc = "readPr" -> 7
      [] pc = "saveRepo" -> 8
      [] pc = "findInst" -> 9
      [] pc = "findRepo" -> 10
      [] pc = "guard" -> 11

\* the handling of h gives its one answer
Answered(h) ==
    /\ At(h, "idle")'
    /\ \E a \in answers' : a.run = hs[h].run /\ a \notin answers /\ answers' = answers \cup {a}

Stays(h) == hs'[h].run = hs[h].run /\ hs'[h].pc = hs[h].pc
GoesOn(h) == StepsLeft(hs'[h].pc) < StepsLeft(hs[h].pc) /\ (At(h, "idle")' => Answered(h))

\* A handling that is under way, whatever the installation, GitHub and the other
\* handlers do, stays where it is or comes nearer to its end, and ends with an
\* answer, the first one of its run.
HandlingsEnd ==
    [][\A h \in Handlers : ~At(h, "idle") =>
          /\ \A a \in answers : a.run # hs[h].run
          /\ Stays(h) \/ GoesOn(h)]_vars

LEMMA LeftAt ==
    /\ StepsLeft("idle") = 0 /\ StepsLeft("markFailed") = 1 /\ StepsLeft("enqueue") = 1
    /\ StepsLeft("readLink") = 2 /\ StepsLeft("createFiles") = 3
    /\ StepsLeft("deleteFiles") = 4 /\ StepsLeft("fetch") = 5 /\ StepsLeft("writePr") = 6
    /\ StepsLeft("readPr") = 7 /\ StepsLeft("saveRepo") = 8 /\ StepsLeft("findInst") = 9
    /\ StepsLeft("findRepo") = 10 /\ StepsLeft("guard") = 11
<1>1. StepsLeft("idle") = 0 /\ StepsLeft("markFailed") = 1 /\ StepsLeft("enqueue") = 1
  BY DEF StepsLeft
<1>2. StepsLeft("readLink") = 2 /\ StepsLeft("createFiles") = 3
  BY DEF StepsLeft
<1>3. StepsLeft("deleteFiles") = 4 /\ StepsLeft("fetch") = 5 /\ StepsLeft("writePr") = 6
  BY DEF StepsLeft
<1>4. StepsLeft("readPr") = 7 /\ StepsLeft("saveRepo") = 8 /\ StepsLeft("findInst") = 9
  BY DEF StepsLeft
<1>5. StepsLeft("findRepo") = 10 /\ StepsLeft("guard") = 11
  BY DEF StepsLeft
<1> QED
  BY <1>1, <1>2, <1>3, <1>4, <1>5

LEMMA AnswerEnds ==
    ASSUME TypeOK, RunsOK, NEW h \in Handlers, ~At(h, "idle"), NEW result, Answer(h, result)
    PROVE  GoesOn(h) /\ \A k \in Handlers \ {h} : hs'[k] = hs[k]
<1> DEFINE a == [run |-> hs[h].run, pr |-> PrOf(h), delivery |-> hs[h].d.id, result |-> result]
<1>1. answers' = answers \cup {a} /\ a.run = hs[h].run
  BY DEF Answer
<1>2. a \notin answers
  BY <1>1 DEF RunsOK, Done
<1>3. hs'[h] = Idle /\ \A k \in Handlers \ {h} : hs'[k] = hs[k]
  BY DEF Answer, TypeOK
<1>4. hs[h].pc \in Pcs \ {"idle"}
  BY DEF TypeOK, Locals, At
<1>5. StepsLeft(hs[h].pc) \in Nat \ {0}
  BY <1>4, LeftAt DEF Pcs, AfterWrite
<1> HIDE DEF a
<1>6. Answered(h)
  BY <1>1, <1>2, <1>3 DEF Answered, At, Idle
<1>7. StepsLeft(hs'[h].pc) = 0
  BY <1>3, LeftAt DEF Idle
<1> QED
  BY <1>3, <1>5, <1>6, <1>7 DEF GoesOn

LEMMA HandleEnds ==
    ASSUME TypeOK, RunsOK, NEW h \in Handlers, Handle(h) \/ Abort(h)
    PROVE  GoesOn(h) /\ \A k \in Handlers \ {h} : hs'[k] = hs[k]
<1>1. ~At(h, "idle") /\ hs[h] \in Locals
  BY DEF Handle, Abort, CheckSuspended, FindRepository, FindInstallation, SaveRepository,
         ReadPullRequest, WritePullRequest, FetchFiles, DeleteFiles, CreateFiles, FilesFail,
         MarkFailed, ReadLink, Enqueue, At, InTry, TypeOK
<1>2. ASSUME NEW result, Answer(h, result)
      PROVE  GoesOn(h) /\ \A k \in Handlers \ {h} : hs'[k] = hs[k]
  BY <1>1, <1>2, AnswerEnds
<1>3. ASSUME NEW new, Go(h, new), new.pc # "idle", StepsLeft(new.pc) < StepsLeft(hs[h].pc)
      PROVE  GoesOn(h) /\ \A k \in Handlers \ {h} : hs'[k] = hs[k]
  BY <1>3, GoLocal DEF GoesOn, At
<1>4. ASSUME NEW pc, Step(h, pc), pc # "idle", StepsLeft(pc) < StepsLeft(hs[h].pc)
      PROVE  GoesOn(h) /\ \A k \in Handlers \ {h} : hs'[k] = hs[k]
  BY <1>4, StepLocal DEF GoesOn, At
<1>5. CASE CheckSuspended(h) \/ SaveRepository(h) \/ DeleteFiles(h) \/ CreateFiles(h)
  <2>1. \/ \E result : Answer(h, result)
        \/ At(h, "guard") /\ Step(h, "findRepo")
        \/ At(h, "saveRepo") /\ Step(h, "readPr")
        \/ At(h, "deleteFiles") /\ Step(h, "createFiles")
        \/ At(h, "createFiles") /\ Step(h, "readLink")
    BY <1>5 DEF CheckSuspended, SaveRepository, DeleteFiles, CreateFiles
  <2> QED BY <1>2, <1>4, <2>1, LeftAt DEF At
<1>6. CASE FilesFail(h) \/ MarkFailed(h) \/ Enqueue(h) \/ Abort(h)
  <2>1. \/ \E result : Answer(h, result)
        \/ hs[h].pc \in InTry /\ Step(h, "markFailed")
    BY <1>6 DEF FilesFail, MarkFailed, Enqueue, Abort
  <2> QED BY <1>2, <1>4, <2>1, LeftAt DEF InTry
<1>7. CASE FindRepository(h)
  <2>1. PICK new : new = [hs[h] EXCEPT !.pc = "readPr", !.repo = repo]
    OBVIOUS
  <2>2. new.pc = "readPr"
    BY <1>1, <2>1 DEF Locals
  <2>3. At(h, "findRepo") /\ (Go(h, new) \/ Step(h, "findInst"))
    BY <1>7, <2>1 DEF FindRepository
  <2> QED BY <1>3, <1>4, <2>2, <2>3, LeftAt DEF At
<1>8. CASE FindInstallation(h)
  <2>1. PICK new : new = [hs[h] EXCEPT !.pc = "saveRepo", !.repo = epoch]
    OBVIOUS
  <2>2. new.pc = "saveRepo"
    BY <1>1, <2>1 DEF Locals
  <2>3. At(h, "findInst") /\ (Go(h, new) \/ \E result : Answer(h, result))
    BY <1>8, <2>1 DEF FindInstallation
  <2> QED BY <1>2, <1>3, <2>2, <2>3, LeftAt DEF At
<1>9. CASE ReadPullRequest(h)
  <2>1. PICK new : new = [hs[h] EXCEPT !.pc = "writePr", !.known = (pull[PrOf(h)] # None)]
    OBVIOUS
  <2>2. new.pc = "writePr"
    BY <1>1, <2>1 DEF Locals
  <2>3. At(h, "readPr") /\ (Go(h, new) \/ \E result : Answer(h, result))
    BY <1>9, <2>1 DEF ReadPullRequest
  <2> QED BY <1>2, <1>3, <2>2, <2>3, LeftAt DEF At
<1>10. CASE WritePullRequest(h)
  <2>1. CASE Saved(h)
    <3>1. hs'[h].pc = "fetch" /\ \A k \in Handlers \ {h} : hs'[k] = hs[k]
      BY <1>10, <2>1, WriteLocal
    <3> QED BY <1>10, <3>1, LeftAt DEF WritePullRequest, GoesOn, At
  <2>2. CASE ~Saved(h)
    BY <1>2, <1>10, <2>2 DEF WritePullRequest
  <2> QED BY <2>1, <2>2
<1>11. CASE FetchFiles(h)
  <2>1. PICK new : new = [hs[h] EXCEPT !.pc = "deleteFiles", !.head = Fetched(h)]
    OBVIOUS
  <2>2. new.pc = "deleteFiles"
    BY <1>1, <2>1 DEF Locals
  <2>3. At(h, "fetch") /\ Go(h, new)
    BY <1>11, <2>1 DEF FetchFiles
  <2> QED BY <1>3, <2>2, <2>3, LeftAt DEF At
<1>12. CASE ReadLink(h)
  <2>1. PICK new : new = [hs[h] EXCEPT !.pc = "enqueue", !.user = UserOf]
    OBVIOUS
  <2>2. new.pc = "enqueue"
    BY <1>1, <2>1 DEF Locals
  <2>3. At(h, "readLink") /\ (Go(h, new) \/ \E result : Answer(h, result))
    BY <1>12, <2>1 DEF ReadLink
  <2> QED BY <1>2, <1>3, <2>2, <2>3, LeftAt DEF At
<1> QED
  BY <1>5, <1>6, <1>7, <1>8, <1>9, <1>10, <1>11, <1>12 DEF Handle

LEMMA OneAnswer ==
    ASSUME TypeOK, RunsOK, [Next]_vars, NEW h \in Handlers, ~At(h, "idle")
    PROVE  /\ \A a \in answers : a.run # hs[h].run
           /\ Stays(h) \/ GoesOn(h)
<1>1. \A a \in answers : a.run # hs[h].run
  BY DEF RunsOK, Done
<1>2. CASE hs' = hs
  BY <1>1, <1>2 DEF Stays
<1>3. CASE Installation
  <2>1. hs' = hs \/ \E b \in BOOLEAN : hs' = Opened(b)
    BY <1>3 DEF Installation, UpsertInstallation, Suspend, Unsuspend, Claim, AddRepository,
       Uninstall, SaveInstallation, TypeOK
  <2> QED BY <1>1, <1>2, <2>1, OpenedLocal DEF Stays
<1>4. CASE \E k \in Handlers : Handle(k) \/ Abort(k)
  <2>1. PICK k \in Handlers : Handle(k) \/ Abort(k)
    BY <1>4
  <2> QED BY <1>1, <2>1, HandleEnds DEF Stays
<1>5. CASE \E k \in Handlers, d \in deliveries : Receive(k, d)
  <2>1. PICK k \in Handlers, d \in deliveries : Receive(k, d)
    BY <1>5
  <2>2. k # h
    BY <2>1 DEF Receive
  <2>3. hs'[h] = hs[h]
    BY <2>1, <2>2 DEF Receive, Go, TypeOK
  <2> QED BY <1>1, <2>3 DEF Stays
<1>6. Github => hs' = hs
  BY DEF Github, GithubOpen, GithubPush, GithubClose, GithubReopen, Deliver
<1> QED
  BY <1>2, <1>3, <1>4, <1>5, <1>6 DEF Next, vars

(* A delivery that a handler takes up is answered once, after at most eleven   *)
(* steps of the handler, whatever uninstalls, suspensions, pushes and other    *)
(* handlings come between them; a process that dies counts as an answer.       *)
THEOREM HandlingsTerminate == Spec => HandlingsEnd
<1>1. ASSUME IInv, [Next]_vars
      PROVE  \A h \in Handlers : ~At(h, "idle") =>
                /\ \A a \in answers : a.run # hs[h].run
                /\ Stays(h) \/ GoesOn(h)
  BY <1>1, OneAnswer DEF IInv
<1> QED
  BY <1>1, InitInv, Inductive, PTL DEF Spec, HandlingsEnd

(* Every variable of the webhook pipeline stays in its type, for any number   *)
(* of handlers, pull requests, users and deliveries; in particular a handler  *)
(* that writes files or queues a review holds a delivery, a row and a user.   *)
THEOREM TypeCorrect == Spec => []TypeOK
<1>1. IInv => TypeOK
  BY DEF IInv
<1> QED
  BY <1>1, InitInv, Inductive, PTL DEF Spec

(* Snapshots found side by side in the PrFile table were written by handlings *)
(* of replacePrFiles that overlapped, however many requests are served.       *)
THEOREM SnapshotsOverlapped == Spec => []MixedSnapshotsOverlapped
<1>1. IInv => MixedSnapshotsOverlapped
  BY DEF IInv
<1> QED
  BY <1>1, InitInv, Inductive, PTL DEF Spec
=============================================================================
