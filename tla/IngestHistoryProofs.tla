------------------------- MODULE IngestHistoryProofs -------------------------
(* What the webhook handlers did in the past and what the tables hold now: a   *)
(* second invariant of Ingest, inductive relative to IInv of IngestProofs.     *)
EXTENDS IngestProofs

Writing(h) == hs[h].pc \in AfterWrite
Busy(h) == ~At(h, "idle")

\* a handler takes a delivery that exists, sent at a head that existed
DeliveriesOK ==
    /\ \A d \in deliveries : d.head <= gh[d.pr].head
    /\ \A h \in Handlers : Busy(h) => hs[h].d \in deliveries

\* the writes of a handler that has written are in the history, and nobody else's are
By(i, h) == writes[i].run = hs[h].run /\ writes[i].pr = PrOf(h) /\ writes[i].row = hs[h].row

WritesOK ==
    /\ \A i \in DOMAIN writes :
          /\ writes[i].row <= epoch /\ writes[i].run <= received
          /\ writes[i].seen \subseteq Done
          /\ writes[i].head <= gh[writes[i].pr].head
    /\ \A i \in DOMAIN writes, h \in Handlers :
          Busy(h) /\ hs[h].run = writes[i].run => Writing(h) /\ By(i, h)
    /\ \A h \in Handlers : Writing(h) => \E i \in DOMAIN writes : By(i, h)

\* the row remembers the delivery of its last write
Of(i, p) == writes[i].pr = p /\ writes[i].row = epoch
IsLast(k, p) == Of(k, p) /\ \A j \in DOMAIN writes : Of(j, p) => j <= k

LastOK ==
    \A p \in PRs :
        /\ pull[p] # None =>
              \E k \in DOMAIN writes : IsLast(k, p) /\ writes[k].delivery = pull[p].last
        /\ \A i \in DOMAIN writes : Of(i, p) => pull[p] # None

\* write i of the delivery was followed by one of another, or is of a row that is gone
Superseded(i) ==
    \/ writes[i].row < epoch
    \/ \E k \in DOMAIN writes :
          /\ k > i /\ writes[k].pr = writes[i].pr /\ writes[k].row = writes[i].row
          /\ writes[k].delivery # writes[i].delivery

Repeats(i, h) ==
    writes[i].pr = PrOf(h) /\ writes[i].delivery = hs[h].d.id /\ writes[i].run \in hs[h].seen

RepeatOK ==
    \A h \in Handlers, i \in DOMAIN writes :
        At(h, "writePr") /\ Repeats(i, h) => Superseded(i)

\* how a handling that wrote a row may end
Accounted(b) ==
    b.result \in {"queued", "filesFailed", "unlinked"} \/ aborts > 0 \/ epoch > 1

EndsOK ==
    \A i \in DOMAIN writes, b \in answers : b.run = writes[i].run => Accounted(b)

DuplicatesOK ==
    \A a \in answers : a.result = "duplicate" =>
        \E i \in DOMAIN writes : writes[i].pr = a.pr /\ writes[i].delivery = a.delivery

\* the installation was seen open, or will be refused when the handler looks
OpenOK ==
    /\ \A h \in Handlers : Busy(h) => hs[h].open \/ (At(h, "guard") /\ Suspended)
    /\ JobsOnlyIfOpen

\* a head GitHub has shown, and no write of the row was sent at a later one
Fresh(p, x) == x <= gh[p].head /\ \A i \in Written(p) : writes[i].head <= x
Shows(p, x) == {f.head : f \in files[p]} = {x}
Holder(h, p) == Writing(h) /\ PrOf(h) = p /\ hs[h].row = epoch

HoldsOK(h, p) ==
    /\ hs[h].pc \in {"deleteFiles", "createFiles", "readLink", "enqueue"} => Fresh(p, hs[h].head)
    /\ At(h, "createFiles") => files[p] = {}
    /\ hs[h].pc \in {"readLink", "enqueue"} => Shows(p, hs[h].head)

HeadFor(p) ==
    pull[p] # None /\ Orderly(p) =>
        /\ \A h \in Handlers : Holder(h, p) => HoldsOK(h, p)
        /\ \/ \E h \in Handlers : Holder(h, p)
           \/ pull[p].status = "FAILED"
           \/ \E x \in Nat : Fresh(p, x) /\ Shows(p, x)

HeadOK == \A p \in PRs : HeadFor(p)

HInv ==
    /\ DeliveriesOK
    /\ WritesOK
    /\ LastOK
    /\ RepeatOK
    /\ RepeatNeedsOther
    /\ EndsOK
    /\ DuplicatesOK
    /\ OpenOK
    /\ HeadOK

-----------------------------------------------------------------------------
(* The steps of a handler, told apart by where it is.                       *)

\* handler h goes on with the local state new, of the same handling
Advance(h, new) ==
    /\ Go(h, new) /\ new.pc # "idle"
    /\ new.run = hs[h].run /\ new.seen = hs[h].seen /\ new.d = hs[h].d /\ new.open = hs[h].open

\* before it has written
Early(h, new) ==
    /\ Advance(h, new) /\ ~Writing(h) /\ new.pc \notin AfterWrite \cup {"guard"}
    /\ At(h, "guard") => ~Suspended
    /\ new.pc = "writePr" => ~Duplicate(h)
    /\ UNCHANGED <<pull, files, writes, jobs, aborts>>

\* after it has written: what becomes of the files
Late(h, new) ==
    /\ Advance(h, new) /\ new.row = hs[h].row
    /\ UNCHANGED <<pull, writes, jobs, aborts>>
    /\ \/ /\ At(h, "fetch") /\ new.pc = "deleteFiles" /\ new.head = gh[PrOf(h)].head
          /\ files' = files
       \/ /\ At(h, "deleteFiles") /\ new.pc = "createFiles" /\ new.head = hs[h].head
          /\ files' = [files EXCEPT ![PrOf(h)] = Remaining(h)]
       \/ /\ At(h, "createFiles") /\ new.pc = "readLink" /\ new.head = hs[h].head
          /\ files' = [files EXCEPT ![PrOf(h)] = @ \cup Created(h)]
       \/ Writing(h) /\ new.pc = "markFailed" /\ files' = files
       \/ At(h, "readLink") /\ new.pc = "enqueue" /\ new.head = hs[h].head /\ files' = files

\* the answer
Last(h, result) ==
    /\ Answer(h, result) /\ UNCHANGED <<files, writes>>
    /\ \/ /\ ~Writing(h) /\ (result = "duplicate" => Duplicate(h))
          /\ UNCHANGED <<pull, jobs, aborts>>
       \/ /\ At(h, "markFailed") /\ Held(h) /\ result = "filesFailed"
          /\ pull' = [pull EXCEPT ![PrOf(h)].status = "FAILED"] /\ UNCHANGED <<jobs, aborts>>
       \/ /\ At(h, "markFailed") /\ ~Held(h) /\ result = "error"
          /\ UNCHANGED <<pull, jobs, aborts>>
       \/ At(h, "readLink") /\ result = "unlinked" /\ UNCHANGED <<pull, jobs, aborts>>
       \/ /\ At(h, "enqueue") /\ result = "queued" /\ UNCHANGED <<pull, aborts>>
          /\ \A j \in jobs' : j \in jobs \/ j.open = hs[h].open
       \/ aborts' = aborts + 1 /\ result = "error" /\ UNCHANGED <<pull, jobs>>

Outcomes == {"ignored", "suspended", "noRepository", "duplicate", "filesFailed", "unlinked",
             "queued", "error"}

StepsOn(h) ==
    \/ \E new \in Locals : Early(h, new) \/ Late(h, new)
    \/ \E result \in Outcomes : Last(h, result)
    \/ WritePullRequest(h) /\ Saved(h)

LEMMA StepAdvance ==
    ASSUME TypeOK, NEW h \in Handlers, NEW pc \in Pcs \ {"idle"}, Step(h, pc)
    PROVE  \E new \in Locals :
              Advance(h, new) /\ new.pc = pc /\ new.row = hs[h].row /\ new.head = hs[h].head
<1> DEFINE new == [hs[h] EXCEPT !.pc = pc]
<1>1. hs[h] \in Locals
  BY DEF TypeOK
<1>2. /\ new \in Locals /\ new.pc = pc /\ new.row = hs[h].row /\ new.head = hs[h].head
      /\ new.run = hs[h].run /\ new.seen = hs[h].seen /\ new.d = hs[h].d /\ new.open = hs[h].open
  BY <1>1 DEF Locals
<1>3. Go(h, new)
  BY DEF Step
<1> HIDE DEF new
<1>4. Advance(h, new)
  BY <1>2, <1>3 DEF Advance
<1> QED
  BY <1>2, <1>4

LEMMA Effects ==
    ASSUME TypeOK, NEW h \in Handlers, Handle(h) \/ Abort(h)
    PROVE  Busy(h) /\ UNCHANGED <<gh, deliveries, received, epoch, inst>> /\ StepsOn(h)
<1>1. Busy(h)
  BY DEF Handle, Abort, CheckSuspended, FindRepository, FindInstallation, SaveRepository,
     ReadPullRequest, WritePullRequest, FetchFiles, DeleteFiles, CreateFiles, FilesFail, InTry,
     MarkFailed, ReadLink, Enqueue, At, Busy
<1>2. UNCHANGED <<gh, deliveries, received, epoch, inst>>
  BY DEF Handle, Abort, CheckSuspended, FindRepository, FindInstallation, SaveRepository,
     ReadPullRequest, WritePullRequest, FetchFiles, DeleteFiles, CreateFiles, FilesFail,
     MarkFailed, ReadLink, Enqueue, github, rows
<1>3. hs[h] \in Locals
  BY DEF TypeOK
<1>4. SUFFICES StepsOn(h)
  BY <1>1, <1>2
<1>5. CASE CheckSuspended(h)
  <2>1. UNCHANGED <<pull, files, writes, jobs, aborts>> /\ At(h, "guard") /\ ~Writing(h)
    BY <1>5 DEF CheckSuspended, rows, Writing, AfterWrite, At
  <2>2. CASE Refused
    BY <1>5, <2>1, <2>2 DEF CheckSuspended, StepsOn, Last, Outcomes
  <2>3. CASE ~Refused
    <3>1. Step(h, "findRepo")
      BY <1>5, <2>3 DEF CheckSuspended
    <3>2. PICK new \in Locals : Advance(h, new) /\ new.pc = "findRepo"
      BY <3>1, StepAdvance DEF Pcs
    <3>3. Early(h, new)
      BY <2>1, <2>3, <3>2 DEF Early, Refused, AfterWrite
    <3> QED BY <3>3 DEF StepsOn
  <2> QED BY <2>2, <2>3
<1>6. CASE FindRepository(h)
  <2>1. UNCHANGED <<pull, files, writes, jobs, aborts>> /\ At(h, "findRepo") /\ ~Writing(h)
    BY <1>6 DEF FindRepository, rows, Writing, AfterWrite, At
  <2>2. CASE repo # 0
    <3> DEFINE new == [hs[h] EXCEPT !.pc = "readPr", !.repo = repo]
    <3>1. /\ new \in Locals /\ new.pc = "readPr"
          /\ new.run = hs[h].run /\ new.seen = hs[h].seen /\ new.d = hs[h].d /\ new.open = hs[h].open
      BY <1>3 DEF TypeOK, Locals, Pcs
    <3>2. Go(h, new)
      BY <1>6, <2>2 DEF FindRepository
    <3> HIDE DEF new
    <3>3. Early(h, new)
      BY <2>1, <3>1, <3>2 DEF Early, Advance, AfterWrite, At
    <3> QED BY <3>1, <3>3 DEF StepsOn
  <2>3. CASE repo = 0
    <3>1. Step(h, "findInst")
      BY <1>6, <2>3 DEF FindRepository
    <3>2. PICK new \in Locals : Advance(h, new) /\ new.pc = "findInst"
      BY <3>1, StepAdvance DEF Pcs
    <3>3. Early(h, new)
      BY <2>1, <3>2 DEF Early, AfterWrite, At
    <3> QED BY <3>3 DEF StepsOn
  <2> QED BY <2>2, <2>3
<1>7. CASE FindInstallation(h)
  <2>1. UNCHANGED <<pull, files, writes, jobs, aborts>> /\ At(h, "findInst") /\ ~Writing(h)
    BY <1>7 DEF FindInstallation, rows, Writing, AfterWrite, At
  <2>2. CASE inst # None
    <3> DEFINE new == [hs[h] EXCEPT !.pc = "saveRepo", !.repo = epoch]
    <3>1. /\ new \in Locals /\ new.pc = "saveRepo"
          /\ new.run = hs[h].run /\ new.seen = hs[h].seen /\ new.d = hs[h].d /\ new.open = hs[h].open
      BY <1>3 DEF TypeOK, Locals, Pcs
    <3>2. Go(h, new)
      BY <1>7, <2>2 DEF FindInstallation
    <3> HIDE DEF new
    <3>3. Early(h, new)
      BY <2>1, <3>1, <3>2 DEF Early, Advance, AfterWrite, At
    <3> QED BY <3>1, <3>3 DEF StepsOn
  <2>3. CASE inst = None
    BY <1>7, <2>1, <2>3 DEF FindInstallation, StepsOn, Last, Outcomes
  <2> QED BY <2>2, <2>3
<1>8. CASE SaveRepository(h)
  <2>1. UNCHANGED <<pull, files, writes, jobs, aborts>> /\ At(h, "saveRepo") /\ ~Writing(h)
    BY <1>8 DEF SaveRepository, Writing, AfterWrite, At
  <2>2. CASE Step(h, "readPr")
    <3>1. PICK new \in Locals : Advance(h, new) /\ new.pc = "readPr"
      BY <2>2, StepAdvance DEF Pcs
    <3>2. Early(h, new)
      BY <2>1, <3>1 DEF Early, AfterWrite, At
    <3> QED BY <3>2 DEF StepsOn
  <2>3. CASE Answer(h, "error")
    BY <2>1, <2>3 DEF StepsOn, Last, Outcomes
  <2> QED BY <1>8, <2>2, <2>3 DEF SaveRepository
<1>9. CASE ReadPullRequest(h)
  <2>1. UNCHANGED <<pull, files, writes, jobs, aborts>> /\ At(h, "readPr") /\ ~Writing(h)
    BY <1>9 DEF ReadPullRequest, rows, Writing, AfterWrite, At
  <2>2. CASE ~Duplicate(h)
    <3> DEFINE new == [hs[h] EXCEPT !.pc = "writePr", !.known = (pull[PrOf(h)] # None)]
    <3>1. /\ new \in Locals /\ new.pc = "writePr"
          /\ new.run = hs[h].run /\ new.seen = hs[h].seen /\ new.d = hs[h].d /\ new.open = hs[h].open
      BY <1>3 DEF TypeOK, Locals, Pcs
    <3>2. Go(h, new)
      BY <1>9, <2>2 DEF ReadPullRequest
    <3> HIDE DEF new
    <3>3. Early(h, new)
      BY <2>1, <2>2, <3>1, <3>2 DEF Early, Advance, AfterWrite, At
    <3> QED BY <3>1, <3>3 DEF StepsOn
  <2>3. CASE Duplicate(h)
    BY <1>9, <2>1, <2>3 DEF ReadPullRequest, StepsOn, Last, Outcomes
  <2> QED BY <2>2, <2>3
<1>10. CASE WritePullRequest(h)
  <2>1. CASE ~Saved(h)
    <3>1. UNCHANGED <<pull, files, writes, jobs, aborts>> /\ ~Writing(h) /\ Answer(h, "error")
      BY <1>10, <2>1 DEF WritePullRequest, Writing, AfterWrite, At
    <3> QED BY <3>1 DEF StepsOn, Last, Outcomes
  <2> QED BY <1>10, <2>1 DEF StepsOn
<1>11. CASE FetchFiles(h)
  <2> DEFINE new == [hs[h] EXCEPT !.pc = "deleteFiles", !.head = Fetched(h)]
  <2>1. Fetched(h) = gh[PrOf(h)].head /\ Fetched(h) \in Nat
    <3>1. PrOf(h) \in PRs
      BY <1>1 DEF TypeOK, Complete, Busy, PrOf, Deliveries
    <3> QED BY <3>1 DEF Fetched, TypeOK
  <2>2. /\ new \in Locals /\ new.pc = "deleteFiles" /\ new.head = gh[PrOf(h)].head /\ new.row = hs[h].row
        /\ new.run = hs[h].run /\ new.seen = hs[h].seen /\ new.d = hs[h].d /\ new.open = hs[h].open
    BY <1>3, <2>1 DEF Locals, Pcs, AfterWrite
  <2>3. Go(h, new)
    BY <1>11 DEF FetchFiles
  <2> HIDE DEF new
  <2>4. Late(h, new)
    BY <1>11, <2>2, <2>3 DEF FetchFiles, rows, Late, Advance
  <2> QED BY <2>2, <2>4 DEF StepsOn
<1>12. CASE DeleteFiles(h)
  <2>0. Step(h, "createFiles")
    BY <1>12 DEF DeleteFiles
  <2>1. PICK new \in Locals : Advance(h, new) /\ new.pc = "createFiles" /\ new.row = hs[h].row /\ new.head = hs[h].head
    BY <2>0, StepAdvance DEF Pcs, AfterWrite
  <2>2. Late(h, new)
    BY <1>12, <2>1 DEF DeleteFiles, Late
  <2> QED BY <2>2 DEF StepsOn
<1>13. CASE CreateFiles(h)
  <2>0. Step(h, "readLink")
    BY <1>13 DEF CreateFiles
  <2>1. PICK new \in Locals :
          Advance(h, new) /\ new.pc = "readLink" /\ new.row = hs[h].row /\ new.head = hs[h].head
    BY <2>0, StepAdvance DEF Pcs, AfterWrite
  <2>2. Late(h, new)
    BY <1>13, <2>1 DEF CreateFiles, Late
  <2> QED BY <2>2 DEF StepsOn
<1>14. CASE FilesFail(h)
  <2>0. Step(h, "markFailed")
    BY <1>14 DEF FilesFail
  <2>1. PICK new \in Locals : Advance(h, new) /\ new.pc = "markFailed" /\ new.row = hs[h].row
    BY <2>0, StepAdvance DEF Pcs, AfterWrite
  <2>2. Late(h, new)
    BY <1>14, <2>1 DEF FilesFail, InTry, rows, Late, Writing, AfterWrite
  <2> QED BY <2>2 DEF StepsOn
<1>15. CASE MarkFailed(h)
  <2>1. At(h, "markFailed") /\ UNCHANGED <<files, writes, jobs, aborts>>
    BY <1>15 DEF MarkFailed
  <2>2. CASE Held(h)
    BY <1>15, <2>1, <2>2 DEF MarkFailed, StepsOn, Last, Outcomes
  <2>3. CASE ~Held(h)
    BY <1>15, <2>1, <2>3 DEF MarkFailed, StepsOn, Last, Outcomes
  <2> QED BY <2>2, <2>3
<1>16. CASE ReadLink(h)
  <2>1. UNCHANGED <<pull, files, writes, jobs, aborts>> /\ At(h, "readLink")
    BY <1>16 DEF ReadLink, rows
  <2>2. CASE UserOf # None
    <3> DEFINE new == [hs[h] EXCEPT !.pc = "enqueue", !.user = UserOf]
    <3>1. /\ new \in Locals /\ new.pc = "enqueue" /\ new.row = hs[h].row /\ new.head = hs[h].head
          /\ new.run = hs[h].run /\ new.seen = hs[h].seen /\ new.d = hs[h].d /\ new.open = hs[h].open
      <4>1. UserOf \in Users
        BY <2>2 DEF UserOf, TypeOK
      <4> QED BY <1>3, <4>1 DEF Locals, Pcs, AfterWrite
    <3>2. Go(h, new)
      BY <1>16, <2>2 DEF ReadLink
    <3> HIDE DEF new
    <3>3. Late(h, new)
      BY <2>1, <3>1, <3>2 DEF Late, Advance
    <3> QED BY <3>1, <3>3 DEF StepsOn
  <2>3. CASE UserOf = None
    BY <1>16, <2>1, <2>3 DEF ReadLink, StepsOn, Last, Outcomes
  <2> QED BY <2>2, <2>3
<1>17. CASE Enqueue(h)
  <2> DEFINE j == [run |-> hs[h].run, pr |-> PrOf(h), row |-> hs[h].row, delivery |-> hs[h].d.id,
                   user |-> hs[h].user, open |-> hs[h].open]
  <2>1. jobs' = jobs \cup {j} /\ j.open = hs[h].open
    BY <1>17 DEF Enqueue
  <2> HIDE DEF j
  <2>2. Last(h, "queued")
    BY <1>17, <2>1 DEF Enqueue, rows, Last
  <2> QED BY <2>2 DEF StepsOn, Outcomes
<1>18. CASE Abort(h)
  <2>1. Last(h, "error")
    BY <1>18 DEF Abort, rows, Last
  <2> QED BY <2>1 DEF StepsOn, Outcomes
<1> QED
  BY <1>5, <1>6, <1>7, <1>8, <1>9, <1>10, <1>11, <1>12, <1>13, <1>14, <1>15, <1>16, <1>17, <1>18
  DEF Handle

-----------------------------------------------------------------------------
(* Any step but a saved write leaves the history of writes alone, and what    *)
(* the invariant says of it only has to be carried along.                     *)

Rests(k) == hs'[k].pc = "idle"

Goes(k) ==
    /\ Busy(k) /\ hs'[k].pc # "idle"
    /\ hs'[k].run = hs[k].run /\ hs'[k].seen = hs[k].seen /\ hs'[k].d = hs[k].d
    /\ hs'[k].pc \in AfterWrite <=> Writing(k)
    /\ Writing(k) => hs'[k].row = hs[k].row
    /\ hs'[k].pc = "writePr" => At(k, "writePr") \/ ~Duplicate(k)

Begins(k) ==
    /\ hs'[k].pc = "guard" /\ hs'[k].run = received + 1 /\ hs'[k].d \in deliveries
    /\ received' = received + 1

Recorded(b) ==
    /\ \A i \in DOMAIN writes : b.run = writes[i].run =>
          b.result \in {"queued", "filesFailed", "unlinked"} \/ aborts' > 0 \/ epoch' > 1
    /\ b.result = "duplicate" =>
          \E i \in DOMAIN writes : writes[i].pr = b.pr /\ writes[i].delivery = b.delivery

Grows ==
    /\ received <= received' /\ epoch <= epoch' /\ aborts <= aborts'
    /\ Done \subseteq Done'
    /\ deliveries \subseteq deliveries'
    /\ \A d \in deliveries' : d \in deliveries \/ d.head <= gh'[d.pr].head
    /\ \A p \in PRs : gh[p].head <= gh'[p].head

PullKept ==
    \/ /\ epoch' = epoch
       /\ \A p \in PRs : /\ pull'[p] = None <=> pull[p] = None
                         /\ pull[p] # None => pull'[p].last = pull[p].last
    \/ epoch' > epoch /\ \A p \in PRs : pull'[p] = None

Onward ==
    /\ writes' = writes
    /\ Grows
    /\ PullKept
    /\ \A k \in Handlers : Rests(k) \/ Goes(k) \/ Begins(k)
    /\ \A b \in answers' : b \in answers \/ Recorded(b)

Carried ==
    /\ DeliveriesOK
    /\ WritesOK
    /\ LastOK
    /\ RepeatOK
    /\ RepeatNeedsOther
    /\ EndsOK
    /\ DuplicatesOK

\* the numbers and lengths the proofs below compare
LEMMA Numbers ==
    ASSUME TypeOK
    PROVE  /\ epoch \in Nat /\ received \in Nat /\ aborts \in Nat
           /\ \A p \in PRs : gh[p].head \in Nat
           /\ \A d \in deliveries : d.head \in Nat /\ d.pr \in PRs
           /\ DOMAIN writes = 1..Len(writes) /\ Len(writes) \in Nat
           /\ \A i \in DOMAIN writes :
                 /\ writes[i] \in Writes
                 /\ writes[i].row \in Nat /\ writes[i].run \in Nat /\ writes[i].head \in Nat
                 /\ writes[i].pr \in PRs
           /\ \A h \in Handlers : hs[h] \in Locals /\ (Busy(h) => PrOf(h) \in PRs)
                                  /\ hs[h].run \in Nat /\ hs[h].row \in Nat /\ hs[h].head \in Nat
<1>1. /\ epoch \in Nat /\ received \in Nat /\ aborts \in Nat
      /\ \A p \in PRs : gh[p].head \in Nat
      /\ \A d \in deliveries : d.head \in Nat /\ d.pr \in PRs
      /\ DOMAIN writes = 1..Len(writes) /\ Len(writes) \in Nat
  BY IngestAssumption DEF TypeOK, Incarnations, Deliveries
<1>2. \A i \in DOMAIN writes :
          /\ writes[i] \in Writes
          /\ writes[i].row \in Nat /\ writes[i].run \in Nat /\ writes[i].head \in Nat
          /\ writes[i].pr \in PRs
  <2> TAKE i \in DOMAIN writes
  <2>1. writes[i] \in Writes
    BY DEF TypeOK
  <2> QED BY <2>1, IngestAssumption DEF Writes, Runs, Incarnations
<1>3. \A h \in Handlers : hs[h] \in Locals /\ (Busy(h) => PrOf(h) \in PRs)
                          /\ hs[h].run \in Nat /\ hs[h].row \in Nat /\ hs[h].head \in Nat
  <2> TAKE h \in Handlers
  <2>1. hs[h] \in Locals
    BY DEF TypeOK
  <2>2. Busy(h) => PrOf(h) \in PRs
    BY DEF TypeOK, Complete, Busy, PrOf, Deliveries
  <2>3. hs[h].run \in Nat /\ hs[h].row \in Nat /\ hs[h].head \in Nat
    BY <2>1, IngestAssumption DEF Locals, Incarnations
  <2> QED BY <2>1, <2>2, <2>3
<1> QED
  BY <1>1, <1>2, <1>3

LEMMA OnwardCarries ==
    ASSUME TypeOK, TypeOK', Carried, Onward
    PROVE  Carried'
<1>1. writes' = writes /\ Grows /\ PullKept
  BY DEF Onward
<1>2. \A h \in Handlers : Busy(h)' => Goes(h) \/ Begins(h)
  BY DEF Onward, Rests, Busy, At
<1>3. DeliveriesOK'
  <2>1. \A d \in deliveries' : d.head <= gh'[d.pr].head
    <3> TAKE d \in deliveries'
    <3>1. CASE d \in deliveries
      BY <1>1, <3>1, Numbers, TypeOK' DEF Carried, DeliveriesOK, Grows, TypeOK
    <3> QED BY <1>1, <3>1 DEF Grows
  <2>2. \A h \in Handlers : Busy(h)' => hs'[h].d \in deliveries'
    BY <1>1, <1>2 DEF Carried, DeliveriesOK, Grows, Goes, Begins
  <2> QED BY <2>1, <2>2 DEF DeliveriesOK
<1>4. WritesOK'
  <2>1. \A i \in DOMAIN writes :
          /\ writes[i].row <= epoch' /\ writes[i].run <= received'
          /\ writes[i].seen \subseteq Done'
          /\ writes[i].head <= gh'[writes[i].pr].head
    <3> TAKE i \in DOMAIN writes
    <3>1. writes[i].row <= epoch /\ writes[i].run <= received /\ writes[i].seen \subseteq Done
          /\ writes[i].head <= gh[writes[i].pr].head
      BY DEF Carried, WritesOK
    <3>2. writes[i].row <= epoch' /\ writes[i].run <= received'
      BY <1>1, <3>1, Numbers, TypeOK', IngestAssumption DEF Grows, TypeOK, Incarnations
    <3>3. writes[i].head <= gh'[writes[i].pr].head
      BY <1>1, <3>1, Numbers, TypeOK' DEF Grows, TypeOK
    <3> QED BY <1>1, <3>1, <3>2, <3>3 DEF Grows
  <2>2. ASSUME NEW i \in DOMAIN writes, NEW h \in Handlers, Busy(h)', hs'[h].run = writes[i].run
        PROVE  /\ hs'[h].pc \in AfterWrite
               /\ writes[i].pr = hs'[h].d.pr /\ writes[i].row = hs'[h].row
    <3>1. writes[i].run <= received /\ writes[i].run \in Nat /\ received \in Nat
      BY Numbers DEF Carried, WritesOK
    <3>2. Goes(h)
      BY <1>2, <2>2, <3>1 DEF Begins
    <3>3. Writing(h) /\ By(i, h)
      BY <2>2, <3>2 DEF Goes, Carried, WritesOK
    <3> QED BY <3>2, <3>3 DEF Goes, By, PrOf
  <2>3. ASSUME NEW h \in Handlers, hs'[h].pc \in AfterWrite
        PROVE  \E i \in DOMAIN writes : writes[i].run = hs'[h].run
                  /\ writes[i].pr = hs'[h].d.pr /\ writes[i].row = hs'[h].row
    <3>1. Goes(h)
      BY <1>2, <2>3 DEF Busy, At, AfterWrite, Begins
    <3>2. Writing(h) /\ hs'[h].row = hs[h].row
      BY <2>3, <3>1 DEF Goes
    <3> QED BY <3>1, <3>2 DEF Goes, Carried, WritesOK, By, PrOf
  <2> QED BY <1>1, <2>1, <2>2, <2>3 DEF WritesOK, Writing, By, PrOf
<1>5. LastOK'
  <2>1. CASE epoch' = epoch
    <3>1. \A p \in PRs : /\ pull'[p] = None <=> pull[p] = None
                         /\ pull[p] # None => pull'[p].last = pull[p].last
      BY <1>1, <2>1, Numbers DEF PullKept
    <3> QED BY <1>1, <2>1, <3>1 DEF Carried, LastOK, IsLast, Of
  <2>2. CASE epoch' > epoch /\ \A p \in PRs : pull'[p] = None
    <3>1. \A i \in DOMAIN writes : writes[i].row # epoch'
      BY <2>2, Numbers, TypeOK', IngestAssumption DEF Carried, WritesOK, TypeOK, Incarnations
    <3> QED BY <1>1, <2>2, <3>1 DEF LastOK, Of
  <2> QED BY <1>1, <2>1, <2>2 DEF PullKept
<1>6. \A i \in DOMAIN writes : Superseded(i) => Superseded(i)'
  <2> SUFFICES ASSUME NEW i \in DOMAIN writes, Superseded(i) PROVE Superseded(i)'
    OBVIOUS
  <2>1. writes[i].row < epoch => writes[i].row < epoch'
    BY <1>1, Numbers, TypeOK', IngestAssumption DEF Grows, TypeOK, Incarnations
  <2> QED BY <1>1, <2>1 DEF Superseded
<1>7. RepeatOK'
  <2> SUFFICES ASSUME NEW h \in Handlers, NEW i \in DOMAIN writes,
                      hs'[h].pc = "writePr", Repeats(i, h)'
               PROVE  Superseded(i)
    BY <1>1, <1>6 DEF RepeatOK, At
  <2>1. Goes(h)
    BY <1>2 DEF Busy, At, Begins
  <2>2. Repeats(i, h)
    BY <1>1, <2>1 DEF Repeats, Goes, PrOf
  <2>3. CASE At(h, "writePr")
    BY <2>2, <2>3 DEF Carried, RepeatOK
  <2>4. CASE ~Duplicate(h)
    <3> DEFINE p == PrOf(h)
    <3>1. writes[i].pr = p /\ writes[i].delivery = hs[h].d.id /\ p \in PRs
      BY <2>1, <2>2, Numbers DEF Repeats, Goes
    <3>2. writes[i].row <= epoch /\ writes[i].row \in Nat /\ epoch \in Nat
      BY Numbers DEF Carried, WritesOK
    <3>3. CASE writes[i].row = epoch
      <4>1. Of(i, p)
        BY <3>1, <3>3 DEF Of
      <4>2. pull[p] # None
        BY <3>1, <4>1 DEF Carried, LastOK
      <4>3. PICK m \in DOMAIN writes : IsLast(m, p) /\ writes[m].delivery = pull[p].last
        BY <3>1, <4>2 DEF Carried, LastOK
      <4>4. writes[m].delivery # writes[i].delivery
        BY <2>4, <3>1, <4>2, <4>3 DEF Duplicate
      <4>5. i <= m /\ Of(m, p)
        BY <4>1, <4>3 DEF IsLast
      <4>6. m > i
        BY <4>4, <4>5, Numbers
      <4> QED BY <3>1, <3>3, <4>4, <4>5, <4>6 DEF Superseded, Of
    <3>4. CASE writes[i].row < epoch
      BY <3>4 DEF Superseded
    <3> QED BY <3>2, <3>3, <3>4
  <2> QED BY <2>1, <2>3, <2>4 DEF Goes
<1>8. RepeatNeedsOther'
  BY <1>1 DEF Carried, RepeatNeedsOther
<1>9. EndsOK'
  <2> SUFFICES ASSUME NEW i \in DOMAIN writes, NEW b \in answers', b.run = writes[i].run
               PROVE  Accounted(b)'
    BY <1>1 DEF EndsOK
  <2>1. CASE b \in answers
    <3>1. Accounted(b)
      BY <2>1 DEF Carried, EndsOK
    <3>2. (aborts > 0 => aborts' > 0) /\ (epoch > 1 => epoch' > 1)
      BY <1>1, Numbers, TypeOK', IngestAssumption DEF Grows, TypeOK, Incarnations
    <3> QED BY <3>1, <3>2 DEF Accounted
  <2>2. CASE Recorded(b)
    BY <2>2 DEF Recorded, Accounted
  <2> QED BY <2>1, <2>2 DEF Onward
<1>10. DuplicatesOK'
  <2> SUFFICES ASSUME NEW b \in answers', b.result = "duplicate"
               PROVE  \E i \in DOMAIN writes : writes[i].pr = b.pr /\ writes[i].delivery = b.delivery
    BY <1>1 DEF DuplicatesOK
  <2>1. CASE b \in answers
    BY <2>1 DEF Carried, DuplicatesOK
  <2>2. CASE Recorded(b)
    BY <2>2 DEF Recorded
  <2> QED BY <2>1, <2>2 DEF Onward
<1> QED
  BY <1>3, <1>4, <1>5, <1>7, <1>8, <1>9, <1>10 DEF Carried

LEMMA Unmoved ==
    ASSUME NEW k \in Handlers, hs'[k] = hs[k]
    PROVE  Rests(k) \/ Goes(k)
  BY DEF Rests, Goes, Busy, At, Writing

LEMMA GithubOnward ==
    ASSUME TypeOK, Github
    PROVE  Onward /\ UNCHANGED <<received, rows, jobs, hs, aborts, answers, writes>>
                  /\ \A p \in PRs : gh[p].head <= gh'[p].head
<1>1. PICK p \in PRs, action \in Triggers \cup {"closed"},
           new \in [open : BOOLEAN, head : Nat] :
          gh[p].head <= new.head /\ Deliver(p, action, new)
  <2>1. PICK p \in PRs : GithubOpen(p) \/ GithubPush(p) \/ GithubClose(p) \/ GithubReopen(p)
    BY DEF Github
  <2>2. gh[p] \in [open : BOOLEAN, head : Nat] /\ gh[p].head \in Nat
    BY DEF TypeOK
  <2>3. CASE GithubOpen(p)
    <3> DEFINE new == [open |-> TRUE, head |-> 1]
    <3>1. new \in [open : BOOLEAN, head : Nat] /\ new.head = 1
      OBVIOUS
    <3>2. Deliver(p, "opened", new) /\ gh[p].head = 0
      BY <2>3 DEF GithubOpen
    <3> HIDE DEF new
    <3>3. gh[p].head <= new.head
      BY <3>1, <3>2
    <3> QED BY <3>1, <3>2, <3>3 DEF Triggers
  <2>4. CASE GithubPush(p)
    <3> DEFINE new == [gh[p] EXCEPT !.head = @ + 1]
    <3>1. new \in [open : BOOLEAN, head : Nat] /\ gh[p].head <= new.head
      BY <2>2
    <3>2. Deliver(p, "synchronize", new)
      BY <2>4 DEF GithubPush
    <3> HIDE DEF new
    <3> QED BY <3>1, <3>2 DEF Triggers
  <2>5. CASE GithubClose(p)
    <3> DEFINE new == [gh[p] EXCEPT !.open = FALSE]
    <3>0. new \in [open : BOOLEAN, head : Nat] /\ new.head = gh[p].head
      BY <2>2
    <3>1. new \in [open : BOOLEAN, head : Nat] /\ gh[p].head <= new.head
      BY <2>2, <3>0
    <3>2. Deliver(p, "closed", new)
      BY <2>5 DEF GithubClose
    <3> HIDE DEF new
    <3> QED BY <3>1, <3>2 DEF Triggers
  <2>6. CASE GithubReopen(p)
    <3> DEFINE new == [gh[p] EXCEPT !.open = TRUE]
    <3>0. new \in [open : BOOLEAN, head : Nat] /\ new.head = gh[p].head
      BY <2>2
    <3>1. new \in [open : BOOLEAN, head : Nat] /\ gh[p].head <= new.head
      BY <2>2, <3>0
    <3>2. Deliver(p, "reopened", new)
      BY <2>6 DEF GithubReopen
    <3> HIDE DEF new
    <3> QED BY <3>1, <3>2 DEF Triggers
  <2> QED BY <2>1, <2>3, <2>4, <2>5, <2>6
<1> DEFINE d == [id |-> Cardinality(deliveries) + 1, pr |-> p, action |-> action,
                 head |-> new.head]
<1>2. /\ gh' = [gh EXCEPT ![p] = new] /\ deliveries' = deliveries \cup {d}
      /\ d.pr = p /\ d.head = new.head
      /\ UNCHANGED <<received, rows, jobs, hs, aborts, answers, writes>>
  BY <1>1 DEF Deliver
<1> HIDE DEF d
<1>3. \A q \in PRs : gh[q].head <= gh'[q].head
  BY <1>1, <1>2, Numbers DEF TypeOK
<1>4. gh'[d.pr].head = d.head
  BY <1>2 DEF TypeOK
<1>5. Grows
  BY <1>2, <1>3, <1>4, Numbers DEF Grows, rows, Done
<1>6. PullKept
  BY <1>2 DEF PullKept, rows
<1> QED
  BY <1>2, <1>3, <1>5, <1>6, Unmoved DEF Onward

LEMMA InstallationOnward ==
    ASSUME TypeOK, Installation
    PROVE  Onward
<1>1. /\ UNCHANGED <<gh, deliveries, received, aborts, answers, writes>>
      /\ \/ UNCHANGED <<epoch, pull>>
         \/ epoch' = epoch + 1 /\ pull' = [p \in PRs |-> None]
      /\ hs' = hs \/ \E b \in BOOLEAN : hs' = Opened(b)
  <2>1. ASSUME NEW new, SaveInstallation(new)
        PROVE  \E b \in BOOLEAN : hs' = Opened(b)
    <3>1. Opened(new # None /\ new.suspended) = Opened(FALSE) \/ Opened(new # None /\ new.suspended) = Opened(TRUE)
      BY DEF Opened
    <3> QED BY <2>1, <3>1 DEF SaveInstallation
  <2>2. CASE \E new : SaveInstallation(new)
    BY <2>1, <2>2 DEF SaveInstallation, github
  <2>3. CASE AddRepository
    BY <2>3 DEF AddRepository, github
  <2>4. CASE Uninstall
    BY <2>4 DEF Uninstall, github
  <2> QED
    BY <2>2, <2>3, <2>4 DEF Installation, UpsertInstallation, Claim, Suspend, Unsuspend
<1>2. \A k \in Handlers : Rests(k) \/ Goes(k)
  <2>1. CASE hs' = hs
    BY <2>1, Unmoved
  <2>2. ASSUME NEW b \in BOOLEAN, hs' = Opened(b)
        PROVE  \A k \in Handlers : Rests(k) \/ Goes(k)
    BY <2>2, OpenedLocal DEF Rests, Goes, Busy, At, Writing
  <2> QED BY <1>1, <2>1, <2>2
<1>3. Grows
  BY <1>1, Numbers DEF Grows, Done
<1>4. PullKept
  BY <1>1, Numbers DEF PullKept
<1> QED
  BY <1>1, <1>2, <1>3, <1>4 DEF Onward

LEMMA ReceiveOnward ==
    ASSUME TypeOK, WritesOK, NEW h \in Handlers, NEW d \in deliveries, Receive(h, d)
    PROVE  Onward
<1>1. UNCHANGED <<gh, deliveries, epoch, pull, aborts, writes>> /\ received' = received + 1
  BY DEF Receive, github, rows
<1>2. PullKept
  BY <1>1 DEF PullKept
<1>3. CASE d.action \in Triggers
  <2> DEFINE new == [Idle EXCEPT !.pc = "guard", !.run = received + 1, !.seen = Done,
                                 !.open = ~Suspended, !.d = d]
  <2>1. new.run = received + 1 /\ new.pc = "guard" /\ new.d = d
    BY DEF Idle
  <2>2. Go(h, new)
    BY <1>3 DEF Receive
  <2> HIDE DEF new
  <2>3. hs'[h] = new /\ answers' = answers /\ \A k \in Handlers \ {h} : hs'[k] = hs[k]
    BY <2>2, GoLocal
  <2>4. Grows
    BY <1>1, <2>3, Numbers DEF Grows, Done
  <2>5. Begins(h)
    BY <1>1, <2>1, <2>3 DEF Begins
  <2> QED
    BY <1>1, <1>2, <2>3, <2>4, <2>5, Unmoved DEF Onward
<1>4. CASE d.action \notin Triggers
  <2> DEFINE a == [run |-> received + 1, pr |-> d.pr, delivery |-> d.id, result |-> "ignored"]
  <2>1. answers' = answers \cup {a} /\ hs' = hs /\ a.run = received + 1 /\ a.result = "ignored"
    BY <1>4 DEF Receive
  <2> HIDE DEF a
  <2>2. Done \subseteq Done'
    BY <2>1 DEF Done
  <2>3. Grows
    BY <1>1, <2>2, Numbers DEF Grows
  <2>4. Recorded(a)
    BY <2>1, Numbers DEF Recorded, WritesOK
  <2> QED
    BY <1>1, <1>2, <2>1, <2>3, <2>4, Unmoved DEF Onward
<1> QED
  BY <1>3, <1>4

LEMMA EarlyOrLateOnward ==
    ASSUME TypeOK, NEW h \in Handlers, NEW new \in Locals, Early(h, new) \/ Late(h, new),
           Busy(h), UNCHANGED <<gh, deliveries, received, epoch>>
    PROVE  Onward
<1>1. /\ hs'[h] = new /\ answers' = answers /\ \A k \in Handlers \ {h} : hs'[k] = hs[k]
      /\ new.pc # "idle" /\ new.run = hs[h].run /\ new.seen = hs[h].seen /\ new.d = hs[h].d
      /\ UNCHANGED <<pull, writes, aborts>>
  BY GoLocal DEF Early, Late, Advance
<1>2. Goes(h)
  <2>1. CASE Early(h, new)
    BY <1>1, <2>1 DEF Goes, Early
  <2>2. CASE Late(h, new)
    <3>1. Writing(h) /\ new.pc \in AfterWrite /\ new.row = hs[h].row /\ new.pc # "writePr"
      BY <2>2 DEF Late, Writing, At, AfterWrite
    <3> QED BY <1>1, <3>1 DEF Goes
  <2> QED BY <2>1, <2>2
<1>3. Grows
  BY <1>1, Numbers DEF Grows, Done
<1>4. PullKept
  BY <1>1 DEF PullKept
<1> QED
  BY <1>1, <1>2, <1>3, <1>4, Unmoved DEF Onward

LEMMA LastOnward ==
    ASSUME TypeOK, RowsOK, WritesOK, LastOK, NEW h \in Handlers, NEW result \in Outcomes,
           Last(h, result), Busy(h), UNCHANGED <<gh, deliveries, received, epoch>>
    PROVE  Onward
<1> DEFINE a == [run |-> hs[h].run, pr |-> PrOf(h), delivery |-> hs[h].d.id, result |-> result]
<1>1. /\ answers' = answers \cup {a} /\ a.run = hs[h].run /\ a.pr = PrOf(h)
      /\ a.delivery = hs[h].d.id /\ a.result = result
      /\ hs' = [hs EXCEPT ![h] = Idle] /\ writes' = writes
  BY DEF Last, Answer
<1> HIDE DEF a
<1>2. Rests(h) /\ \A k \in Handlers \ {h} : hs'[k] = hs[k]
  BY <1>1 DEF Rests, Idle, TypeOK
<1>3. aborts' = aborts \/ aborts' = aborts + 1
  BY DEF Last
<1>4. Done \subseteq Done'
  BY <1>1 DEF Done
<1>5. Grows
  BY <1>3, <1>4, Numbers DEF Grows
<1>6. PullKept
  <2>1. CASE pull' = pull
    BY <2>1 DEF PullKept
  <2>2. CASE At(h, "markFailed") /\ Held(h) /\ pull' = [pull EXCEPT ![PrOf(h)].status = "FAILED"]
    <3> DEFINE p == PrOf(h)
    <3>1. p \in PRs /\ pull[p] \in PullRows
      BY <2>2, Numbers DEF Held, TypeOK
    <3>2. pull'[p] = [pull[p] EXCEPT !.status = "FAILED"] /\ \A q \in PRs \ {p} : pull'[q] = pull[q]
      BY <2>2, <3>1 DEF TypeOK
    <3>3. pull'[p] \in PullRows /\ pull'[p].last = pull[p].last
      BY <3>1, <3>2 DEF PullRows
    <3> QED BY <3>1, <3>2, <3>3, IngestAssumption DEF PullKept
  <2> QED BY <2>1, <2>2 DEF Last
<1>7. Recorded(a)
  <2>1. CASE ~Writing(h) /\ (result = "duplicate" => Duplicate(h))
    <3>1. \A i \in DOMAIN writes : a.run # writes[i].run
      BY <1>1, <2>1 DEF WritesOK
    <3>2. ASSUME result = "duplicate"
          PROVE  \E i \in DOMAIN writes : writes[i].pr = a.pr /\ writes[i].delivery = a.delivery
      BY <1>1, <2>1, <3>2, Numbers DEF Duplicate, LastOK, IsLast, Of
    <3> QED BY <1>1, <3>1, <3>2 DEF Recorded
  <2>2. CASE result \in {"filesFailed", "unlinked", "queued"}
    BY <1>1, <2>2 DEF Recorded
  <2>3. CASE aborts' = aborts + 1 /\ result = "error"
    BY <1>1, <2>3, Numbers DEF Recorded
  <2>4. CASE At(h, "markFailed") /\ ~Held(h) /\ result = "error"
    <3>1. hs[h].row <= epoch /\ hs[h].row # epoch
      BY <2>4, Numbers DEF RowsOK, Held, At, AfterWrite
    <3>2. hs[h].row >= 1
      BY <2>4, IngestAssumption DEF TypeOK, Complete, At, AfterWrite, Incarnations
    <3>3. epoch' > 1
      BY <3>1, <3>2, Numbers
    <3> QED BY <1>1, <2>4, <3>3 DEF Recorded
  <2> QED BY <2>1, <2>2, <2>3, <2>4 DEF Last
<1> QED
  BY <1>1, <1>2, <1>5, <1>6, <1>7, Unmoved DEF Onward

-----------------------------------------------------------------------------
(* The write of a pull request's row.                                         *)

\* what h appends to the history, all of the row it writes and of its handling
Appended(h, w) ==
    /\ writes' = Append(writes, w)
    /\ w.run = hs[h].run /\ w.seen = hs[h].seen /\ w.pr = PrOf(h) /\ w.row = epoch
    /\ w.delivery = hs[h].d.id /\ w.head = hs[h].d.head

LEMMA WriteEffects ==
    ASSUME TypeOK, RowsOK, NEW h \in Handlers, WritePullRequest(h), Saved(h)
    PROVE  /\ At(h, "writePr") /\ PrOf(h) \in PRs
           /\ UNCHANGED <<gh, deliveries, received, epoch, inst, repo, files, jobs, aborts, answers>>
           /\ hs'[h].pc = "fetch" /\ hs'[h].row = epoch /\ hs'[h].open = hs[h].open
           /\ hs'[h].run = hs[h].run /\ hs'[h].seen = hs[h].seen /\ hs'[h].d = hs[h].d
           /\ \A k \in Handlers \ {h} : hs'[k] = hs[k]
           /\ pull'[PrOf(h)] = Row(h) /\ pull'[PrOf(h)] # None
           /\ Row(h).row = epoch /\ Row(h).last = hs[h].d.id
           /\ \A p \in PRs \ {PrOf(h)} : pull'[p] = pull[p]
           /\ \E w : Appended(h, w)
<1> DEFINE p == PrOf(h)
<1>1. At(h, "writePr") /\ p \in PRs
  BY Numbers DEF WritePullRequest, At, Busy
<1>2. UNCHANGED <<gh, deliveries, received, epoch, inst, repo, files, jobs, aborts, answers>>
  BY DEF WritePullRequest, Go, github
<1>3. Row(h).row = epoch /\ Row(h).last = hs[h].d.id
  BY <1>1 DEF Row, Saved, RowsOK
<1>4. Row(h) \in PullRows
  <2>1. hs[h].d.id \in Ids
    BY <1>1 DEF TypeOK, Complete, At, Deliveries
  <2> QED BY <1>3, <2>1 DEF Row, PullRows, TypeOK
<1>5. pull'[p] = Row(h) /\ \A q \in PRs \ {p} : pull'[q] = pull[q]
  BY <1>1 DEF WritePullRequest, TypeOK
<1>6. /\ hs'[h].pc = "fetch" /\ hs'[h].row = epoch /\ hs'[h].open = hs[h].open
      /\ hs'[h].run = hs[h].run /\ hs'[h].seen = hs[h].seen /\ hs'[h].d = hs[h].d
      /\ \A k \in Handlers \ {h} : hs'[k] = hs[k]
  <2> DEFINE new == [hs[h] EXCEPT !.pc = "fetch", !.row = Row(h).row]
  <2>1. /\ new.pc = "fetch" /\ new.row = Row(h).row /\ new.open = hs[h].open
        /\ new.run = hs[h].run /\ new.seen = hs[h].seen /\ new.d = hs[h].d
    BY DEF TypeOK, Locals
  <2>2. Go(h, new)
    BY DEF WritePullRequest
  <2> HIDE DEF new
  <2> QED BY <1>3, <2>1, <2>2, GoLocal
<1>7. \E w : Appended(h, w)
  <2> DEFINE w == [run |-> hs[h].run, seen |-> hs[h].seen, pr |-> p, row |-> Row(h).row,
                   delivery |-> hs[h].d.id, head |-> hs[h].d.head]
  <2>1. writes' = Append(writes, w)
    BY DEF WritePullRequest
  <2>2. /\ w.run = hs[h].run /\ w.seen = hs[h].seen /\ w.pr = p /\ w.row = epoch
        /\ w.delivery = hs[h].d.id /\ w.head = hs[h].d.head
    BY <1>3
  <2> HIDE DEF w
  <2> QED BY <2>1, <2>2 DEF Appended
<1> QED
  BY <1>1, <1>2, <1>3, <1>4, <1>5, <1>6, <1>7, IngestAssumption

LEMMA AppendedHistory ==
    ASSUME TypeOK, NEW h \in Handlers, NEW w, Appended(h, w)
    PROVE  /\ DOMAIN writes' = DOMAIN writes \cup {Len(writes) + 1}
           /\ Len(writes) + 1 \notin DOMAIN writes
           /\ \A i \in DOMAIN writes : writes'[i] = writes[i]
           /\ writes'[Len(writes) + 1] = w
<1>1. writes \in Seq(Writes) /\ writes' = Append(writes, w)
  BY DEF TypeOK, Appended
<1> QED
  BY <1>1

LEMMA WriteCarries ==
    ASSUME TypeOK, TypeOK', RunsOK, RowsOK, Carried, NEW h \in Handlers,
           WritePullRequest(h), Saved(h)
    PROVE  Carried'
<1>1. PICK w : Appended(h, w)
  BY WriteEffects
<1>p. PICK p \in PRs : p = PrOf(h)
  BY WriteEffects
<1>2. /\ At(h, "writePr")
      /\ UNCHANGED <<gh, deliveries, received, epoch, inst, repo, files, jobs, aborts, answers>>
      /\ hs'[h].pc = "fetch" /\ hs'[h].row = epoch
      /\ hs'[h].run = hs[h].run /\ hs'[h].seen = hs[h].seen /\ hs'[h].d = hs[h].d
      /\ \A k \in Handlers \ {h} : hs'[k] = hs[k]
      /\ pull'[p] # None /\ pull'[p].last = hs[h].d.id
      /\ \A q \in PRs \ {p} : pull'[q] = pull[q]
  BY <1>p, WriteEffects
<1>3. PICK n \in Nat : n = Len(writes) + 1
  BY Numbers
<1>4. /\ DOMAIN writes = 1..(n - 1) /\ DOMAIN writes' = DOMAIN writes \cup {n}
      /\ \A i \in DOMAIN writes : writes'[i] = writes[i] /\ i < n
      /\ writes'[n] = w /\ n \notin DOMAIN writes
  <2>1. /\ DOMAIN writes' = DOMAIN writes \cup {n} /\ n \notin DOMAIN writes
        /\ \A i \in DOMAIN writes : writes'[i] = writes[i]
        /\ writes'[n] = w
    BY <1>1, <1>3, AppendedHistory
  <2>2. DOMAIN writes = 1..(n - 1)
    BY <1>3, Numbers
  <2> QED BY <2>1, <2>2
<1>5. /\ w.run = hs[h].run /\ w.seen = hs[h].seen /\ w.pr = p /\ w.row = epoch
      /\ w.delivery = hs[h].d.id /\ w.head = hs[h].d.head
  BY <1>1, <1>p DEF Appended
<1>6. Busy(h) /\ hs[h].run <= received /\ hs[h].run \notin Done /\ hs[h].seen \subseteq Done
      /\ Done' = Done
  BY <1>2 DEF RunsOK, Busy, At, Done
<1>7. DeliveriesOK'
  BY <1>2, <1>6 DEF Carried, DeliveriesOK, Busy, At
<1>8. WritesOK'
  <2>1. \A i \in DOMAIN writes' :
          /\ writes'[i].row <= epoch /\ writes'[i].run <= received
          /\ writes'[i].seen \subseteq Done
          /\ writes'[i].head <= gh[writes'[i].pr].head
    <3>1. hs[h].d \in deliveries /\ w.head <= gh[w.pr].head /\ w.row <= epoch
      BY <1>p, <1>5, <1>6, Numbers DEF Carried, DeliveriesOK, PrOf
    <3> QED BY <1>4, <1>5, <1>6, <3>1 DEF Carried, WritesOK
  <2>2. ASSUME NEW i \in DOMAIN writes', NEW k \in Handlers, hs'[k].pc # "idle",
               hs'[k].run = writes'[i].run
        PROVE  /\ hs'[k].pc \in AfterWrite
               /\ writes'[i].pr = hs'[k].d.pr /\ writes'[i].row = hs'[k].row
    <3>1. CASE k = h
      <4>1. i = n
        <5>1. ~Writing(h)
          BY <1>2 DEF Writing, At, AfterWrite
        <5> QED BY <1>2, <1>4, <1>6, <2>2, <3>1, <5>1 DEF Carried, WritesOK
      <4> QED BY <1>p, <1>2, <1>4, <1>5, <3>1, <4>1 DEF AfterWrite, PrOf
    <3>2. CASE k # h /\ i = n
      BY <1>2, <1>4, <1>5, <1>6, <2>2, <3>2 DEF RunsOK, Busy, At
    <3>3. CASE k # h /\ i # n
      BY <1>2, <1>4, <2>2, <3>3 DEF Carried, WritesOK, Busy, Writing, At, By, PrOf
    <3> QED BY <3>1, <3>2, <3>3
  <2>3. ASSUME NEW k \in Handlers, hs'[k].pc \in AfterWrite
        PROVE  \E i \in DOMAIN writes' : writes'[i].run = hs'[k].run
                  /\ writes'[i].pr = hs'[k].d.pr /\ writes'[i].row = hs'[k].row
    <3>1. CASE k = h
      BY <1>p, <1>2, <1>4, <1>5, <3>1 DEF PrOf
    <3>2. CASE k # h
      <4>1. PICK i \in DOMAIN writes : By(i, k)
        BY <1>2, <2>3, <3>2 DEF Carried, WritesOK, Writing
      <4> QED BY <1>2, <1>4, <3>2, <4>1 DEF By, PrOf
    <3> QED BY <3>1, <3>2
  <2> QED BY <1>2, <1>6, <2>1, <2>2, <2>3 DEF WritesOK, Writing, Busy, At, By, PrOf
<1>9. LastOK'
  <2> SUFFICES ASSUME NEW q \in PRs
               PROVE  /\ pull'[q] # None =>
                            \E k \in DOMAIN writes' :
                                IsLast(k, q)' /\ writes'[k].delivery = pull'[q].last
                      /\ \A i \in DOMAIN writes' : Of(i, q)' => pull'[q] # None
    BY DEF LastOK
  <2>1. CASE q = p
    <3>1. IsLast(n, p)'
      BY <1>2, <1>4, <1>5, Numbers DEF IsLast, Of
    <3> QED BY <1>2, <1>4, <1>5, <2>1, <3>1
  <2>2. CASE q # p
    <3>1. \A i \in DOMAIN writes : Of(i, q)' <=> Of(i, q)
      BY <1>2, <1>4 DEF Of
    <3>2. ~Of(n, q)'
      BY <1>4, <1>5, <2>2 DEF Of
    <3>3. \A k \in DOMAIN writes : IsLast(k, q) => IsLast(k, q)'
      BY <1>4, <3>1, <3>2 DEF IsLast
    <3> QED BY <1>2, <1>4, <2>2, <3>1, <3>2, <3>3 DEF Carried, LastOK
  <2> QED BY <2>1, <2>2
<1>10. \A i \in DOMAIN writes : Superseded(i) => Superseded(i)'
  <2> SUFFICES ASSUME NEW i \in DOMAIN writes, Superseded(i) PROVE Superseded(i)'
    OBVIOUS
  <2> QED BY <1>2, <1>4 DEF Superseded
<1>11. RepeatOK'
  <2> SUFFICES ASSUME NEW k \in Handlers, NEW i \in DOMAIN writes',
                      hs'[k].pc = "writePr", Repeats(i, k)'
               PROVE  Superseded(i)'
    BY DEF RepeatOK, At
  <2>1. k # h /\ hs'[k] = hs[k] /\ hs[k].seen \subseteq Done
    BY <1>2 DEF RunsOK, At
  <2>2. i # n
    BY <1>4, <1>5, <1>6, <2>1 DEF Repeats
  <2>3. Repeats(i, k)
    BY <1>4, <2>1, <2>2 DEF Repeats, PrOf
  <2> QED BY <1>4, <1>10, <2>1, <2>2, <2>3 DEF Carried, RepeatOK, At
<1>12. RepeatNeedsOther'
  <2> SUFFICES ASSUME NEW i \in DOMAIN writes', NEW j \in DOMAIN writes',
                      writes'[i].pr = writes'[j].pr, writes'[i].row = writes'[j].row,
                      writes'[i].delivery = writes'[j].delivery,
                      writes'[i].run \in writes'[j].seen
               PROVE  \E k \in (i + 1)..(j - 1) :
                          /\ writes'[k].pr = writes'[j].pr
                          /\ writes'[k].row = writes'[j].row
                          /\ writes'[k].delivery # writes'[j].delivery
    BY DEF RepeatNeedsOther
  <2>1. i # n
    BY <1>4, <1>5, <1>6 DEF Carried, WritesOK
  <2>2. CASE j = n
    <3>1. Repeats(i, h) /\ writes[i].row = epoch
      BY <1>p, <1>4, <1>5, <2>1, <2>2 DEF Repeats
    <3>2. Superseded(i)
      BY <1>2, <1>4, <2>1, <3>1 DEF Carried, RepeatOK
    <3>3. PICK k \in DOMAIN writes : k > i /\ writes[k].pr = writes[i].pr
             /\ writes[k].row = writes[i].row /\ writes[k].delivery # writes[i].delivery
      BY <3>1, <3>2, Numbers DEF Superseded
    <3>4. k \in (i + 1)..(j - 1)
      BY <1>4, <2>1, <2>2, <3>3
    <3> QED BY <1>4, <2>1, <3>3, <3>4
  <2>3. CASE j # n
    <3>1. PICK k \in (i + 1)..(j - 1) : /\ writes[k].pr = writes[j].pr
                                        /\ writes[k].row = writes[j].row
                                        /\ writes[k].delivery # writes[j].delivery
      BY <1>4, <2>1, <2>3 DEF Carried, RepeatNeedsOther
    <3>2. k \in DOMAIN writes
      BY <1>4, <2>1, <2>3
    <3> QED BY <1>4, <2>1, <2>3, <3>1, <3>2
  <2> QED BY <2>2, <2>3
<1>13. EndsOK'
  <2>1. \A b \in answers : b.run # hs[h].run
    BY <1>6 DEF Done
  <2> QED BY <1>2, <1>4, <1>5, <2>1 DEF Carried, EndsOK, Accounted
<1>14. DuplicatesOK'
  BY <1>2, <1>4 DEF Carried, DuplicatesOK
<1> QED
  BY <1>7, <1>8, <1>9, <1>11, <1>12, <1>13, <1>14 DEF Carried

-----------------------------------------------------------------------------
(* The suspended test.                                                        *)

LEMMA OpenStep ==
    ASSUME TypeOK, RowsOK, OpenOK, Next
    PROVE  OpenOK'
<1> DEFINE Seen(k) == hs'[k].pc = "idle" \/ hs'[k].open \/ (hs'[k].pc = "guard" /\ Suspended')
<1>1. SUFFICES (\A k \in Handlers : Seen(k)) /\ \A j \in jobs' : j.open
  BY DEF OpenOK, JobsOnlyIfOpen, Busy, At
<1>2. \A k \in Handlers : Busy(k) => hs[k].open \/ (At(k, "guard") /\ Suspended)
  BY DEF OpenOK
<1>3. \A j \in jobs : j.open
  BY DEF OpenOK, JobsOnlyIfOpen
<1>4. ASSUME NEW k \in Handlers, hs'[k] = hs[k], Suspended' = Suspended
      PROVE  Seen(k)
  BY <1>2, <1>4 DEF Busy, At
<1>5. CASE Github
  <2>1. UNCHANGED <<hs, inst, jobs>>
    BY <1>5, GithubOnward DEF rows
  <2> QED BY <1>3, <1>4, <2>1 DEF Suspended
<1>6. CASE Installation
  <2>1. ASSUME NEW k \in Handlers, hs' = Opened(FALSE)
        PROVE  Seen(k)
    <3>1. hs'[k] = IF hs[k].pc = "idle" THEN hs[k] ELSE [hs[k] EXCEPT !.open = TRUE]
      BY <2>1 DEF Opened
    <3>2. hs[k] \in Locals
      BY DEF TypeOK
    <3>3. [hs[k] EXCEPT !.open = TRUE].open
      BY <3>2 DEF Locals
    <3> QED BY <3>1, <3>3
  <2>2. ASSUME NEW new, SaveInstallation(new)
        PROVE  (\A k \in Handlers : Seen(k)) /\ jobs' = jobs
    <3>1. inst' = new /\ jobs' = jobs
      BY <2>2 DEF SaveInstallation
    <3>2. CASE Suspended'
      <4>1. new # None /\ new.suspended
        BY <3>1, <3>2 DEF Suspended
      <4>2. hs' = hs
        BY <2>2, <4>1 DEF SaveInstallation, Opened
      <4> QED BY <1>2, <3>1, <3>2, <4>2 DEF Busy, At
    <3>3. CASE ~Suspended'
      <4>1. ~(new # None /\ new.suspended)
        BY <3>1, <3>3 DEF Suspended
      <4>2. hs' = Opened(FALSE)
        BY <2>2, <4>1 DEF SaveInstallation, Opened
      <4> QED BY <2>1, <3>1, <4>2
    <3> QED BY <3>2, <3>3
  <2>3. CASE AddRepository
    BY <1>3, <1>4, <2>3 DEF AddRepository, Suspended
  <2>4. CASE Uninstall
    BY <1>3, <2>1, <2>4 DEF Uninstall
  <2>5. CASE \E new : SaveInstallation(new)
    BY <1>3, <2>2, <2>5
  <2> QED
    BY <1>6, <2>3, <2>4, <2>5 DEF Installation, UpsertInstallation, Claim, Suspend, Unsuspend
<1>7. ASSUME NEW h \in Handlers, NEW d \in deliveries, Receive(h, d)
      PROVE  (\A k \in Handlers : Seen(k)) /\ \A j \in jobs' : j.open
  <2>1. UNCHANGED <<inst, jobs>> /\ Suspended' = Suspended
    BY <1>7 DEF Receive, rows, Suspended
  <2>2. CASE d.action \in Triggers
    <3> DEFINE new == [Idle EXCEPT !.pc = "guard", !.run = received + 1, !.seen = Done,
                                   !.open = ~Suspended, !.d = d]
    <3>1. new.pc = "guard" /\ new.open = ~Suspended
      BY DEF Idle
    <3>2. Go(h, new)
      BY <1>7, <2>2 DEF Receive
    <3> HIDE DEF new
    <3>3. hs'[h] = new /\ \A k \in Handlers \ {h} : hs'[k] = hs[k]
      BY <3>2, GoLocal
    <3>4. Seen(h)
      BY <2>1, <3>1, <3>3
    <3> QED BY <1>3, <1>4, <2>1, <3>3, <3>4
  <2>3. CASE d.action \notin Triggers
    BY <1>3, <1>4, <1>7, <2>1, <2>3 DEF Receive
  <2> QED BY <2>2, <2>3
<1>8. ASSUME NEW h \in Handlers, Handle(h) \/ Abort(h)
      PROVE  (\A k \in Handlers : Seen(k)) /\ \A j \in jobs' : j.open
  <2>1. Busy(h) /\ Suspended' = Suspended /\ StepsOn(h)
    BY <1>8, Effects DEF Suspended
  <2>2. ASSUME NEW new \in Locals, Early(h, new) \/ Late(h, new)
        PROVE  (\A k \in Handlers : Seen(k)) /\ \A j \in jobs' : j.open
    <3>1. /\ hs'[h] = new /\ \A k \in Handlers \ {h} : hs'[k] = hs[k]
          /\ new.open = hs[h].open /\ jobs' = jobs
      BY <2>2, GoLocal DEF Early, Late, Advance
    <3>2. At(h, "guard") => ~Suspended
      BY <2>2 DEF Early, Late, At, Writing, AfterWrite
    <3>3. Seen(h)
      BY <1>2, <2>1, <3>1, <3>2
    <3> QED BY <1>3, <1>4, <2>1, <3>1, <3>3
  <2>3. ASSUME NEW result \in Outcomes, Last(h, result)
        PROVE  (\A k \in Handlers : Seen(k)) /\ \A j \in jobs' : j.open
    <3>1. hs'[h].pc = "idle" /\ \A k \in Handlers \ {h} : hs'[k] = hs[k]
      BY <2>3 DEF Last, Answer, Idle, TypeOK
    <3>2. \A j \in jobs' : j \in jobs \/ (At(h, "enqueue") /\ j.open = hs[h].open)
      BY <2>3 DEF Last
    <3>3. At(h, "enqueue") => hs[h].open
      BY <1>2, <2>1 DEF At
    <3> QED BY <1>3, <1>4, <2>1, <3>1, <3>2, <3>3
  <2>4. CASE WritePullRequest(h) /\ Saved(h)
    <3>1. /\ At(h, "writePr") /\ hs'[h].open = hs[h].open /\ jobs' = jobs
          /\ \A k \in Handlers \ {h} : hs'[k] = hs[k]
      BY <2>4, WriteEffects
    <3>2. Seen(h)
      BY <1>2, <2>1, <3>1 DEF At
    <3> QED BY <1>3, <1>4, <2>1, <3>1, <3>2
  <2> QED BY <2>1, <2>2, <2>3, <2>4 DEF StepsOn
<1> QED
  BY <1>5, <1>6, <1>7, <1>8 DEF Next

-----------------------------------------------------------------------------
(* The files of the head.                                                     *)

LEMMA WrittenNow ==
    ASSUME RowsOK, NEW p \in PRs, pull[p] # None
    PROVE  pull[p].row = epoch /\ Written(p) = {i \in DOMAIN writes : Of(i, p)}
  BY DEF RowsOK, Written, Of

\* when the writes of p's row did not overlap, one handler at most holds the row
LEMMA OnlyHolder ==
    ASSUME TypeOK, RunsOK, RowsOK, WritesOK, NEW p \in PRs, pull[p] # None, Orderly(p),
           NEW h \in Handlers, Holder(h, p), NEW k \in Handlers, Holder(k, p)
    PROVE  h = k
<1> SUFFICES ASSUME h # k PROVE FALSE
  OBVIOUS
<1>1. PICK i \in DOMAIN writes : By(i, h)
  BY DEF WritesOK, Holder
<1>2. PICK j \in DOMAIN writes : By(j, k)
  BY DEF WritesOK, Holder
<1>3. i \in Written(p) /\ j \in Written(p)
  BY <1>1, <1>2, WrittenNow DEF By, Holder, Of
<1>4. Busy(h) /\ Busy(k)
  BY DEF Holder, Writing, Busy, At, AfterWrite
<1>5. hs[h].run # hs[k].run /\ hs[h].run \notin Done /\ hs[k].run \notin Done
  BY <1>4 DEF RunsOK, Busy
<1>6. i # j
  BY <1>1, <1>2, <1>5 DEF By
<1>7. writes[i].seen \subseteq Done /\ writes[j].seen \subseteq Done
  BY DEF WritesOK
<1>8. i < j \/ j < i
  BY <1>6, Numbers
<1> QED
  BY <1>1, <1>2, <1>3, <1>5, <1>7, <1>8 DEF Orderly, By

\* a step that leaves alone what HeadFor(p) speaks of
Calm(p) ==
    /\ pull'[p] = pull[p] /\ files'[p] = files[p] /\ epoch' = epoch
    /\ answers \subseteq answers' /\ gh[p].head <= gh'[p].head
    /\ DOMAIN writes \subseteq DOMAIN writes'
    /\ \A i \in DOMAIN writes : writes'[i] = writes[i]
    /\ \A i \in DOMAIN writes' \ DOMAIN writes : writes'[i].pr # p
    /\ \A k \in Handlers :
          /\ Holder(k, p)' <=> Holder(k, p)
          /\ Holder(k, p) => hs'[k].pc = hs[k].pc /\ hs'[k].head = hs[k].head

LEMMA FreshKept ==
    ASSUME TypeOK, TypeOK', NEW p \in PRs, NEW x \in Nat, Fresh(p, x),
           gh[p].head <= gh'[p].head, Written(p)' = Written(p),
           \A i \in Written(p) : writes'[i] = writes[i]
    PROVE  Fresh(p, x)'
<1>1. gh[p].head \in Nat /\ gh'[p].head \in Nat
  BY DEF TypeOK
<1>2. x <= gh'[p].head
  BY <1>1 DEF Fresh
<1> QED
  BY <1>2 DEF Fresh

LEMMA CalmKeeps ==
    ASSUME TypeOK, TypeOK', NEW p \in PRs, Calm(p), HeadFor(p)
    PROVE  HeadFor(p)'
<1>1. pull'[p] = pull[p] /\ files'[p] = files[p] /\ gh[p].head <= gh'[p].head
  BY DEF Calm
<1>2. Written(p)' = Written(p) /\ \A i \in Written(p) : i \in DOMAIN writes /\ writes'[i] = writes[i]
  BY DEF Calm, Written
<1>3. Orderly(p)' => Orderly(p)
  BY <1>2 DEF Calm, Orderly
<1> SUFFICES ASSUME pull[p] # None, Orderly(p)
             PROVE  /\ \A k \in Handlers : Holder(k, p)' => HoldsOK(k, p)'
                    /\ \/ \E k \in Handlers : Holder(k, p)'
                       \/ pull'[p].status = "FAILED"
                       \/ \E x \in Nat : Fresh(p, x)' /\ Shows(p, x)'
  BY <1>1, <1>3 DEF HeadFor
<1>4. \A x \in Nat : Fresh(p, x) => Fresh(p, x)'
  BY <1>1, <1>2, FreshKept
<1>5. \A x : Shows(p, x) => Shows(p, x)'
  BY <1>1 DEF Shows
<1>6. ASSUME NEW k \in Handlers, Holder(k, p)'
      PROVE  HoldsOK(k, p)'
  <2>1. Holder(k, p) /\ hs'[k].pc = hs[k].pc /\ hs'[k].head = hs[k].head /\ hs[k].head \in Nat
    BY <1>6, Numbers DEF Calm
  <2>2. HoldsOK(k, p)
    BY <2>1 DEF HeadFor
  <2>3. PICK x \in Nat : x = hs[k].head
    BY <2>1
  <2>4. /\ hs[k].pc \in {"deleteFiles", "createFiles", "readLink", "enqueue"} => Fresh(p, x)'
        /\ hs[k].pc \in {"readLink", "enqueue"} => Shows(p, x)'
    BY <1>4, <1>5, <2>2, <2>3 DEF HoldsOK
  <2> QED BY <1>1, <2>1, <2>2, <2>3, <2>4 DEF HoldsOK, At
<1>7. \/ \E k \in Handlers : Holder(k, p)'
      \/ pull'[p].status = "FAILED"
      \/ \E x \in Nat : Fresh(p, x)' /\ Shows(p, x)'
  BY <1>1, <1>4, <1>5 DEF HeadFor, Calm
<1> QED
  BY <1>6, <1>7

\* a handler that does not hold the row of p, before and after the step
LEMMA StillFree ==
    ASSUME NEW p \in PRs, NEW h \in Handlers, ~Holder(h, p), ~Holder(h, p)',
           \A k \in Handlers \ {h} : hs'[k] = hs[k],
           pull'[p] = pull[p], files'[p] = files[p], epoch' = epoch,
           answers \subseteq answers', gh[p].head <= gh'[p].head, writes' = writes
    PROVE  Calm(p)
<1>1. \A k \in Handlers \ {h} : /\ Holder(k, p)' <=> Holder(k, p)
                                /\ hs'[k].pc = hs[k].pc /\ hs'[k].head = hs[k].head
  BY DEF Holder, Writing, PrOf
<1> QED
  BY <1>1 DEF Calm

LEMMA SameHandlersCalm ==
    ASSUME NEW p \in PRs, hs' = hs,
           pull'[p] = pull[p], files'[p] = files[p], epoch' = epoch,
           answers \subseteq answers', gh[p].head <= gh'[p].head, writes' = writes
    PROVE  Calm(p)
  BY DEF Calm, Holder, Writing, PrOf

LEMMA EarlyHead ==
    ASSUME TypeOK, TypeOK', NEW p \in PRs, HeadFor(p),
           NEW h \in Handlers, NEW new \in Locals, Early(h, new), UNCHANGED <<gh, epoch>>
    PROVE  HeadFor(p)'
<1>1. /\ hs'[h] = new /\ answers' = answers /\ \A k \in Handlers \ {h} : hs'[k] = hs[k]
      /\ UNCHANGED <<pull, files, writes>>
  BY GoLocal DEF Early, Advance
<1>2. ~Holder(h, p) /\ ~Holder(h, p)'
  BY <1>1 DEF Early, Holder, Writing
<1>3. gh[p].head <= gh'[p].head
  BY Numbers
<1> QED
  BY <1>1, <1>2, <1>3, StillFree, CalmKeeps

LEMMA LateHead ==
    ASSUME TypeOK, TypeOK', RunsOK, RowsOK, WritesOK, NEW p \in PRs, HeadFor(p),
           NEW h \in Handlers, NEW new \in Locals, Late(h, new), UNCHANGED <<gh, epoch>>
    PROVE  HeadFor(p)'
<1>1. /\ hs'[h] = new /\ answers' = answers /\ \A k \in Handlers \ {h} : hs'[k] = hs[k]
      /\ UNCHANGED <<pull, writes>> /\ new.row = hs[h].row /\ new.d = hs[h].d
  BY GoLocal DEF Late, Advance
<1>2. Writing(h) /\ new.pc \in AfterWrite
  BY DEF Late, Writing, At, AfterWrite
<1>3. Busy(h) /\ PrOf(h) \in PRs
  BY <1>2, Numbers DEF Busy, At, Writing, AfterWrite
<1>4. Holder(h, p)' <=> Holder(h, p)
  BY <1>1, <1>2 DEF Holder, Writing, PrOf
<1>5. gh[p].head <= gh'[p].head
  BY Numbers
<1>6. CASE ~Holder(h, p)
  <2>1. PrOf(h) = p => ~Held(h)
    BY <1>2, <1>6 DEF Holder, Held, RowsOK
  <2>2. \/ files' = files
        \/ files' = [files EXCEPT ![PrOf(h)] = Remaining(h)]
        \/ files' = [files EXCEPT ![PrOf(h)] = @ \cup Created(h)]
    BY DEF Late
  <2>3. files'[p] = files[p]
    <3>1. CASE PrOf(h) = p
      <4>1. Remaining(h) = files[p] /\ Created(h) = {}
        BY <2>1, <3>1 DEF Remaining, Created
      <4> QED BY <2>2, <3>1, <4>1 DEF TypeOK
    <3>2. CASE PrOf(h) # p
      BY <1>3, <2>2, <3>2 DEF TypeOK
    <3> QED BY <3>1, <3>2
  <2> QED BY <1>1, <1>4, <1>5, <1>6, <2>3, StillFree, CalmKeeps
<1>7. CASE Holder(h, p) /\ pull[p] # None /\ Orderly(p)
  <2>1. PrOf(h) = p /\ hs[h].row = epoch /\ Held(h)
    BY <1>7 DEF Holder, Held, RowsOK
  <2>2. HoldsOK(h, p)
    BY <1>7 DEF HeadFor
  <2>3. \A k \in Handlers \ {h} : ~Holder(k, p)'
    <3>1. \A k \in Handlers \ {h} : ~Holder(k, p)
      BY <1>7, OnlyHolder
    <3> QED BY <1>1, <3>1 DEF Holder, Writing, PrOf
  <2>4. \A x : Fresh(p, x) => Fresh(p, x)'
    BY <1>1 DEF Fresh, Written
  <2>5. PICK x \in Nat : x = new.head
    BY DEF Locals
  <2>6. /\ new.pc \in {"deleteFiles", "createFiles", "readLink", "enqueue"} => Fresh(p, x)'
        /\ new.pc = "createFiles" => files'[p] = {}
        /\ new.pc \in {"readLink", "enqueue"} => Shows(p, x)'
    <3>1. CASE At(h, "fetch") /\ new.pc = "deleteFiles" /\ new.head = gh[PrOf(h)].head
      <4>1. Fresh(p, x)
        <5>1. Written(p) = {i \in DOMAIN writes : Of(i, p)}
          BY <1>7, WrittenNow
        <5> QED BY <2>1, <2>5, <3>1, <5>1 DEF Fresh, WritesOK, Of
      <4> QED BY <2>4, <3>1, <4>1
    <3>2. CASE /\ At(h, "deleteFiles") /\ new.pc = "createFiles" /\ new.head = hs[h].head
               /\ files' = [files EXCEPT ![PrOf(h)] = Remaining(h)]
      <4>1. Fresh(p, x)
        BY <2>2, <2>5, <3>2 DEF HoldsOK, At
      <4>2. files'[p] = {}
        BY <2>1, <3>2 DEF TypeOK, Remaining
      <4> QED BY <2>4, <3>2, <4>1, <4>2
    <3>3. CASE /\ At(h, "createFiles") /\ new.pc = "readLink" /\ new.head = hs[h].head
               /\ files' = [files EXCEPT ![PrOf(h)] = @ \cup Created(h)]
      <4>1. Fresh(p, x) /\ files[p] = {}
        BY <2>2, <2>5, <3>3 DEF HoldsOK, At
      <4> DEFINE f == [run |-> hs[h].run, seen |-> hs[h].seen, head |-> hs[h].head]
      <4>2. f.head = x
        BY <2>5, <3>3
      <4>3. files'[p] = files[p] \cup {f}
        BY <2>1, <3>3 DEF Created, TypeOK
      <4> HIDE DEF f
      <4>4. Shows(p, x)'
        BY <4>1, <4>2, <4>3 DEF Shows
      <4> QED BY <2>4, <3>3, <4>1, <4>4
    <3>4. CASE new.pc = "markFailed"
      BY <3>4
    <3>5. CASE At(h, "readLink") /\ new.pc = "enqueue" /\ new.head = hs[h].head /\ files' = files
      <4>1. Fresh(p, x) /\ Shows(p, x)
        BY <2>2, <2>5, <3>5 DEF HoldsOK, At
      <4>2. Shows(p, x)'
        BY <3>5, <4>1 DEF Shows
      <4> QED BY <2>4, <3>5, <4>1, <4>2
    <3> QED BY <3>1, <3>2, <3>3, <3>4, <3>5 DEF Late
  <2>7. HoldsOK(h, p)'
    BY <1>1, <2>5, <2>6 DEF HoldsOK, At
  <2> QED BY <1>4, <1>7, <2>3, <2>7 DEF HeadFor
<1>8. CASE pull[p] = None \/ ~Orderly(p)
  BY <1>1, <1>8 DEF HeadFor, Orderly, Written
<1> QED
  BY <1>6, <1>7, <1>8

LEMMA LastHead ==
    ASSUME TypeOK, TypeOK', RunsOK, RowsOK, WritesOK, NEW p \in PRs, HeadFor(p),
           NEW h \in Handlers, NEW result \in Outcomes, Last(h, result), Busy(h),
           UNCHANGED <<gh, epoch>>
    PROVE  HeadFor(p)'
<1> DEFINE a == [run |-> hs[h].run, pr |-> PrOf(h), delivery |-> hs[h].d.id, result |-> result]
<1>1. /\ answers' = answers \cup {a} /\ a.run = hs[h].run /\ a.result = result
      /\ hs' = [hs EXCEPT ![h] = Idle] /\ UNCHANGED <<files, writes>>
  BY DEF Last, Answer
<1> HIDE DEF a
<1>2. /\ hs'[h].pc = "idle" /\ \A k \in Handlers \ {h} : hs'[k] = hs[k]
      /\ answers \subseteq answers' /\ a \in answers'
  BY <1>1 DEF Idle, TypeOK
<1>3. ~Holder(h, p)'
  BY <1>2 DEF Holder, Writing, AfterWrite
<1>4. gh[p].head <= gh'[p].head
  BY Numbers
<1>5. PrOf(h) \in PRs
  BY Numbers
<1>6. CASE ~Holder(h, p)
  <2>1. At(h, "markFailed") /\ Held(h) => PrOf(h) # p
    BY <1>6 DEF Holder, Held, RowsOK, At, Writing, AfterWrite
  <2>2. pull'[p] = pull[p]
    BY <1>5, <2>1 DEF Last, TypeOK
  <2> QED BY <1>1, <1>2, <1>3, <1>4, <1>6, <2>2, StillFree, CalmKeeps
<1>7. CASE Holder(h, p) /\ pull[p] # None /\ Orderly(p)
  <2>1. PrOf(h) = p /\ hs[h].row = epoch /\ Held(h)
    BY <1>7 DEF Holder, Held, RowsOK
  <2>2. HoldsOK(h, p)
    BY <1>7 DEF HeadFor
  <2>3. \A k \in Handlers : ~Holder(k, p)'
    <3>1. \A k \in Handlers \ {h} : ~Holder(k, p)
      BY <1>7, OnlyHolder
    <3> QED BY <1>2, <1>3, <3>1 DEF Holder, Writing, PrOf
  <2>4. PICK i \in DOMAIN writes : By(i, h)
    BY <1>7 DEF WritesOK, Holder
  <2>5. CASE At(h, "markFailed") /\ pull' = [pull EXCEPT ![PrOf(h)].status = "FAILED"]
    <3>1. pull[p] \in PullRows
      BY <1>7 DEF TypeOK
    <3>2. pull'[p].status = "FAILED"
      BY <2>1, <2>5, <3>1 DEF TypeOK, PullRows
    <3> QED BY <2>3, <3>2 DEF HeadFor
  <2>6. CASE hs[h].pc \in {"readLink", "enqueue"} /\ pull' = pull
    <3>1. PICK x \in Nat : x = hs[h].head
      BY Numbers
    <3>2. Fresh(p, x) /\ Shows(p, x)
      BY <2>2, <2>6, <3>1 DEF HoldsOK
    <3>3. Fresh(p, x)' /\ Shows(p, x)'
      BY <1>1, <2>6, <3>2 DEF Fresh, Shows, Written
    <3> QED BY <2>3, <3>3 DEF HeadFor
  <2>7. CASE result = "error" /\ pull' = pull
    <3>1. i \in Written(p)' /\ a.run = writes'[i].run
      BY <1>1, <1>7, <2>1, <2>4, <2>7, WrittenNow DEF By, Of, Written
    <3>2. ~Orderly(p)'
      BY <1>1, <1>2, <2>7, <3>1 DEF Orderly
    <3> QED BY <3>2 DEF HeadFor
  <2> QED
    BY <1>7, <2>1, <2>5, <2>6, <2>7 DEF Last, At, Holder
<1>8. CASE pull[p] = None \/ ~Orderly(p)
  <2>1. CASE pull' = pull
    BY <1>1, <1>2, <1>8, <2>1 DEF HeadFor, Orderly, Written
  <2>2. CASE Held(h) /\ pull' = [pull EXCEPT ![PrOf(h)].status = "FAILED"]
    <3>1. CASE PrOf(h) # p
      <4>1. pull'[p] = pull[p]
        BY <1>5, <2>2, <3>1 DEF TypeOK
      <4> QED BY <1>1, <1>2, <1>8, <4>1 DEF HeadFor, Orderly, Written
    <3>2. CASE PrOf(h) = p
      <4>1. pull[p] # None /\ pull[p] \in PullRows
        BY <2>2, <3>2 DEF Held, TypeOK
      <4>2. pull'[p].row = pull[p].row
        BY <2>2, <3>2, <4>1 DEF TypeOK, PullRows
      <4> QED BY <1>1, <1>2, <1>8, <4>1, <4>2 DEF HeadFor, Orderly, Written
    <3> QED BY <3>1, <3>2
  <2> QED BY <2>1, <2>2 DEF Last
<1> QED
  BY <1>6, <1>7, <1>8

LEMMA WriteHead ==
    ASSUME TypeOK, TypeOK', RunsOK, RowsOK, WritesOK, NEW p \in PRs, HeadFor(p),
           NEW h \in Handlers, WritePullRequest(h), Saved(h)
    PROVE  HeadFor(p)'
<1>1. PICK w : Appended(h, w)
  BY WriteEffects
<1>2. PICK n \in Nat : n = Len(writes) + 1
  BY Numbers
<1>3. /\ DOMAIN writes = 1..(n - 1) /\ DOMAIN writes' = DOMAIN writes \cup {n}
      /\ \A i \in DOMAIN writes : writes'[i] = writes[i] /\ i < n
      /\ writes'[n] = w /\ n \notin DOMAIN writes
  <2>1. /\ DOMAIN writes' = DOMAIN writes \cup {n} /\ n \notin DOMAIN writes
        /\ \A i \in DOMAIN writes : writes'[i] = writes[i]
        /\ writes'[n] = w
    BY <1>1, <1>2, AppendedHistory
  <2>2. DOMAIN writes = 1..(n - 1)
    BY <1>2, Numbers
  <2> QED BY <2>1, <2>2
<1>4. w.run = hs[h].run /\ w.seen = hs[h].seen /\ w.pr = PrOf(h) /\ w.row = epoch
  BY <1>1 DEF Appended
<1>5. /\ At(h, "writePr") /\ UNCHANGED <<gh, epoch, files, answers>>
      /\ hs'[h].pc = "fetch" /\ hs'[h].row = epoch /\ hs'[h].d = hs[h].d
      /\ \A k \in Handlers \ {h} : hs'[k] = hs[k]
      /\ Row(h).row = epoch /\ pull'[PrOf(h)] = Row(h)
      /\ \A q \in PRs \ {PrOf(h)} : pull'[q] = pull[q]
  BY WriteEffects
<1>6. CASE PrOf(h) # p
  <2>1. \A k \in Handlers : /\ Holder(k, p)' <=> Holder(k, p)
                            /\ Holder(k, p) => hs'[k].pc = hs[k].pc /\ hs'[k].head = hs[k].head
    BY <1>5, <1>6 DEF Holder, Writing, PrOf
  <2>2. gh[p].head <= gh'[p].head
    BY <1>5, Numbers
  <2>3. Calm(p)
    BY <1>3, <1>4, <1>5, <1>6, <2>1, <2>2 DEF Calm
  <2> QED BY <2>3, CalmKeeps
<1>7. CASE PrOf(h) = p
  <2>1. ASSUME NEW k \in Handlers \ {h}, Holder(k, p)', Orderly(p)'
        PROVE  FALSE
    <3>1. Writing(k) /\ PrOf(k) = p /\ hs[k].row = epoch
      BY <1>5, <2>1 DEF Holder, Writing, PrOf
    <3>2. PICK i \in DOMAIN writes : By(i, k)
      BY <3>1 DEF WritesOK
    <3>3. i \in Written(p)' /\ n \in Written(p)' /\ i < n
      BY <1>3, <1>4, <1>5, <1>7, <3>1, <3>2 DEF Written, By
    <3>4. hs[k].run \in hs[h].seen
      BY <1>3, <1>4, <2>1, <3>2, <3>3 DEF Orderly, By
    <3>5. hs[h].seen \subseteq Done
      BY <1>5 DEF RunsOK, At
    <3>6. hs[k].run \notin Done
      BY <3>1 DEF RunsOK, At, Writing, AfterWrite
    <3> QED BY <3>4, <3>5, <3>6
  <2>2. Holder(h, p)' /\ HoldsOK(h, p)'
    BY <1>5, <1>7 DEF Holder, HoldsOK, Writing, PrOf, At, AfterWrite
  <2> QED BY <2>1, <2>2 DEF HeadFor
<1> QED
  BY <1>6, <1>7

LEMMA HeadStep ==
    ASSUME TypeOK, TypeOK', RunsOK, RowsOK, WritesOK, HeadOK, Next
    PROVE  HeadOK'
<1> SUFFICES ASSUME NEW p \in PRs, HeadFor(p) PROVE HeadFor(p)'
  BY DEF HeadOK
<1>1. CASE Github
  <2>1. UNCHANGED <<rows, hs, answers, writes>> /\ gh[p].head <= gh'[p].head
    BY <1>1, GithubOnward
  <2> QED BY <2>1, SameHandlersCalm, CalmKeeps DEF rows
<1>2. CASE Installation
  <2>1. ASSUME NEW new, SaveInstallation(new)
        PROVE  HeadFor(p)'
    <3>1. UNCHANGED <<gh, pull, files, epoch, answers, writes>>
      BY <2>1 DEF SaveInstallation, github
    <3>2. \A k \in Handlers : /\ hs'[k].pc = hs[k].pc /\ hs'[k].d = hs[k].d
                              /\ hs'[k].row = hs[k].row /\ hs'[k].head = hs[k].head
      <4> TAKE k \in Handlers
      <4>1. hs'[k] = hs[k] \/ hs'[k] = [hs[k] EXCEPT !.open = TRUE]
        BY <2>1 DEF SaveInstallation, Opened
      <4>2. hs[k] \in Locals
        BY DEF TypeOK
      <4> QED BY <4>1, <4>2 DEF Locals
    <3>3. gh[p].head <= gh'[p].head
      BY <3>1, Numbers
    <3>4. Calm(p)
      BY <3>1, <3>2, <3>3 DEF Calm, Holder, Writing, PrOf
    <3> QED BY <3>4, CalmKeeps
  <2>2. CASE AddRepository
    <3>1. UNCHANGED <<gh, hs, pull, files, epoch, answers, writes>>
      BY <2>2 DEF AddRepository, github
    <3>2. gh[p].head <= gh'[p].head
      BY <3>1, Numbers
    <3> QED BY <3>1, <3>2, SameHandlersCalm, CalmKeeps
  <2>3. CASE Uninstall
    BY <2>3 DEF Uninstall, HeadFor
  <2>4. CASE \E new : SaveInstallation(new)
    BY <2>1, <2>4
  <2> QED
    BY <1>2, <2>2, <2>3, <2>4 DEF Installation, UpsertInstallation, Claim, Suspend, Unsuspend
<1>3. ASSUME NEW h \in Handlers, NEW d \in deliveries, Receive(h, d)
      PROVE  HeadFor(p)'
  <2>1. UNCHANGED <<gh, pull, files, epoch, writes>> /\ At(h, "idle")
    BY <1>3 DEF Receive, github, rows
  <2>2. gh[p].head <= gh'[p].head
    BY <2>1, Numbers
  <2>3. CASE d.action \in Triggers
    <3>1. hs'[h].pc = "guard" /\ answers' = answers /\ \A k \in Handlers \ {h} : hs'[k] = hs[k]
      BY <1>3, <2>3, ReceiveLocal
    <3>2. ~Holder(h, p) /\ ~Holder(h, p)'
      BY <2>1, <3>1 DEF Holder, Writing, At, AfterWrite
    <3> QED BY <2>1, <2>2, <3>1, <3>2, StillFree, CalmKeeps
  <2>4. CASE d.action \notin Triggers
    <3>1. hs' = hs /\ answers \subseteq answers'
      BY <1>3, <2>4 DEF Receive
    <3> QED BY <2>1, <2>2, <3>1, SameHandlersCalm, CalmKeeps
  <2> QED BY <2>3, <2>4
<1>4. ASSUME NEW h \in Handlers, Handle(h) \/ Abort(h)
      PROVE  HeadFor(p)'
  <2>1. Busy(h) /\ UNCHANGED <<gh, epoch>> /\ StepsOn(h)
    BY <1>4, Effects
  <2> QED
    BY <2>1, EarlyHead, LateHead, LastHead, WriteHead DEF StepsOn
<1> QED
  BY <1>1, <1>2, <1>3, <1>4 DEF Next

-----------------------------------------------------------------------------
(* The status of a row.                                                       *)

StatusFor(p) ==
    pull[p] # None =>
        IF pull[p].status = "FAILED"
        THEN \E i \in Written(p) :
                MarkedFailed(i) /\ \A j \in Written(p) : writes[i].run \notin writes[j].seen
        ELSE \A i \in Written(p) : MarkedFailed(i) => \E j \in Written(p) : j > i

\* a step that leaves the row and its failures as they are
LEMMA StatusKept ==
    ASSUME NEW p \in PRs, StatusFor(p), writes' = writes, answers \subseteq answers',
           pull'[p] = pull[p] \/ pull'[p] = None,
           \A b \in answers' : \/ b \in answers
                               \/ b.result # "filesFailed"
                               \/ \A i \in Written(p) : writes[i].run # b.run
    PROVE  StatusFor(p)'
<1>1. CASE pull'[p] = None
  BY <1>1 DEF StatusFor
<1>2. CASE pull'[p] = pull[p] /\ pull[p] # None
  <2>1. Written(p)' = Written(p)
    BY <1>2 DEF Written
  <2>2. \A i \in Written(p) : MarkedFailed(i)' <=> MarkedFailed(i)
    BY DEF MarkedFailed
  <2> QED BY <1>2, <2>1, <2>2 DEF StatusFor
<1> QED
  BY <1>1, <1>2

LEMMA LastStatus ==
    ASSUME TypeOK, RunsOK, WritesOK, NEW p \in PRs, StatusFor(p), NEW h \in Handlers,
           NEW result \in Outcomes, Last(h, result), Busy(h)
    PROVE  StatusFor(p)'
<1> DEFINE a == [run |-> hs[h].run, pr |-> PrOf(h), delivery |-> hs[h].d.id, result |-> result]
<1>1. answers' = answers \cup {a} /\ a.run = hs[h].run /\ a.result = result /\ writes' = writes
  BY DEF Last, Answer
<1> HIDE DEF a
<1>2. \A i \in DOMAIN writes : writes[i].run = hs[h].run => Writing(h) /\ By(i, h)
  BY DEF WritesOK
<1>3. CASE pull' = pull /\ (result # "filesFailed" \/ ~Writing(h))
  BY <1>1, <1>2, <1>3, StatusKept DEF Written
<1>4. CASE At(h, "markFailed") /\ Held(h) /\ result = "filesFailed"
           /\ pull' = [pull EXCEPT ![PrOf(h)].status = "FAILED"]
  <2>1. PrOf(h) \in PRs /\ pull[PrOf(h)] \in PullRows /\ Writing(h)
    BY <1>4, Numbers DEF Held, TypeOK, Writing, At, AfterWrite
  <2>2. /\ pull'[PrOf(h)] = [pull[PrOf(h)] EXCEPT !.status = "FAILED"]
        /\ \A q \in PRs \ {PrOf(h)} : pull'[q] = pull[q]
    BY <1>4, <2>1 DEF TypeOK
  <2>3. CASE PrOf(h) # p
    BY <1>1, <1>2, <2>2, <2>3, StatusKept DEF Written, By
  <2>4. CASE PrOf(h) = p
    <3>1. pull'[p].status = "FAILED" /\ pull'[p].row = pull[p].row
      BY <2>1, <2>2, <2>4 DEF PullRows
    <3>2. PICK i \in DOMAIN writes : By(i, h)
      BY <2>1 DEF WritesOK
    <3>3. i \in Written(p)' /\ MarkedFailed(i)'
      BY <1>1, <1>4, <2>4, <3>1, <3>2 DEF By, Written, Held, MarkedFailed
    <3>4. \A j \in Written(p)' : writes'[i].run \notin writes'[j].seen
      BY <1>1, <3>2 DEF By, Written, WritesOK, RunsOK, Busy, Done
    <3> QED BY <3>1, <3>3, <3>4 DEF StatusFor
  <2> QED BY <2>3, <2>4
<1> QED
  BY <1>3, <1>4 DEF Last

LEMMA WriteStatus ==
    ASSUME TypeOK, RunsOK, RowsOK, NEW p \in PRs, StatusFor(p), NEW h \in Handlers,
           WritePullRequest(h), Saved(h)
    PROVE  StatusFor(p)'
<1>1. /\ At(h, "writePr") /\ PrOf(h) \in PRs /\ answers' = answers
      /\ pull'[PrOf(h)] = Row(h) /\ \A q \in PRs \ {PrOf(h)} : pull'[q] = pull[q]
  BY WriteEffects
<1>2. PICK w : Appended(h, w)
  BY WriteEffects
<1>3. PICK n \in Nat : n = Len(writes) + 1
  BY Numbers
<1>4. /\ DOMAIN writes = 1..(n - 1) /\ DOMAIN writes' = DOMAIN writes \cup {n}
      /\ \A i \in DOMAIN writes : writes'[i] = writes[i] /\ i < n
      /\ writes'[n] = w /\ n \notin DOMAIN writes
  <2>1. /\ DOMAIN writes' = DOMAIN writes \cup {n} /\ n \notin DOMAIN writes
        /\ \A i \in DOMAIN writes : writes'[i] = writes[i]
        /\ writes'[n] = w
    BY <1>2, <1>3, AppendedHistory
  <2>2. DOMAIN writes = 1..(n - 1)
    BY <1>3, Numbers
  <2> QED BY <2>1, <2>2
<1>5. w.run = hs[h].run /\ w.pr = PrOf(h) /\ w.row = Row(h).row
  BY <1>2, WriteEffects DEF Appended
<1>6. \A i \in DOMAIN writes : MarkedFailed(i)' <=> MarkedFailed(i)
  BY <1>1, <1>4 DEF MarkedFailed
<1>7. CASE p = PrOf(h)
  <2>1. n \in Written(p)' /\ pull'[p].status = "RECEIVED"
    BY <1>1, <1>4, <1>5, <1>7 DEF Written, Row
  <2>2. ~MarkedFailed(n)'
    BY <1>1, <1>4, <1>5 DEF MarkedFailed, RunsOK, At, Done
  <2>3. \A i \in Written(p)' : MarkedFailed(i)' => n > i
    BY <1>4, <2>2 DEF Written
  <2> QED BY <2>1, <2>3 DEF StatusFor
<1>8. CASE p # PrOf(h)
  <2>1. pull'[p] = pull[p] /\ Written(p)' = Written(p)
    BY <1>1, <1>4, <1>5, <1>8 DEF Written
  <2>2. \A i \in Written(p) : i \in DOMAIN writes
    BY DEF Written
  <2> QED BY <1>4, <1>6, <2>1, <2>2 DEF StatusFor
<1> QED
  BY <1>7, <1>8

LEMMA StatusStep ==
    ASSUME TypeOK, TypeOK', RunsOK, RowsOK, WritesOK, NEW p \in PRs, StatusFor(p), [Next]_vars
    PROVE  StatusFor(p)'
<1>1. CASE UNCHANGED vars
  BY <1>1, StatusKept DEF vars, rows
<1>2. CASE Github
  BY <1>2, GithubOnward, StatusKept DEF rows
<1>3. CASE Installation
  <2>1. CASE UNCHANGED <<pull, answers, writes>>
    BY <2>1, StatusKept
  <2>2. CASE Uninstall
    BY <2>2 DEF Uninstall, StatusFor
  <2> QED
    BY <1>3, <2>1, <2>2 DEF Installation, UpsertInstallation, Claim, Suspend, Unsuspend,
       AddRepository, SaveInstallation
<1>4. ASSUME NEW h \in Handlers, NEW d \in deliveries, Receive(h, d)
      PROVE  StatusFor(p)'
  <2> DEFINE a == [run |-> received + 1, pr |-> d.pr, delivery |-> d.id, result |-> "ignored"]
  <2>1. /\ UNCHANGED <<pull, writes>> /\ answers \subseteq answers' /\ a.result = "ignored"
        /\ \A b \in answers' : b \in answers \/ b = a
    BY <1>4 DEF Receive, rows, Go
  <2> HIDE DEF a
  <2> QED BY <2>1, StatusKept
<1>5. ASSUME NEW h \in Handlers, Handle(h) \/ Abort(h)
      PROVE  StatusFor(p)'
  <2>1. Busy(h) /\ StepsOn(h)
    BY <1>5, Effects
  <2>2. ASSUME NEW new \in Locals, Early(h, new) \/ Late(h, new)
        PROVE  StatusFor(p)'
    BY <2>2, StatusKept DEF Early, Late, Advance, Go
  <2> QED BY <2>1, <2>2, LastStatus, WriteStatus DEF StepsOn
<1> QED
  BY <1>1, <1>2, <1>3, <1>4, <1>5 DEF Next

-----------------------------------------------------------------------------

LEMMA HInvParts == HInv <=> Carried /\ OpenOK /\ HeadOK
  BY DEF HInv, Carried

LEMMA InitHistory == Init => HInv
<1> SUFFICES ASSUME Init PROVE HInv
  OBVIOUS
<1>1. deliveries = {} /\ answers = {} /\ jobs = {} /\ DOMAIN writes = {} /\ Done = {}
  BY DEF Init, Done
<1>2. \A h \in Handlers : hs[h].pc = "idle" /\ ~Writing(h)
  BY DEF Init, Idle, Writing, AfterWrite
<1>3. \A p \in PRs : pull[p] = None
  BY DEF Init
<1>4. Carried
  BY <1>1, <1>2, <1>3 DEF Carried, DeliveriesOK, WritesOK, LastOK, RepeatOK, RepeatNeedsOther,
     EndsOK, DuplicatesOK, Busy, At
<1>5. OpenOK /\ HeadOK
  BY <1>1, <1>2, <1>3 DEF OpenOK, JobsOnlyIfOpen, HeadOK, HeadFor, Busy, At
<1> QED
  BY <1>4, <1>5, HInvParts

LEMMA CarriedStep ==
    ASSUME IInv, TypeOK', Carried, Next
    PROVE  Carried'
<1>0. TypeOK /\ RunsOK /\ RowsOK /\ WritesOK /\ LastOK
  BY DEF IInv, Carried
<1>1. CASE Github
  BY <1>0, <1>1, GithubOnward, OnwardCarries
<1>2. CASE Installation
  BY <1>0, <1>2, InstallationOnward, OnwardCarries
<1>3. ASSUME NEW h \in Handlers, NEW d \in deliveries, Receive(h, d)
      PROVE  Carried'
  BY <1>0, <1>3, ReceiveOnward, OnwardCarries
<1>4. ASSUME NEW h \in Handlers, Handle(h) \/ Abort(h)
      PROVE  Carried'
  <2>1. Busy(h) /\ UNCHANGED <<gh, deliveries, received, epoch>> /\ StepsOn(h)
    BY <1>0, <1>4, Effects
  <2>2. ASSUME NEW new \in Locals, Early(h, new) \/ Late(h, new)
        PROVE  Carried'
    BY <1>0, <2>1, <2>2, EarlyOrLateOnward, OnwardCarries
  <2>3. ASSUME NEW result \in Outcomes, Last(h, result)
        PROVE  Carried'
    BY <1>0, <2>1, <2>3, LastOnward, OnwardCarries
  <2>4. CASE WritePullRequest(h) /\ Saved(h)
    BY <1>0, <2>4, WriteCarries
  <2> QED BY <2>1, <2>2, <2>3, <2>4 DEF StepsOn
<1> QED
  BY <1>1, <1>2, <1>3, <1>4 DEF Next

LEMMA HistoryInductive == IInv /\ HInv /\ [Next]_vars => HInv'
<1>1. ASSUME IInv, HInv, Next PROVE HInv'
  <2>1. TypeOK /\ TypeOK' /\ RunsOK /\ RowsOK /\ WritesOK
    BY <1>1, Inductive DEF IInv, HInv
  <2>2. Carried' /\ OpenOK' /\ HeadOK'
    BY <1>1, <2>1, HInvParts, CarriedStep, OpenStep, HeadStep
  <2> QED BY <2>2 DEF HInv, Carried
<1>2. ASSUME IInv, HInv, UNCHANGED vars PROVE HInv'
  <2>1. UNCHANGED <<gh, deliveries, received, epoch, inst, repo, pull, files, jobs, hs, aborts,
                    answers, writes>>
    BY <1>2 DEF vars, github, rows
  <2>2. Carried'
    BY <1>2, <2>1 DEF HInv, Carried, DeliveriesOK, WritesOK, LastOK, IsLast, Of, RepeatOK, Repeats,
       Superseded, RepeatNeedsOther, EndsOK, Accounted, DuplicatesOK, By, Writing, Busy, At, PrOf, Done
  <2>3. OpenOK'
    BY <1>2, <2>1 DEF HInv, OpenOK, JobsOnlyIfOpen, Suspended, Busy, At
  <2>4. HeadOK'
    <3>1. TypeOK /\ TypeOK'
      BY <1>2, Inductive DEF IInv
    <3>2. \A p \in PRs : gh[p].head <= gh'[p].head
      BY <2>1, <3>1, Numbers
    <3>3. \A p \in PRs : HeadFor(p)
      BY <1>2 DEF HInv, HeadOK
    <3> QED BY <2>1, <3>1, <3>2, <3>3, SameHandlersCalm, CalmKeeps DEF HeadOK
  <2> QED BY <2>2, <2>3, <2>4 DEF HInv, Carried
<1> QED
  BY <1>1, <1>2

LEMMA Histories == Spec => [](IInv /\ HInv)
<1>1. Init => IInv /\ HInv
  BY InitInv, InitHistory
<1>2. IInv /\ HInv /\ [Next]_vars => (IInv /\ HInv)'
  BY Inductive, HistoryInductive
<1> QED
  BY <1>1, <1>2, PTL DEF Spec

(* Duplicate suppression remembers one delivery per row: a delivery handled to *)
(* its end is processed again only after another one of the same row, for any  *)
(* number of receipts, redeliveries and handlers in flight.                    *)
THEOREM RepeatsExplained == Spec => []RepeatNeedsOther
<1>1. HInv => RepeatNeedsOther
  BY DEF HInv
<1> QED
  BY <1>1, Histories, PTL

(* The early suspended test is enough for its purpose: no review is queued by a *)
(* handling during all of which the installation was suspended.                 *)
THEOREM JobsWhileOpen == Spec => []JobsOnlyIfOpen
<1>1. HInv => JobsOnlyIfOpen
  BY DEF HInv, OpenOK
<1> QED
  BY <1>1, Histories, PTL

(* A delivery answered as a duplicate was written by a handling that queued its *)
(* review, failed and says so, found no owner, or is still running; otherwise a *)
(* handling died or the installation went.                                      *)
THEOREM DuplicatesHandled == Spec => []DuplicateWasHandled
<1>1. HInv => DuplicateWasHandled
  BY DEF HInv, DuplicatesOK, EndsOK, Accounted, DuplicateWasHandled
<1> QED
  BY <1>1, Histories, PTL

(* A row is FAILED only by a handling that no later one has written over, and  *)
(* a failure is gone only after a later write, however handlings overlap.      *)
THEOREM FailuresShown == Spec => []FailureShown
<1> DEFINE Inv == \A p \in PRs : StatusFor(p)
<1>1. Init => Inv
  BY DEF Init, StatusFor
<1>2. ASSUME IInv, IInv', HInv, Inv, [Next]_vars
      PROVE  Inv'
  <2>1. TypeOK /\ TypeOK' /\ RunsOK /\ RowsOK /\ WritesOK
    BY <1>2 DEF IInv, HInv
  <2>2. ASSUME NEW p \in PRs
        PROVE  StatusFor(p)'
    BY <1>2, <2>1, <2>2, StatusStep
  <2> QED BY <2>2
<1>3. Inv => FailureShown
  BY DEF StatusFor, FailureShown
<1> HIDE DEF Inv
<1> QED
  BY <1>1, <1>2, <1>3, Histories, PTL DEF Spec

(* replacePrFiles leaves the files of the current head once a delivery sent at  *)
(* that head has been processed by handlings that neither overlapped nor died.  *)
THEOREM FilesOfHead == Spec => []FilesReflectHead
<1>1. ASSUME IInv, HInv PROVE FilesReflectHead
  <2> SUFFICES ASSUME NEW p \in PRs, pull[p] # None, pull[p].status = "RECEIVED",
                      \A h \in Handlers : At(h, "idle") \/ PrOf(h) # p,
                      NEW i \in Written(p), writes[i].head = gh[p].head, Orderly(p)
               PROVE  {f.head : f \in files[p]} = {gh[p].head}
    BY DEF FilesReflectHead
  <2>1. \A h \in Handlers : ~Holder(h, p)
    BY DEF Holder, Writing, At, AfterWrite
  <2>2. PICK x \in Nat : Fresh(p, x) /\ Shows(p, x)
    BY <1>1, <2>1 DEF HInv, HeadOK, HeadFor
  <2>3. x = gh[p].head
    BY <1>1, <2>2, Numbers DEF Fresh, IInv
  <2> QED BY <2>2, <2>3 DEF Shows
<1> QED
  BY <1>1, Histories, PTL
=============================================================================
