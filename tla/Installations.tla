---------------------------- MODULE Installations ----------------------------
(***************************************************************************)
(* Who owns a GitHub App installation, and which repositories it covers:   *)
(* the Installation and Repository rows, written by webhook events that    *)
(* GitHub sends in any order and by users who connect or synchronise.      *)
(*                                                                         *)
(* A request or an event is served by a process, one awaited statement or  *)
(* GitHub call per step.  A find that only decides whether the next write  *)
(* can succeed is one step with it: a row that appears or goes between the *)
(* two makes the write throw, which is Fail.                               *)
(*                                                                         *)
(* A uuid of an Installation row is the installation and an incarnation:   *)
(* deleting the row ends one, so a process may hold a uuid that is gone.   *)
(* The fields open, rival and touched of a process are history; no step    *)
(* reads them.                                                             *)
(***************************************************************************)
EXTENDS Naturals, FiniteSets

CONSTANTS Insts,      \* GitHub installation ids
          Repos,      \* GitHub repositories
          Users,      \* PR Sentinel users
          Procs,      \* requests and events the server can be serving at once
          None,       \* an absent row, and a null column
          Rank,       \* the order in which GitHub lists repositories
          PageSize,   \* repositories on a page of that list (100 in the code)
          MaxEvents,  \* bound: webhook events GitHub creates
          MaxServed   \* bound: requests and events ever served

ASSUME InstallationsAssumption ==
    /\ MaxEvents \in Nat /\ MaxServed \in Nat /\ PageSize \in Nat \ {0}
    /\ IsFiniteSet(Repos)
    /\ Rank \in [Repos -> Nat]
    /\ \A r, s \in Repos : Rank[r] = Rank[s] => r = s
    /\ None \notin Users \cup Insts
    /\ \A user \in Users \cup {None}, suspended \in BOOLEAN :
          [user |-> user, suspended |-> suspended] # None
    /\ \A i \in Insts, active \in BOOLEAN : [inst |-> i, active |-> active] # None

VARIABLES
    gh,       \* gh[i]: the installation as GitHub has it
    events,   \* the webhook events GitHub has created; it may send each again
    inst,     \* inst[i]: the Installation row
    epoch,    \* epoch[i]: the incarnation of that row, or of the next one
    repo,     \* repo[r]: the Repository row
    procs,    \* procs[p]: the local state of a process
    served    \* number of requests and events served so far

vars == <<gh, events, inst, epoch, repo, procs, served>>

Free == [pc |-> "idle", i |-> None, user |-> None, row |-> 0, sync |-> FALSE,
         owner |-> None, page |-> 1, seen |-> 0, list |-> {}, add |-> {}, drop |-> {},
         open |-> FALSE, rival |-> FALSE, touched |-> {}, kept |-> {}]

Init ==
    /\ gh = [i \in Insts |-> [state |-> "absent", repos |-> {}]]
    /\ events = {}
    /\ inst = [i \in Insts |-> None]
    /\ epoch = [i \in Insts |-> 1]
    /\ repo = [r \in Repos |-> None]
    /\ procs = [p \in Procs |-> Free]
    /\ served = 0

UserOf(i) == IF inst[i] = None THEN None ELSE inst[i].user
ActiveIn(i) == {r \in Repos : repo[r] # None /\ repo[r].inst = i /\ repo[r].active}

-----------------------------------------------------------------------------
(* GitHub.  A repository belongs to one account, so at most one installation*)
(* covers it; an id is never used again after an uninstall.                 *)

\* a removal moves what comes after it in the list
Undisturbed(rs, removed) == {r \in rs : \A s \in removed : Rank[r] < Rank[s]}

Emit(i, new, kind, added, removed) ==
    /\ Cardinality(events) < MaxEvents
    /\ gh' = [gh EXCEPT ![i] = new]
    /\ events' = events \cup
         {[id |-> Cardinality(events) + 1, kind |-> kind, i |-> i,
           added |-> added, removed |-> removed]}
    /\ procs' = [p \in Procs |->
                   IF procs[p].i # i \/ procs[p].pc # "list" THEN procs[p]
                   ELSE [procs[p] EXCEPT !.kept = Undisturbed(@, removed)]]
    /\ UNCHANGED <<inst, epoch, repo, served>>

Elsewhere(i) == UNION {gh[k].repos : k \in Insts \ {i}}

GithubInstall(i) ==
    /\ gh[i].state = "absent"
    /\ \E rs \in SUBSET (Repos \ Elsewhere(i)) :
          Emit(i, [state |-> "installed", repos |-> rs], "saved", rs, {})

GithubUninstall(i) ==
    /\ gh[i].state \in {"installed", "suspended"}
    /\ Emit(i, [state |-> "gone", repos |-> {}], "deleted", {}, {})

GithubSuspend(i) ==
    gh[i].state = "installed" /\ Emit(i, [gh[i] EXCEPT !.state = "suspended"], "suspend", {}, {})

GithubUnsuspend(i) ==
    gh[i].state = "suspended" /\ Emit(i, [gh[i] EXCEPT !.state = "installed"], "unsuspend", {}, {})

\* new permissions are accepted
GithubAccept(i) == gh[i].state = "installed" /\ Emit(i, gh[i], "saved", {}, {})

GithubSelect(i) ==
    /\ gh[i].state = "installed"
    /\ \E r \in Repos :
          \/ /\ r \notin gh[i].repos \cup Elsewhere(i)
             /\ Emit(i, [gh[i] EXCEPT !.repos = @ \cup {r}], "repositories", {r}, {})
          \/ /\ r \in gh[i].repos
             /\ Emit(i, [gh[i] EXCEPT !.repos = @ \ {r}], "repositories", {}, {r})

\* a pull request is opened or pushed to
GithubPull(i) == \E r \in gh[i].repos : Emit(i, gh[i], "pull", {r}, {})

Github ==
    \E i \in Insts :
        \/ GithubInstall(i) \/ GithubUninstall(i) \/ GithubSuspend(i) \/ GithubUnsuspend(i)
        \/ GithubAccept(i) \/ GithubSelect(i) \/ GithubPull(i)

-----------------------------------------------------------------------------
(* What a process starts with.                                              *)

At(p, pc) == procs[p].pc = pc
I(p) == procs[p].i

Begin(p, local) ==
    /\ At(p, "idle")
    /\ served < MaxServed
    /\ served' = served + 1
    /\ procs' = [procs EXCEPT ![p] = local]
    /\ UNCHANGED <<gh, events, inst, epoch, repo>>

\* handleInstallationEvent, handleInstallationRepositoriesEvent and the
\* pull_request handler's findOrUpsertRepository begin where the kind says
Receive(p, e) ==
    Begin(p, [Free EXCEPT !.pc = e.kind, !.i = e.i, !.add = e.added, !.drop = e.removed])

\* install/claim and install/complete: the ownership test they make first, when
\* they have no state token, refuses what the test of verifyAndSync would
RequestClaim(p, u, i) ==
    Begin(p, [Free EXCEPT !.pc = "verify", !.i = i, !.user = u, !.sync = TRUE,
                          !.open = (UserOf(i) = None)])

\* listInstallationRepositories is about to be called, for the row there is
Listing(u, i) ==
    [Free EXCEPT !.pc = "list", !.i = i, !.user = u, !.sync = TRUE, !.row = epoch[i]]

\* installation/sync: any one of the user's installations, not a suspended one
RequestSync(p, u, i) ==
    /\ inst[i] # None /\ UserOf(i) = u /\ ~inst[i].suspended
    /\ Begin(p, Listing(u, i))

-----------------------------------------------------------------------------
(* The steps.                                                               *)

Goto(p, pc) == procs' = [procs EXCEPT ![p].pc = pc]
End(p) == procs' = [procs EXCEPT ![p] = Free]

SetInst(i, user, suspended) ==
    inst' = [inst EXCEPT ![i] = [user |-> user, suspended |-> suspended]]

\* whom a write of the owner, or of a repository, may overtake
Claiming(q) == procs[q].pc \in {"verify", "check", "readOwner", "link"}
Syncing(q) == procs[q].sync /\ procs[q].pc \in {"add", "readActive", "drop"}

\* p goes on as local; to a synchronisation, the repositories rs have been written
Touching(p, local, rs) ==
    [q \in Procs |-> IF q = p THEN local ELSE [procs[q] EXCEPT !.touched = @ \cup {r \in rs : Syncing(q)}]]

\* upsertInstallation: suspended is reset, userId is left alone
Save(p) ==
    /\ At(p, "saved")
    /\ SetInst(I(p), UserOf(I(p)), FALSE)
    /\ procs' = [procs EXCEPT ![p].pc = "add", ![p].row = epoch[I(p)]]
    /\ UNCHANGED <<gh, events, epoch, repo, served>>

\* deleteInstallation; the cascade takes the repositories
CascadeBug(i) == repo
Cascade(i) == [r \in Repos |-> IF repo[r] # None /\ repo[r].inst = i THEN None ELSE repo[r]]

Delete(p) ==
    LET i == I(p)
        gone == {r \in Repos : repo[r] # None /\ repo[r].inst = i}
    IN
    /\ At(p, "deleted")
    /\ \/ /\ inst[i] # None
          /\ inst' = [inst EXCEPT ![i] = None]
          /\ epoch' = [epoch EXCEPT ![i] = @ + 1]
          /\ repo' = Cascade(i)
          /\ procs' = [q \in Procs |->
                         IF q = p THEN Free
                         ELSE [procs[q] EXCEPT !.touched = @ \cup {r \in gone : Syncing(q)},
                                               !.open = @ \/ (Claiming(q) /\ I(q) = i)]]
       \/ /\ inst[i] = None
          /\ End(p)
          /\ UNCHANGED <<inst, epoch, repo>>
    /\ UNCHANGED <<gh, events, served>>

\* suspendInstallation: without a row, a suspended placeholder
Suspend(p) ==
    /\ At(p, "suspend")
    /\ SetInst(I(p), UserOf(I(p)), TRUE)
    /\ End(p)
    /\ UNCHANGED <<gh, events, epoch, repo, served>>

\* unsuspendInstallation: without a row, nothing
Unsuspend(p) ==
    /\ At(p, "unsuspend")
    /\ IF inst[I(p)] # None THEN SetInst(I(p), UserOf(I(p)), FALSE) ELSE UNCHANGED inst
    /\ End(p)
    /\ UNCHANGED <<gh, events, epoch, repo, served>>

\* installation_repositories: without a row, a placeholder
Place(p) ==
    /\ At(p, "repositories")
    /\ IF inst[I(p)] = None THEN SetInst(I(p), None, FALSE) ELSE UNCHANGED inst
    /\ procs' = [procs EXCEPT ![p].pc = "add", ![p].row = epoch[I(p)]]
    /\ UNCHANGED <<gh, events, epoch, repo, served>>

\* a pull_request event of an installation that is not suspended
CheckSuspended(p) ==
    /\ At(p, "pull")
    /\ IF inst[I(p)] # None /\ inst[I(p)].suspended THEN End(p) ELSE Goto(p, "findRepo")
    /\ UNCHANGED <<gh, events, inst, epoch, repo, served>>

\* the row of a known repository is left alone
FindRepository(p) ==
    /\ At(p, "findRepo")
    /\ IF \A r \in procs[p].add : repo[r] # None THEN End(p) ELSE Goto(p, "findInst")
    /\ UNCHANGED <<gh, events, inst, epoch, repo, served>>

FindInstallation(p) ==
    /\ At(p, "findInst")
    /\ IF inst[I(p)] = None
         THEN End(p)
         ELSE procs' = [procs EXCEPT ![p].pc = "add", ![p].row = epoch[I(p)]]
    /\ UNCHANGED <<gh, events, inst, epoch, repo, served>>

\* upsertRepository, for each of the list; the foreign key needs the row
UpsertedBug(i, r) == [inst |-> i, active |-> repo[r] = None \/ repo[r].active]
UnmovedBug(i, r) == [inst |-> IF repo[r] = None THEN i ELSE repo[r].inst, active |-> TRUE]
Upserted(i, r) == [inst |-> i, active |-> TRUE]

AddRepository(p) ==
    /\ At(p, "add")
    /\ inst[I(p)] # None /\ epoch[I(p)] = procs[p].row
    /\ \E r \in procs[p].add :
          /\ repo' = [repo EXCEPT ![r] = Upserted(I(p), r)]
          /\ procs' = Touching(p, [procs[p] EXCEPT !.add = @ \ {r}], {r})
    /\ UNCHANGED <<gh, events, inst, epoch, served>>

\* an event goes on to the removals of its payload, a synchronisation to those
\* it derives
AddedAll(p) ==
    /\ At(p, "add")
    /\ procs[p].add = {}
    /\ Goto(p, IF procs[p].sync THEN "readActive" ELSE "drop")
    /\ UNCHANGED <<gh, events, inst, epoch, repo, served>>

\* deactivateRepository finds the row by its GitHub id, whatever installation
\* it is of
DropRepository(p) ==
    /\ At(p, "drop")
    /\ \E r \in procs[p].drop :
          /\ repo' = IF repo[r] = None THEN repo ELSE [repo EXCEPT ![r].active = FALSE]
          /\ procs' = Touching(p, [procs[p] EXCEPT !.drop = @ \ {r}], {r})
    /\ UNCHANGED <<gh, events, inst, epoch, served>>

DroppedAll(p) ==
    /\ At(p, "drop")
    /\ procs[p].drop = {}
    /\ End(p)
    /\ UNCHANGED <<gh, events, inst, epoch, repo, served>>

\* verifyAndSync: GitHub must know the installation
Verify(p) ==
    /\ At(p, "verify")
    /\ IF gh[I(p)].state \in {"installed", "suspended"} THEN Goto(p, "check") ELSE End(p)
    /\ UNCHANGED <<gh, events, inst, epoch, repo, served>>

NotTheirsBug(p) == TRUE
NotTheirs(p) == UserOf(I(p)) \in {None, procs[p].user}

CheckOwner(p) ==
    /\ At(p, "check")
    /\ IF NotTheirs(p) THEN Goto(p, "readOwner") ELSE End(p)
    /\ UNCHANGED <<gh, events, inst, epoch, repo, served>>

\* upsertInstallationWithUser: the owner is read, and written if there was none
ReadOwner(p) ==
    /\ At(p, "readOwner")
    /\ procs' = [procs EXCEPT ![p].pc = "link", ![p].owner = UserOf(I(p))]
    /\ UNCHANGED <<gh, events, inst, epoch, repo, served>>

LinkedUserBug(p) == procs[p].user
LinkedUser(p) ==
    IF inst[I(p)] = None \/ procs[p].owner = None THEN procs[p].user ELSE UserOf(I(p))

Link(p) ==
    /\ At(p, "link")
    /\ SetInst(I(p), LinkedUser(p), FALSE)
    /\ procs' = [q \in Procs |->
                   IF q = p THEN Listing(procs[p].user, I(p))
                   ELSE [procs[q] EXCEPT !.rival = @ \/ (Claiming(q) /\ I(q) = I(p))]]
    /\ UNCHANGED <<gh, events, epoch, repo, served>>

\* listInstallationRepositories asks for page after page, until as many as
\* GitHub now counts have been seen; the list may change between two pages
Before(i, r) == {s \in gh[i].repos : Rank[s] < Rank[r]}
PageOf(i, n) == {r \in gh[i].repos : Cardinality(Before(i, r)) \div PageSize = n - 1}

Counted(p, got) == procs[p].seen + Cardinality(got)

NothingNewBug(p, got) ==
    got \subseteq procs[p].list \/ Counted(p, got) >= Cardinality(gh[I(p)].repos)
PastEndBug(p, got) == Counted(p, got) > Cardinality(gh[I(p)].repos)
Enough(p, got) == Counted(p, got) >= Cardinality(gh[I(p)].repos)

ListPage(p) ==
    LET i == I(p)
        got == PageOf(i, procs[p].page)
        local == [procs[p] EXCEPT !.list = @ \cup got,
                                  !.kept = IF procs[p].page = 1 THEN gh[i].repos ELSE @]
    IN
    /\ At(p, "list")
    /\ gh[i].state = "installed"
    /\ procs' = [procs EXCEPT ![p] =
          IF Enough(p, got)
          THEN [local EXCEPT !.pc = "add", !.add = local.list, !.touched = {},
                             !.page = 1, !.seen = 0]
          ELSE [local EXCEPT !.page = @ + 1, !.seen = Counted(p, got)]]
    /\ UNCHANGED <<gh, events, inst, epoch, repo, served>>

\* syncInstallationRepositories: active rows of this uuid that were not listed
ReadActive(p) ==
    LET active == IF epoch[I(p)] = procs[p].row THEN ActiveIn(I(p)) ELSE {} IN
    /\ At(p, "readActive")
    /\ procs' = [procs EXCEPT ![p].pc = "drop", ![p].drop = active \ procs[p].list]
    /\ UNCHANGED <<gh, events, inst, epoch, repo, served>>

\* the process dies, GitHub or the database does not answer, a row that was
\* found is gone, or one that was not found exists
Fail(p) ==
    /\ ~At(p, "idle")
    /\ End(p)
    /\ UNCHANGED <<gh, events, inst, epoch, repo, served>>

Serve(p) ==
    \/ Save(p) \/ Delete(p) \/ Suspend(p) \/ Unsuspend(p) \/ Place(p)
    \/ CheckSuspended(p) \/ FindRepository(p) \/ FindInstallation(p)
    \/ AddRepository(p) \/ AddedAll(p) \/ DropRepository(p) \/ DroppedAll(p)
    \/ Verify(p) \/ CheckOwner(p) \/ ReadOwner(p) \/ Link(p) \/ ListPage(p)
    \/ ReadActive(p) \/ Fail(p)

\* the server waits for requests and events
Quiet == (\A p \in Procs : At(p, "idle")) /\ UNCHANGED vars

Next ==
    \/ Github
    \/ \E p \in Procs :
          \/ \E e \in events : Receive(p, e)
          \/ \E u \in Users, i \in Insts : RequestClaim(p, u, i) \/ RequestSync(p, u, i)
          \/ Serve(p)
    \/ Quiet

Spec == Init /\ [][Next]_vars

-----------------------------------------------------------------------------
(* What is checked.                                                         *)

InstRows == [user : Users \cup {None}, suspended : BOOLEAN]
RepoRows == [inst : Insts, active : BOOLEAN]
Kinds == {"saved", "deleted", "suspend", "unsuspend", "repositories", "pull"}
Pcs == Kinds \cup {"idle", "findRepo", "findInst", "add", "drop", "verify", "check", "readOwner",
                   "link", "list", "readActive"}
Locals == [pc : Pcs, i : Insts \cup {None}, user : Users \cup {None}, row : Nat,
           sync : BOOLEAN, owner : Users \cup {None}, page : Nat \ {0}, seen : Nat,
           list : SUBSET Repos, add : SUBSET Repos, drop : SUBSET Repos, open : BOOLEAN, rival : BOOLEAN,
           touched : SUBSET Repos, kept : SUBSET Repos]

\* Every variable stays in its type, a busy process has an installation, and a
\* Repository row never outlives its Installation row.
TypeOK ==
    /\ gh \in [Insts -> [state : {"absent", "installed", "suspended", "gone"},
                         repos : SUBSET Repos]]
    /\ events \in SUBSET [id : 1..MaxEvents, kind : Kinds, i : Insts,
                          added : SUBSET Repos, removed : SUBSET Repos]
    /\ inst \in [Insts -> InstRows \cup {None}]
    /\ epoch \in [Insts -> Nat \ {0}]
    /\ repo \in [Repos -> RepoRows \cup {None}]
    /\ procs \in [Procs -> Locals]
    /\ \A p \in Procs : ~At(p, "idle") => I(p) \in Insts
    /\ \A r \in Repos : repo[r] # None => inst[repo[r].inst] # None
    /\ served \in 0..MaxServed

\* Connecting tests the owner, reads it again and writes, in separate
\* statements, and reports success in any case.  A user who is told 'connected'
\* owns the row, unless the row had no owner at some moment of the claim or
\* another claim wrote it meanwhile.
ConnectedHonest ==
    [][\A p \in Procs : At(p, "link") /\ procs'[p].pc = "list" =>
          inst'[I(p)].user = procs[p].user \/ procs[p].open \/ procs[p].rival]_vars

\* Webhooks carry no user.  Whatever order they come in, the owner of a row is
\* replaced only by a user whose claim found the row without one.
OwnerKept ==
    [][\A i \in Insts :
          inst[i] # None /\ inst'[i] # None /\ inst[i].user \notin {None, inst'[i].user} =>
             \E p \in Procs : /\ At(p, "link") /\ I(p) = i
                              /\ inst'[i].user = procs[p].user /\ procs[p].open]_vars

\* At the end of a synchronisation the active repositories of the installation
\* are those GitHub listed, except the ones that another process wrote since.
SyncExact ==
    \A p \in Procs : At(p, "drop") /\ procs[p].sync /\ procs[p].drop = {} =>
        \A r \in Repos \ procs[p].touched :
            r \in procs[p].list <=> epoch[I(p)] = procs[p].row /\ r \in ActiveIn(I(p))

\* The list may change between two pages.  However it does, a synchronisation
\* deactivates no repository that GitHub covered all the while, unless GitHub
\* removed another one before it in the list, which moved it to an earlier page:
\* what is added anywhere, and what is removed after it, never hides it.
NothingSkipped ==
    \A p \in Procs : At(p, "drop") /\ procs[p].sync => procs[p].drop \cap procs[p].kept = {}

\* The loop has no bound of its own.  However the list changes, it asks for no
\* page past those that all the repositories could fill.
PagesBounded ==
    \A p \in Procs : At(p, "list") /\ procs[p].page > 1 =>
        (procs[p].page - 1) * PageSize < Cardinality(Repos)

\* "Never overwrites an existing userId - ownership transfer must go through
\* explicit uninstall": while a row lives, its owner stays.
OwnerNeverReplaced ==
    [][\A i \in Insts : inst[i] # None /\ inst'[i] # None =>
          inst[i].user \in {None, inst'[i].user}]_vars
=============================================================================
