------------------------------ MODULE Accounts ------------------------------
(***************************************************************************)
(* Users, their sessions, and the state tokens that tie a redirect from    *)
(* GitHub to the request that started it.                                  *)
(*                                                                         *)
(* A request is served by a process, one awaited statement, Redis command  *)
(* or GitHub call per step.  OAuthStateService and InstallStateService are *)
(* the same code over two key prefixes: a token made for a user is one of  *)
(* the second, a token made for None one of the first.                     *)
(*                                                                         *)
(* A mailbox can be spelled in several ways; Lower gives the spelling in   *)
(* lower case.  A password stands for its hash, and a User row for its     *)
(* uuid.  The field late of a process, the field spent of a token and the  *)
(* variable sessions are history; no step that writes a row reads them.    *)
(***************************************************************************)
EXTENDS Naturals, FiniteSets

CONSTANTS Ids,         \* GitHub accounts
          Addresses,   \* email addresses, as spelled
          Lower,       \* Lower[a]: a in lower case
          Passwords,   \* passwords
          Tokens,      \* random state tokens
          Procs,       \* requests the server can be serving at once
          None,        \* a null column, no token, nobody
          MaxServed,   \* bound: requests ever served
          MaxChanges   \* bound: changes of address on GitHub

ASSUME AccountsAssumption ==
    /\ MaxServed \in Nat /\ MaxChanges \in Nat
    /\ IsFiniteSet(Procs)
    /\ Lower \in [Addresses -> Addresses]
    /\ \A a \in Addresses : Lower[Lower[a]] = Lower[a]
    /\ None \notin Ids \cup Addresses \cup Passwords \cup Tokens \cup Nat
    /\ \A a \in Addresses \cup {None}, g \in Ids \cup {None}, w \in Passwords \cup {None} :
          [github |-> g, email |-> a, password |-> w] # None

Rows == 1..MaxServed

VARIABLES
    profile,    \* profile[g]: the address GitHub shows of g, or None
    changes,    \* number of changes of address so far
    users,      \* users[u]: the User row
    made,       \* number of rows made so far
    tokens,     \* tokens[t]: the state token in Redis
    sessions,   \* the access tokens given out, with what was proved
    procs,      \* procs[p]: the local state of a process
    served      \* number of requests served so far

vars == <<profile, changes, users, made, tokens, sessions, procs, served>>

Free == [pc |-> "idle", id |-> None, token |-> None, email |-> None, password |-> None,
         user |-> None, held |-> FALSE, late |-> FALSE]
Unmade == [state |-> "unmade", user |-> None, spent |-> FALSE]

Init ==
    /\ profile = [g \in Ids |-> None]
    /\ changes = 0
    /\ users = [u \in Rows |-> None]
    /\ made = 0
    /\ tokens = [t \in Tokens |-> Unmade]
    /\ sessions = {}
    /\ procs = [p \in Procs |-> Free]
    /\ served = 0

At(p, pc) == procs[p].pc = pc
Goto(p, pc) == procs' = [procs EXCEPT ![p].pc = pc]
End(p) == procs' = [procs EXCEPT ![p] = Free]

\* an address that is verified on GitHub belongs to one account, however spelled
Holders(a) == {h \in Ids : a # None /\ profile[h] # None /\ Lower[profile[h]] = Lower[a]}

ChangeAddress(g, a) ==
    /\ changes < MaxChanges
    /\ a # profile[g]
    /\ Holders(a) \subseteq {g}
    /\ profile' = [profile EXCEPT ![g] = a]
    /\ changes' = changes + 1
    /\ UNCHANGED <<users, made, tokens, sessions, procs, served>>

-----------------------------------------------------------------------------
(* State tokens.                                                            *)

\* RedisService.set of a random key
Create(t, user) ==
    /\ tokens[t] = Unmade
    /\ tokens' = [tokens EXCEPT ![t].state = "live", ![t].user = user]
    /\ UNCHANGED <<profile, changes, users, made, sessions, procs, served>>

SignedIn(u) == \E session \in sessions : session.user = u

\* GET auth/github
StartLogin(t) == Create(t, None)

\* POST install/start
StartInstall(t, u) == SignedIn(u) /\ Create(t, u)

\* the time to live of 15 or 10 minutes is over
ExpireToken(t) ==
    /\ tokens[t].state = "live"
    /\ tokens' = [tokens EXCEPT ![t].state = "gone"]
    /\ UNCHANGED <<profile, changes, users, made, sessions, procs, served>>

\* the user a token was made for: None says that it is one of auth/github
Live(t, user) == t # None /\ tokens[t].state = "live" /\ (tokens[t].user = None <=> user = None)

\* the first half of consume; without the token a login is refused, and an
\* installation goes on as if it had brought none
ReadToken(p) ==
    LET found == Live(procs[p].token, procs[p].user) IN
    /\ At(p, "readToken")
    /\ \/ /\ found
          /\ procs' = [procs EXCEPT ![p].pc = "delete", ![p].held = TRUE]
       \/ ~found /\ procs[p].user = None /\ End(p)
       \/ ~found /\ procs[p].user # None /\ Goto(p, "owner")
    /\ UNCHANGED <<profile, changes, users, made, tokens, sessions, served>>

KeptBug(t) == [tokens[t] EXCEPT !.spent = TRUE]
Deleted(t) == [tokens[t] EXCEPT !.state = "gone", !.spent = TRUE]

\* the second half; the key may have expired or been deleted in between
DeleteToken(p) ==
    /\ At(p, "delete")
    /\ tokens' = [tokens EXCEPT ![procs[p].token] = Deleted(procs[p].token)]
    /\ Goto(p, IF procs[p].user = None THEN "profile" ELSE "match")
    /\ UNCHANGED <<profile, changes, users, made, sessions, served>>

-----------------------------------------------------------------------------
(* The requests.                                                            *)

Begin(p, local) ==
    /\ At(p, "idle")
    /\ served < MaxServed
    /\ served' = served + 1
    /\ procs' = [procs EXCEPT ![p] = local]
    /\ UNCHANGED <<profile, changes, users, made, tokens, sessions>>

\* GitHub redirects g back with a code; whoever follows the link has the token
Callback(p, g, t) ==
    /\ tokens[t] # Unmade
    /\ Begin(p, [Free EXCEPT !.pc = "readToken", !.id = g, !.token = t,
                             !.late = tokens[t].spent])

\* register and login lower the spelling before anything else
AsTypedBug(a) == a
Normalized(a) == Lower[a]

Register(p, a, w) ==
    Begin(p, [Free EXCEPT !.pc = "unused", !.email = Normalized(a), !.password = w])

Login(p, a, w) ==
    Begin(p, [Free EXCEPT !.pc = "find", !.email = Normalized(a), !.password = w])

\* GitHub's setup URL, with a token or without
Complete(p, u, t) ==
    /\ SignedIn(u)
    /\ Begin(p, IF t = None
                THEN [Free EXCEPT !.pc = "owner", !.user = u]
                ELSE [Free EXCEPT !.pc = "readToken", !.user = u, !.token = t,
                                  !.late = tokens[t].spent])

-----------------------------------------------------------------------------
(* The User table.                                                          *)

Present(u) == users[u] # None
ByEmail(a) == {u \in Rows : Present(u) /\ a # None /\ users[u].email = a}
ByGithub(g) == {u \in Rows : Present(u) /\ users[u].github = g}

Write(u, row) == users' = [users EXCEPT ![u] = row]

\* the row is written or found: an access token for it is due
Due(local) == [user |-> local.user, github |-> local.id, password |-> local.password]

Accept(p, u, row) ==
    procs' = [procs EXCEPT ![p] = [Free EXCEPT !.pc = "session", !.user = u, !.id = row.github,
                                               !.password = procs[p].password]]

\* jwtService.signAsync; without it the row stays, and nobody is signed in
CreateAccessToken(p) ==
    /\ At(p, "session")
    /\ sessions' = sessions \cup {Due(procs[p])}
    /\ End(p)
    /\ UNCHANGED <<profile, changes, users, made, tokens, served>>

\* exchangeCodeForToken and fetchGithubProfile: GitHub's answer, as of now
FetchProfile(p) ==
    /\ At(p, "profile")
    /\ procs' = [procs EXCEPT ![p].pc = "upsert", ![p].email = profile[procs[p].id]]
    /\ UNCHANGED <<profile, changes, users, made, tokens, sessions, served>>

\* upsertGithubUser: an account whose address another row has is refused
LinkByEmailBug(p) == ByGithub(procs[p].id) \cup ByEmail(procs[p].email)
TargetOf(p) == ByGithub(procs[p].id)

UpsertGithubUser(p) ==
    LET g == procs[p].id
        a == procs[p].email
    IN
    /\ At(p, "upsert")
    /\ \/ \E u \in TargetOf(p) :
             LET row == [users[u] EXCEPT !.github = g, !.email = a] IN
             ByEmail(a) \subseteq {u} /\ Write(u, row) /\ Accept(p, u, row) /\ UNCHANGED made
       \/ LET row == [github |-> g, email |-> a, password |-> None] IN
             /\ TargetOf(p) = {} /\ ByEmail(a) = {}
             /\ made' = made + 1
             /\ Write(made', row) /\ Accept(p, made', row)
       \/ /\ ByEmail(a) \ TargetOf(p) # {}
          /\ End(p)
          /\ UNCHANGED <<users, made>>
    /\ UNCHANGED <<profile, changes, tokens, sessions, served>>

\* registerLocalUser: ConflictException
FindUnused(p) ==
    /\ At(p, "unused")
    /\ IF ByEmail(procs[p].email) = {} THEN Goto(p, "create") ELSE End(p)
    /\ UNCHANGED <<profile, changes, users, made, tokens, sessions, served>>

\* after hashing; the unique key refuses an address that was taken meanwhile
FreeBug(p) == TRUE
StillFree(p) == ByEmail(procs[p].email) = {}

CreateUser(p) ==
    LET row == [github |-> None, email |-> procs[p].email, password |-> procs[p].password] IN
    /\ At(p, "create")
    /\ \/ /\ StillFree(p)
          /\ made' = made + 1
          /\ Write(made', row) /\ Accept(p, made', row)
       \/ /\ ~StillFree(p)
          /\ End(p)
          /\ UNCHANGED <<users, made>>
    /\ UNCHANGED <<profile, changes, tokens, sessions, served>>

\* loginLocalUser; the row found is compared with the password it had
Matches(u, w) == users[u].password = w

FindUser(p) ==
    LET found == {u \in ByEmail(procs[p].email) : Matches(u, procs[p].password)} IN
    /\ At(p, "find")
    /\ (\E u \in found : Accept(p, u, users[u])) \/ (found = {} /\ End(p))
    /\ UNCHANGED <<profile, changes, users, made, tokens, sessions, served>>

\* completeInstall: UnauthorizedException when the token is another user's
Theirs(p) == tokens[procs[p].token].user = procs[p].user

MatchUser(p) ==
    /\ At(p, "match")
    /\ IF Theirs(p) THEN Goto(p, "claim") ELSE End(p)
    /\ UNCHANGED <<profile, changes, users, made, tokens, sessions, served>>

\* without a token the owner decides, who is a matter of Installations
CheckOwner(p) ==
    /\ At(p, "owner")
    /\ Goto(p, "claim") \/ End(p)
    /\ UNCHANGED <<profile, changes, users, made, tokens, sessions, served>>

\* verifyAndSync: RequestClaim of Installations, for procs[p].user
Claim(p) ==
    /\ At(p, "claim")
    /\ End(p)
    /\ UNCHANGED <<profile, changes, users, made, tokens, sessions, served>>

\* an awaited call throws, or the process dies
Fail(p) ==
    /\ ~At(p, "idle")
    /\ End(p)
    /\ UNCHANGED <<profile, changes, users, made, tokens, sessions, served>>

Serve(p) ==
    \/ ReadToken(p) \/ DeleteToken(p) \/ FetchProfile(p) \/ UpsertGithubUser(p)
    \/ FindUnused(p) \/ CreateUser(p) \/ FindUser(p) \/ CreateAccessToken(p)
    \/ MatchUser(p) \/ CheckOwner(p) \/ Claim(p) \/ Fail(p)

\* the server waits for requests
Quiet == (\A p \in Procs : At(p, "idle")) /\ UNCHANGED vars

Next ==
    \/ \E g \in Ids, a \in Addresses \cup {None} : ChangeAddress(g, a)
    \/ \E t \in Tokens :
          StartLogin(t) \/ ExpireToken(t) \/ \E u \in Rows : StartInstall(t, u)
    \/ \E p \in Procs :
          \/ \E g \in Ids, t \in Tokens : Callback(p, g, t)
          \/ \E a \in Addresses, w \in Passwords : Register(p, a, w) \/ Login(p, a, w)
          \/ \E u \in Rows, t \in Tokens \cup {None} : Complete(p, u, t)
          \/ Serve(p)
    \/ Quiet

Spec == Init /\ [][Next]_vars

-----------------------------------------------------------------------------
(* What is checked.                                                         *)

Pcs == {"idle", "readToken", "delete", "profile", "upsert", "unused", "create", "find",
        "session", "match", "owner", "claim"}
UserRows == [github : Ids \cup {None}, email : Addresses \cup {None},
             password : Passwords \cup {None}]
Locals == [pc : Pcs, id : Ids \cup {None}, token : Tokens \cup {None},
           email : Addresses \cup {None}, password : Passwords \cup {None},
           user : Rows \cup {None}, held : BOOLEAN, late : BOOLEAN]

\* Every variable stays in its type, the rows are the first ones made, and the
\* unique columns of User are unique.
TypeOK ==
    /\ profile \in [Ids -> Addresses \cup {None}]
    /\ changes \in 0..MaxChanges
    /\ users \in [Rows -> UserRows \cup {None}]
    /\ made \in 0..MaxServed
    /\ \A u \in Rows : Present(u) <=> u <= made
    /\ tokens \in [Tokens -> [state : {"unmade", "live", "gone"}, user : Rows \cup {None},
                              spent : BOOLEAN]]
    /\ sessions \subseteq [user : Rows, github : Ids \cup {None},
                           password : Passwords \cup {None}]
    /\ procs \in [Procs -> Locals]
    /\ served \in 0..MaxServed
    /\ \A u, v \in Rows : Present(u) /\ Present(v) /\ u # v =>
          /\ users[u].github = None \/ users[u].github # users[v].github
          /\ users[u].email = None \/ users[u].email # users[v].email

\* "States are single-use", as far as two Redis commands make them so: a request
\* that began after another had deleted its token never gets past consume with
\* it, and an installation goes on with one only for the user it was made for.
\* (Of requests that overlap several may pass.)
TokenHonoured ==
    \A p \in Procs : procs[p].held =>
        /\ ~procs[p].late
        /\ At(p, "claim") => tokens[procs[p].token].user = procs[p].user

\* A session is good for a User row as long as the access token lives, without
\* the proof being repeated: the row must be, and remain, that of the GitHub
\* account or the password that was proved, whoever signs in, registers or
\* changes an address meanwhile.
SessionsHonest ==
    \A session \in sessions :
        /\ users[session.user].github = session.github
        /\ users[session.user].password = session.password
        /\ session.github # None \/ session.password # None

\* Whoever has registered can sign in again: every spelling of the address
\* leads register and login to that row and to no other, in spite of
\* registrations that race and of GitHub accounts with the same address.
RegisteredFound ==
    \A u \in Rows : Present(u) /\ users[u].password # None =>
        \A a \in Addresses :
            Lower[a] = Lower[users[u].email] => ByEmail(Normalized(a)) = {u}
=============================================================================
