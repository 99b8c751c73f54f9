---------------------------- MODULE AccountsProofs ----------------------------
EXTENDS Accounts, FiniteSetTheorems, TLAPS

(* The inductive invariant. *)

\* a request makes one row at most, before its access token is due
Working(local) == local.pc \notin {"idle", "session"}
Busy == {p \in Procs : Working(procs[p])}
Running == Cardinality(Busy)
RoomOK == made + Running <= served

\* a row belongs to a GitHub account or to a password, never to both
Owned(row) ==
    \/ row.github \in Ids /\ row.password = None
    \/ /\ row.github = None /\ row.password \in Passwords
       /\ row.email \in Addresses /\ Lower[row.email] = row.email

RowsOK == \A u \in Rows : Present(u) => Owned(users[u])

TokensOK == \A t \in Tokens : tokens[t].spent => tokens[t].state = "gone"

\* what a request knows where it is
Proved(local) ==
    /\ local.pc \in {"readToken", "delete"} => local.user # None \/ local.id \in Ids
    /\ local.pc \in {"profile", "upsert"} => local.id \in Ids
    /\ local.pc \in {"readToken", "delete", "profile", "upsert"} => local.password = None
    /\ local.pc \in {"unused", "create", "find"} =>
          /\ local.email \in Addresses /\ Lower[local.email] = local.email
          /\ local.password \in Passwords

Carries(local) ==
    /\ local.pc \in {"readToken", "delete"} \/ local.held \/ local.late => local.token \in Tokens
    /\ local.late => tokens[local.token].spent
    /\ local.held => tokens[local.token].state # "unmade" /\ ~local.late
    /\ local.pc \in {"readToken", "owner"} => ~local.held
    /\ local.pc = "claim" /\ local.held => tokens[local.token].user = local.user

ProcsOK == \A p \in Procs : Proved(procs[p]) /\ Carries(procs[p])

Honest(session) ==
    /\ session.user \in Rows /\ Present(session.user)
    /\ users[session.user].github = session.github
    /\ users[session.user].password = session.password

\* the sessions given out and those that are due
Promised == sessions \cup {Due(procs[p]) : p \in {q \in Procs : At(q, "session")}}

SessionsOK == \A session \in Promised : Honest(session)

IInv ==
    /\ TypeOK
    /\ RoomOK
    /\ RowsOK
    /\ TokensOK
    /\ ProcsOK
    /\ SessionsOK

-----------------------------------------------------------------------------
(* A request goes on.                                                       *)

LEMMA FreeType ==
    /\ Free \in Locals
    /\ Free.pc = "idle" /\ Free.id = None /\ Free.token = None /\ Free.password = None
    /\ Free.user = None /\ Free.held = FALSE /\ Free.late = FALSE
BY DEF Free, Locals, Pcs

LEMMA RunningType == IsFiniteSet(Busy) /\ Running \in Nat
<1>1. IsFiniteSet(Busy)
  BY AccountsAssumption, FS_Subset DEF Busy
<1> QED
  BY <1>1, FS_CardinalityType DEF Running

LEMMA RunningMoves ==
    ASSUME TypeOK, NEW p \in Procs, NEW new \in Locals, procs' = [procs EXCEPT ![p] = new]
    PROVE  /\ ~Working(procs[p]) /\ Working(new) => Running' = Running + 1
           /\ Working(procs[p]) /\ ~Working(new) => Running' = Running - 1 /\ Running >= 1
           /\ (Working(procs[p]) <=> Working(new)) => Running' = Running
<1>1. \A k \in Procs : procs'[k] = IF k = p THEN new ELSE procs[k]
  BY DEF TypeOK
<1>2. CASE ~Working(procs[p]) /\ Working(new)
  <2>1. Busy' = Busy \cup {p} /\ p \notin Busy
    BY <1>1, <1>2 DEF Busy
  <2> QED BY <1>2, <2>1, RunningType, FS_AddElement DEF Running
<1>3. CASE Working(procs[p]) /\ ~Working(new)
  <2>1. Busy' = Busy \ {p} /\ p \in Busy
    BY <1>1, <1>3 DEF Busy
  <2>2. Cardinality(Busy') = Cardinality(Busy) - 1 /\ Cardinality(Busy') \in Nat
    BY <2>1, RunningType, FS_RemoveElement, FS_CardinalityType
  <2> QED BY <1>3, <2>2, RunningType DEF Running
<1>4. CASE Working(procs[p]) <=> Working(new)
  <2>1. Busy' = Busy
    BY <1>1, <1>4 DEF Busy
  <2> QED BY <1>4, <2>1 DEF Running
<1> QED
  BY <1>2, <1>3, <1>4

\* what is done to a token is not undone
TokensKept ==
    \A t \in Tokens :
        /\ tokens[t].spent => tokens'[t].spent
        /\ tokens[t].state # "unmade" =>
              tokens'[t].state # "unmade" /\ tokens'[t].user = tokens[t].user

\* procs[k] keeps what it has while the tokens are kept
LEMMA ProcKept ==
    ASSUME ProcsOK, TokensKept, NEW k \in Procs, procs'[k] = procs[k]
    PROVE  Proved(procs[k])' /\ Carries(procs[k])'
<1>1. Proved(procs[k]) /\ Carries(procs[k])
  BY DEF ProcsOK
<1> DEFINE t == procs[k].token
<1>2. Proved(procs[k])'
  BY <1>1 DEF Proved
<1>3. CASE t \in Tokens
  <2>1. /\ tokens[t].spent => tokens'[t].spent
        /\ tokens[t].state # "unmade" =>
              tokens'[t].state # "unmade" /\ tokens'[t].user = tokens[t].user
    BY <1>3 DEF TokensKept
  <2> QED BY <1>1, <1>2, <2>1 DEF Carries
<1>4. CASE t \notin Tokens
  BY <1>1, <1>2, <1>4 DEF Carries
<1> QED
  BY <1>3, <1>4

LEMMA ProcMoves ==
    ASSUME TypeOK, ProcsOK, TokensKept,
           NEW p \in Procs, NEW new \in Locals, procs' = [procs EXCEPT ![p] = new],
           \A k \in {p} : Proved(procs[k])' /\ Carries(procs[k])'
    PROVE  procs' \in [Procs -> Locals] /\ ProcsOK'
<1>1. procs' \in [Procs -> Locals] /\ \A k \in Procs \ {p} : procs'[k] = procs[k]
  BY DEF TypeOK
<1>2. \A k \in Procs \ {p} : Proved(procs[k])' /\ Carries(procs[k])'
  BY <1>1, ProcKept
<1> QED
  BY <1>1, <1>2 DEF ProcsOK

\* a request that has ended knows nothing
LEMMA FreeKnows ==
    ASSUME NEW k, procs'[k] = Free
    PROVE  Proved(procs[k])' /\ Carries(procs[k])'
BY FreeType DEF Proved, Carries

\* what is promised is as good as it was while the rows are kept
LEMMA PromisesKept ==
    ASSUME SessionsOK, UNCHANGED users, Promised' \subseteq Promised
    PROVE  SessionsOK'
BY DEF SessionsOK, Honest, Present

\* a step of a request that writes no row: it reads, or gives out its access token
Reads(p, new) ==
    /\ ~At(p, "idle") /\ new.pc # "session" /\ (At(p, "session") => new.pc = "idle")
    /\ procs' = [procs EXCEPT ![p] = new]
    /\ \/ sessions' = sessions
       \/ At(p, "session") /\ sessions' = sessions \cup {Due(procs[p])}
    /\ UNCHANGED <<profile, changes, users, made, tokens, served>>

LEMMA ReadStep ==
    ASSUME IInv, NEW p \in Procs, NEW new \in Locals, Reads(p, new),
           Proved(new), Carries(new)
    PROVE  IInv'
<1>1. TypeOK /\ RoomOK /\ RowsOK /\ TokensOK /\ ProcsOK /\ SessionsOK
  BY DEF IInv
<1>2. TokensKept
  BY DEF Reads, TokensKept
<1>3. /\ procs'[p] = new /\ new.pc # "session" /\ procs[p] \in Locals
      /\ \A k \in Procs \ {p} : procs'[k] = procs[k]
  BY <1>1 DEF Reads, TypeOK
<1>4. \A k \in {p} : Proved(procs[k])' /\ Carries(procs[k])'
  <2>1. Carries(procs[p])'
    BY <1>3 DEF Carries, Reads
  <2> QED BY <1>3, <2>1 DEF Proved
<1>5. procs' \in [Procs -> Locals] /\ ProcsOK'
  BY <1>1, <1>2, <1>4, ProcMoves DEF Reads
<1>6. sessions' \subseteq [user : Rows, github : Ids \cup {None}, password : Passwords \cup {None}]
  <2>1. CASE sessions' = sessions
    BY <1>1, <2>1 DEF TypeOK
  <2>2. CASE At(p, "session") /\ sessions' = sessions \cup {Due(procs[p])}
    <3>1. Due(procs[p]) \in Promised /\ Due(procs[p]).user = procs[p].user
      BY <2>2 DEF Promised, Due
    <3>2. procs[p].user \in Rows
      BY <1>1, <3>1 DEF SessionsOK, Honest
    <3> QED BY <1>1, <1>3, <2>2, <3>2 DEF TypeOK, Due, Locals
  <2> QED BY <2>1, <2>2 DEF Reads
<1>7. TypeOK'
  BY <1>1, <1>5, <1>6 DEF Reads, TypeOK, Present
<1>8. RoomOK'
  <2>1. Working(new) => Working(procs[p])
    BY DEF Reads, Working, At
  <2>2. Running' = Running \/ Running' = Running - 1
    BY <1>1, <2>1, RunningMoves DEF Reads
  <2>3. made \in Nat /\ served \in Nat /\ Running \in Nat
    BY <1>1, RunningType, AccountsAssumption DEF TypeOK
  <2>4. made' = made /\ served' = served
    BY DEF Reads
  <2> QED BY <1>1, <2>2, <2>3, <2>4 DEF RoomOK
<1>9. SessionsOK'
  <2>1. Promised' \subseteq Promised
    BY <1>3 DEF Promised, Reads, At
  <2> QED BY <1>1, <2>1, PromisesKept DEF Reads
<1>10. RowsOK' /\ TokensOK'
  BY <1>1 DEF Reads, RowsOK, TokensOK, Present
<1> QED
  BY <1>5, <1>7, <1>8, <1>9, <1>10 DEF IInv

LEMMA EndStep ==
    ASSUME IInv, NEW p \in Procs, ~At(p, "idle"), End(p),
           \/ sessions' = sessions
           \/ At(p, "session") /\ sessions' = sessions \cup {Due(procs[p])},
           UNCHANGED <<profile, changes, users, made, tokens, served>>
    PROVE  IInv'
<1>1. Reads(p, Free) /\ Free \in Locals
  BY FreeType DEF End, Reads
<1>2. Proved(Free) /\ Carries(Free)
  BY FreeType DEF Proved, Carries
<1> QED
  BY <1>1, <1>2, ReadStep

LEMMA CreateAccessTokenStep == ASSUME IInv, NEW p \in Procs, CreateAccessToken(p) PROVE IInv'
BY EndStep DEF CreateAccessToken, At

LEMMA ReadTokenStep == ASSUME IInv, NEW p \in Procs, ReadToken(p) PROVE IInv'
<1> DEFINE t == procs[p].token
<1>1. /\ TypeOK /\ Proved(procs[p]) /\ Carries(procs[p]) /\ TokensOK /\ At(p, "readToken")
      /\ procs[p] \in Locals
  BY DEF IInv, ProcsOK, ReadToken, TypeOK
<1>2. t \in Tokens
  BY <1>1 DEF Carries, At
<1>3. CASE Live(t, procs[p].user) /\ procs' = [procs EXCEPT ![p].pc = "delete", ![p].held = TRUE]
  <2> DEFINE new == [procs[p] EXCEPT !.pc = "delete", !.held = TRUE]
  <2>1. /\ new \in Locals /\ new.pc = "delete" /\ new.held = TRUE
        /\ new.token = t /\ new.late = procs[p].late /\ new.user = procs[p].user
        /\ new.id = procs[p].id /\ new.password = procs[p].password
    BY <1>1 DEF Locals, Pcs
  <2>2. procs' = [procs EXCEPT ![p] = new]
    BY <1>3
  <2> HIDE DEF new
  <2>3. Reads(p, new)
    BY <1>1, <2>1, <2>2 DEF Reads, ReadToken, At
  <2>4. tokens[t].state = "live" /\ ~tokens[t].spent
    BY <1>1, <1>2, <1>3 DEF Live, TokensOK
  <2>5. Proved(new) /\ Carries(new)
    BY <1>1, <1>2, <2>1, <2>4 DEF Proved, Carries, At
  <2> QED BY <2>1, <2>3, <2>5, ReadStep
<1>4. CASE End(p)
  BY <1>1, <1>4, EndStep DEF ReadToken, At
<1>5. CASE Goto(p, "owner")
  <2> DEFINE new == [procs[p] EXCEPT !.pc = "owner"]
  <2>1. /\ new \in Locals /\ new.pc = "owner" /\ new.held = procs[p].held
        /\ new.token = t /\ new.late = procs[p].late
    BY <1>1 DEF Locals, Pcs
  <2>2. procs' = [procs EXCEPT ![p] = new]
    BY <1>5 DEF Goto
  <2> HIDE DEF new
  <2>3. Reads(p, new)
    BY <1>1, <2>1, <2>2 DEF Reads, ReadToken, At
  <2> QED BY <1>1, <2>1, <2>3, ReadStep DEF Proved, Carries, At
<1> QED
  BY <1>3, <1>4, <1>5 DEF ReadToken

LEMMA FetchProfileStep == ASSUME IInv, NEW p \in Procs, FetchProfile(p) PROVE IInv'
<1> DEFINE a == profile[procs[p].id]
           new == [procs[p] EXCEPT !.pc = "upsert", !.email = a]
<1>1. /\ TypeOK /\ Proved(procs[p]) /\ Carries(procs[p]) /\ At(p, "profile") /\ procs[p] \in Locals
  BY DEF IInv, ProcsOK, FetchProfile, TypeOK
<1>2. a \in Addresses \cup {None}
  BY <1>1 DEF Proved, At, TypeOK
<1> HIDE DEF a
<1>3. /\ new \in Locals /\ new.pc = "upsert" /\ new.id = procs[p].id
      /\ new.password = procs[p].password /\ new.user = procs[p].user
      /\ new.held = procs[p].held /\ new.token = procs[p].token /\ new.late = procs[p].late
  BY <1>1, <1>2 DEF Locals, Pcs
<1>4. procs' = [procs EXCEPT ![p] = new]
  BY DEF FetchProfile, a
<1> HIDE DEF new
<1>5. Reads(p, new)
  BY <1>1, <1>3, <1>4 DEF Reads, FetchProfile, At
<1> QED
  BY <1>1, <1>3, <1>5, ReadStep DEF Proved, Carries, At

\* a request goes to a place where no more is asked of it
LEMMA GotoStep ==
    ASSUME IInv, NEW p \in Procs, NEW pc \in {"create", "claim"}, Goto(p, pc),
           ~At(p, "idle"), ~At(p, "session"),
           pc = "create" => At(p, "unused"),
           pc = "claim" /\ procs[p].held => tokens[procs[p].token].user = procs[p].user,
           UNCHANGED <<profile, changes, users, made, tokens, sessions, served>>
    PROVE  IInv'
<1> DEFINE new == [procs[p] EXCEPT !.pc = pc]
<1>1. TypeOK /\ Proved(procs[p]) /\ Carries(procs[p]) /\ procs[p] \in Locals
  BY DEF IInv, ProcsOK, TypeOK
<1>2. /\ new \in Locals /\ new.pc = pc /\ new.id = procs[p].id /\ new.email = procs[p].email
      /\ new.password = procs[p].password /\ new.user = procs[p].user
      /\ new.held = procs[p].held /\ new.token = procs[p].token /\ new.late = procs[p].late
  BY <1>1 DEF Locals, Pcs
<1>3. procs' = [procs EXCEPT ![p] = new]
  BY DEF Goto
<1> HIDE DEF new
<1>4. Reads(p, new)
  BY <1>2, <1>3 DEF Reads
<1>5. Proved(new)
  BY <1>1, <1>2 DEF Proved, At
<1>6. Carries(new)
  BY <1>1, <1>2 DEF Carries
<1> QED
  BY <1>2, <1>4, <1>5, <1>6, ReadStep

LEMMA FindUnusedStep == ASSUME IInv, NEW p \in Procs, FindUnused(p) PROVE IInv'
BY GotoStep, EndStep DEF FindUnused, At

LEMMA MatchUserStep == ASSUME IInv, NEW p \in Procs, MatchUser(p) PROVE IInv'
BY GotoStep, EndStep DEF MatchUser, At, Theirs

LEMMA CheckOwnerStep == ASSUME IInv, NEW p \in Procs, CheckOwner(p) PROVE IInv'
<1>1. Carries(procs[p]) /\ At(p, "owner")
  BY DEF IInv, ProcsOK, CheckOwner
<1>2. ~procs[p].held
  BY <1>1 DEF Carries, At
<1> QED
  BY <1>1, <1>2, GotoStep, EndStep DEF CheckOwner, At

LEMMA ClaimStep == ASSUME IInv, NEW p \in Procs, Claim(p) PROVE IInv'
BY EndStep DEF Claim, At

LEMMA FailStep == ASSUME IInv, NEW p \in Procs, Fail(p) PROVE IInv'
BY EndStep DEF Fail

LEMMA DeleteTokenStep == ASSUME IInv, NEW p \in Procs, DeleteToken(p) PROVE IInv'
<1> DEFINE t == procs[p].token
           pc == IF procs[p].user = None THEN "profile" ELSE "match"
           new == [procs[p] EXCEPT !.pc = pc]
           token == [tokens[t] EXCEPT !.state = "gone", !.spent = TRUE]
<1>1. /\ TypeOK /\ RoomOK /\ RowsOK /\ TokensOK /\ ProcsOK /\ SessionsOK
      /\ Proved(procs[p]) /\ Carries(procs[p]) /\ At(p, "delete") /\ procs[p] \in Locals
  BY DEF IInv, ProcsOK, DeleteToken, TypeOK
<1>2. /\ t \in Tokens
      /\ tokens \in [Tokens -> [state : {"unmade", "live", "gone"}, user : Rows \cup {None},
                                spent : BOOLEAN]]
  BY <1>1 DEF Carries, At, TypeOK
<1>3. /\ token \in [state : {"unmade", "live", "gone"}, user : Rows \cup {None}, spent : BOOLEAN]
      /\ token.state = "gone" /\ token.spent = TRUE /\ token.user = tokens[t].user
  BY <1>2
<1>4. tokens' = [tokens EXCEPT ![t] = token]
  BY DEF DeleteToken, Deleted
<1> HIDE DEF token
<1>5. /\ tokens' \in [Tokens -> [state : {"unmade", "live", "gone"}, user : Rows \cup {None},
                                spent : BOOLEAN]]
      /\ \A s \in Tokens : tokens'[s] = IF s = t THEN token ELSE tokens[s]
  BY <1>2, <1>3, <1>4
<1>6. TokensKept /\ TokensOK'
  BY <1>1, <1>3, <1>5 DEF TokensKept, TokensOK
<1>7. pc \in {"profile", "match"} /\ (pc = "profile" => procs[p].user = None)
  OBVIOUS
<1>8. procs' = [procs EXCEPT ![p] = new]
  BY DEF DeleteToken, Goto
<1> HIDE DEF pc
<1>9. /\ new \in Locals /\ new.pc = pc /\ new.id = procs[p].id
      /\ new.password = procs[p].password /\ new.user = procs[p].user
      /\ new.held = procs[p].held /\ new.token = t /\ new.late = procs[p].late
  BY <1>1, <1>7 DEF Locals, Pcs
<1> HIDE DEF new
<1>10. procs'[p] = new
  BY <1>1, <1>8 DEF TypeOK
<1>11. \A k \in {p} : Proved(procs[k])' /\ Carries(procs[k])'
  <2>1. Proved(procs[p])'
    BY <1>1, <1>7, <1>9, <1>10 DEF Proved, At
  <2>2. Carries(procs[p])'
    BY <1>1, <1>2, <1>3, <1>5, <1>7, <1>9, <1>10 DEF Carries
  <2> QED BY <2>1, <2>2
<1>12. procs' \in [Procs -> Locals] /\ ProcsOK'
  BY <1>1, <1>6, <1>8, <1>9, <1>11, ProcMoves
<1>13. UNCHANGED <<profile, changes, users, made, sessions, served>>
  BY DEF DeleteToken
<1>14. TypeOK'
  BY <1>1, <1>5, <1>12, <1>13 DEF TypeOK, Present
<1>15. RoomOK'
  <2>1. Running' = Running
    BY <1>1, <1>7, <1>8, <1>9, RunningMoves DEF At, Working
  <2> QED BY <1>1, <1>13, <2>1 DEF RoomOK
<1>16. RowsOK' /\ SessionsOK'
  <2>1. new.pc # "session" /\ \A k \in Procs \ {p} : procs'[k] = procs[k]
    BY <1>1, <1>7, <1>8, <1>9 DEF TypeOK
  <2>2. Promised' \subseteq Promised
    BY <1>10, <1>13, <2>1 DEF Promised, At
  <2> QED BY <1>1, <1>13, <2>2, PromisesKept DEF RowsOK, Present
<1> QED
  BY <1>6, <1>12, <1>14, <1>15, <1>16 DEF IInv

-----------------------------------------------------------------------------
(* A request writes or finds a row, and an access token for it is due.      *)

SessionOf(u, row, w) == [user |-> u, github |-> row.github, password |-> w]

\* what TypeOK says of the rows
TableOK ==
    /\ users \in [Rows -> UserRows \cup {None}]
    /\ \A u \in Rows : Present(u) <=> u <= made
    /\ \A u, v \in Rows : Present(u) /\ Present(v) /\ u # v =>
          /\ users[u].github = None \/ users[u].github # users[v].github
          /\ users[u].email = None \/ users[u].email # users[v].email

\* row is put at u, in place of one that has the same owner or as the next
Stores(u, row) ==
    /\ users' = [users EXCEPT ![u] = row]
    /\ \/ /\ Present(u) /\ made' = made
          /\ users[u].github = row.github /\ users[u].password = row.password
       \/ u = made + 1 /\ made' = u
    /\ \A v \in Rows \ {u} : Present(v) =>
          /\ row.github = None \/ row.github # users[v].github
          /\ row.email = None \/ row.email # users[v].email

LEMMA StoreKeeps ==
    ASSUME TypeOK, RowsOK, SessionsOK, NEW u \in Rows, NEW row \in UserRows,
           Owned(row), Stores(u, row),
           Promised' \subseteq Promised \cup {SessionOf(u, row, row.password)}
    PROVE  TableOK' /\ RowsOK' /\ SessionsOK'
<1>1. /\ users \in [Rows -> UserRows \cup {None}] /\ made \in Nat
      /\ \A v \in Rows : Present(v) <=> v <= made
      /\ \A v, w \in Rows : Present(v) /\ Present(w) /\ v # w =>
            /\ users[v].github = None \/ users[v].github # users[w].github
            /\ users[v].email = None \/ users[v].email # users[w].email
  BY AccountsAssumption DEF TypeOK
<1>2. row # None
  BY AccountsAssumption DEF UserRows
<1>3. /\ users' \in [Rows -> UserRows \cup {None}] /\ users'[u] = row
      /\ \A v \in Rows \ {u} : users'[v] = users[v]
  BY <1>1 DEF Stores
<1>4. Present(u)' /\ \A v \in Rows \ {u} : Present(v)' <=> Present(v)
  BY <1>2, <1>3 DEF Present
<1>5. \A v \in Rows : Present(v)' <=> v <= made'
  <2>1. Rows \subseteq Nat
    BY DEF Rows
  <2>2. CASE Present(u) /\ made' = made
    BY <1>1, <1>4, <2>2
  <2>3. CASE u = made + 1 /\ made' = u
    BY <1>1, <1>4, <2>1, <2>3
  <2> QED BY <2>2, <2>3 DEF Stores
<1>6. ASSUME NEW v \in Rows, NEW w \in Rows, Present(v)', Present(w)', v # w
      PROVE  /\ users'[v].github = None \/ users'[v].github # users'[w].github
             /\ users'[v].email = None \/ users'[v].email # users'[w].email
  <2>1. CASE v = u
    <3>1. Present(w) /\ users'[w] = users[w]
      BY <1>3, <1>4, <1>6, <2>1
    <3> QED BY <1>3, <1>6, <2>1, <3>1 DEF Stores
  <2>2. CASE w = u
    <3>1. Present(v) /\ users'[v] = users[v]
      BY <1>3, <1>4, <1>6, <2>2
    <3>2. /\ row.github = None \/ row.github # users[v].github
          /\ row.email = None \/ row.email # users[v].email
      BY <1>6, <2>2, <3>1 DEF Stores
    <3> QED BY <1>3, <2>2, <3>1, <3>2
  <2>3. CASE v # u /\ w # u
    BY <1>1, <1>3, <1>4, <1>6, <2>3
  <2> QED BY <2>1, <2>2, <2>3
<1>7. TableOK'
  BY <1>3, <1>5, <1>6 DEF TableOK
<1>8. RowsOK'
  BY <1>3, <1>4 DEF RowsOK, Owned
<1>9. ASSUME NEW session \in Promised' PROVE Honest(session)'
  <2>1. CASE session = SessionOf(u, row, row.password)
    BY <1>3, <1>4, <2>1 DEF Honest, SessionOf
  <2>2. CASE session \in Promised
    <3>1. Honest(session) /\ session.user \in Rows
      BY <2>2 DEF SessionsOK, Honest
    <3>2. CASE session.user = u
      <4>1. users[u].github = row.github /\ users[u].password = row.password
        <5>1. Present(u)
          BY <3>1, <3>2 DEF Honest
        <5>2. u <= made /\ u \in Nat
          BY <1>1, <5>1 DEF Rows
        <5> QED BY <1>1, <5>2 DEF Stores
      <4> QED BY <1>3, <1>4, <3>1, <3>2, <4>1 DEF Honest
    <3>3. CASE session.user # u
      BY <1>3, <1>4, <3>1, <3>3 DEF Honest
    <3> QED BY <3>2, <3>3
  <2> QED BY <1>9, <2>1, <2>2
<1> QED
  BY <1>7, <1>8, <1>9 DEF SessionsOK

\* where Accept leaves a request
LEMMA Accepted ==
    ASSUME IInv, NEW p \in Procs, NEW u \in Rows, NEW row \in UserRows, Accept(p, u, row),
           sessions' = sessions
    PROVE  \E new \in Locals :
              /\ procs' = [procs EXCEPT ![p] = new]
              /\ new.pc = "session" /\ new.token = None /\ new.held = FALSE /\ new.late = FALSE
              /\ Promised' \subseteq Promised \cup {SessionOf(u, row, procs[p].password)}
<1> DEFINE half == [Free EXCEPT !.pc = "session", !.user = u]
           new == [half EXCEPT !.id = row.github, !.password = procs[p].password]
<1>1. /\ half \in Locals /\ half.pc = "session" /\ half.user = u /\ half.token = None
      /\ half.held = FALSE /\ half.late = FALSE
  BY FreeType DEF Locals, Pcs
<1>2. /\ procs' = [procs EXCEPT ![p] = new]
      /\ procs \in [Procs -> Locals]
      /\ row.github \in Ids \cup {None} /\ procs[p].password \in Passwords \cup {None}
  BY DEF Accept, IInv, TypeOK, Locals, UserRows
<1> HIDE DEF half
<1>3. /\ new \in Locals /\ new.pc = "session" /\ new.user = u /\ new.token = None
      /\ new.held = FALSE /\ new.late = FALSE
      /\ new.id = row.github /\ new.password = procs[p].password
  BY <1>1, <1>2 DEF Locals
<1> HIDE DEF new
<1>4. procs'[p] = new /\ \A k \in Procs \ {p} : procs'[k] = procs[k]
  BY <1>2
<1>5. Due(new) = SessionOf(u, row, procs[p].password)
  BY <1>3 DEF Due, SessionOf
<1>6. Promised' \subseteq Promised \cup {Due(new)}
  BY <1>4 DEF Promised, At
<1> QED
  BY <1>2, <1>3, <1>5, <1>6

\* a token becomes due; what the table holds is as it should be
LEMMA AcceptStep ==
    ASSUME IInv, NEW p \in Procs, NEW u \in Rows, NEW row \in UserRows,
           Working(procs[p]), Accept(p, u, row),
           UNCHANGED <<profile, changes, tokens, sessions, served>>,
           made' = made \/ made' = made + 1,
           TableOK', RowsOK', SessionsOK'
    PROVE  IInv'
<1>1. TypeOK /\ RoomOK /\ TokensOK /\ ProcsOK
  BY DEF IInv
<1>2. PICK new \in Locals :
              /\ procs' = [procs EXCEPT ![p] = new]
              /\ new.pc = "session" /\ new.token = None /\ new.held = FALSE /\ new.late = FALSE
  BY Accepted
<1>3. TokensKept
  BY DEF TokensKept
<1>4. procs' \in [Procs -> Locals] /\ ProcsOK'
  <2>1. procs'[p] = new
    BY <1>1, <1>2 DEF TypeOK
  <2>2. \A k \in {p} : Proved(procs[k])' /\ Carries(procs[k])'
    BY <1>2, <2>1 DEF Proved, Carries
  <2> QED BY <1>1, <1>2, <1>3, <2>2, ProcMoves
<1>5. Running' = Running - 1
  <2>1. ~Working(new)
    BY <1>2 DEF Working
  <2> QED BY <1>1, <1>2, <2>1, RunningMoves
<1>6. made \in Nat /\ served \in 0..MaxServed /\ Running \in Nat /\ MaxServed \in Nat
  BY <1>1, RunningType, AccountsAssumption DEF TypeOK
<1>7. Running' \in Nat
  <2>1. IsFiniteSet(Busy')
    <3>1. Busy' \subseteq Procs
      BY DEF Busy
    <3> QED BY <3>1, AccountsAssumption, FS_Subset
  <2> QED BY <2>1, FS_CardinalityType DEF Running
<1>8. RoomOK' /\ made' \in 0..MaxServed
  <2>1. made + Running <= served /\ served' = served
    BY <1>1 DEF RoomOK
  <2>2. made' + Running' <= served'
    BY <1>5, <1>6, <2>1
  <2> QED BY <1>6, <1>7, <2>1, <2>2 DEF RoomOK
<1>9. TokensOK'
  BY <1>1 DEF TokensOK
<1>10. TypeOK'
  BY <1>1, <1>4, <1>8 DEF TypeOK, TableOK
<1> QED
  BY <1>4, <1>8, <1>9, <1>10 DEF IInv

\* the request writes row at u
LEMMA StoreStep ==
    ASSUME IInv, NEW p \in Procs, NEW u \in Rows, NEW row \in UserRows,
           Working(procs[p]), Owned(row), Stores(u, row),
           procs[p].password = row.password, Accept(p, u, row),
           UNCHANGED <<profile, changes, tokens, sessions, served>>
    PROVE  IInv'
<1>1. TypeOK /\ RowsOK /\ SessionsOK
  BY DEF IInv
<1>2. Promised' \subseteq Promised \cup {SessionOf(u, row, row.password)}
  BY Accepted
<1>3. TableOK' /\ RowsOK' /\ SessionsOK'
  BY <1>1, <1>2, StoreKeeps
<1>4. made' = made \/ made' = made + 1
  BY DEF Stores
<1> QED
  BY <1>3, <1>4, AcceptStep

\* a request that can still make a row finds room for it
LEMMA RoomForOne ==
    ASSUME IInv, NEW p \in Procs, Working(procs[p])
    PROVE  made + 1 \in Rows /\ ~Present(made + 1)
<1>1. TypeOK /\ RoomOK
  BY DEF IInv
<1>2. made \in Nat /\ served \in 0..MaxServed /\ Running \in Nat /\ MaxServed \in Nat
  BY <1>1, RunningType, AccountsAssumption DEF TypeOK
<1>3. Running # 0
  BY RunningType, FS_EmptySet DEF Running, Busy
<1>4. made + 1 \in Rows
  BY <1>1, <1>2, <1>3 DEF RoomOK, Rows
<1> QED
  BY <1>1, <1>2, <1>4 DEF TypeOK

\* a row with the address a, and no row but u with it
LEMMA AddressApart ==
    ASSUME NEW a, NEW u, ByEmail(a) \subseteq {u}
    PROVE  \A v \in Rows \ {u} : Present(v) => a = None \/ a # users[v].email
BY DEF ByEmail

LEMMA UpsertGithubUserStep == ASSUME IInv, NEW p \in Procs, UpsertGithubUser(p) PROVE IInv'
<1>1. /\ TypeOK /\ RowsOK /\ ~At(p, "idle") /\ Working(procs[p]) /\ procs[p] \in Locals
      /\ procs[p].id \in Ids /\ procs[p].password = None
  BY DEF IInv, ProcsOK, Proved, UpsertGithubUser, TypeOK, At, Working
<1>2. PICK g \in Ids, a \in Addresses \cup {None} : g = procs[p].id /\ a = procs[p].email
  BY <1>1 DEF Locals
<1>3. UNCHANGED <<profile, changes, tokens, sessions, served>>
  BY DEF UpsertGithubUser
<1>4. None \notin Ids
  BY AccountsAssumption
<1>5. ASSUME NEW u \in ByGithub(g),
             LET row == [users[u] EXCEPT !.github = g, !.email = a] IN
                ByEmail(a) \subseteq {u} /\ Write(u, row) /\ Accept(p, u, row) /\ UNCHANGED made
      PROVE  IInv'
  <2> DEFINE row == [users[u] EXCEPT !.github = g, !.email = a]
  <2>1. u \in Rows /\ Present(u) /\ users[u].github = g
    BY DEF ByGithub
  <2>2. users[u] \in UserRows /\ users[u].password = None
    BY <1>1, <1>4, <2>1 DEF TypeOK, RowsOK, Owned, Present
  <2>3. /\ row \in UserRows /\ row.github = g /\ row.email = a
        /\ row.password = None
    BY <2>2 DEF UserRows
  <2>4. ByEmail(a) \subseteq {u} /\ Write(u, row) /\ Accept(p, u, row) /\ UNCHANGED made
    BY <1>5
  <2> HIDE DEF row
  <2>5. \A v \in Rows \ {u} : Present(v) => g # users[v].github
    BY <1>1, <1>4, <2>1 DEF TypeOK
  <2>6. Stores(u, row)
    BY <2>1, <2>2, <2>3, <2>4, <2>5, AddressApart DEF Stores, Write
  <2>7. Owned(row)
    BY <2>3 DEF Owned
  <2> QED BY <1>1, <1>3, <2>1, <2>3, <2>4, <2>6, <2>7, StoreStep
<1>6. ASSUME LET row == [github |-> g, email |-> a, password |-> None] IN
                /\ ByGithub(g) = {} /\ ByEmail(a) = {}
                /\ made' = made + 1
                /\ Write(made', row) /\ Accept(p, made', row)
      PROVE  IInv'
  <2> DEFINE row == [github |-> g, email |-> a, password |-> None]
  <2>1. PICK u \in Rows : u = made + 1 /\ ~Present(u)
    BY <1>1, RoomForOne
  <2>2. row \in UserRows /\ row.github = g /\ row.email = a /\ row.password = None
    BY DEF UserRows
  <2>3. /\ ByGithub(g) = {} /\ ByEmail(a) = {} /\ made' = u
        /\ Write(u, row) /\ Accept(p, u, row)
    BY <1>6, <2>1
  <2> HIDE DEF row
  <2>4. \A v \in Rows \ {u} : Present(v) => g # users[v].github
    BY <2>3 DEF ByGithub
  <2>5. Stores(u, row)
    BY <2>1, <2>2, <2>3, <2>4, AddressApart DEF Stores, Write
  <2>6. Owned(row)
    BY <2>2 DEF Owned
  <2> QED BY <1>1, <1>3, <2>2, <2>3, <2>5, <2>6, StoreStep
<1>7. CASE End(p) /\ UNCHANGED <<users, made>>
  BY <1>1, <1>3, <1>7, EndStep
<1> QED
  BY <1>2, <1>5, <1>6, <1>7 DEF UpsertGithubUser, TargetOf

LEMMA CreateUserStep == ASSUME IInv, NEW p \in Procs, CreateUser(p) PROVE IInv'
<1>1. /\ TypeOK /\ RowsOK /\ ~At(p, "idle") /\ Working(procs[p]) /\ procs[p] \in Locals
      /\ procs[p].email \in Addresses /\ Lower[procs[p].email] = procs[p].email
      /\ procs[p].password \in Passwords
  BY DEF IInv, ProcsOK, Proved, CreateUser, TypeOK, At, Working
<1>2. UNCHANGED <<profile, changes, tokens, sessions, served>>
  BY DEF CreateUser
<1>3. CASE StillFree(p)
  <2> DEFINE row == [github |-> None, email |-> procs[p].email, password |-> procs[p].password]
  <2>1. PICK u \in Rows : u = made + 1 /\ ~Present(u)
    BY <1>1, RoomForOne
  <2>2. /\ row \in UserRows /\ row.github = None /\ row.email = procs[p].email
        /\ row.password = procs[p].password
    BY <1>1 DEF UserRows
  <2>3. ByEmail(procs[p].email) = {} /\ made' = u /\ Write(u, row) /\ Accept(p, u, row)
    BY <1>3, <2>1 DEF CreateUser, StillFree
  <2> HIDE DEF row
  <2>4. Stores(u, row)
    BY <2>1, <2>2, <2>3, AddressApart DEF Stores, Write
  <2>5. Owned(row)
    BY <1>1, <2>2 DEF Owned
  <2> QED BY <1>1, <1>2, <2>2, <2>3, <2>4, <2>5, StoreStep
<1>4. CASE ~StillFree(p)
  BY <1>1, <1>2, <1>4, EndStep DEF CreateUser
<1> QED
  BY <1>3, <1>4

LEMMA FindUserStep == ASSUME IInv, NEW p \in Procs, FindUser(p) PROVE IInv'
<1>1. TypeOK /\ RowsOK /\ SessionsOK /\ ~At(p, "idle") /\ Working(procs[p])
  BY DEF IInv, FindUser, At, Working
<1>2. UNCHANGED <<profile, changes, users, made, tokens, sessions, served>>
  BY DEF FindUser
<1>3. ASSUME NEW u \in Rows, Present(u), Matches(u, procs[p].password), Accept(p, u, users[u])
      PROVE  IInv'
  <2>1. users[u] \in UserRows
    BY <1>1, <1>3 DEF TypeOK, Present
  <2>2. Promised' \subseteq Promised \cup {SessionOf(u, users[u], procs[p].password)}
    BY <1>2, <1>3, <2>1, Accepted
  <2>3. TableOK'
    BY <1>1, <1>2 DEF TypeOK, TableOK, Present
  <2>4. RowsOK'
    BY <1>1, <1>2 DEF RowsOK, Present
  <2>5. ASSUME NEW session \in Promised' PROVE Honest(session)'
    <3>1. CASE session \in Promised
      BY <1>1, <1>2, <3>1 DEF SessionsOK, Honest, Present
    <3>2. CASE session = SessionOf(u, users[u], procs[p].password)
      BY <1>2, <1>3, <3>2 DEF SessionOf, Honest, Present, Matches
    <3> QED BY <2>2, <2>5, <3>1, <3>2
  <2>6. SessionsOK'
    BY <2>5 DEF SessionsOK
  <2> QED BY <1>1, <1>2, <1>3, <2>1, <2>3, <2>4, <2>6, AcceptStep
<1>4. CASE End(p)
  BY <1>1, <1>2, <1>4, EndStep
<1> QED
  BY <1>3, <1>4 DEF FindUser, ByEmail

-----------------------------------------------------------------------------
(* A request begins.                                                        *)

LEMMA BeginStep ==
    ASSUME IInv, NEW p \in Procs, NEW new \in Locals, Begin(p, new), Working(new),
           Proved(new), Carries(new)
    PROVE  IInv'
<1>1. TypeOK /\ RoomOK /\ RowsOK /\ TokensOK /\ ProcsOK /\ SessionsOK
  BY DEF IInv
<1>2. /\ procs' = [procs EXCEPT ![p] = new] /\ served' = served + 1 /\ served < MaxServed
      /\ At(p, "idle")
      /\ UNCHANGED <<profile, changes, users, made, tokens, sessions>>
  BY DEF Begin
<1>3. TokensKept
  BY <1>2 DEF TokensKept
<1>4. procs'[p] = new /\ \A k \in Procs \ {p} : procs'[k] = procs[k]
  BY <1>1, <1>2 DEF TypeOK
<1>5. \A k \in {p} : Proved(procs[k])' /\ Carries(procs[k])'
  <2>1. Carries(procs[p])'
    BY <1>2, <1>4 DEF Carries
  <2> QED BY <1>4, <2>1 DEF Proved
<1>6. procs' \in [Procs -> Locals] /\ ProcsOK'
  BY <1>1, <1>2, <1>3, <1>5, ProcMoves
<1>7. /\ made \in Nat /\ served \in Nat /\ Running \in Nat
      /\ served' \in 0..MaxServed
  BY <1>1, <1>2, RunningType, AccountsAssumption DEF TypeOK
<1>8. TypeOK'
  BY <1>1, <1>2, <1>6, <1>7 DEF TypeOK, Present
<1>9. RoomOK'
  <2>1. ~Working(procs[p])
    BY <1>2 DEF Working, At
  <2>2. Running' = Running + 1
    BY <1>1, <1>2, <2>1, RunningMoves
  <2> QED BY <1>1, <1>2, <1>7, <2>2 DEF RoomOK
<1>10. RowsOK' /\ TokensOK' /\ SessionsOK'
  <2>1. Promised' \subseteq Promised
    BY <1>2, <1>4 DEF Promised, At, Working
  <2> QED BY <1>1, <1>2, <2>1, PromisesKept DEF RowsOK, TokensOK, Present
<1> QED
  BY <1>6, <1>8, <1>9, <1>10 DEF IInv

LEMMA CallbackStep ==
    ASSUME IInv, NEW p \in Procs, NEW g \in Ids, NEW t \in Tokens, Callback(p, g, t)
    PROVE  IInv'
<1> DEFINE half == [Free EXCEPT !.pc = "readToken", !.id = g]
           new == [half EXCEPT !.token = t, !.late = tokens[t].spent]
<1>1. tokens[t].spent \in BOOLEAN
  BY DEF IInv, TypeOK
<1>2. /\ half \in Locals /\ half.pc = "readToken" /\ half.id = g /\ half.held = FALSE
      /\ half.password = None
  BY FreeType DEF Locals, Pcs
<1>3. Begin(p, new)
  BY DEF Callback
<1> HIDE DEF half
<1>4. /\ new \in Locals /\ new.pc = "readToken" /\ new.id = g /\ new.held = FALSE
      /\ new.password = None /\ new.token = t /\ (new.late <=> tokens[t].spent)
  BY <1>1, <1>2 DEF Locals
<1> HIDE DEF new
<1>5. Proved(new) /\ Carries(new)
  BY <1>4 DEF Proved, Carries
<1> QED
  BY <1>3, <1>4, <1>5, BeginStep DEF Working

LEMMA CredentialStep ==
    ASSUME IInv, NEW p \in Procs, NEW a \in Addresses, NEW w \in Passwords,
           Register(p, a, w) \/ Login(p, a, w)
    PROVE  IInv'
<1>1. ASSUME NEW pc \in {"unused", "find"},
             Begin(p, [Free EXCEPT !.pc = pc, !.email = Lower[a], !.password = w])
      PROVE  IInv'
  <2> DEFINE new == [Free EXCEPT !.pc = pc, !.email = Lower[a], !.password = w]
  <2>1. Lower[a] \in Addresses /\ Lower[Lower[a]] = Lower[a]
    BY AccountsAssumption
  <2>2. /\ new \in Locals /\ new.pc = pc /\ new.email = Lower[a] /\ new.password = w
        /\ new.held = FALSE /\ new.late = FALSE
    BY <2>1, FreeType DEF Locals, Pcs
  <2>3. Begin(p, new)
    BY <1>1
  <2> HIDE DEF new
  <2>4. Proved(new) /\ Carries(new)
    BY <2>1, <2>2 DEF Proved, Carries
  <2> QED BY <2>2, <2>3, <2>4, BeginStep DEF Working
<1> QED
  BY <1>1 DEF Register, Login, Normalized

LEMMA CompleteStep ==
    ASSUME IInv, NEW p \in Procs, NEW u \in Rows, NEW t \in Tokens \cup {None}, Complete(p, u, t)
    PROVE  IInv'
<1>1. CASE t = None
  <2> DEFINE new == [Free EXCEPT !.pc = "owner", !.user = u]
  <2>1. /\ new \in Locals /\ new.pc = "owner" /\ new.held = FALSE /\ new.late = FALSE
    BY FreeType DEF Locals, Pcs
  <2>2. Begin(p, new)
    BY <1>1 DEF Complete
  <2> HIDE DEF new
  <2>3. Proved(new) /\ Carries(new)
    BY <2>1 DEF Proved, Carries
  <2> QED BY <2>1, <2>2, <2>3, BeginStep DEF Working
<1>2. CASE t # None
  <2> DEFINE half == [Free EXCEPT !.pc = "readToken", !.user = u]
             new == [half EXCEPT !.token = t, !.late = tokens[t].spent]
  <2>1. t \in Tokens /\ tokens[t].spent \in BOOLEAN /\ u # None
    BY <1>2, AccountsAssumption DEF IInv, TypeOK, Rows
  <2>2. /\ half \in Locals /\ half.pc = "readToken" /\ half.user = u /\ half.held = FALSE
        /\ half.password = None
    BY FreeType DEF Locals, Pcs
  <2>3. Begin(p, new)
    BY <1>2 DEF Complete
  <2> HIDE DEF half
  <2>4. /\ new \in Locals /\ new.pc = "readToken" /\ new.user = u /\ new.held = FALSE
        /\ new.password = None /\ new.token = t /\ (new.late <=> tokens[t].spent)
    BY <2>1, <2>2 DEF Locals
  <2> HIDE DEF new
  <2>5. Proved(new) /\ Carries(new)
    BY <2>1, <2>4 DEF Proved, Carries
  <2> QED BY <2>3, <2>4, <2>5, BeginStep DEF Working
<1> QED
  BY <1>1, <1>2

-----------------------------------------------------------------------------
(* Steps of GitHub and Redis.                                               *)

LEMMA ChangeAddressStep ==
    ASSUME IInv, NEW g \in Ids, NEW a \in Addresses \cup {None}, ChangeAddress(g, a)
    PROVE  IInv'
<1>1. TypeOK /\ RoomOK /\ RowsOK /\ TokensOK /\ ProcsOK /\ SessionsOK
  BY DEF IInv
<1>2. UNCHANGED <<users, made, tokens, sessions, procs, served>>
  BY DEF ChangeAddress
<1>3. TypeOK'
  <2>1. profile' \in [Ids -> Addresses \cup {None}] /\ changes' \in 0..MaxChanges
    BY <1>1, AccountsAssumption DEF TypeOK, ChangeAddress
  <2> QED BY <1>1, <1>2, <2>1 DEF TypeOK, Present
<1>4. RoomOK'
  <2>1. Running' = Running
    BY <1>2 DEF Running, Busy
  <2> QED BY <1>1, <1>2, <2>1 DEF RoomOK
<1>5. RowsOK' /\ TokensOK' /\ ProcsOK' /\ SessionsOK'
  <2>1. Promised' = Promised
    BY <1>2 DEF Promised, At
  <2>2. SessionsOK'
    BY <1>1, <1>2, <2>1, PromisesKept
  <2> QED BY <1>1, <1>2, <2>2 DEF RowsOK, TokensOK, ProcsOK, Proved, Carries, Present
<1> QED
  BY <1>3, <1>4, <1>5 DEF IInv

\* a token is made, or its time is over
LEMMA TokenStep ==
    ASSUME IInv, NEW t \in Tokens, NEW token \in [state : {"live", "gone"}, user : Rows \cup {None},
                                                 spent : BOOLEAN],
           tokens' = [tokens EXCEPT ![t] = token],
           token.spent => token.state = "gone",
           tokens[t].spent => token.spent,
           tokens[t].state # "unmade" => token.user = tokens[t].user,
           UNCHANGED <<profile, changes, users, made, sessions, procs, served>>
    PROVE  IInv'
<1>1. TypeOK /\ RoomOK /\ RowsOK /\ TokensOK /\ ProcsOK /\ SessionsOK
  BY DEF IInv
<1>2. /\ tokens' \in [Tokens -> [state : {"unmade", "live", "gone"}, user : Rows \cup {None},
                                spent : BOOLEAN]]
      /\ \A s \in Tokens : tokens'[s] = IF s = t THEN token ELSE tokens[s]
      /\ token.state # "unmade"
  BY <1>1 DEF TypeOK
<1>3. TokensKept /\ TokensOK'
  BY <1>1, <1>2 DEF TokensKept, TokensOK
<1>4. ProcsOK'
  BY <1>1, <1>3, ProcKept DEF ProcsOK
<1>5. TypeOK'
  BY <1>1, <1>2 DEF TypeOK, Present
<1>6. RoomOK'
  <2>1. Running' = Running
    BY DEF Running, Busy
  <2> QED BY <1>1, <2>1 DEF RoomOK
<1>7. RowsOK' /\ SessionsOK'
  <2>1. Promised' = Promised
    BY DEF Promised, At
  <2> QED BY <1>1, <2>1, PromisesKept DEF RowsOK, Present
<1> QED
  BY <1>3, <1>4, <1>5, <1>6, <1>7 DEF IInv

LEMMA CreateStep ==
    ASSUME IInv, NEW t \in Tokens, NEW user \in Rows \cup {None}, Create(t, user)
    PROVE  IInv'
<1> DEFINE token == [tokens[t] EXCEPT !.state = "live", !.user = user]
<1>1. tokens[t] = Unmade /\ Unmade.spent = FALSE /\ Unmade.state = "unmade"
  BY DEF Create, Unmade
<1>2. tokens[t] \in [state : {"unmade", "live", "gone"}, user : Rows \cup {None}, spent : BOOLEAN]
  BY DEF IInv, TypeOK
<1>3. /\ token \in [state : {"live", "gone"}, user : Rows \cup {None}, spent : BOOLEAN]
      /\ token.spent = FALSE
  BY <1>1, <1>2
<1>4. tokens' = [tokens EXCEPT ![t] = token]
  BY DEF Create
<1> HIDE DEF token
<1> QED
  BY <1>1, <1>3, <1>4, TokenStep, ZenonT(40) DEF Create

LEMMA ExpireTokenStep == ASSUME IInv, NEW t \in Tokens, ExpireToken(t) PROVE IInv'
<1> DEFINE token == [tokens[t] EXCEPT !.state = "gone"]
<1>1. tokens[t] \in [state : {"unmade", "live", "gone"}, user : Rows \cup {None}, spent : BOOLEAN]
  BY DEF IInv, TypeOK
<1>2. /\ token \in [state : {"live", "gone"}, user : Rows \cup {None}, spent : BOOLEAN]
      /\ token.state = "gone" /\ token.spent = tokens[t].spent /\ token.user = tokens[t].user
  BY <1>1
<1>3. tokens' = [tokens EXCEPT ![t] = token]
  BY DEF ExpireToken
<1> HIDE DEF token
<1> QED
  BY <1>2, <1>3, TokenStep DEF ExpireToken

-----------------------------------------------------------------------------
(* The theorems.                                                            *)

LEMMA InitInv == Init => IInv
<1> SUFFICES ASSUME Init PROVE IInv
  OBVIOUS
<1>1. \A p \in Procs : procs[p] = Free
  BY DEF Init
<1>2. /\ \A t \in Tokens : tokens[t] = Unmade
      /\ Unmade \in [state : {"unmade", "live", "gone"}, user : Rows \cup {None}, spent : BOOLEAN]
      /\ Unmade.spent = FALSE
  BY DEF Init, Unmade
<1>3. \A u \in Rows : ~Present(u)
  BY DEF Init, Present
<1>4. TypeOK
  <2>1. procs \in [Procs -> Locals]
    BY FreeType DEF Init
  <2>2. tokens \in [Tokens -> [state : {"unmade", "live", "gone"}, user : Rows \cup {None},
                              spent : BOOLEAN]]
    BY <1>2 DEF Init
  <2>3. \A u \in Rows : u \in Nat /\ u > made
    BY DEF Init, Rows
  <2>4. /\ profile \in [Ids -> Addresses \cup {None}] /\ users \in [Rows -> UserRows \cup {None}]
        /\ changes \in 0..MaxChanges /\ made \in 0..MaxServed /\ served \in 0..MaxServed
        /\ sessions = {} /\ made = 0
    BY AccountsAssumption DEF Init
  <2>5. \A u \in Rows : Present(u) <=> u <= made
    BY <1>3, <2>3, <2>4
  <2> QED BY <1>3, <2>1, <2>2, <2>4, <2>5 DEF TypeOK
<1>5. RoomOK
  <2>1. Busy = {}
    BY <1>1, FreeType DEF Busy, Working
  <2>2. Running = 0 /\ made = 0 /\ served = 0
    BY <2>1, FS_EmptySet DEF Running, Init
  <2> QED BY <2>2 DEF RoomOK
<1>6. ProcsOK
  BY <1>1, FreeType DEF ProcsOK, Proved, Carries
<1>7. RowsOK /\ TokensOK /\ SessionsOK
  <2>1. Promised = {}
    BY <1>1, FreeType DEF Promised, At, Init
  <2> QED BY <1>2, <1>3, <2>1 DEF RowsOK, TokensOK, SessionsOK
<1> QED
  BY <1>4, <1>5, <1>6, <1>7 DEF IInv

LEMMA StutterStep == ASSUME IInv, UNCHANGED vars PROVE IInv'
<1>1. UNCHANGED <<profile, changes, users, made, tokens, sessions, procs, served>>
  BY DEF vars
<1>2. Running' = Running /\ Promised' = Promised
  BY <1>1 DEF Running, Busy, Promised, At
<1>3. TypeOK' /\ RoomOK'
  BY <1>1, <1>2 DEF IInv, TypeOK, Present, RoomOK
<1>4. RowsOK' /\ TokensOK' /\ ProcsOK' /\ SessionsOK'
  <2>1. SessionsOK'
    BY <1>1, <1>2, PromisesKept DEF IInv
  <2> QED BY <1>1, <2>1 DEF IInv, RowsOK, TokensOK, ProcsOK, Proved, Carries, Present
<1> QED
  BY <1>3, <1>4 DEF IInv

LEMMA Inductive == IInv /\ [Next]_vars => IInv'
<1> SUFFICES ASSUME IInv, [Next]_vars PROVE IInv'
  OBVIOUS
<1>1. ASSUME NEW g \in Ids, NEW a \in Addresses \cup {None}, ChangeAddress(g, a) PROVE IInv'
  BY <1>1, ChangeAddressStep
<1>2. ASSUME NEW t \in Tokens, StartLogin(t) \/ ExpireToken(t) \/ \E u \in Rows : StartInstall(t, u)
      PROVE  IInv'
  BY <1>2, CreateStep, ExpireTokenStep DEF StartLogin, StartInstall
<1>3. ASSUME NEW p \in Procs, NEW g \in Ids, NEW t \in Tokens, Callback(p, g, t) PROVE IInv'
  BY <1>3, CallbackStep
<1>4. ASSUME NEW p \in Procs, NEW a \in Addresses, NEW w \in Passwords,
             Register(p, a, w) \/ Login(p, a, w)
      PROVE  IInv'
  BY <1>4, CredentialStep
<1>5. ASSUME NEW p \in Procs, NEW u \in Rows, NEW t \in Tokens \cup {None}, Complete(p, u, t)
      PROVE  IInv'
  BY <1>5, CompleteStep
<1>6. ASSUME NEW p \in Procs, Serve(p) PROVE IInv'
  BY <1>6, ReadTokenStep, DeleteTokenStep, FetchProfileStep, UpsertGithubUserStep, FindUnusedStep,
     CreateUserStep, FindUserStep, CreateAccessTokenStep, MatchUserStep, CheckOwnerStep, ClaimStep,
     FailStep DEF Serve
<1>7. CASE Quiet \/ UNCHANGED vars
  BY <1>7, StutterStep DEF Quiet
<1> QED
  BY <1>1, <1>2, <1>3, <1>4, <1>5, <1>6, <1>7 DEF Next

LEMMA Invariant == Spec => []IInv
<1> QED
  BY InitInv, Inductive, PTL DEF Spec

\* Every variable of the model stays in its type, and the unique columns of the
\* User table are unique.
THEOREM TypeCorrect == Spec => []TypeOK
<1>1. IInv => TypeOK
  BY DEF IInv
<1> QED
  BY <1>1, Invariant, PTL

\* consume reads the state token and deletes it in two commands, yet a request
\* that began after the deletion never passes with it, and completeInstall
\* never goes on with a token of another user.
THEOREM TokensSpentOnce == Spec => []TokenHonoured
<1>1. IInv => TokenHonoured
  BY DEF IInv, ProcsOK, Carries, TokenHonoured, At
<1> QED
  BY <1>1, Invariant, PTL

\* Whoever signs in, registers or changes an address on GitHub meanwhile: the
\* row an access token was made for stays that of the GitHub account or of the
\* password that was proved.
THEOREM SessionsTrue == Spec => []SessionsHonest
<1>1. IInv => SessionsHonest
  <2> SUFFICES ASSUME IInv, NEW session \in sessions
               PROVE  /\ users[session.user].github = session.github
                      /\ users[session.user].password = session.password
                      /\ session.github # None \/ session.password # None
    BY DEF SessionsHonest
  <2>1. Honest(session) /\ session.user \in Rows
    BY DEF IInv, SessionsOK, Promised, Honest
  <2>2. Owned(users[session.user])
    BY <2>1 DEF IInv, RowsOK, Honest
  <2>3. None \notin Ids /\ None \notin Passwords
    BY AccountsAssumption
  <2> QED BY <2>1, <2>2, <2>3 DEF Honest, Owned
<1> QED
  BY <1>1, Invariant, PTL

\* Every spelling of the address of someone who has registered leads to that row
\* and to no other, however registrations and GitHub sign-ins race.
THEOREM RegisteredKept == Spec => []RegisteredFound
<1>1. IInv => RegisteredFound
  <2> SUFFICES ASSUME IInv, NEW u \in Rows, Present(u), users[u].password # None,
                      NEW a \in Addresses, Lower[a] = Lower[users[u].email]
               PROVE  ByEmail(Normalized(a)) = {u}
    BY DEF RegisteredFound
  <2>1. TypeOK /\ users[u].email \in Addresses /\ Lower[users[u].email] = users[u].email
    BY DEF IInv, RowsOK, Owned
  <2>2. Normalized(a) = users[u].email /\ users[u].email # None
    BY <2>1, AccountsAssumption DEF Normalized
  <2>3. \A v \in Rows : Present(v) /\ users[v].email = users[u].email => v = u
    BY <2>1, <2>2 DEF TypeOK
  <2> QED BY <2>2, <2>3 DEF ByEmail
<1> QED
  BY <1>1, Invariant, PTL
=============================================================================
