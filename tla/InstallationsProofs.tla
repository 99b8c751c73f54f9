------------------------- MODULE InstallationsProofs -------------------------
EXTENDS SharedRows, FunctionTheorems, FiniteSetTheorems, TLAPS

(* The inductive invariant, the types and what holds of each process.        *)

Busy(p) == ~At(p, "idle")

\* A claim has a user and has listed nothing yet.  It knows when the row was
\* without an owner, and once it has tested the owner, when that changed.
Unclaimed(p) == IF At(p, "link") THEN procs[p].owner = None ELSE UserOf(I(p)) = None
ClaimOK(p) ==
    /\ procs[p].user \in Users /\ procs[p].sync
    /\ Unclaimed(p) => procs[p].open
    /\ procs[p].pc \in {"readOwner", "link"} =>
          UserOf(I(p)) = procs[p].user \/ procs[p].open \/ procs[p].rival

\* How far a list has come: all the earlier pages were full, and of the
\* repositories that were there from the first page on, those not seen yet are
\* further on.
Position(i, r) == Cardinality(Before(i, r))
Past(p) == (procs[p].page - 1) * PageSize
PageOK(p) ==
    /\ procs[p].sync
    /\ procs[p].seen = Past(p)
    /\ procs[p].page > 1 => Past(p) < Cardinality(Repos)
    /\ gh[I(p)].state = "gone" \/ \A r \in procs[p].kept :
          r \in gh[I(p)].repos /\ (r \in procs[p].list \/ Past(p) <= Position(I(p), r))

\* What a synchronisation listed, nobody else has written since and it is not
\* still to write is active, and in the end nothing else is.
Mine(p, r) == epoch[I(p)] = procs[p].row /\ r \in ActiveIn(I(p))
SyncOK(p) ==
    /\ procs[p].kept \subseteq procs[p].list
    /\ \A r \in procs[p].list \ procs[p].touched :
          Mine(p, r) \/ (At(p, "add") /\ r \in procs[p].add)
    /\ At(p, "drop") => procs[p].drop \cap procs[p].list = {}
    /\ At(p, "drop") => \A r \in Repos \ (procs[p].list \cup procs[p].touched) :
          Mine(p, r) => r \in procs[p].drop

\* A process holds the row of an incarnation that has begun.
ProcOK(p) ==
    /\ Claiming(p) => ClaimOK(p)
    /\ At(p, "list") => PageOK(p)
    /\ Syncing(p) => SyncOK(p)
    /\ At(p, "readActive") => procs[p].sync
    /\ procs[p].sync => Claiming(p) \/ At(p, "list") \/ Syncing(p)
    /\ Busy(p) => procs[p].row <= epoch[I(p)]

\* an installation that is still to come covers nothing
AbsentOK == \A i \in Insts : gh[i].state = "absent" => gh[i].repos = {}

IInv ==
    /\ TypeOK
    /\ IsFiniteSet(events)
    /\ AbsentOK
    /\ \A p \in Procs : ProcOK(p)

-----------------------------------------------------------------------------
(* The pages of a list.                                                      *)

LEMMA Places ==
    ASSUME NEW i, gh[i].repos \subseteq Repos
    PROVE  LET S == gh[i].repos
               f == [r \in S |-> Position(i, r)]
           IN  /\ IsFiniteSet(S) /\ Cardinality(S) \in Nat
               /\ Cardinality(S) <= Cardinality(Repos) /\ Cardinality(Repos) \in Nat
               /\ f \in [S -> 0..(Cardinality(S) - 1)]
               /\ \A r, s \in S : f[r] = f[s] => r = s
               /\ \A x \in 0..(Cardinality(S) - 1) : \E r \in S : f[r] = x
<1> DEFINE S == gh[i].repos
           f == [r \in S |-> Position(i, r)]
           n == Cardinality(S)
<1>1. /\ IsFiniteSet(S) /\ n \in Nat /\ n <= Cardinality(Repos) /\ Cardinality(Repos) \in Nat
      /\ Rank \in [Repos -> Nat] /\ \A r, s \in Repos : Rank[r] = Rank[s] => r = s
  BY InstallationsAssumption, FS_Subset, FS_CardinalityType
<1>2. ASSUME NEW r \in S
      PROVE  /\ IsFiniteSet(Before(i, r)) /\ Position(i, r) \in 0..(n - 1)
             /\ r \notin Before(i, r)
  <2>1. IsFiniteSet(S \ {r}) /\ Cardinality(S \ {r}) = n - 1
    BY <1>1, <1>2, FS_RemoveElement
  <2>2. Before(i, r) \subseteq S \ {r} /\ r \notin Before(i, r)
    BY <1>1, <1>2 DEF Before
  <2>3. IsFiniteSet(Before(i, r)) /\ Cardinality(Before(i, r)) <= n - 1
    BY <2>1, <2>2, FS_Subset
  <2> QED BY <1>1, <2>2, <2>3, FS_CardinalityType DEF Position
<1>3. ASSUME NEW r \in S, NEW s \in S, Rank[r] < Rank[s]
      PROVE  Position(i, r) < Position(i, s)
  <2>1. Before(i, r) \cup {r} \subseteq Before(i, s)
    BY <1>1, <1>3 DEF Before
  <2>2. Cardinality(Before(i, r) \cup {r}) = Position(i, r) + 1
    BY <1>2, FS_AddElement DEF Position
  <2>3. Cardinality(Before(i, r) \cup {r}) <= Position(i, s)
    BY <1>2, <2>1, FS_Subset DEF Position
  <2> QED BY <1>2, <2>2, <2>3
<1>4. \A r, s \in S : Position(i, r) = Position(i, s) => r = s
  <2> SUFFICES ASSUME NEW r \in S, NEW s \in S, r # s
               PROVE  Position(i, r) # Position(i, s)
    OBVIOUS
  <2>1. Rank[r] < Rank[s] \/ Rank[s] < Rank[r]
    BY <1>1
  <2> QED BY <1>2, <1>3, <2>1
<1>5. f \in [S -> 0..(n - 1)] /\ \A r, s \in S : f[r] = f[s] => r = s
  BY <1>2, <1>4
<1>6. f \in Surjection(S, 0..(n - 1))
  <2>1. f \in Injection(S, 0..(n - 1))
    BY <1>5, Fun_IsInj
  <2>2. IsFiniteSet(0..(n - 1)) /\ Cardinality(0..(n - 1)) = n
    <3> HIDE DEF n
    <3>1. n \in Nat /\ 0 \in Int /\ n - 1 \in Int
      BY <1>1
    <3>2. /\ IsFiniteSet(0..(n - 1))
          /\ Cardinality(0..(n - 1)) = IF 0 > n - 1 THEN 0 ELSE (n - 1) - 0 + 1
      BY <3>1, FS_Interval
    <3> QED BY <3>1, <3>2
  <2> QED BY <2>1, <2>2, FS_Injection
<1>7. \A x \in 0..(n - 1) : \E r \in S : f[r] = x
  <2> HIDE DEF f, n
  <2> QED BY <1>6 DEF Surjection
<1> QED
  BY <1>1, <1>5, <1>7

\* the pages divide the list
LEMMA Division ==
    ASSUME NEW x \in Nat, NEW k \in Nat \ {0}, NEW q \in Nat
    PROVE  x \div k = q <=> q * k <= x /\ x < q * k + k
<1>1. x = k * (x \div k) + (x % k) /\ x % k \in 0..(k - 1) /\ x \div k \in Nat
  OBVIOUS
<1> QED
  BY <1>1

LEMMA PageSizes ==
    ASSUME NEW i, gh[i].repos \subseteq Repos, NEW n \in Nat \ {0}, NEW lo \in Nat,
           lo = (n - 1) * PageSize
    PROVE  LET P == PageOf(i, n)
               total == Cardinality(gh[i].repos)
           IN  /\ P = {r \in gh[i].repos : lo <= Position(i, r) /\ Position(i, r) < lo + PageSize}
               /\ P \subseteq gh[i].repos /\ Cardinality(P) \in Nat
               /\ Cardinality(P) <= PageSize
               /\ total \in Nat /\ total <= Cardinality(Repos) /\ Cardinality(Repos) \in Nat
               /\ \A r \in gh[i].repos : Position(i, r) \in Nat /\ Position(i, r) < total
               /\ lo + PageSize <= total => Cardinality(P) = PageSize
               /\ lo <= total /\ total < lo + PageSize => Cardinality(P) = total - lo
<1> DEFINE P == PageOf(i, n)
           f == [r \in gh[i].repos |-> Position(i, r)]
<1>0. PICK total \in Nat : total = Cardinality(gh[i].repos)
  BY Places
<1>1. PICK S : S = gh[i].repos
  OBVIOUS
<1>2. /\ IsFiniteSet(S) /\ total <= Cardinality(Repos) /\ Cardinality(Repos) \in Nat
      /\ f \in [S -> 0..(total - 1)] /\ \A r, s \in S : f[r] = f[s] => r = s
      /\ \A x \in 0..(total - 1) : \E r \in S : f[r] = x
      /\ \A r \in S : f[r] = Position(i, r)
  BY <1>0, <1>1, Places
<1> HIDE DEF f
<1>3. PageSize \in Nat \ {0}
  BY InstallationsAssumption
<1>4. P = {r \in S : lo <= f[r] /\ f[r] < lo + PageSize}
  <2>1. \A r \in S : f[r] \div PageSize = n - 1 <=> lo <= f[r] /\ f[r] < lo + PageSize
    <3>1. n - 1 \in Nat /\ \A r \in S : f[r] \in Nat
      BY <1>2
    <3> QED BY <1>3, <3>1, Division
  <2> QED BY <1>1, <1>2, <2>1 DEF PageOf, Position
<1> HIDE DEF P
<1>5. ASSUME NEW hi \in Int, hi <= total - 1,
             \A x \in 0..(total - 1) : lo <= x /\ x < lo + PageSize <=> x \in lo..hi
      PROVE  IsFiniteSet(P) /\ Cardinality(P) = IF lo > hi THEN 0 ELSE hi - lo + 1
  <2> DEFINE T == lo..hi
             g == [r \in P |-> f[r]]
  <2>1. IsFiniteSet(P)
    BY <1>2, <1>4, FS_Subset
  <2>2. g \in [P -> T] /\ \A r, s \in P : g[r] = g[s] => r = s
    BY <1>2, <1>4, <1>5
  <2>3. \A t \in T : \E r \in P : g[r] = t
    <3> SUFFICES ASSUME NEW t \in T PROVE \E r \in P : g[r] = t
      OBVIOUS
    <3>1. t \in 0..(total - 1) /\ lo <= t /\ t < lo + PageSize
      BY <1>5
    <3>2. PICK r \in S : f[r] = t
      BY <1>2, <3>1
    <3> QED BY <1>4, <3>1, <3>2
  <2>4. g \in Bijection(P, T)
    <3> HIDE DEF g, T
    <3> QED BY <2>2, <2>3, Fun_IsBij
  <2>5. Cardinality(T) = Cardinality(P)
    <3> HIDE DEF g, T
    <3>1. ExistsBijection(P, T)
      BY <2>4 DEF ExistsBijection
    <3> QED BY <2>1, <3>1, FS_Bijection
  <2>6. Cardinality(T) = IF lo > hi THEN 0 ELSE hi - lo + 1
    <3>1. lo \in Int /\ hi \in Int
      BY <1>5
    <3> QED BY <3>1, FS_Interval
  <2> QED BY <2>1, <2>5, <2>6
<1>6. lo + PageSize <= total => Cardinality(P) = PageSize
  <2> SUFFICES ASSUME lo + PageSize <= total PROVE Cardinality(P) = PageSize
    OBVIOUS
  <2>1. PICK hi \in Int : hi = lo + PageSize - 1
    BY <1>3
  <2>2. hi <= total - 1 /\ \A x \in 0..(total - 1) : lo <= x /\ x < lo + PageSize <=> x \in lo..hi
    BY <1>3, <2>1
  <2>3. Cardinality(P) = IF lo > hi THEN 0 ELSE hi - lo + 1
    BY <1>5, <2>2
  <2> QED BY <1>3, <2>1, <2>3
<1>7. total < lo + PageSize => Cardinality(P) = IF lo > total - 1 THEN 0 ELSE total - lo
  <2> SUFFICES ASSUME total < lo + PageSize
               PROVE  Cardinality(P) = IF lo > total - 1 THEN 0 ELSE total - lo
    OBVIOUS
  <2>1. PICK hi \in Int : hi = total - 1
    BY <1>0
  <2>2. hi <= total - 1 /\ \A x \in 0..(total - 1) : lo <= x /\ x < lo + PageSize <=> x \in lo..hi
    BY <1>3, <2>1
  <2>3. Cardinality(P) = IF lo > hi THEN 0 ELSE hi - lo + 1
    BY <1>5, <2>2
  <2> QED BY <1>0, <2>1, <2>3
<1>8. Cardinality(P) \in Nat /\ Cardinality(P) <= PageSize
  BY <1>0, <1>3, <1>6, <1>7
<1>9. \A r \in S : Position(i, r) \in Nat /\ Position(i, r) < total
  BY <1>0, <1>2
<1>10. P = {r \in S : lo <= Position(i, r) /\ Position(i, r) < lo + PageSize} /\ P \subseteq S
  BY <1>2, <1>4
<1> QED
  BY <1>0, <1>1, <1>2, <1>6, <1>7, <1>8, <1>9, <1>10 DEF P

-----------------------------------------------------------------------------
(* A step is one process's, or GitHub's.  The others keep their local state,  *)
(* but for what they are told of the rows that were written.                  *)

Kept(q) ==
    /\ procs'[q].pc = procs[q].pc /\ procs'[q].i = procs[q].i
    /\ procs'[q].user = procs[q].user /\ procs'[q].row = procs[q].row
    /\ procs'[q].sync = procs[q].sync /\ procs'[q].owner = procs[q].owner
    /\ procs'[q].page = procs[q].page /\ procs'[q].seen = procs[q].seen
    /\ procs'[q].list = procs[q].list /\ procs'[q].add = procs[q].add
    /\ procs'[q].drop = procs[q].drop
    /\ procs[q].open => procs'[q].open
    /\ procs[q].rival => procs'[q].rival
    /\ procs[q].touched \subseteq procs'[q].touched
    /\ procs'[q].kept \subseteq procs[q].kept

Moves(p, new) ==
    /\ procs' \in [Procs -> Locals]
    /\ procs'[p] = new
    /\ \A q \in Procs \ {p} : Kept(q)

\* q is told of what the step does to the rows it relies on
Told(q) ==
    /\ gh' = gh
    /\ \A i \in Insts : I(q) = i =>
          /\ epoch[i] <= epoch'[i]
          /\ Claiming(q) => \/ UserOf(i)' = UserOf(i)
                            \/ procs'[q].open
                            \/ procs'[q].rival /\ UserOf(i)' \in Users
    /\ Syncing(q) => \A r \in Repos \ procs'[q].touched : Mine(q, r)' <=> Mine(q, r)

LEMMA ToldKeeps ==
    ASSUME TypeOK, TypeOK', NEW q \in Procs, ProcOK(q), Kept(q), Told(q)
    PROVE  ProcOK(q)'
<1>1. /\ Busy(q)' <=> Busy(q)
      /\ Claiming(q)' <=> Claiming(q)
      /\ At(q, "list")' <=> At(q, "list")
      /\ At(q, "link")' <=> At(q, "link")
      /\ At(q, "add")' <=> At(q, "add")
      /\ At(q, "drop")' <=> At(q, "drop")
      /\ Syncing(q)' <=> Syncing(q)
      /\ At(q, "readActive")' <=> At(q, "readActive")
  BY DEF Kept, Busy, Claiming, Syncing, At
<1>2. Busy(q) => \E i \in Insts : I(q) = i /\ I(q)' = i
  BY DEF TypeOK, Busy, Kept, I
<1>3. Claiming(q) => Busy(q)
  BY DEF Claiming, Busy, At
<1>4. Claiming(q)' => ClaimOK(q)'
  <2> SUFFICES ASSUME Claiming(q) PROVE ClaimOK(q)'
    BY <1>1
  <2>1. PICK i \in Insts : I(q) = i /\ I(q)' = i
    BY <1>2, <1>3
  <2>2. ClaimOK(q)
    BY DEF ProcOK
  <2>3. \/ UserOf(i)' = UserOf(i)
        \/ procs'[q].open
        \/ procs'[q].rival /\ UserOf(i)' \in Users
    BY <2>1 DEF Told
  <2>4. Unclaimed(q)' => procs'[q].open
    <3>1. CASE At(q, "link")
      <4>1. Unclaimed(q)' => Unclaimed(q)
        BY <1>1, <3>1 DEF Unclaimed, Kept
      <4> QED BY <2>2, <4>1 DEF ClaimOK, Kept
    <3>2. CASE ~At(q, "link")
      <4>1. Unclaimed(q)' => UserOf(i)' = None
        BY <1>1, <2>1, <3>2 DEF Unclaimed
      <4>2. UserOf(i) = None => procs[q].open
        BY <2>1, <2>2, <3>2 DEF Unclaimed, ClaimOK
      <4> QED BY <2>3, <4>1, <4>2, InstallationsAssumption DEF Kept
    <3> QED BY <3>1, <3>2
  <2>5. procs[q].pc \in {"readOwner", "link"} =>
            UserOf(i)' = procs[q].user \/ procs'[q].open \/ procs'[q].rival
    BY <2>1, <2>2, <2>3 DEF ClaimOK, Kept
  <2> QED BY <2>1, <2>2, <2>4, <2>5 DEF ClaimOK, Kept
<1>5. At(q, "list")' => PageOK(q)'
  <2> SUFFICES ASSUME At(q, "list") PROVE PageOK(q)'
    BY <1>1
  <2>1. PageOK(q) /\ gh' = gh /\ I(q)' = I(q)
    BY DEF ProcOK, Told, Kept, I
  <2> QED BY <2>1 DEF PageOK, Past, Position, Before, Kept
<1>6. Syncing(q)' => SyncOK(q)'
  <2> SUFFICES ASSUME Syncing(q) PROVE SyncOK(q)'
    BY <1>1
  <2>1. SyncOK(q) /\ \A r \in Repos \ procs'[q].touched : Mine(q, r)' <=> Mine(q, r)
    BY DEF ProcOK, Told
  <2>2. procs[q].list \subseteq Repos
    BY DEF TypeOK, Locals
  <2>3. procs'[q].kept \subseteq procs'[q].list
    BY <2>1 DEF SyncOK, Kept
  <2>4. \A r \in procs'[q].list \ procs'[q].touched :
            Mine(q, r)' \/ (At(q, "add")' /\ r \in procs'[q].add)
    BY <1>1, <2>1, <2>2 DEF SyncOK, Kept
  <2>5. At(q, "drop")' => procs'[q].drop \cap procs'[q].list = {}
    BY <1>1, <2>1 DEF SyncOK, Kept
  <2>6. At(q, "drop")' => \A r \in Repos \ (procs'[q].list \cup procs'[q].touched) :
            Mine(q, r)' => r \in procs'[q].drop
    BY <1>1, <2>1 DEF SyncOK, Kept
  <2> QED BY <2>3, <2>4, <2>5, <2>6 DEF SyncOK
<1>7. Busy(q)' => procs'[q].row <= epoch'[I(q)']
  <2> SUFFICES ASSUME Busy(q) PROVE procs'[q].row <= epoch'[I(q)']
    BY <1>1
  <2>1. PICK i \in Insts : I(q) = i /\ I(q)' = i
    BY <1>2
  <2>2. procs[q].row <= epoch[i] /\ epoch[i] <= epoch'[i]
    BY <2>1 DEF ProcOK, Told
  <2>3. procs[q].row \in Nat /\ epoch[i] \in Nat /\ epoch'[i] \in Nat
    BY DEF TypeOK, Locals
  <2> QED BY <2>1, <2>2, <2>3 DEF Kept
<1> QED
  BY <1>1, <1>4, <1>5, <1>6, <1>7 DEF ProcOK, Kept

\* what only one process can see
LEMMA Alone ==
    ASSUME TypeOK, NEW p \in Procs, NEW new \in Locals, procs' = [procs EXCEPT ![p] = new]
    PROVE  Moves(p, new) /\ \A q \in Procs \ {p} : procs'[q] = procs[q]
  BY DEF TypeOK, Moves, Kept

LEMMA UnwrittenTold ==
    ASSUME TypeOK, NEW q \in Procs, Kept(q), UNCHANGED <<gh, inst, epoch, repo>>
    PROVE  Told(q)
<1>1. \A i \in Insts : epoch[i] <= epoch'[i] /\ UserOf(i)' = UserOf(i)
  BY DEF TypeOK, UserOf
<1>2. \A r \in Repos : Mine(q, r)' <=> Mine(q, r)
  BY DEF Mine, ActiveIn, Kept, I
<1> QED
  BY <1>1, <1>2 DEF Told

LEMMA FreeOK ==
    ASSUME NEW p \in Procs, procs'[p] = Free
    PROVE  ProcOK(p)'
  BY DEF ProcOK, Free, Claiming, Syncing, At, Busy

LEMMA FreeLocal == Free \in Locals
  BY DEF Free, Locals, Pcs, Kinds

LEMMA ListingLocal ==
    ASSUME NEW u \in Users, NEW i \in Insts, epoch[i] \in Nat
    PROVE  LET new == Listing(u, i)
           IN  /\ new \in Locals /\ new.pc = "list" /\ new.i = i /\ new.user = u
               /\ new.row = epoch[i] /\ new.sync = TRUE
               /\ new.page = 1 /\ new.seen = 0 /\ new.kept = {}
  BY FreeLocal DEF Listing, Free, Locals, Pcs

\* the types, once it is known what becomes of the process and of the rows
LEMMA MoveType ==
    ASSUME TypeOK, NEW p \in Procs, NEW new \in Locals, Moves(p, new),
           new.pc # "idle" => new.i \in Insts,
           UNCHANGED <<gh, events>>,
           inst' \in [Insts -> InstRows \cup {None}],
           epoch' \in [Insts -> Nat \ {0}],
           repo' \in [Repos -> RepoRows \cup {None}],
           \A r \in Repos : repo'[r] # None => inst'[repo'[r].inst] # None,
           served' \in 0..MaxServed
    PROVE  TypeOK'
<1>1. \A q \in Procs : ~At(q, "idle")' => I(q)' \in Insts
  BY DEF TypeOK, Moves, Kept, At, I
<1> QED
  BY <1>1 DEF TypeOK, Moves

\* a step that writes no row
LEMMA QuietStep ==
    ASSUME IInv, NEW p \in Procs, NEW new \in Locals, procs' = [procs EXCEPT ![p] = new],
           new.pc # "idle" => new.i \in Insts,
           UNCHANGED <<gh, events, inst, epoch, repo>>, served' \in 0..MaxServed
    PROVE  /\ TypeOK' /\ procs'[p] = new
           /\ ProcOK(p)' => IInv'
<1>1. TypeOK /\ Moves(p, new)
  BY Alone DEF IInv
<1>2. TypeOK'
  BY <1>1, MoveType DEF TypeOK
<1>3. \A q \in Procs \ {p} : ProcOK(q)'
  BY <1>1, <1>2, UnwrittenTold, ToldKeeps DEF Moves, IInv
<1> QED
  BY <1>1, <1>2, <1>3 DEF Moves, IInv, AbsentOK

-----------------------------------------------------------------------------
(* Processes begin.                                                           *)

LEMMA BeginStep ==
    ASSUME IInv, NEW p \in Procs, NEW new \in Locals, Begin(p, new),
           new.pc # "idle" => new.i \in Insts
    PROVE  /\ TypeOK' /\ procs'[p] = new /\ UNCHANGED <<gh, inst, epoch, repo>>
           /\ ProcOK(p)' => IInv'
<1>1. served' \in 0..MaxServed
  BY InstallationsAssumption DEF Begin, IInv, TypeOK
<1> QED
  BY <1>1, QuietStep DEF Begin

LEMMA ReceiveOK ==
    ASSUME IInv, NEW p \in Procs, NEW e \in events, Receive(p, e)
    PROVE  IInv'
<1> DEFINE new == [Free EXCEPT !.pc = e.kind, !.i = e.i, !.add = e.added, !.drop = e.removed]
<1>1. e.kind \in Kinds /\ e.i \in Insts /\ e.added \in SUBSET Repos /\ e.removed \in SUBSET Repos
  BY DEF IInv, TypeOK
<1>2. new \in Locals
  BY <1>1, FreeLocal DEF Locals, Pcs
<1>3. new.pc \in Kinds /\ new.i \in Insts /\ new.row = 0 /\ new.sync = FALSE
  BY <1>1 DEF Free
<1>4. Begin(p, new)
  BY DEF Receive
<1> HIDE DEF new
<1>5. /\ TypeOK' /\ procs'[p] = new /\ UNCHANGED <<gh, inst, epoch, repo>>
      /\ ProcOK(p)' => IInv'
  BY <1>2, <1>3, <1>4, BeginStep
<1>6. procs'[p].row <= epoch'[I(p)']
  BY <1>3, <1>5 DEF TypeOK, I
<1>7. ProcOK(p)'
  BY <1>3, <1>5, <1>6 DEF ProcOK, Claiming, Syncing, At, Kinds
<1> QED
  BY <1>5, <1>7

LEMMA RequestClaimOK ==
    ASSUME IInv, NEW p \in Procs, NEW u \in Users, NEW i \in Insts, RequestClaim(p, u, i)
    PROVE  IInv'
<1> DEFINE new == [Free EXCEPT !.pc = "verify", !.i = i, !.user = u, !.sync = TRUE,
                               !.open = (UserOf(i) = None)]
<1>2. new \in Locals
  BY FreeLocal DEF Locals, Pcs, Free
<1>3. /\ new.pc = "verify" /\ new.i = i /\ new.row = 0 /\ new.sync = TRUE /\ new.user = u
      /\ new.open = (UserOf(i) = None)
  BY DEF Free
<1>4. Begin(p, new)
  BY DEF RequestClaim
<1> HIDE DEF new
<1>5. /\ TypeOK' /\ procs'[p] = new /\ UNCHANGED <<gh, inst, epoch, repo>>
      /\ ProcOK(p)' => IInv'
  BY <1>2, <1>3, <1>4, BeginStep
<1>6. procs'[p].row <= epoch'[I(p)']
  BY <1>3, <1>5 DEF TypeOK, I
<1>7. ClaimOK(p)'
  BY <1>3, <1>5 DEF ClaimOK, Unclaimed, UserOf, At, I
<1>8. ProcOK(p)'
  BY <1>3, <1>5, <1>6, <1>7 DEF ProcOK, Claiming, Syncing, At
<1> QED
  BY <1>5, <1>8

LEMMA RequestSyncOK ==
    ASSUME IInv, NEW p \in Procs, NEW u \in Users, NEW i \in Insts, RequestSync(p, u, i)
    PROVE  IInv'
<1> DEFINE new == Listing(u, i)
<1>1. epoch[i] \in Nat
  BY DEF IInv, TypeOK
<1>2. new \in Locals
  BY <1>1, ListingLocal
<1>3. /\ new.pc = "list" /\ new.i = i /\ new.row = epoch[i] /\ new.sync = TRUE
      /\ new.page = 1 /\ new.seen = 0 /\ new.kept = {}
  BY DEF Listing, Free
<1>4. Begin(p, new)
  BY DEF RequestSync
<1> HIDE DEF new
<1>5. /\ TypeOK' /\ procs'[p] = new /\ UNCHANGED <<gh, inst, epoch, repo>>
      /\ ProcOK(p)' => IInv'
  BY <1>2, <1>3, <1>4, BeginStep
<1>6. procs'[p].row <= epoch'[I(p)']
  BY <1>1, <1>3, <1>5 DEF I
<1>7. PageOK(p)'
  BY <1>3, <1>5, InstallationsAssumption DEF PageOK, Past
<1>8. ProcOK(p)'
  BY <1>3, <1>5, <1>6, <1>7 DEF ProcOK, Claiming, Syncing, At
<1> QED
  BY <1>5, <1>8

-----------------------------------------------------------------------------
(* Steps that write no row.                                                   *)

LEMMA GoesOn ==
    ASSUME IInv, NEW p \in Procs, NEW new \in Locals, procs' = [procs EXCEPT ![p] = new],
           Busy(p), new.i = I(p), UNCHANGED <<gh, events, inst, epoch, repo, served>>
    PROVE  /\ TypeOK' /\ procs'[p] = new
           /\ ProcOK(p)' => IInv'
           /\ I(p) \in Insts /\ epoch[I(p)] \in Nat /\ I(p)' = I(p)
           /\ UserOf(I(p))' = UserOf(I(p))
           /\ new.row = procs[p].row => procs'[p].row <= epoch'[I(p)']
<1>1. I(p) \in Insts /\ epoch[I(p)] \in Nat /\ served' \in 0..MaxServed
  BY DEF IInv, TypeOK, Busy
<1>2. TypeOK' /\ procs'[p] = new /\ (ProcOK(p)' => IInv')
  BY <1>1, QuietStep
<1>3. I(p)' = I(p)
  BY <1>2 DEF I
<1>4. procs[p].row <= epoch[I(p)]
  BY DEF IInv, ProcOK
<1> QED
  BY <1>1, <1>2, <1>3, <1>4 DEF UserOf

LEMMA EndOK ==
    ASSUME IInv, NEW p \in Procs, End(p), UNCHANGED <<gh, events, inst, epoch, repo, served>>
    PROVE  IInv'
<1>1. Free.pc = "idle" /\ served' \in 0..MaxServed
  BY DEF Free, IInv, TypeOK
<1> QED
  BY <1>1, QuietStep, FreeLocal, FreeOK DEF End

LEMMA LookedUpOK ==
    ASSUME IInv, NEW p \in Procs, CheckSuspended(p) \/ FindRepository(p)
    PROVE  IInv'
<1>1. CASE End(p)
  BY <1>1, EndOK DEF CheckSuspended, FindRepository
<1>2. CASE ~End(p)
  <2>1. PICK pc \in {"findRepo", "findInst"} : Goto(p, pc)
    BY <1>2 DEF CheckSuspended, FindRepository
  <2> DEFINE new == [procs[p] EXCEPT !.pc = pc]
  <2>2. procs' = [procs EXCEPT ![p] = new] /\ procs[p].pc \in {"pull", "findRepo"}
        /\ UNCHANGED <<gh, events, inst, epoch, repo, served>>
    BY <2>1 DEF CheckSuspended, FindRepository, Goto, At
  <2>3. procs[p] \in Locals /\ ~procs[p].sync /\ Busy(p)
    BY <2>2 DEF IInv, TypeOK, ProcOK, Claiming, Syncing, At, Busy
  <2>4. new \in Locals /\ new.pc = pc /\ new.i = I(p) /\ ~new.sync /\ new.row = procs[p].row
    BY <2>1, <2>3 DEF Locals, Pcs, I
  <2> HIDE DEF new
  <2>5. /\ procs'[p] = new /\ (ProcOK(p)' => IInv')
        /\ procs'[p].row <= epoch'[I(p)']
    BY <2>2, <2>3, <2>4, GoesOn
  <2>6. ProcOK(p)'
    BY <2>1, <2>4, <2>5 DEF ProcOK, Claiming, Syncing, At
  <2> QED BY <2>5, <2>6
<1> QED
  BY <1>1, <1>2

LEMMA FindInstallationOK ==
    ASSUME IInv, NEW p \in Procs, FindInstallation(p)
    PROVE  IInv'
<1>1. CASE End(p)
  BY <1>1, EndOK DEF FindInstallation
<1>2. CASE ~End(p)
  <2> DEFINE new == [procs[p] EXCEPT !.pc = "add", !.row = epoch[I(p)]]
  <2>1. procs' = [procs EXCEPT ![p] = new] /\ At(p, "findInst")
        /\ UNCHANGED <<gh, events, inst, epoch, repo, served>>
    BY <1>2 DEF FindInstallation
  <2>2. procs[p] \in Locals /\ epoch[I(p)] \in Nat /\ ~procs[p].sync /\ Busy(p)
    BY <2>1 DEF IInv, TypeOK, ProcOK, Claiming, Syncing, At, Busy
  <2>3. new \in Locals /\ new.pc = "add" /\ new.i = I(p) /\ ~new.sync /\ new.row = epoch[I(p)]
    BY <2>2 DEF Locals, Pcs, I
  <2> HIDE DEF new
  <2>4. procs'[p] = new /\ (ProcOK(p)' => IInv') /\ I(p)' = I(p)
    BY <2>1, <2>2, <2>3, GoesOn
  <2>5. ProcOK(p)'
    BY <2>1, <2>2, <2>3, <2>4 DEF ProcOK, Claiming, Syncing, At
  <2> QED BY <2>4, <2>5
<1> QED
  BY <1>1, <1>2

LEMMA VerifyOK ==
    ASSUME IInv, NEW p \in Procs, Verify(p)
    PROVE  IInv'
<1>1. CASE End(p)
  BY <1>1, EndOK DEF Verify
<1>2. CASE ~End(p)
  <2> DEFINE new == [procs[p] EXCEPT !.pc = "check"]
  <2>1. procs' = [procs EXCEPT ![p] = new] /\ At(p, "verify")
        /\ UNCHANGED <<gh, events, inst, epoch, repo, served>>
    BY <1>2 DEF Verify, Goto
  <2>2. procs[p] \in Locals /\ Busy(p) /\ ClaimOK(p)
    BY <2>1 DEF IInv, TypeOK, ProcOK, Claiming, At, Busy
  <2>3. /\ new \in Locals /\ new.pc = "check" /\ new.i = I(p) /\ new.row = procs[p].row
        /\ new.user = procs[p].user /\ new.sync = procs[p].sync /\ new.open = procs[p].open
    BY <2>2 DEF Locals, Pcs, I
  <2> HIDE DEF new
  <2>4. /\ procs'[p] = new /\ (ProcOK(p)' => IInv') /\ UserOf(I(p))' = UserOf(I(p))
        /\ procs'[p].row <= epoch'[I(p)']
    BY <2>1, <2>2, <2>3, GoesOn
  <2>5. ClaimOK(p)'
    BY <2>1, <2>2, <2>3, <2>4 DEF ClaimOK, Unclaimed, At
  <2>6. ProcOK(p)'
    BY <2>3, <2>4, <2>5 DEF ProcOK, Claiming, Syncing, At
  <2> QED BY <2>4, <2>6
<1> QED
  BY <1>1, <1>2

LEMMA CheckOwnerOK ==
    ASSUME IInv, NEW p \in Procs, CheckOwner(p)
    PROVE  IInv'
<1>1. CASE End(p)
  BY <1>1, EndOK DEF CheckOwner
<1>2. CASE ~End(p)
  <2> DEFINE new == [procs[p] EXCEPT !.pc = "readOwner"]
  <2>1. procs' = [procs EXCEPT ![p] = new] /\ At(p, "check")
        /\ UserOf(I(p)) \in {None, procs[p].user}
        /\ UNCHANGED <<gh, events, inst, epoch, repo, served>>
    BY <1>2 DEF CheckOwner, Goto, NotTheirs
  <2>2. procs[p] \in Locals /\ Busy(p) /\ ClaimOK(p)
    BY <2>1 DEF IInv, TypeOK, ProcOK, Claiming, At, Busy
  <2>3. /\ new \in Locals /\ new.pc = "readOwner" /\ new.i = I(p) /\ new.row = procs[p].row
        /\ new.user = procs[p].user /\ new.sync = procs[p].sync /\ new.open = procs[p].open
    BY <2>2 DEF Locals, Pcs, I
  <2> HIDE DEF new
  <2>4. /\ procs'[p] = new /\ (ProcOK(p)' => IInv') /\ UserOf(I(p))' = UserOf(I(p))
        /\ procs'[p].row <= epoch'[I(p)']
    BY <2>1, <2>2, <2>3, GoesOn
  <2>5. UserOf(I(p)) = None => procs[p].open
    BY <2>1, <2>2 DEF ClaimOK, Unclaimed, At
  <2>6. ClaimOK(p)'
    BY <2>1, <2>2, <2>3, <2>4, <2>5 DEF ClaimOK, Unclaimed, At
  <2>7. ProcOK(p)'
    BY <2>3, <2>4, <2>6 DEF ProcOK, Claiming, Syncing, At
  <2> QED BY <2>4, <2>7
<1> QED
  BY <1>1, <1>2

LEMMA ReadOwnerOK ==
    ASSUME IInv, NEW p \in Procs, ReadOwner(p)
    PROVE  IInv'
<1> DEFINE new == [procs[p] EXCEPT !.pc = "link", !.owner = UserOf(I(p))]
<1>1. procs' = [procs EXCEPT ![p] = new] /\ At(p, "readOwner")
      /\ UNCHANGED <<gh, events, inst, epoch, repo, served>>
  BY DEF ReadOwner
<1>2. procs[p] \in Locals /\ Busy(p) /\ ClaimOK(p) /\ UserOf(I(p)) \in Users \cup {None}
  BY <1>1 DEF IInv, TypeOK, ProcOK, Claiming, At, Busy, UserOf, InstRows
<1>3. /\ new \in Locals /\ new.pc = "link" /\ new.i = I(p) /\ new.row = procs[p].row
      /\ new.user = procs[p].user /\ new.sync = procs[p].sync
  BY <1>2 DEF Locals, Pcs, I
<1>4. /\ new.open = procs[p].open
      /\ new.owner = UserOf(I(p)) /\ new.rival = procs[p].rival
  BY <1>2 DEF Locals
<1> HIDE DEF new
<1>5. /\ procs'[p] = new /\ (ProcOK(p)' => IInv') /\ UserOf(I(p))' = UserOf(I(p))
      /\ procs'[p].row <= epoch'[I(p)']
  BY <1>1, <1>2, <1>3, GoesOn
<1>6. ClaimOK(p)'
  BY <1>1, <1>2, <1>3, <1>4, <1>5, ZenonT(40) DEF ClaimOK, Unclaimed, At
<1>7. ProcOK(p)'
  BY <1>3, <1>5, <1>6 DEF ProcOK, Claiming, Syncing, At
<1> QED
  BY <1>5, <1>7

LEMMA AddedAllOK ==
    ASSUME IInv, NEW p \in Procs, AddedAll(p)
    PROVE  IInv'
<1> DEFINE pc == IF procs[p].sync THEN "readActive" ELSE "drop"
           new == [procs[p] EXCEPT !.pc = pc]
<1>1. procs' = [procs EXCEPT ![p] = new] /\ At(p, "add") /\ procs[p].add = {}
      /\ UNCHANGED <<gh, events, inst, epoch, repo, served>>
  BY DEF AddedAll, Goto
<1>2. procs[p] \in Locals /\ Busy(p)
  BY <1>1 DEF IInv, TypeOK, At, Busy
<1>3. /\ new \in Locals /\ new.pc = pc /\ new.i = I(p) /\ new.row = procs[p].row
      /\ new.sync = procs[p].sync /\ new.list = procs[p].list /\ new.kept = procs[p].kept
      /\ new.touched = procs[p].touched
  BY <1>2 DEF Locals, Pcs, I
<1> HIDE DEF new
<1>4. /\ procs'[p] = new /\ (ProcOK(p)' => IInv') /\ I(p)' = I(p)
      /\ procs'[p].row <= epoch'[I(p)']
  BY <1>1, <1>2, <1>3, GoesOn
<1>5. CASE ~procs[p].sync
  <2>1. ProcOK(p)'
    BY <1>3, <1>4, <1>5 DEF ProcOK, Claiming, Syncing, At
  <2> QED BY <1>4, <2>1
<1>6. CASE procs[p].sync
  <2>1. SyncOK(p)
    BY <1>1, <1>6 DEF IInv, ProcOK, Syncing, At
  <2>2. \A r : Mine(p, r)' <=> Mine(p, r)
    BY <1>1, <1>3, <1>4 DEF Mine, ActiveIn
  <2>3. SyncOK(p)'
    BY <1>1, <1>3, <1>4, <1>6, <2>1, <2>2 DEF SyncOK, At
  <2>4. ProcOK(p)'
    BY <1>3, <1>4, <1>6, <2>3 DEF ProcOK, Claiming, Syncing, At
  <2> QED BY <1>4, <2>4
<1> QED
  BY <1>5, <1>6

LEMMA ReadActiveOK ==
    ASSUME IInv, NEW p \in Procs, ReadActive(p)
    PROVE  IInv'
<1> DEFINE active == IF epoch[I(p)] = procs[p].row THEN ActiveIn(I(p)) ELSE {}
           new == [procs[p] EXCEPT !.pc = "drop", !.drop = active \ procs[p].list]
<1>1. procs' = [procs EXCEPT ![p] = new] /\ At(p, "readActive")
      /\ UNCHANGED <<gh, events, inst, epoch, repo, served>>
  BY DEF ReadActive
<1>2. procs[p] \in Locals /\ Busy(p) /\ active \in SUBSET Repos
  BY <1>1 DEF IInv, TypeOK, At, Busy, ActiveIn
<1>3. /\ new \in Locals /\ new.pc = "drop" /\ new.i = I(p) /\ new.row = procs[p].row
      /\ new.sync = procs[p].sync /\ new.list = procs[p].list /\ new.kept = procs[p].kept
      /\ new.touched = procs[p].touched /\ new.drop = active \ procs[p].list
  BY <1>2 DEF Locals, Pcs, I
<1> HIDE DEF new
<1>4. /\ procs'[p] = new /\ (ProcOK(p)' => IInv') /\ I(p)' = I(p)
      /\ procs'[p].row <= epoch'[I(p)']
  BY <1>1, <1>2, <1>3, GoesOn
<1>5. SyncOK(p) /\ procs[p].sync
  BY <1>1 DEF IInv, ProcOK, Syncing, At
<1>6. \A r : Mine(p, r)' <=> Mine(p, r)
  BY <1>1, <1>3, <1>4 DEF Mine, ActiveIn
<1>7. \A r : Mine(p, r) => r \in active
  BY DEF Mine
<1>8. SyncOK(p)'
  BY <1>1, <1>3, <1>4, <1>5, <1>6, <1>7 DEF SyncOK, At
<1>9. ProcOK(p)'
  BY <1>3, <1>4, <1>5, <1>8 DEF ProcOK, Claiming, Syncing, At
<1> QED
  BY <1>4, <1>9

LEMMA PageSet ==
    ASSUME NEW l \in Locals, NEW page \in Nat \ {0}, NEW seen \in Nat
    PROVE  [l EXCEPT !.page = page, !.seen = seen] \in Locals
<1>1. [l EXCEPT !.page = page] \in Locals
  BY DEF Locals
<1> DEFINE m == [l EXCEPT !.page = page]
<1>2. [m EXCEPT !.seen = seen] \in Locals
  <2> HIDE DEF m
  <2> QED BY <1>1 DEF Locals, m
<1> QED
  BY <1>2

LEMMA ListPageOK ==
    ASSUME IInv, NEW p \in Procs, ListPage(p)
    PROVE  IInv'
<1>1. PICK i \in Insts, n \in Nat \ {0} : i = I(p) /\ n = procs[p].page
  BY DEF ListPage, IInv, TypeOK, At, Locals
<1>2. PICK got : got = PageOf(i, n)
  OBVIOUS
<1>3. PICK lo \in Nat : lo = (n - 1) * PageSize
  BY InstallationsAssumption
<1>4. PICK total : total = Cardinality(gh[i].repos)
  OBVIOUS
<1>5. /\ procs[p] \in Locals /\ Busy(p) /\ At(p, "list") /\ gh[i].repos \subseteq Repos
      /\ gh[i].state = "installed" /\ UNCHANGED <<gh, events, inst, epoch, repo, served>>
  BY <1>1 DEF ListPage, IInv, TypeOK, At, Busy
<1>6. /\ got = {r \in gh[i].repos : lo <= Position(i, r) /\ Position(i, r) < lo + PageSize}
      /\ got \subseteq gh[i].repos /\ Cardinality(got) \in Nat
      /\ Cardinality(got) <= PageSize
      /\ total \in Nat /\ total <= Cardinality(Repos) /\ Cardinality(Repos) \in Nat
      /\ \A r \in gh[i].repos : Position(i, r) \in Nat /\ Position(i, r) < total
      /\ lo + PageSize <= total => Cardinality(got) = PageSize
      /\ lo <= total /\ total < lo + PageSize => Cardinality(got) = total - lo
  BY <1>1, <1>2, <1>3, <1>4, <1>5, PageSizes
<1>7. procs[p].seen = lo /\ procs[p].sync /\ PageOK(p)
  BY <1>1, <1>3, <1>5 DEF IInv, ProcOK, PageOK, Past
<1>8. PICK kept \in SUBSET Repos : kept = IF n = 1 THEN gh[i].repos ELSE procs[p].kept
  BY <1>5 DEF Locals
<1>9. \A r \in kept : r \in gh[i].repos /\ (r \in procs[p].list \/ lo <= Position(i, r))
  <2>1. CASE n = 1
    <3>1. lo = 0
      BY <1>3, <2>1, InstallationsAssumption
    <3> QED BY <1>6, <1>8, <2>1, <3>1
  <2>2. CASE n # 1
    BY <1>1, <1>3, <1>5, <1>7, <1>8, <2>2 DEF PageOK, Past
  <2> QED BY <2>1, <2>2
<1>10. Enough(p, got) <=> lo + Cardinality(got) >= total
  BY <1>1, <1>4, <1>7 DEF Enough, Counted, I
<1> DEFINE local == [procs[p] EXCEPT !.list = @ \cup got,
                                     !.kept = IF procs[p].page = 1 THEN gh[i].repos ELSE @]
<1>11. /\ local \in Locals /\ local.pc = "list" /\ local.i = i /\ local.row = procs[p].row
       /\ local.sync /\ local.list = procs[p].list \cup got /\ local.kept = kept
       /\ local.page = n
  BY <1>1, <1>5, <1>6, <1>7, <1>8, ZenonT(40) DEF Locals, I, At
<1>12. procs' = [procs EXCEPT ![p] =
          IF Enough(p, got)
          THEN [local EXCEPT !.pc = "add", !.add = local.list, !.touched = {},
                             !.page = 1, !.seen = 0]
          ELSE [local EXCEPT !.page = @ + 1, !.seen = Counted(p, got)]]
  BY <1>1, <1>2 DEF ListPage
<1> HIDE DEF local
<1>13. CASE lo + Cardinality(got) >= total
  <2> DEFINE new == [local EXCEPT !.pc = "add", !.add = local.list, !.touched = {},
                                  !.page = 1, !.seen = 0]
  <2>1. procs' = [procs EXCEPT ![p] = new]
    BY <1>10, <1>12, <1>13
  <2>2. new \in Locals
    <3> DEFINE l == [local EXCEPT !.pc = "add", !.add = local.list, !.touched = {}]
    <3>1. l \in Locals
      BY <1>11 DEF Locals, Pcs
    <3>2. new = [l EXCEPT !.page = 1, !.seen = 0]
      OBVIOUS
    <3> HIDE DEF l, new
    <3>3. 1 \in Nat \ {0} /\ 0 \in Nat
      OBVIOUS
    <3>4. [l EXCEPT !.page = 1, !.seen = 0] \in Locals
      BY <3>1, <3>3, PageSet
    <3> QED BY <3>2, <3>4
  <2>3. /\ new.pc = "add" /\ new.i = i /\ new.row = procs[p].row
        /\ new.sync /\ new.list = procs[p].list \cup got /\ new.kept = kept
        /\ new.touched = {} /\ new.add = new.list
    BY <1>11 DEF Locals
  <2> HIDE DEF new
  <2>4. /\ procs'[p] = new /\ (ProcOK(p)' => IInv')
        /\ procs'[p].row <= epoch'[I(p)']
    BY <1>1, <1>5, <2>1, <2>2, <2>3, GoesOn
  <2>5. total <= lo + PageSize
    BY <1>6, <1>13, InstallationsAssumption
  <2>6. kept \subseteq procs[p].list \cup got
    <3> SUFFICES ASSUME NEW r \in kept, r \notin procs[p].list PROVE r \in got
      OBVIOUS
    <3>1. r \in gh[i].repos /\ lo <= Position(i, r) /\ Position(i, r) < total /\ Position(i, r) \in Nat
      BY <1>6, <1>9
    <3>2. Position(i, r) < lo + PageSize
      BY <1>6, <2>5, <3>1, InstallationsAssumption
    <3> QED BY <1>6, <3>1, <3>2
  <2>7. SyncOK(p)'
    BY <2>3, <2>4, <2>6 DEF SyncOK, At
  <2>8. ProcOK(p)'
    BY <2>3, <2>4, <2>7 DEF ProcOK, Claiming, Syncing, At
  <2> QED BY <2>4, <2>8
<1>14. CASE ~(lo + Cardinality(got) >= total)
  <2> DEFINE new == [local EXCEPT !.page = @ + 1, !.seen = Counted(p, got)]
  <2>1. procs' = [procs EXCEPT ![p] = new]
    BY <1>10, <1>12, <1>14
  <2>2. Counted(p, got) = lo + Cardinality(got)
    BY <1>7 DEF Counted
  <2>3. new \in Locals
    <3>1. local.page + 1 \in Nat \ {0} /\ Counted(p, got) \in Nat
      BY <1>6, <1>11, <2>2
    <3> QED BY <1>11, <3>1, PageSet
  <2>4. /\ new.pc = "list" /\ new.i = i /\ new.row = procs[p].row
        /\ new.sync /\ new.list = procs[p].list \cup got /\ new.kept = kept
        /\ new.page = n + 1 /\ new.seen = lo + Cardinality(got)
    BY <1>11, <2>2 DEF Locals
  <2> HIDE DEF new
  <2>5. /\ procs'[p] = new /\ (ProcOK(p)' => IInv') /\ I(p)' = I(p)
        /\ procs'[p].row <= epoch'[I(p)']
    BY <1>1, <1>5, <2>1, <2>3, <2>4, GoesOn
  <2>6. Cardinality(got) = PageSize /\ lo + PageSize < total
    BY <1>6, <1>14, InstallationsAssumption
  <2>7. ((n + 1) - 1) * PageSize = lo + PageSize
    BY <1>3, InstallationsAssumption
  <2>8. \A r \in kept : r \in gh[i].repos /\ (r \in procs[p].list \cup got \/ lo + PageSize <= Position(i, r))
    <3> SUFFICES ASSUME NEW r \in kept, r \notin procs[p].list, r \notin got
                 PROVE  lo + PageSize <= Position(i, r)
      BY <1>9
    <3>1. r \in gh[i].repos /\ lo <= Position(i, r) /\ Position(i, r) \in Nat
      BY <1>6, <1>9
    <3>2. ~(Position(i, r) < lo + PageSize)
      BY <1>6, <3>1
    <3> QED BY <3>1, <3>2, InstallationsAssumption
  <2>9. lo + PageSize < Cardinality(Repos)
    BY <1>6, <2>6, InstallationsAssumption
  <2>10. I(p)' = i /\ gh' = gh /\ Past(p)' = lo + PageSize
    BY <1>1, <1>5, <2>4, <2>5, <2>7 DEF Past
  <2>11. \A r : Position(i, r)' = Position(i, r)
    BY <2>10 DEF Position, Before
  <2>12. PageOK(p)'
    BY <2>4, <2>5, <2>6, <2>8, <2>9, <2>10, <2>11 DEF PageOK
  <2>13. ProcOK(p)'
    BY <2>4, <2>5, <2>12 DEF ProcOK, Claiming, Syncing, At
  <2> QED BY <2>5, <2>13
<1> QED
  BY <1>13, <1>14

-----------------------------------------------------------------------------
(* Steps that write a row.                                                    *)

LEMMA WriteStep ==
    ASSUME IInv, NEW p \in Procs, NEW new \in Locals, Moves(p, new),
           new.pc # "idle" => new.i \in Insts,
           UNCHANGED <<gh, events, served>>,
           inst' \in [Insts -> InstRows \cup {None}],
           epoch' \in [Insts -> Nat \ {0}],
           repo' \in [Repos -> RepoRows \cup {None}],
           \A r \in Repos : repo'[r] # None => inst'[repo'[r].inst] # None,
           \A q \in Procs \ {p} : Told(q)
    PROVE  /\ TypeOK' /\ procs'[p] = new
           /\ ProcOK(p)' => IInv'
<1>1. TypeOK /\ served' \in 0..MaxServed
  BY DEF IInv, TypeOK
<1>2. TypeOK'
  BY <1>1, MoveType
<1>3. \A q \in Procs \ {p} : ProcOK(q)'
  BY <1>1, <1>2, ToldKeeps DEF Moves, IInv
<1> QED
  BY <1>1, <1>2, <1>3 DEF Moves, IInv, AbsentOK

LEMMA SavedRow ==
    ASSUME IInv, NEW i \in Insts, NEW user \in Users \cup {None}, NEW suspended \in BOOLEAN,
           SetInst(i, user, suspended)
    PROVE  /\ inst' \in [Insts -> InstRows \cup {None}]
           /\ UserOf(i)' = user /\ inst'[i] # None /\ inst'[i].user = user
           /\ \A k \in Insts \ {i} : inst'[k] = inst[k] /\ UserOf(k)' = UserOf(k)
           /\ \A k \in Insts : inst[k] # None => inst'[k] # None
<1> DEFINE row == [user |-> user, suspended |-> suspended]
<1>1. row \in InstRows /\ row # None /\ row.user = user
  BY InstallationsAssumption DEF InstRows
<1>2. inst' = [inst EXCEPT ![i] = row] /\ inst \in [Insts -> InstRows \cup {None}]
  BY DEF SetInst, IInv, TypeOK
<1> HIDE DEF row
<1>3. inst'[i] = row /\ \A k \in Insts \ {i} : inst'[k] = inst[k]
  BY <1>2
<1>4. inst' \in [Insts -> InstRows \cup {None}]
  BY <1>1, <1>2
<1> QED
  BY <1>1, <1>3, <1>4 DEF UserOf

\* webhooks leave the owner of the row as it is
LEMMA SameOwners ==
    ASSUME IInv, NEW p \in Procs, NEW new \in Locals, procs' = [procs EXCEPT ![p] = new],
           new.pc # "idle" => new.i \in Insts, Busy(p),
           \/ UNCHANGED inst
           \/ \E suspended \in BOOLEAN : SetInst(I(p), UserOf(I(p)), suspended),
           UNCHANGED <<gh, events, epoch, repo, served>>
    PROVE  /\ TypeOK' /\ procs'[p] = new
           /\ ProcOK(p)' => IInv'
<1>1. Moves(p, new)
  BY Alone DEF IInv
<1>2. /\ inst' \in [Insts -> InstRows \cup {None}]
      /\ \A k \in Insts : UserOf(k)' = UserOf(k) /\ (inst[k] # None => inst'[k] # None)
  <2>1. CASE UNCHANGED inst
    BY <2>1 DEF UserOf, IInv, TypeOK
  <2>2. ASSUME NEW suspended \in BOOLEAN, SetInst(I(p), UserOf(I(p)), suspended)
        PROVE  /\ inst' \in [Insts -> InstRows \cup {None}]
               /\ \A k \in Insts : UserOf(k)' = UserOf(k) /\ (inst[k] # None => inst'[k] # None)
    <3>1. PICK i \in Insts : i = I(p)
      BY DEF IInv, TypeOK, Busy
    <3>2. PICK user \in Users \cup {None} : user = UserOf(i)
      BY <3>1 DEF IInv, TypeOK, UserOf, InstRows
    <3>3. SetInst(i, user, suspended)
      BY <2>2, <3>1, <3>2
    <3> QED BY <3>2, <3>3, SavedRow
  <2> QED BY <2>1, <2>2
<1>3. \A q \in Procs \ {p} : Told(q)
  <2> SUFFICES ASSUME NEW q \in Procs \ {p} PROVE Told(q)
    OBVIOUS
  <2>1. \A i \in Insts : epoch[i] <= epoch'[i]
    BY DEF IInv, TypeOK
  <2>2. \A r \in Repos : Mine(q, r)' <=> Mine(q, r)
    BY <1>1 DEF Mine, ActiveIn, Moves, Kept, I
  <2> QED BY <1>2, <2>1, <2>2 DEF Told
<1>4. /\ epoch' \in [Insts -> Nat \ {0}]
      /\ repo' \in [Repos -> RepoRows \cup {None}]
      /\ \A r \in Repos : repo'[r] # None => inst'[repo'[r].inst] # None
  BY <1>2 DEF IInv, TypeOK, RepoRows
<1> QED
  BY <1>1, <1>2, <1>3, <1>4, WriteStep

LEMMA SavedOrPlacedOK ==
    ASSUME IInv, NEW p \in Procs, Save(p) \/ Place(p)
    PROVE  IInv'
<1> DEFINE new == [procs[p] EXCEPT !.pc = "add", !.row = epoch[I(p)]]
<1>1. procs' = [procs EXCEPT ![p] = new] /\ procs[p].pc \in {"saved", "repositories"}
      /\ UNCHANGED <<gh, events, epoch, repo, served>>
  BY DEF Save, Place, At
<1>2. \/ UNCHANGED inst
      \/ \E suspended \in BOOLEAN : SetInst(I(p), UserOf(I(p)), suspended)
  BY DEF Save, Place, UserOf
<1>3. procs[p] \in Locals /\ epoch[I(p)] \in Nat /\ ~procs[p].sync /\ Busy(p) /\ I(p) \in Insts
  BY <1>1 DEF IInv, TypeOK, ProcOK, Claiming, Syncing, At, Busy
<1>4. new \in Locals /\ new.pc = "add" /\ new.i = I(p) /\ ~new.sync /\ new.row = epoch[I(p)]
  BY <1>3 DEF Locals, Pcs, I
<1> HIDE DEF new
<1>5. procs'[p] = new /\ (ProcOK(p)' => IInv')
  BY <1>1, <1>2, <1>3, <1>4, SameOwners
<1>6. procs'[p].row <= epoch'[I(p)']
  BY <1>1, <1>3, <1>4, <1>5 DEF I
<1>7. ProcOK(p)'
  BY <1>4, <1>5, <1>6 DEF ProcOK, Claiming, Syncing, At
<1> QED
  BY <1>5, <1>7

LEMMA SuspendedOK ==
    ASSUME IInv, NEW p \in Procs, Suspend(p) \/ Unsuspend(p)
    PROVE  IInv'
<1>1. procs' = [procs EXCEPT ![p] = Free] /\ Busy(p) /\ Free.pc = "idle"
      /\ UNCHANGED <<gh, events, epoch, repo, served>>
  BY DEF Suspend, Unsuspend, End, Busy, At, Free
<1>2. \/ UNCHANGED inst
      \/ \E suspended \in BOOLEAN : SetInst(I(p), UserOf(I(p)), suspended)
  BY DEF Suspend, Unsuspend
<1> QED
  BY <1>1, <1>2, SameOwners, FreeLocal, FreeOK

\* the others are told which repositories were written
LEMMA TouchingMoves ==
    ASSUME TypeOK, NEW p \in Procs, NEW new \in Locals, NEW rs \in SUBSET Repos,
           procs' = Touching(p, new, rs)
    PROVE  /\ Moves(p, new)
           /\ \A q \in Procs \ {p} : Syncing(q) => rs \subseteq procs'[q].touched
<1>1. procs'[p] = new
  BY DEF Touching
<1>2. ASSUME NEW q \in Procs \ {p}
      PROVE  procs'[q] \in Locals /\ Kept(q) /\ (Syncing(q) => rs \subseteq procs'[q].touched)
  <2>1. PICK ts \in SUBSET Repos : ts = {r \in rs : Syncing(q)}
    OBVIOUS
  <2>2. procs[q] \in Locals /\ procs'[q] = [procs[q] EXCEPT !.touched = @ \cup ts]
    BY <2>1 DEF Touching, TypeOK
  <2>3. [procs[q] EXCEPT !.touched = @ \cup ts] \in Locals
    BY <2>2 DEF Locals
  <2>4. Kept(q) /\ ts \subseteq procs'[q].touched
    BY <2>2 DEF Locals, Kept
  <2>5. Syncing(q) => ts = rs
    BY <2>1
  <2> QED BY <2>2, <2>3, <2>4, <2>5
<1>3. procs' \in [Procs -> Locals]
  BY <1>1, <1>2 DEF Touching
<1> QED
  BY <1>1, <1>2, <1>3 DEF Moves

\* the row of r becomes row
Puts(r, row) == repo' = [repo EXCEPT ![r] = row]

LEMMA RepoStep ==
    ASSUME IInv, NEW p \in Procs, NEW new \in Locals, NEW r \in Repos,
           Moves(p, new),
           \A q \in Procs \ {p} : Syncing(q) => {r} \subseteq procs'[q].touched,
           new.pc # "idle" => new.i \in Insts,
           NEW row \in RepoRows \cup {None}, Puts(r, row),
           row # None => inst[row.inst] # None,
           UNCHANGED <<gh, events, inst, epoch, served>>
    PROVE  /\ TypeOK' /\ procs'[p] = new
           /\ ProcOK(p)' => IInv'
           /\ repo'[r] = row /\ \A s \in Repos \ {r} : repo'[s] = repo[s]
<1>1. repo'[r] = row /\ (\A s \in Repos \ {r} : repo'[s] = repo[s])
      /\ repo' \in [Repos -> RepoRows \cup {None}]
  BY DEF IInv, TypeOK, Puts
<1>2. \A s \in Repos : repo'[s] # None => inst'[repo'[s].inst] # None
  BY <1>1 DEF IInv, TypeOK
<1>3. \A q \in Procs \ {p} : Told(q)
  <2> SUFFICES ASSUME NEW q \in Procs \ {p} PROVE Told(q)
    OBVIOUS
  <2>1. \A i \in Insts : epoch[i] <= epoch'[i] /\ UserOf(i)' = UserOf(i)
    BY DEF IInv, TypeOK, UserOf
  <2>2. ASSUME Syncing(q), NEW s \in Repos \ procs'[q].touched
        PROVE  Mine(q, s)' <=> Mine(q, s)
    <3>1. procs'[q].i = procs[q].i /\ procs'[q].row = procs[q].row
      BY DEF Moves, Kept
    <3>2. repo'[s] = repo[s]
      BY <1>1, <2>2
    <3>3. s \in ActiveIn(I(q))' <=> s \in ActiveIn(I(q))
      BY <3>1, <3>2 DEF ActiveIn, I
    <3>4. epoch'[procs'[q].i] = epoch[procs[q].i]
      BY <3>1
    <3> QED BY <3>1, <3>3, <3>4 DEF Mine, I
  <2> QED BY <2>1, <2>2 DEF Told
<1>4. inst' \in [Insts -> InstRows \cup {None}] /\ epoch' \in [Insts -> Nat \ {0}]
  BY DEF IInv, TypeOK
<1> QED
  BY <1>1, <1>2, <1>3, <1>4, WriteStep DEF Moves

LEMMA AddRepositoryOK ==
    ASSUME IInv, NEW p \in Procs, AddRepository(p)
    PROVE  IInv'
<1>1. PICK r \in procs[p].add :
          /\ repo' = [repo EXCEPT ![r] = Upserted(I(p), r)]
          /\ procs' = Touching(p, [procs[p] EXCEPT !.add = @ \ {r}], {r})
  BY DEF AddRepository
<1> DEFINE new == [procs[p] EXCEPT !.add = @ \ {r}]
           row == Upserted(I(p), r)
<1>2. /\ At(p, "add") /\ Busy(p) /\ procs[p] \in Locals /\ r \in Repos /\ I(p) \in Insts
      /\ inst[I(p)] # None /\ epoch[I(p)] = procs[p].row
      /\ UNCHANGED <<gh, events, inst, epoch, served>>
  BY DEF AddRepository, IInv, TypeOK, At, Busy, Locals
<1>3. row \in RepoRows /\ row.inst = I(p) /\ row.active /\ row # None
  BY <1>2, InstallationsAssumption DEF Upserted, RepoRows
<1>4. /\ new \in Locals /\ new.pc = "add" /\ new.i = I(p) /\ new.row = procs[p].row
      /\ new.sync = procs[p].sync /\ new.list = procs[p].list /\ new.kept = procs[p].kept
      /\ new.touched = procs[p].touched /\ new.add = procs[p].add \ {r}
  BY <1>2 DEF Locals, I, At
<1>9. procs' = Touching(p, new, {r})
  BY <1>1
<1>11. Puts(r, row)
  BY <1>1 DEF Puts
<1> HIDE DEF new, row
<1>10. /\ Moves(p, new)
       /\ \A q \in Procs \ {p} : Syncing(q) => {r} \subseteq procs'[q].touched
  <2>1. {r} \in SUBSET Repos /\ TypeOK
    BY <1>2 DEF IInv
  <2> QED BY <1>4, <1>9, <2>1, TouchingMoves
<1>5. /\ procs'[p] = new /\ (ProcOK(p)' => IInv')
      /\ repo'[r] = row /\ \A s \in Repos \ {r} : repo'[s] = repo[s]
  <2>1. (row # None => inst[row.inst] # None) /\ row \in RepoRows \cup {None}
    BY <1>2, <1>3
  <2>2. new \in Locals /\ (new.pc # "idle" => new.i \in Insts) /\ r \in Repos
    BY <1>2, <1>4
  <2>3. UNCHANGED <<gh, events, inst, epoch, served>>
    BY <1>2
  <2> QED BY <1>10, <1>11, <2>1, <2>2, <2>3, RepoStep
<1>6. procs'[p].row <= epoch'[I(p)']
  BY <1>2, <1>4, <1>5 DEF I, IInv, TypeOK
<1>7. procs[p].sync => SyncOK(p)'
  <2> SUFFICES ASSUME procs[p].sync PROVE SyncOK(p)'
    OBVIOUS
  <2>1. SyncOK(p)
    BY <1>2 DEF IInv, ProcOK, Syncing, At
  <2>2. Mine(p, r)'
    BY <1>2, <1>3, <1>4, <1>5 DEF Mine, ActiveIn, I
  <2>3. \A s \in Repos \ {r} : Mine(p, s)' <=> Mine(p, s)
    BY <1>2, <1>4, <1>5 DEF Mine, ActiveIn, I
  <2>4. procs[p].list \subseteq Repos
    BY <1>2 DEF Locals
  <2> QED BY <1>2, <1>4, <1>5, <2>1, <2>2, <2>3, <2>4 DEF SyncOK, At
<1>8. ProcOK(p)'
  BY <1>4, <1>5, <1>6, <1>7 DEF ProcOK, Claiming, Syncing, At
<1> QED
  BY <1>5, <1>8

LEMMA DropRepositoryOK ==
    ASSUME IInv, NEW p \in Procs, DropRepository(p)
    PROVE  IInv'
<1>1. PICK r \in procs[p].drop :
          /\ repo' = IF repo[r] = None THEN repo ELSE [repo EXCEPT ![r].active = FALSE]
          /\ procs' = Touching(p, [procs[p] EXCEPT !.drop = @ \ {r}], {r})
  BY DEF DropRepository
<1> DEFINE new == [procs[p] EXCEPT !.drop = @ \ {r}]
           row == IF repo[r] = None THEN None ELSE [repo[r] EXCEPT !.active = FALSE]
<1>2. /\ At(p, "drop") /\ Busy(p) /\ procs[p] \in Locals /\ r \in Repos /\ I(p) \in Insts
      /\ UNCHANGED <<gh, events, inst, epoch, served>>
  BY DEF DropRepository, IInv, TypeOK, At, Busy, Locals
<1>3. /\ repo \in [Repos -> RepoRows \cup {None}] /\ repo[r] \in RepoRows \cup {None}
      /\ repo[r] # None => inst[repo[r].inst] # None
  BY <1>2 DEF IInv, TypeOK
<1>4. Puts(r, row)
  <2>1. CASE repo[r] = None
    BY <1>1, <1>2, <1>3, <2>1 DEF Puts
  <2>2. CASE repo[r] # None
    <3>1. repo' = [repo EXCEPT ![r].active = FALSE] /\ row = [repo[r] EXCEPT !.active = FALSE]
      BY <1>1, <2>2
    <3> QED BY <3>1 DEF Puts
  <2> QED BY <2>1, <2>2
<1>5. /\ row \in RepoRows \cup {None} /\ (row # None => inst[row.inst] # None)
      /\ row = None \/ ~row.active
  BY <1>2, <1>3 DEF RepoRows
<1>6. /\ new \in Locals /\ new.pc = "drop" /\ new.i = I(p) /\ new.row = procs[p].row
      /\ new.sync = procs[p].sync /\ new.list = procs[p].list /\ new.kept = procs[p].kept
      /\ new.touched = procs[p].touched /\ new.drop = procs[p].drop \ {r}
  BY <1>2 DEF Locals, I, At
<1>7. procs' = Touching(p, new, {r})
  BY <1>1
<1> HIDE DEF new, row
<1>12. /\ Moves(p, new)
       /\ \A q \in Procs \ {p} : Syncing(q) => {r} \subseteq procs'[q].touched
  <2>1. {r} \in SUBSET Repos /\ TypeOK
    BY <1>2 DEF IInv
  <2> QED BY <1>6, <1>7, <2>1, TouchingMoves
<1>8. /\ procs'[p] = new /\ (ProcOK(p)' => IInv')
      /\ repo'[r] = row /\ \A s \in Repos \ {r} : repo'[s] = repo[s]
  BY <1>2, <1>4, <1>5, <1>6, <1>12, RepoStep
<1>9. procs'[p].row <= epoch'[I(p)']
  BY <1>2, <1>6, <1>8 DEF I, IInv, ProcOK
<1>10. procs[p].sync => SyncOK(p)'
  <2> SUFFICES ASSUME procs[p].sync PROVE SyncOK(p)'
    OBVIOUS
  <2>1. SyncOK(p)
    BY <1>2 DEF IInv, ProcOK, Syncing, At
  <2>2. ~Mine(p, r)'
    BY <1>5, <1>8 DEF Mine, ActiveIn
  <2>3. \A s \in Repos \ {r} : Mine(p, s)' <=> Mine(p, s)
    BY <1>2, <1>6, <1>8 DEF Mine, ActiveIn, I
  <2>4. procs[p].list \subseteq Repos
    BY <1>2 DEF Locals
  <2>5. r \notin procs[p].list
    BY <1>2, <2>1 DEF SyncOK
  <2> QED BY <1>2, <1>6, <1>8, <2>1, <2>2, <2>3, <2>4, <2>5 DEF SyncOK, At
<1>11. ProcOK(p)'
  BY <1>6, <1>8, <1>9, <1>10 DEF ProcOK, Claiming, Syncing, At
<1> QED
  BY <1>8, <1>11

\* another claim writes the row meanwhile
LEMMA LinkOK ==
    ASSUME IInv, NEW p \in Procs, Link(p)
    PROVE  IInv'
<1>1. PICK i \in Insts : i = I(p)
  BY DEF Link, IInv, TypeOK, At
<1>2. PICK user : user = LinkedUser(p)
  OBVIOUS
<1> DEFINE new == Listing(procs[p].user, i)
<1>3. /\ At(p, "link") /\ Busy(p) /\ procs[p] \in Locals /\ epoch[i] \in Nat
      /\ UNCHANGED <<gh, events, epoch, repo, served>> /\ SetInst(i, user, FALSE)
      /\ procs' = [q \in Procs |->
                     IF q = p THEN new
                     ELSE [procs[q] EXCEPT !.rival = @ \/ (Claiming(q) /\ I(q) = i)]]
  BY <1>1, <1>2 DEF Link, IInv, TypeOK, At, Busy
<1>4. ClaimOK(p)
  BY <1>3 DEF IInv, ProcOK, Claiming, At
<1>5. user \in Users \cup {None} /\ (user = UserOf(i) \/ user \in Users)
  BY <1>1, <1>2, <1>4 DEF LinkedUser, ClaimOK, UserOf, IInv, TypeOK, InstRows
<1>6. /\ new \in Locals /\ new.pc = "list" /\ new.i = i /\ new.row = epoch[i]
      /\ new.sync /\ new.page = 1 /\ new.seen = 0 /\ new.kept = {}
  <2>1. procs[p].user \in Users
    BY <1>4 DEF ClaimOK
  <2>2. new \in Locals
    BY <1>3, <2>1, ListingLocal
  <2>3. /\ new.pc = "list" /\ new.i = i /\ new.row = epoch[i]
        /\ new.sync /\ new.page = 1 /\ new.seen = 0 /\ new.kept = {}
    BY DEF Listing, Free
  <2> QED BY <2>2, <2>3
<1> HIDE DEF new
<1>7. ASSUME NEW q \in Procs \ {p}
      PROVE  /\ procs'[q] \in Locals /\ Kept(q)
             /\ Claiming(q) /\ I(q) = i => procs'[q].rival
  <2>1. PICK late \in BOOLEAN : late = (Claiming(q) /\ I(q) = i)
    OBVIOUS
  <2>2. procs[q] \in Locals /\ procs'[q] = [procs[q] EXCEPT !.rival = @ \/ late]
    BY <1>3, <2>1 DEF IInv, TypeOK
  <2>3. [procs[q] EXCEPT !.rival = @ \/ late] \in Locals
    BY <2>2 DEF Locals
  <2>4. Kept(q) /\ (late => procs'[q].rival)
    BY <2>2 DEF Locals, Kept
  <2> QED BY <2>1, <2>2, <2>3, <2>4
<1>8. Moves(p, new)
  <2>1. procs'[p] = new
    BY <1>3
  <2>2. procs' \in [Procs -> Locals]
    BY <1>3, <1>6, <1>7, <2>1
  <2> QED BY <1>7, <2>1, <2>2 DEF Moves
<1>9. /\ inst' \in [Insts -> InstRows \cup {None}]
      /\ UserOf(i)' = user
      /\ \A k \in Insts \ {i} : UserOf(k)' = UserOf(k)
      /\ \A k \in Insts : inst[k] # None => inst'[k] # None
  <2>1. FALSE \in BOOLEAN
    OBVIOUS
  <2> QED BY <1>3, <1>5, <2>1, SavedRow
<1>10. \A q \in Procs \ {p} : Told(q)
  <2> SUFFICES ASSUME NEW q \in Procs \ {p} PROVE Told(q)
    OBVIOUS
  <2>1. \A k \in Insts : epoch[k] <= epoch'[k]
    BY <1>3 DEF IInv, TypeOK
  <2>2. \A k \in Insts : Claiming(q) /\ I(q) = k =>
            UserOf(k)' = UserOf(k) \/ (procs'[q].rival /\ UserOf(k)' \in Users)
    BY <1>5, <1>7, <1>9
  <2>3. \A r \in Repos : Mine(q, r)' <=> Mine(q, r)
    BY <1>3, <1>8 DEF Mine, ActiveIn, Moves, Kept, I
  <2> QED BY <1>3, <2>1, <2>2, <2>3 DEF Told
<1>11. /\ epoch' \in [Insts -> Nat \ {0}] /\ repo' \in [Repos -> RepoRows \cup {None}]
       /\ \A r \in Repos : repo'[r] # None => inst'[repo'[r].inst] # None
  BY <1>3, <1>9 DEF IInv, TypeOK, RepoRows
<1>12. procs'[p] = new /\ (ProcOK(p)' => IInv')
  BY <1>3, <1>6, <1>8, <1>9, <1>10, <1>11, WriteStep
<1>13. PageOK(p)'
  <2>1. Past(p)' = 0
    BY <1>6, <1>12, InstallationsAssumption DEF Past
  <2> QED BY <1>6, <1>12, <2>1 DEF PageOK
<1>14. procs'[p].row <= epoch'[I(p)']
  BY <1>3, <1>6, <1>12 DEF I
<1>15. ProcOK(p)'
  BY <1>6, <1>12, <1>13, <1>14 DEF ProcOK, Claiming, Syncing, At
<1> QED
  BY <1>12, <1>15

\* The row goes, with its repositories, and whoever relied on one of them is
\* told so.
LEMMA DeleteOK ==
    ASSUME IInv, NEW p \in Procs, Delete(p)
    PROVE  IInv'
<1>1. PICK i \in Insts : i = I(p)
  BY DEF Delete, IInv, TypeOK, At
<1>2. PICK gone : gone = {r \in Repos : repo[r] # None /\ repo[r].inst = i}
  OBVIOUS
<1>3. At(p, "deleted") /\ Busy(p) /\ UNCHANGED <<gh, events, served>>
  BY DEF Delete, At, Busy
<1>4. CASE inst[i] = None
  <2>1. End(p) /\ UNCHANGED <<inst, epoch, repo>>
    BY <1>1, <1>4 DEF Delete
  <2> QED BY <1>3, <2>1, EndOK
<1>5. CASE inst[i] # None
  <2>1. /\ inst' = [inst EXCEPT ![i] = None]
        /\ epoch' = [epoch EXCEPT ![i] = @ + 1]
        /\ repo' = Cascade(i)
        /\ procs' = [q \in Procs |->
                       IF q = p THEN Free
                       ELSE [procs[q] EXCEPT !.touched = @ \cup {r \in gone : Syncing(q)},
                                             !.open = @ \/ (Claiming(q) /\ I(q) = i)]]
    BY <1>1, <1>2, <1>5 DEF Delete
  <2>2. ASSUME NEW q \in Procs \ {p}
        PROVE  /\ procs'[q] \in Locals /\ Kept(q)
               /\ Claiming(q) /\ I(q) = i => procs'[q].open
               /\ Syncing(q) => gone \subseteq procs'[q].touched
    <3>1. PICK rs \in SUBSET Repos : rs = {r \in gone : Syncing(q)}
      BY <1>2
    <3>2. PICK open \in BOOLEAN : open = (Claiming(q) /\ I(q) = i)
      OBVIOUS
    <3>3. /\ procs[q] \in Locals
          /\ procs'[q] = [procs[q] EXCEPT !.touched = @ \cup rs, !.open = @ \/ open]
      BY <2>1, <3>1, <3>2 DEF IInv, TypeOK
    <3>4. [procs[q] EXCEPT !.touched = @ \cup rs, !.open = @ \/ open] \in Locals
      BY <3>3 DEF Locals
    <3>5. Kept(q) /\ (open => procs'[q].open) /\ rs \subseteq procs'[q].touched
      BY <3>3, ZenonT(40) DEF Locals, Kept
    <3>6. Syncing(q) => rs = gone
      BY <3>1
    <3> QED BY <3>2, <3>3, <3>4, <3>5, <3>6
  <2>3. Moves(p, Free)
    <3>1. procs'[p] = Free
      BY <2>1
    <3>2. procs' \in [Procs -> Locals]
      BY <2>1, <2>2, <3>1, FreeLocal
    <3> QED BY <2>2, <3>1, <3>2 DEF Moves
  <2>4. /\ inst' \in [Insts -> InstRows \cup {None}]
        /\ inst'[i] = None /\ \A k \in Insts \ {i} : inst'[k] = inst[k]
    BY <2>1 DEF IInv, TypeOK
  <2>5. /\ epoch \in [Insts -> Nat \ {0}] /\ epoch' \in [Insts -> Nat \ {0}]
        /\ \A k \in Insts : epoch[k] <= epoch'[k]
        /\ epoch'[i] = epoch[i] + 1
        /\ \A k \in Insts \ {i} : epoch'[k] = epoch[k]
    <3>1. epoch \in [Insts -> Nat \ {0}] /\ epoch' = [epoch EXCEPT ![i] = @ + 1]
      BY <2>1 DEF IInv, TypeOK
    <3>2. epoch'[i] = epoch[i] + 1 /\ \A k \in Insts \ {i} : epoch'[k] = epoch[k]
      BY <3>1
    <3>3. epoch[i] + 1 \in Nat \ {0}
      BY <3>1
    <3>4. epoch' \in [Insts -> Nat \ {0}]
      BY <3>1, <3>3
    <3>5. ASSUME NEW k \in Insts PROVE epoch[k] <= epoch'[k]
      BY <3>1, <3>2
    <3> QED BY <3>1, <3>2, <3>4, <3>5
  <2>6. /\ repo' \in [Repos -> RepoRows \cup {None}]
        /\ \A r \in gone : repo'[r] = None
        /\ \A r \in Repos \ gone : repo'[r] = repo[r]
    BY <1>2, <2>1 DEF IInv, TypeOK, Cascade
  <2>7. \A r \in Repos : repo'[r] # None => inst'[repo'[r].inst] # None
    <3> SUFFICES ASSUME NEW r \in Repos, repo'[r] # None PROVE inst'[repo'[r].inst] # None
      OBVIOUS
    <3>1. r \notin gone /\ repo'[r] = repo[r]
      BY <2>6
    <3>2. repo[r] \in RepoRows /\ repo[r].inst # i /\ inst[repo[r].inst] # None
      BY <1>2, <3>1 DEF IInv, TypeOK
    <3>3. repo[r].inst \in Insts \ {i}
      BY <3>2 DEF RepoRows
    <3> QED BY <2>4, <3>1, <3>2, <3>3
  <2>8. \A q \in Procs \ {p} : Told(q)
    <3> SUFFICES ASSUME NEW q \in Procs \ {p} PROVE Told(q)
      OBVIOUS
    <3>1. \A k \in Insts : Claiming(q) /\ I(q) = k => UserOf(k)' = UserOf(k) \/ procs'[q].open
      BY <2>2, <2>4 DEF UserOf
    <3>2. ASSUME Syncing(q), NEW r \in Repos \ procs'[q].touched
          PROVE  Mine(q, r)' <=> Mine(q, r)
      <4>1. r \in Repos \ gone /\ repo'[r] = repo[r]
        BY <2>2, <2>6, <3>2
      <4>2. procs'[q].i = procs[q].i /\ procs'[q].row = procs[q].row
        BY <2>2 DEF Kept
      <4>3. r \in ActiveIn(I(q))' <=> r \in ActiveIn(I(q))
        BY <4>1, <4>2 DEF ActiveIn, I
      <4>4. CASE r \notin ActiveIn(I(q))
        BY <4>3, <4>4 DEF Mine
      <4>5. CASE r \in ActiveIn(I(q))
        <5>1. I(q) = repo[r].inst /\ repo[r] # None /\ repo[r] \in RepoRows
          BY <4>1, <4>5 DEF ActiveIn, IInv, TypeOK
        <5>2. I(q) \in Insts \ {i}
          BY <1>2, <4>1, <5>1 DEF RepoRows
        <5>3. epoch'[I(q)] = epoch[I(q)] /\ I(q)' = I(q)
          BY <2>5, <4>2, <5>2 DEF I
        <5> QED BY <4>2, <4>3, <5>3 DEF Mine
      <4> QED BY <4>4, <4>5
    <3> QED BY <1>3, <2>5, <3>1, <3>2 DEF Told
  <2>9. Free.pc = "idle"
    BY DEF Free
  <2>10. procs'[p] = Free /\ (ProcOK(p)' => IInv')
    BY <1>3, <2>3, <2>4, <2>5, <2>6, <2>7, <2>8, <2>9, FreeLocal, WriteStep
  <2> QED BY <2>10, FreeOK
<1> QED
  BY <1>4, <1>5

-----------------------------------------------------------------------------
(* GitHub's steps.                                                            *)

GhRows == [state : {"absent", "installed", "suspended", "gone"}, repos : SUBSET Repos]

\* An uninstall is for good, and only what is removed leaves the list.
Grows(i, new, removed) ==
    /\ gh[i].state = "gone" => new.state = "gone"
    /\ new.state = "gone" \/ gh[i].repos \ removed \subseteq new.repos
    /\ new.state # "absent" \/ new = gh[i]

LEMMA EmitOK ==
    ASSUME IInv, NEW i \in Insts, NEW new \in GhRows, NEW kind \in Kinds,
           NEW added \in SUBSET Repos, NEW removed \in SUBSET Repos,
           Emit(i, new, kind, added, removed), Grows(i, new, removed)
    PROVE  IInv'
<1>1. /\ UNCHANGED <<inst, epoch, repo, served>>
      /\ gh \in [Insts -> GhRows] /\ gh' = [gh EXCEPT ![i] = new]
  BY DEF Emit, IInv, TypeOK, GhRows
<1>2. /\ gh' \in [Insts -> GhRows] /\ gh'[i] = new
      /\ \A k \in Insts \ {i} : gh'[k] = gh[k]
  BY <1>1
<1>3. ASSUME NEW q \in Procs
      PROVE  /\ procs'[q] \in Locals /\ Kept(q)
             /\ procs'[q].touched = procs[q].touched
             /\ procs'[q].open = procs[q].open /\ procs'[q].rival = procs[q].rival
             /\ At(q, "list") /\ I(q) = i =>
                   procs'[q].kept = Undisturbed(procs[q].kept, removed)
             /\ procs[q].pc # "list" => procs'[q].kept = procs[q].kept
  <2>1. /\ procs[q] \in Locals
        /\ procs'[q] = IF procs[q].i # i \/ procs[q].pc # "list" THEN procs[q]
                       ELSE [procs[q] EXCEPT !.kept = Undisturbed(@, removed)]
    BY DEF Emit, IInv, TypeOK
  <2>2. CASE procs[q].i # i \/ procs[q].pc # "list"
    BY <2>1, <2>2 DEF Kept, At, I
  <2>3. CASE procs[q].i = i /\ procs[q].pc = "list"
    <3>1. PICK rs : rs = Undisturbed(procs[q].kept, removed)
      OBVIOUS
    <3>2. procs'[q] = [procs[q] EXCEPT !.kept = rs]
      BY <2>1, <2>3, <3>1
    <3>3. rs \subseteq procs[q].kept /\ rs \in SUBSET Repos
      BY <2>1, <3>1 DEF Undisturbed, Locals
    <3>4. [procs[q] EXCEPT !.kept = rs] \in Locals
      BY <2>1, <3>3 DEF Locals
    <3> QED BY <2>1, <2>3, <3>1, <3>2, <3>3, <3>4 DEF Kept, At, I, Locals
  <2> QED BY <2>2, <2>3
<1>4. events' \in SUBSET [id : 1..MaxEvents, kind : Kinds, i : Insts,
                          added : SUBSET Repos, removed : SUBSET Repos]
      /\ IsFiniteSet(events')
  <2>1. /\ IsFiniteSet(events) /\ Cardinality(events) < MaxEvents
        /\ events' = events \cup {[id |-> Cardinality(events) + 1, kind |-> kind, i |-> i,
                                   added |-> added, removed |-> removed]}
        /\ events \in SUBSET [id : 1..MaxEvents, kind : Kinds, i : Insts,
                               added : SUBSET Repos, removed : SUBSET Repos]
    BY DEF Emit, IInv, TypeOK
  <2>2. Cardinality(events) + 1 \in 1..MaxEvents
    BY <2>1, FS_CardinalityType, InstallationsAssumption
  <2>3. IsFiniteSet(events')
    BY <2>1, FS_AddElement
  <2> QED BY <2>1, <2>2, <2>3
<1>5. TypeOK'
  <2>1. procs' \in [Procs -> Locals]
    BY <1>3 DEF Emit
  <2>2. \A q \in Procs : ~At(q, "idle")' => I(q)' \in Insts
    BY <1>3 DEF Kept, At, I, IInv, TypeOK
  <2> QED BY <1>1, <1>2, <1>4, <2>1, <2>2 DEF IInv, TypeOK, GhRows
<1>6. ASSUME NEW q \in Procs, At(q, "list")
      PROVE  PageOK(q)'
  <2>1. /\ PageOK(q) /\ Kept(q) /\ I(q)' = I(q) /\ procs[q] \in Locals /\ Past(q)' = Past(q)
    BY <1>3, <1>6 DEF IInv, ProcOK, TypeOK, Kept, I, Past
  <2>2. PICK k \in Insts : k = I(q)
    BY <1>6 DEF IInv, TypeOK, At
  <2>3. gh'[k].state = "gone" \/ \A r \in procs'[q].kept :
           r \in gh'[k].repos /\ (r \in procs[q].list \/ Past(q) <= Position(k, r)')
    <3>1. CASE k # i
      <4>1. gh'[k] = gh[k]
        BY <1>2, <3>1
      <4>2. \A r : Position(k, r)' = Position(k, r)
        BY <4>1 DEF Position, Before
      <4> QED BY <2>1, <2>2, <4>1, <4>2 DEF PageOK, Kept
    <3>2. CASE k = i /\ new.state # "gone"
      <4>1. /\ gh[k].state # "gone" /\ gh'[k].repos \subseteq Repos
            /\ gh[k].repos \ removed \subseteq gh'[k].repos /\ gh[k].repos \subseteq Repos
        BY <1>1, <1>2, <3>2 DEF Grows, GhRows
      <4>2. ASSUME NEW r \in procs'[q].kept
            PROVE  /\ r \in gh'[k].repos
                   /\ r \in procs[q].list \/ Past(q) <= Position(k, r)'
        <5>1. r \in procs[q].kept /\ \A s \in removed : Rank[r] < Rank[s]
          BY <1>3, <1>6, <2>2, <3>2, <4>2 DEF Undisturbed
        <5>2. r \in gh[k].repos /\ (r \in procs[q].list \/ Past(q) <= Position(k, r))
          BY <2>1, <2>2, <4>1, <5>1 DEF PageOK
        <5>3. \A s \in removed : s # r /\ ~(Rank[s] < Rank[r])
          <6>1. Rank \in [Repos -> Nat] /\ r \in Repos
            BY <4>1, <5>2, InstallationsAssumption
          <6> QED BY <5>1, <6>1
        <5>4. Before(k, r) \subseteq Before(k, r)' /\ Before(k, r)' \subseteq Repos
          BY <4>1, <5>3 DEF Before
        <5>5. /\ Position(k, r) \in Nat /\ Position(k, r)' \in Nat
              /\ Position(k, r) <= Position(k, r)'
          <6>1. IsFiniteSet(Before(k, r)')
            BY <5>4, FS_Subset, InstallationsAssumption
          <6> QED BY <5>4, <6>1, FS_Subset, FS_CardinalityType DEF Position
        <5>6. Past(q) \in Nat
          BY <2>1, InstallationsAssumption DEF Past, Locals
        <5> QED BY <4>1, <5>2, <5>3, <5>5, <5>6
      <4> QED BY <4>2
    <3>3. CASE k = i /\ new.state = "gone"
      BY <1>2, <3>3
    <3> QED BY <3>1, <3>2, <3>3
  <2> QED BY <2>1, <2>2, <2>3 DEF PageOK, Kept
<1>7. ASSUME NEW q \in Procs
      PROVE  ProcOK(q)'
  <2>1. /\ ProcOK(q) /\ Kept(q) /\ procs'[q].touched = procs[q].touched
        /\ procs'[q].open = procs[q].open /\ procs'[q].rival = procs[q].rival
        /\ procs[q].pc # "list" => procs'[q].kept = procs[q].kept
    BY <1>3 DEF IInv
  <2>2. /\ Busy(q)' <=> Busy(q)
        /\ Claiming(q)' <=> Claiming(q)
        /\ \A pc : At(q, pc)' <=> At(q, pc)
        /\ Syncing(q)' <=> Syncing(q)
        /\ I(q)' = I(q)
    BY <2>1 DEF Kept, Busy, Claiming, Syncing, At, I
  <2>3. UserOf(I(q))' = UserOf(I(q)) /\ \A r : Mine(q, r)' <=> Mine(q, r)
    BY <1>1, <2>1, <2>2 DEF UserOf, Mine, ActiveIn, Kept
  <2>4. Claiming(q) => ClaimOK(q)'
    <3> SUFFICES ASSUME Claiming(q) PROVE ClaimOK(q)'
      OBVIOUS
    <3>1. ClaimOK(q)
      BY <2>1 DEF ProcOK
    <3>2. Unclaimed(q)' <=> Unclaimed(q)
      BY <2>1, <2>2, <2>3 DEF Unclaimed, Kept
    <3> QED BY <2>1, <2>3, <3>1, <3>2 DEF ClaimOK, Kept
  <2>5. Syncing(q) => SyncOK(q)'
    <3> SUFFICES ASSUME Syncing(q) PROVE SyncOK(q)'
      OBVIOUS
    <3>1. SyncOK(q) /\ procs[q].pc # "list"
      BY <2>1 DEF ProcOK, Syncing
    <3> QED BY <2>1, <2>2, <2>3, <3>1 DEF SyncOK, Kept
  <2>6. procs'[q].row = procs[q].row /\ procs'[q].sync = procs[q].sync
    BY <2>1 DEF Kept
  <2>7. At(q, "list") => PageOK(q)'
    BY <1>6
  <2>8. epoch'[I(q)'] = epoch[I(q)]
    BY <1>1, <2>2
  <2> QED BY <2>1, <2>2, <2>4, <2>5, <2>6, <2>7, <2>8 DEF ProcOK
<1>8. AbsentOK'
  BY <1>2 DEF IInv, AbsentOK, Grows
<1> QED
  BY <1>4, <1>5, <1>7, <1>8 DEF IInv

LEMMA GithubOK ==
    ASSUME IInv, Github
    PROVE  IInv'
<1>1. PICK i \in Insts :
          \/ GithubInstall(i) \/ GithubUninstall(i) \/ GithubSuspend(i) \/ GithubUnsuspend(i)
          \/ GithubAccept(i) \/ GithubSelect(i) \/ GithubPull(i)
  BY DEF Github
<1>2. PICK row \in GhRows : row = gh[i]
  BY DEF IInv, TypeOK, GhRows
<1>3. /\ {"saved", "deleted", "suspend", "unsuspend", "repositories", "pull"} = Kinds
      /\ {} \in SUBSET Repos /\ Grows(i, row, {})
  BY <1>2 DEF Kinds, Grows
<1>4. CASE GithubInstall(i)
  <2>1. PICK rs \in SUBSET Repos :
            gh[i].state = "absent" /\ Emit(i, [state |-> "installed", repos |-> rs], "saved", rs, {})
    BY <1>4 DEF GithubInstall
  <2> DEFINE new == [state |-> "installed", repos |-> rs]
  <2>2. new \in GhRows /\ Grows(i, new, {}) /\ Emit(i, new, "saved", rs, {})
    BY <2>1 DEF GhRows, Grows, IInv, AbsentOK
  <2> HIDE DEF new
  <2> QED BY <1>3, <2>2, EmitOK
<1>5. CASE GithubUninstall(i)
  <2> DEFINE new == [state |-> "gone", repos |-> {}]
  <2>1. new \in GhRows /\ Grows(i, new, {}) /\ Emit(i, new, "deleted", {}, {})
    BY <1>5 DEF GithubUninstall, GhRows, Grows
  <2> HIDE DEF new
  <2> QED BY <1>3, <2>1, EmitOK
<1>6. CASE GithubSuspend(i)
  <2> DEFINE new == [row EXCEPT !.state = "suspended"]
  <2>1. new \in GhRows /\ Grows(i, new, {}) /\ Emit(i, new, "suspend", {}, {})
    BY <1>2, <1>6 DEF GithubSuspend, GhRows, Grows
  <2> HIDE DEF new
  <2> QED BY <1>3, <2>1, EmitOK
<1>7. CASE GithubUnsuspend(i)
  <2> DEFINE new == [row EXCEPT !.state = "installed"]
  <2>1. new \in GhRows /\ Grows(i, new, {}) /\ Emit(i, new, "unsuspend", {}, {})
    BY <1>2, <1>7 DEF GithubUnsuspend, GhRows, Grows
  <2> HIDE DEF new
  <2> QED BY <1>3, <2>1, EmitOK
<1>8. CASE GithubAccept(i)
  <2>1. Emit(i, row, "saved", {}, {})
    BY <1>2, <1>8 DEF GithubAccept
  <2> QED BY <1>3, <2>1, EmitOK
<1>9. CASE GithubSelect(i)
  <2>1. PICK r \in Repos :
          \/ Emit(i, [row EXCEPT !.repos = @ \cup {r}], "repositories", {r}, {})
          \/ Emit(i, [row EXCEPT !.repos = @ \ {r}], "repositories", {}, {r})
    BY <1>2, <1>9 DEF GithubSelect
  <2>2. {r} \in SUBSET Repos /\ row.state = "installed"
    BY <1>2, <1>9 DEF GithubSelect
  <2>3. CASE Emit(i, [row EXCEPT !.repos = @ \cup {r}], "repositories", {r}, {})
    <3> DEFINE new == [row EXCEPT !.repos = @ \cup {r}]
    <3>1. new \in GhRows /\ Grows(i, new, {}) /\ Emit(i, new, "repositories", {r}, {})
      BY <1>2, <2>2, <2>3 DEF GhRows, Grows
    <3> HIDE DEF new
    <3> QED BY <1>3, <2>2, <3>1, EmitOK
  <2>4. CASE Emit(i, [row EXCEPT !.repos = @ \ {r}], "repositories", {}, {r})
    <3> DEFINE new == [row EXCEPT !.repos = @ \ {r}]
    <3>1. new \in GhRows /\ Grows(i, new, {r}) /\ Emit(i, new, "repositories", {}, {r})
      BY <1>2, <2>2, <2>4 DEF GhRows, Grows
    <3> HIDE DEF new
    <3> QED BY <1>3, <2>2, <3>1, EmitOK
  <2> QED BY <2>1, <2>3, <2>4
<1>10. CASE GithubPull(i)
  <2>1. PICK r \in Repos : Emit(i, row, "pull", {r}, {})
    BY <1>2, <1>10 DEF GithubPull, GhRows
  <2>2. {r} \in SUBSET Repos
    OBVIOUS
  <2> QED BY <1>3, <2>1, <2>2, EmitOK
<1> QED
  BY <1>1, <1>4, <1>5, <1>6, <1>7, <1>8, <1>9, <1>10

-----------------------------------------------------------------------------
(* The invariant is inductive.                                                *)

LEMMA Initial ==
    ASSUME Init
    PROVE  IInv
<1>1. TypeOK
  BY InstallationsAssumption, FreeLocal DEF Init, TypeOK, Free, At, I
<1>2. IsFiniteSet(events) /\ AbsentOK
  BY FS_EmptySet DEF Init, AbsentOK
<1>3. \A p \in Procs : procs[p].pc = "idle" /\ procs[p].sync = FALSE
  BY DEF Init, Free
<1>4. \A p \in Procs : ProcOK(p)
  BY <1>3 DEF ProcOK, Claiming, Syncing, Busy, At
<1> QED
  BY <1>1, <1>2, <1>4 DEF IInv

LEMMA Stuttering ==
    ASSUME IInv, UNCHANGED vars
    PROVE  IInv'
<1>1. TypeOK' /\ IsFiniteSet(events)' /\ AbsentOK'
  BY DEF vars, IInv, TypeOK, AbsentOK, At, I
<1>2. ASSUME NEW p \in Procs
      PROVE  ProcOK(p)'
  <2>1. ProcOK(p)
    BY DEF IInv
  <2> QED BY <2>1 DEF vars, ProcOK, Claiming, Syncing, Busy, At, I, ClaimOK, Unclaimed, UserOf,
                      PageOK, Past, Position, Before, SyncOK, Mine, ActiveIn
<1> QED
  BY <1>1, <1>2 DEF IInv

LEMMA ServeOK ==
    ASSUME IInv, NEW p \in Procs, Serve(p)
    PROVE  IInv'
<1>1. CASE Save(p) \/ Place(p)
  BY <1>1, SavedOrPlacedOK
<1>2. CASE Suspend(p) \/ Unsuspend(p)
  BY <1>2, SuspendedOK
<1>3. CASE DroppedAll(p) \/ Fail(p)
  BY <1>3, EndOK DEF DroppedAll, Fail
<1>4. CASE AddRepository(p) \/ AddedAll(p) \/ DropRepository(p)
  BY <1>4, AddRepositoryOK, AddedAllOK, DropRepositoryOK
<1>5. CASE Verify(p) \/ CheckOwner(p) \/ ReadOwner(p) \/ Link(p)
  BY <1>5, VerifyOK, CheckOwnerOK, ReadOwnerOK, LinkOK
<1>6. CASE ListPage(p) \/ ReadActive(p)
  BY <1>6, ListPageOK, ReadActiveOK
<1>7. CASE Delete(p)
  BY <1>7, DeleteOK
<1>8. CASE CheckSuspended(p) \/ FindRepository(p) \/ FindInstallation(p)
  BY <1>8, LookedUpOK, FindInstallationOK
<1> QED
  BY <1>1, <1>2, <1>3, <1>4, <1>5, <1>6, <1>7, <1>8 DEF Serve

LEMMA Inductive ==
    ASSUME IInv, [Next]_vars
    PROVE  IInv'
<1>1. CASE Github
  BY <1>1, GithubOK
<1>2. CASE \E p \in Procs : \E e \in events : Receive(p, e)
  BY <1>2, ReceiveOK
<1>3. CASE \E p \in Procs : \E u \in Users, i \in Insts : RequestClaim(p, u, i) \/ RequestSync(p, u, i)
  BY <1>3, RequestClaimOK, RequestSyncOK
<1>4. CASE \E p \in Procs : Serve(p)
  BY <1>4, ServeOK
<1>5. CASE UNCHANGED vars
  BY <1>5, Stuttering
<1> QED
  BY <1>1, <1>2, <1>3, <1>4, <1>5 DEF Next, Quiet

LEMMA Always == Spec => []IInv
  BY Initial, Inductive, PTL DEF Spec

-----------------------------------------------------------------------------
(* What follows from it.                                                      *)

\* The model never leaves its types: whatever order the webhooks and the
\* requests come in, a Repository row never outlives its Installation row.
THEOREM TypeCorrect == Spec => []TypeOK
<1>1. IInv => TypeOK
  BY DEF IInv
<1> QED
  BY <1>1, Always, PTL

\* A synchronisation that has no removal left to do has made the active
\* repositories of the installation those GitHub listed, for every one that no
\* other process wrote meanwhile (syncInstallationRepositories).
THEOREM SyncsExact == Spec => []SyncExact
<1>1. IInv => SyncExact
  <2> SUFFICES ASSUME IInv, NEW p \in Procs, At(p, "drop"), procs[p].sync, procs[p].drop = {},
                      NEW r \in Repos \ procs[p].touched
               PROVE  r \in procs[p].list <=> Mine(p, r)
    BY DEF SyncExact, Mine
  <2>1. SyncOK(p)
    BY DEF IInv, ProcOK, Syncing, At
  <2> QED BY <2>1 DEF SyncOK, At
<1> QED
  BY <1>1, Always, PTL

\* However the list of repositories changes between two of its pages, a
\* synchronisation drops none that GitHub covered all the while, unless GitHub
\* removed another one before it in the list (listInstallationRepositories).
THEOREM KeptNotDropped == Spec => []NothingSkipped
<1>1. IInv => NothingSkipped
  <2> SUFFICES ASSUME IInv, NEW p \in Procs, At(p, "drop"), procs[p].sync
               PROVE  procs[p].drop \cap procs[p].kept = {}
    BY DEF NothingSkipped
  <2>1. SyncOK(p)
    BY DEF IInv, ProcOK, Syncing, At
  <2> QED BY <2>1 DEF SyncOK
<1> QED
  BY <1>1, Always, PTL

\* The loop over the pages has no bound of its own, yet it never asks for a page
\* past those all the repositories could fill, whatever GitHub changes
\* meanwhile (listInstallationRepositories).
THEOREM PagesWithinRepos == Spec => []PagesBounded
<1>1. IInv => PagesBounded
  BY DEF PagesBounded, IInv, ProcOK, PageOK, Past
<1> QED
  BY <1>1, Always, PTL

-----------------------------------------------------------------------------
(* Owners.                                                                    *)

\* what a claim knows when it writes the row
LEMMA LinkFacts ==
    ASSUME IInv, NEW p \in Procs, Link(p)
    PROVE  /\ ClaimOK(p) /\ At(p, "link") /\ I(p) \in Insts
           /\ inst'[I(p)].user = LinkedUser(p)
           /\ \A k \in Insts \ {I(p)} : inst'[k] = inst[k]
           /\ \A q \in Procs \ {p} : procs'[q].pc = procs[q].pc
<1>1. At(p, "link") /\ I(p) \in Insts /\ ClaimOK(p)
  BY DEF Link, IInv, TypeOK, ProcOK, Claiming, At
<1>2. inst' = [inst EXCEPT ![I(p)] = [user |-> LinkedUser(p), suspended |-> FALSE]]
  BY DEF Link, SetInst
<1>3. inst'[I(p)].user = LinkedUser(p) /\ \A k \in Insts \ {I(p)} : inst'[k] = inst[k]
  BY <1>1, <1>2 DEF IInv, TypeOK
<1>4. \A q \in Procs \ {p} : procs'[q].pc = procs[q].pc
  BY DEF Link, IInv, TypeOK, Locals
<1> QED
  BY <1>1, <1>3, <1>4

\* a process does not move the others
LEMMA OthersStay ==
    ASSUME IInv, NEW p \in Procs, NEW q \in Procs \ {p}, Serve(q)
    PROVE  Kept(p)
<1>1. TypeOK /\ procs \in [Procs -> Locals] /\ procs[p] \in Locals
  BY DEF IInv, TypeOK
<1>2. procs'[p] = procs[p] => Kept(p)
  BY DEF Kept
<1>3. CASE \/ Save(q) \/ Suspend(q) \/ Unsuspend(q) \/ Place(q) \/ CheckSuspended(q)
           \/ FindRepository(q) \/ FindInstallation(q) \/ AddedAll(q) \/ DroppedAll(q)
  BY <1>1, <1>2, <1>3
     DEF Save, Suspend, Unsuspend, Place, CheckSuspended, FindRepository, FindInstallation,
         AddedAll, DroppedAll, End, Goto
<1>4. CASE \/ Verify(q) \/ CheckOwner(q) \/ ReadOwner(q) \/ ListPage(q) \/ ReadActive(q) \/ Fail(q)
  BY <1>1, <1>2, <1>4 DEF Verify, CheckOwner, ReadOwner, ListPage, ReadActive, Fail, End, Goto
<1>5. CASE Delete(q)
  <2>1. CASE End(q)
    BY <1>1, <1>2, <2>1 DEF End
  <2>2. CASE ~End(q)
    <3> DEFINE gone == {r \in Repos : repo[r] # None /\ repo[r].inst = I(q)}
    <3>1. procs' = [k \in Procs |->
                       IF k = q THEN Free
                       ELSE [procs[k] EXCEPT !.touched = @ \cup {r \in gone : Syncing(k)},
                                             !.open = @ \/ (Claiming(k) /\ I(k) = I(q))]]
      BY <1>5, <2>2 DEF Delete
    <3> HIDE DEF gone
    <3>2. PICK rs, open : procs'[p] = [procs[p] EXCEPT !.touched = @ \cup rs, !.open = @ \/ open]
      BY <3>1
    <3> QED BY <1>1, <3>2, ZenonT(40) DEF Locals, Kept
  <2> QED BY <2>1, <2>2
<1>6. CASE Link(q)
  <2>1. PICK late : procs'[p] = [procs[p] EXCEPT !.rival = @ \/ late]
    BY <1>6 DEF Link
  <2> QED BY <1>1, <2>1 DEF Locals, Kept
<1>7. CASE AddRepository(q) \/ DropRepository(q)
  <2>1. PICK rs : procs'[p] = [procs[p] EXCEPT !.touched = @ \cup rs]
    BY <1>7 DEF AddRepository, DropRepository, Touching
  <2> QED BY <1>1, <2>1 DEF Locals, Kept
<1> QED
  BY <1>3, <1>4, <1>5, <1>6, <1>7 DEF Serve

LEMMA EmitStays ==
    ASSUME IInv, NEW i, NEW new, NEW kind, NEW added, NEW removed, NEW p \in Procs,
           Emit(i, new, kind, added, removed)
    PROVE  Kept(p)
<1>1. procs[p] \in Locals
  BY DEF IInv, TypeOK
<1>2. procs'[p] = IF procs[p].i # i \/ procs[p].pc # "list" THEN procs[p]
                  ELSE [procs[p] EXCEPT !.kept = Undisturbed(@, removed)]
  BY DEF Emit
<1>3. PICK kept : /\ kept \subseteq procs[p].kept
                  /\ procs'[p] = procs[p] \/ procs'[p] = [procs[p] EXCEPT !.kept = kept]
  BY <1>2 DEF Undisturbed
<1> QED
  BY <1>1, <1>3 DEF Locals, Kept

LEMMA GithubStays ==
    ASSUME IInv, NEW p \in Procs, Github
    PROVE  Kept(p)
BY EmitStays, ZenonT(40) DEF Github, GithubInstall, GithubUninstall, GithubSuspend, GithubUnsuspend,
                 GithubAccept, GithubSelect, GithubPull

\* nothing but the write of the claim leads from its reading of the owner to
\* the list
LEMMA OnlyLinkLists ==
    ASSUME IInv, [Next]_vars, NEW p \in Procs, At(p, "link"), procs'[p].pc = "list"
    PROVE  Link(p)
<1>1. procs \in [Procs -> Locals]
  BY DEF IInv, TypeOK
<1>2. ASSUME NEW q \in Procs, NEW new, Begin(q, new)
      PROVE  FALSE
  BY <1>1, <1>2 DEF Begin, At
<1>3. ASSUME NEW q \in Procs, Serve(q)
      PROVE  Link(p)
  <2>1. CASE q # p
    BY <1>3, <2>1, OthersStay DEF At, Kept
  <2>2. CASE q = p
    <3>1. Link(p) \/ Fail(p)
      BY <1>3, <2>2 DEF Serve, Save, Delete, Suspend, Unsuspend, Place,
            CheckSuspended, FindRepository, FindInstallation,
            AddRepository, AddedAll, DropRepository, DroppedAll, Verify, CheckOwner, ReadOwner,
            ListPage, ReadActive, At
    <3>2. ~Fail(p)
      BY <1>1 DEF Fail, End, Free
    <3> QED BY <3>1, <3>2
  <2> QED BY <2>1, <2>2
<1>4. ~Github
  BY GithubStays DEF At, Kept
<1>5. ~UNCHANGED vars
  BY DEF vars, At
<1> QED
  BY <1>2, <1>3, <1>4, <1>5 DEF Next, Receive, RequestClaim, RequestSync, Quiet

\* nothing but the write of a claim replaces an owner
LEMMA OnlyLinkReplaces ==
    ASSUME IInv, [Next]_vars, NEW i \in Insts, inst[i] # None, inst'[i] # None,
           inst'[i].user # inst[i].user
    PROVE  \E p \in Procs : Link(p)
<1>1. inst \in [Insts -> InstRows \cup {None}]
  BY DEF IInv, TypeOK
<1>2. ASSUME NEW p \in Procs, NEW new, Begin(p, new)
      PROVE  FALSE
  BY <1>2 DEF Begin
<1>3. ASSUME NEW p \in Procs, Busy(p), NEW suspended \in BOOLEAN,
             SetInst(I(p), UserOf(I(p)), suspended)
      PROVE  FALSE
  <2>1. PICK k \in Insts : k = I(p)
    BY <1>3 DEF IInv, TypeOK, Busy
  <2>2. PICK user \in Users \cup {None} : user = UserOf(k)
    BY <1>1, <2>1 DEF UserOf, InstRows
  <2>3. /\ inst'[k].user = user
        /\ \A j \in Insts \ {k} : inst'[j] = inst[j]
    BY <1>3, <2>1, <2>2, SavedRow
  <2> QED BY <2>2, <2>3 DEF UserOf
<1>4. ASSUME NEW p \in Procs, Serve(p)
      PROVE  Link(p)
  <2>1. CASE Save(p) \/ Suspend(p) \/ Unsuspend(p)
    <3>1. Busy(p) /\ \E suspended \in BOOLEAN :
             SetInst(I(p), UserOf(I(p)), suspended) \/ UNCHANGED inst
      BY <2>1 DEF Save, Suspend, Unsuspend, Busy, At
    <3> QED BY <1>3, <3>1
  <2>2. CASE Place(p)
    <3>1. Busy(p) /\ \/ SetInst(I(p), UserOf(I(p)), FALSE)
                     \/ UNCHANGED inst
      BY <2>2 DEF Place, Busy, At, UserOf
    <3> QED BY <1>3, <3>1
  <2>3. CASE Delete(p)
    BY <1>1, <2>3 DEF Delete
  <2>4. CASE UNCHANGED inst
    BY <2>4
  <2> QED BY <1>4, <2>1, <2>2, <2>3, <2>4 DEF Serve,
            CheckSuspended, FindRepository, FindInstallation, AddRepository, AddedAll,
            DropRepository, DroppedAll, Verify, CheckOwner, ReadOwner, ListPage, ReadActive, Fail
<1>5. ~Github
  <2>1. Github => UNCHANGED inst
    BY DEF Github, GithubInstall, GithubUninstall, GithubSuspend, GithubUnsuspend,
           GithubAccept, GithubSelect, GithubPull, Emit
  <2> QED BY <2>1
<1>6. ~UNCHANGED vars
  BY DEF vars
<1> QED
  BY <1>2, <1>4, <1>5, <1>6 DEF Next, Receive, RequestClaim, RequestSync, Quiet

\* Although the owner is tested, read and written in separate statements, a
\* claim that goes on to report success has made its user the owner, or the row
\* had no owner at some moment of the claim, or another claim wrote it meanwhile
\* (verifyAndSync, upsertInstallationWithUser).
THEOREM ClaimsHonest == Spec => ConnectedHonest
<1>1. ASSUME IInv, [Next]_vars, NEW p \in Procs, At(p, "link"), procs'[p].pc = "list"
      PROVE  inst'[I(p)].user = procs[p].user \/ procs[p].open \/ procs[p].rival
  <2>1. Link(p)
    BY <1>1, OnlyLinkLists
  <2>2. ClaimOK(p) /\ inst'[I(p)].user = LinkedUser(p)
    BY <1>1, <2>1, LinkFacts
  <2> QED BY <1>1, <2>2 DEF ClaimOK, LinkedUser, At
<1>2. IInv /\ [Next]_vars =>
        [\A p \in Procs : At(p, "link") /\ procs'[p].pc = "list" =>
            inst'[I(p)].user = procs[p].user \/ procs[p].open \/ procs[p].rival]_vars
  BY <1>1
<1> QED
  BY <1>2, Always, PTL DEF Spec, ConnectedHonest

\* Whatever order the webhooks come in, the owner of a row that stays is
\* replaced only by the user of a claim that found the row without one
\* (upsertInstallation, upsertInstallationWithUser).
THEOREM OwnersKept == Spec => OwnerKept
<1>1. ASSUME IInv, [Next]_vars, NEW i \in Insts, inst[i] # None, inst'[i] # None,
             inst[i].user \notin {None, inst'[i].user}
      PROVE  \E p \in Procs : /\ At(p, "link") /\ I(p) = i
                              /\ inst'[i].user = procs[p].user /\ procs[p].open
  <2>1. PICK p \in Procs : Link(p)
    BY <1>1, OnlyLinkReplaces
  <2>2. /\ ClaimOK(p) /\ At(p, "link") /\ I(p) = i
        /\ inst'[i].user = LinkedUser(p)
    BY <1>1, <2>1, LinkFacts
  <2>3. procs[p].owner = None
    BY <1>1, <2>2 DEF LinkedUser, UserOf
  <2> QED BY <2>2, <2>3 DEF ClaimOK, Unclaimed, LinkedUser
<1>2. IInv /\ [Next]_vars =>
        [\A i \in Insts :
            inst[i] # None /\ inst'[i] # None /\ inst[i].user \notin {None, inst'[i].user} =>
               \E p \in Procs : /\ At(p, "link") /\ I(p) = i
                                /\ inst'[i].user = procs[p].user /\ procs[p].open]_vars
  BY <1>1
<1> QED
  BY <1>2, Always, PTL DEF Spec, OwnerKept

-----------------------------------------------------------------------------
(* How a process goes on.                                                     *)

\* A step of a process ends it or takes it to its next stage, which keeps what
\* is still to be written; only a page of GitHub's list adds to that.
Onward(old, new) ==
    /\ new.i = old.i /\ new.sync = old.sync
    /\ \/ /\ <<old.pc, new.pc>> \in {<<"verify", "check">>, <<"check", "readOwner">>,
                                    <<"readOwner", "link">>, <<"saved", "add">>,
                                    <<"repositories", "add">>, <<"pull", "findRepo">>,
                                    <<"findRepo", "findInst">>, <<"findInst", "add">>}
          /\ new.add = old.add /\ new.drop = old.drop /\ new.list = old.list
       \/ /\ old.pc = "link" /\ new.pc = "list"
          /\ new.add = {} /\ new.drop = {} /\ new.list = {}
       \/ /\ old.pc = "list" /\ new.list \subseteq old.list \cup gh[old.i].repos
          /\ \/ new.pc = "list" /\ new.page = old.page + 1 /\ new.add = old.add
             \/ new.pc = "add" /\ new.add = new.list
       \/ /\ old.pc = "add" /\ new.drop = old.drop /\ new.list = old.list
          /\ \/ new.pc = "add" /\ \E r \in old.add : new.add = old.add \ {r}
             \/ new.pc = (IF old.sync THEN "readActive" ELSE "drop") /\ new.add = old.add
       \/ /\ old.pc \in {"readActive", "drop"} /\ new.pc = "drop"
          /\ new.add = old.add /\ new.list = old.list
          /\ old.pc = "readActive" \/ \E r \in old.drop : new.drop = old.drop \ {r}

LEMMA PageMoves ==
    ASSUME IInv, NEW p \in Procs, ListPage(p)
    PROVE  Onward(procs[p], procs'[p])
<1>1. PICK got : got = PageOf(I(p), procs[p].page)
  OBVIOUS
<1>2. PICK kept : kept = IF procs[p].page = 1 THEN gh[I(p)].repos ELSE procs[p].kept
  OBVIOUS
<1> DEFINE local == [procs[p] EXCEPT !.list = @ \cup got, !.kept = kept]
<1>3. /\ procs[p] \in Locals /\ procs[p].pc = "list" /\ got \subseteq gh[I(p)].repos
      /\ procs' = [procs EXCEPT ![p] =
             IF Enough(p, got)
             THEN [local EXCEPT !.pc = "add", !.add = local.list, !.touched = {},
                                !.page = 1, !.seen = 0]
             ELSE [local EXCEPT !.page = @ + 1, !.seen = Counted(p, got)]]
  BY <1>1, <1>2 DEF ListPage, At, IInv, TypeOK, PageOf
<1>4. /\ local.pc = "list" /\ local.i = procs[p].i /\ local.sync = procs[p].sync
      /\ local.list = procs[p].list \cup got /\ local.add = procs[p].add
      /\ local.page = procs[p].page
      /\ DOMAIN local = DOMAIN procs[p]
  BY <1>3, ZenonT(40) DEF Locals
<1>5. {"pc", "i", "sync", "list", "add", "page", "seen", "touched"} \subseteq DOMAIN procs[p]
  BY <1>3 DEF Locals
<1> HIDE DEF local
<1>6. CASE Enough(p, got)
  <2>1. procs'[p] = [local EXCEPT !.pc = "add", !.add = local.list, !.touched = {},
                                  !.page = 1, !.seen = 0]
    BY <1>3, <1>6 DEF IInv, TypeOK
  <2>2. /\ procs'[p].pc = "add" /\ procs'[p].add = local.list /\ procs'[p].list = local.list
        /\ procs'[p].i = local.i /\ procs'[p].sync = local.sync
    BY <1>4, <1>5, <2>1, ZenonT(40)
  <2> QED BY <1>3, <1>4, <2>2 DEF Onward, I
<1>7. CASE ~Enough(p, got)
  <2>1. procs'[p] = [local EXCEPT !.page = @ + 1, !.seen = Counted(p, got)]
    BY <1>3, <1>7 DEF IInv, TypeOK
  <2>2. /\ procs'[p].pc = "list" /\ procs'[p].add = local.add /\ procs'[p].list = local.list
        /\ procs'[p].i = local.i /\ procs'[p].sync = local.sync
        /\ procs'[p].page = local.page + 1
    BY <1>4, <1>5, <2>1, ZenonT(40)
  <2> QED BY <1>3, <1>4, <2>2 DEF Onward, I
<1> QED
  BY <1>6, <1>7

LEMMA ServeMoves ==
    ASSUME IInv, NEW p \in Procs, Serve(p)
    PROVE  /\ Busy(p) /\ served' = served
           /\ procs'[p] = Free \/ Onward(procs[p], procs'[p])
<1>1. procs \in [Procs -> Locals] /\ procs[p] \in Locals
  BY DEF IInv, TypeOK
<1>2. Busy(p) /\ served' = served
  BY DEF Busy, At, Serve, Save, Delete, Suspend, Unsuspend, Place,
         CheckSuspended, FindRepository, FindInstallation,
         AddRepository, AddedAll, DropRepository, DroppedAll, Verify, CheckOwner, ReadOwner,
         Link, ListPage, ReadActive, Fail
<1>3. End(p) => procs'[p] = Free
  BY <1>1 DEF End
<1>4. ASSUME NEW pc, Goto(p, pc)
      PROVE  procs'[p] = [procs[p] EXCEPT !.pc = pc]
  BY <1>1, <1>4 DEF Goto
<1>5. CASE AddedAll(p)
  <2>1. At(p, "add") /\ Goto(p, IF procs[p].sync THEN "readActive" ELSE "drop")
    BY <1>5 DEF AddedAll
  <2>2. procs'[p] = [procs[p] EXCEPT !.pc = IF procs[p].sync THEN "readActive" ELSE "drop"]
    BY <1>4, <2>1
  <2> QED BY <1>1, <1>2, <2>1, <2>2 DEF Onward, At, Locals
<1>6. CASE Verify(p) \/ CheckOwner(p)
  <2>1. \/ At(p, "verify") /\ Goto(p, "check")
        \/ At(p, "check") /\ Goto(p, "readOwner")
        \/ End(p)
    BY <1>6 DEF Verify, CheckOwner
  <2>2. PICK pc : \/ /\ <<procs[p].pc, pc>> \in {<<"verify", "check">>, <<"check", "readOwner">>}
                     /\ procs'[p] = [procs[p] EXCEPT !.pc = pc]
                  \/ procs'[p] = Free
    BY <1>3, <1>4, <2>1 DEF At
  <2> QED BY <1>1, <1>2, <2>2 DEF Onward, Locals
<1>7. CASE Suspend(p) \/ Unsuspend(p) \/ DroppedAll(p) \/ Fail(p)
  <2>1. (Suspend(p) => End(p)) /\ (Unsuspend(p) => End(p))
    BY ZenonT(40) DEF Suspend, Unsuspend
  <2>2. (DroppedAll(p) => End(p)) /\ (Fail(p) => End(p))
    BY ZenonT(40) DEF DroppedAll, Fail
  <2> QED BY <1>2, <1>3, <1>7, <2>1, <2>2
<1>8. CASE Delete(p)
  <2>1. CASE End(p)
    BY <1>2, <1>3, <2>1
  <2>2. CASE ~End(p)
    <3>1. PICK told : procs' = [q \in Procs |-> IF q = p THEN Free ELSE told[q]]
      <4> DEFINE gone == {r \in Repos : repo[r] # None /\ repo[r].inst = I(p)}
                 h == [q \in Procs |->
                         [procs[q] EXCEPT !.touched = @ \cup {r \in gone : Syncing(q)},
                                          !.open = @ \/ (Claiming(q) /\ I(q) = I(p))]]
      <4>1. procs' = [q \in Procs |-> IF q = p THEN Free ELSE
               [procs[q] EXCEPT !.touched = @ \cup {r \in gone : Syncing(q)},
                                !.open = @ \/ (Claiming(q) /\ I(q) = I(p))]]
        BY <1>8, <2>2, Zenon DEF Delete
      <4>2. procs' = [q \in Procs |-> IF q = p THEN Free ELSE h[q]]
        BY <4>1, Zenon
      <4> HIDE DEF h
      <4> QED BY <4>2, Zenon
    <3> QED BY <1>2, <3>1
  <2> QED BY <2>1, <2>2
<1>9. CASE Save(p) \/ Place(p) \/ FindInstallation(p)
  <2>1. procs[p].pc \in {"saved", "repositories", "findInst"}
    BY <1>9 DEF Save, Place, FindInstallation, At
  <2>2. CASE End(p)
    BY <1>2, <1>3, <2>2
  <2>3. CASE ~End(p)
    <3>1. procs'[p] = [procs[p] EXCEPT !.pc = "add", !.row = epoch[I(p)]]
      BY <1>1, <1>9, <2>3 DEF Save, Place, FindInstallation
    <3> QED BY <1>1, <1>2, <2>1, <3>1 DEF Onward, Locals
  <2> QED BY <2>2, <2>3
<1>10. CASE ReadOwner(p)
  <2>1. At(p, "readOwner") /\ procs'[p] = [procs[p] EXCEPT !.pc = "link", !.owner = UserOf(I(p))]
    BY <1>1, <1>10 DEF ReadOwner
  <2> QED BY <1>1, <1>2, <2>1 DEF Onward, At, Locals
<1>11. CASE ReadActive(p)
  <2>1. PICK drop : At(p, "readActive") /\ procs'[p] = [procs[p] EXCEPT !.pc = "drop", !.drop = drop]
    BY <1>1, <1>11 DEF ReadActive
  <2> QED BY <1>1, <1>2, <2>1 DEF Onward, At, Locals
<1>12. CASE Link(p)
  <2>1. At(p, "link") /\ procs'[p] = Listing(procs[p].user, I(p)) /\ procs[p].sync
    BY <1>12, LinkFacts DEF Link, ClaimOK
  <2> QED BY <1>1, <1>2, <2>1 DEF Onward, At, Listing, Free, I
<1>13. CASE AddRepository(p)
  <2>1. PICK r \in procs[p].add : procs'[p] = [procs[p] EXCEPT !.add = @ \ {r}]
    BY <1>13 DEF AddRepository, Touching
  <2>2. At(p, "add")
    BY <1>13 DEF AddRepository
  <2> QED BY <1>1, <1>2, <2>1, <2>2 DEF Onward, At, Locals
<1>14. CASE DropRepository(p)
  <2>1. PICK r \in procs[p].drop : procs'[p] = [procs[p] EXCEPT !.drop = @ \ {r}]
    BY <1>14 DEF DropRepository, Touching
  <2>2. At(p, "drop")
    BY <1>14 DEF DropRepository
  <2> QED BY <1>1, <1>2, <2>1, <2>2 DEF Onward, At, Locals
<1>15. CASE ListPage(p)
  BY <1>2, <1>15, PageMoves
<1>16. CASE CheckSuspended(p) \/ FindRepository(p)
  <2>1. \/ At(p, "pull") /\ Goto(p, "findRepo")
        \/ At(p, "findRepo") /\ Goto(p, "findInst")
        \/ End(p)
    BY <1>16 DEF CheckSuspended, FindRepository
  <2>2. PICK pc : \/ /\ <<procs[p].pc, pc>> \in {<<"pull", "findRepo">>, <<"findRepo", "findInst">>}
                     /\ procs'[p] = [procs[p] EXCEPT !.pc = pc]
                  \/ procs'[p] = Free
    BY <1>3, <1>4, <2>1 DEF At
  <2> QED BY <1>1, <1>2, <2>2 DEF Onward, Locals
<1> QED
  BY <1>5, <1>6, <1>7, <1>8, <1>9, <1>10, <1>11, <1>12, <1>13, <1>14, <1>15, <1>16 DEF Serve

\* At most so many steps are left of what a process does.  A page of the list
\* costs one, and so does each repository it adds or drops.
Left(l) ==
    LET all == Cardinality(Repos)
        add == Cardinality(l.add)
        drop == Cardinality(l.drop)
    IN
    CASE l.pc = "idle" -> 0
      [] l.pc \in {"deleted", "suspend", "unsuspend"} -> 1
      [] l.pc = "drop" -> drop + 1
      [] l.pc = "readActive" -> all + 2
      [] l.pc = "add" -> IF l.sync THEN add + all + 3 ELSE add + drop + 2
      [] l.pc \in {"saved", "repositories", "findInst"} -> add + drop + 3
      [] l.pc = "findRepo" -> add + drop + 4
      [] l.pc = "pull" -> add + drop + 5
      [] l.pc = "list" -> 3 * all + 5 - l.page
      [] l.pc = "link" -> 3 * all + 5
      [] l.pc = "readOwner" -> 3 * all + 6
      [] l.pc = "check" -> 3 * all + 7
      [] l.pc = "verify" -> 3 * all + 8

StepsLeft(p) == Left(procs[p])
MaxSteps == 3 * Cardinality(Repos) + 8

\* Every step of a process leaves it fewer, and nobody else's leaves it more.
ServingEnds ==
    [][\A p \in Procs :
          /\ Serve(p) => StepsLeft(p)' < StepsLeft(p)
          /\ ~At(p, "idle") => StepsLeft(p)' <= StepsLeft(p)]_vars

LEMMA RepoSets ==
    ASSUME NEW S \in SUBSET Repos
    PROVE  /\ Cardinality(Repos) \in Nat /\ Cardinality(S) \in Nat
           /\ Cardinality(S) <= Cardinality(Repos)
           /\ \A r \in S : Cardinality(S \ {r}) = Cardinality(S) - 1
<1>1. IsFiniteSet(Repos) /\ IsFiniteSet(S) /\ Cardinality(S) <= Cardinality(Repos)
  BY FS_Subset, InstallationsAssumption
<1> QED
  BY <1>1, FS_CardinalityType, FS_RemoveElement

\* the loop that lists has asked for at most a page for each repository
LEMMA PageRange ==
    ASSUME IInv, NEW p \in Procs, At(p, "list")
    PROVE  procs[p].sync /\ procs[p].page \in Nat /\ 1 <= procs[p].page
           /\ procs[p].page <= Cardinality(Repos) + 1
<1>1. procs[p].page \in Nat \ {0} /\ PageOK(p) /\ Cardinality(Repos) \in Nat
  BY RepoSets DEF IInv, TypeOK, Locals, ProcOK
<1>2. PageSize \in Nat \ {0} /\ Past(p) = (procs[p].page - 1) * PageSize
  BY InstallationsAssumption DEF Past
<1>3. procs[p].page - 1 <= Past(p)
  <2>1. \A a \in Nat, b \in Nat \ {0} : a <= a * b
    BY Z3
  <2>2. procs[p].page - 1 \in Nat
    BY <1>1
  <2> QED BY <1>2, <2>1, <2>2
<1>4. Past(p) \in Nat
  BY <1>1, <1>2
<1> QED
  BY <1>1, <1>3, <1>4 DEF PageOK

\* which is so in every state, and so in the next one
PagesInRange ==
    \A p \in Procs : At(p, "list") => procs[p].page \in Nat /\ 1 <= procs[p].page
                                     /\ procs[p].page <= Cardinality(Repos) + 1

LEMMA PagesInRangeNext == IInv' => PagesInRange'
<1>1. IInv => PagesInRange
  BY PageRange DEF PagesInRange
<1> QED
  BY <1>1, PTL

LEMMA LeftAt ==
    ASSUME NEW l
    PROVE  /\ l.pc = "idle" => Left(l) = 0
           /\ l.pc \in {"deleted", "suspend", "unsuspend"} => Left(l) = 1
           /\ l.pc = "drop" => Left(l) = Cardinality(l.drop) + 1
           /\ l.pc = "readActive" => Left(l) = Cardinality(Repos) + 2
           /\ l.pc = "add" /\ l.sync => Left(l) = Cardinality(l.add) + Cardinality(Repos) + 3
           /\ l.pc = "add" /\ ~l.sync => Left(l) = Cardinality(l.add) + Cardinality(l.drop) + 2
           /\ l.pc \in {"saved", "repositories", "findInst"} =>
                 Left(l) = Cardinality(l.add) + Cardinality(l.drop) + 3
           /\ l.pc = "findRepo" => Left(l) = Cardinality(l.add) + Cardinality(l.drop) + 4
           /\ l.pc = "pull" => Left(l) = Cardinality(l.add) + Cardinality(l.drop) + 5
           /\ l.pc = "list" => Left(l) = 3 * Cardinality(Repos) + 5 - l.page
           /\ l.pc = "link" => Left(l) = 3 * Cardinality(Repos) + 5
           /\ l.pc = "readOwner" => Left(l) = 3 * Cardinality(Repos) + 6
           /\ l.pc = "check" => Left(l) = 3 * Cardinality(Repos) + 7
           /\ l.pc = "verify" => Left(l) = 3 * Cardinality(Repos) + 8
<1>1. l.pc = "idle" => Left(l) = 0
  BY DEF Left
<1>2. l.pc \in {"deleted", "suspend", "unsuspend"} => Left(l) = 1
  BY DEF Left
<1>3. l.pc = "drop" => Left(l) = Cardinality(l.drop) + 1
  BY DEF Left
<1>4. l.pc = "readActive" => Left(l) = Cardinality(Repos) + 2
  BY DEF Left
<1>5. l.pc = "add" => Left(l) = IF l.sync THEN Cardinality(l.add) + Cardinality(Repos) + 3
                                ELSE Cardinality(l.add) + Cardinality(l.drop) + 2
  BY DEF Left
<1>6. /\ l.pc \in {"saved", "repositories", "findInst"} =>
            Left(l) = Cardinality(l.add) + Cardinality(l.drop) + 3
      /\ l.pc = "findRepo" => Left(l) = Cardinality(l.add) + Cardinality(l.drop) + 4
      /\ l.pc = "pull" => Left(l) = Cardinality(l.add) + Cardinality(l.drop) + 5
  BY DEF Left
<1>7. l.pc = "list" => Left(l) = 3 * Cardinality(Repos) + 5 - l.page
  BY DEF Left
<1>8. /\ l.pc = "link" => Left(l) = 3 * Cardinality(Repos) + 5
      /\ l.pc = "readOwner" => Left(l) = 3 * Cardinality(Repos) + 6
      /\ l.pc = "check" => Left(l) = 3 * Cardinality(Repos) + 7
      /\ l.pc = "verify" => Left(l) = 3 * Cardinality(Repos) + 8
  BY DEF Left
<1> QED
  BY <1>1, <1>2, <1>3, <1>4, <1>5, <1>6, <1>7, <1>8

LEMMA StepsInRange ==
    ASSUME IInv, NEW p \in Procs
    PROVE  StepsLeft(p) \in 0..MaxSteps
<1>1. procs[p] \in Locals
  BY DEF IInv, TypeOK
<1>2. PICK all, add, drop \in Nat :
         /\ all = Cardinality(Repos)
         /\ add = Cardinality(procs[p].add) /\ add <= all
         /\ drop = Cardinality(procs[p].drop) /\ drop <= all
  BY <1>1, RepoSets DEF Locals
<1>3. procs[p].pc = "list" => procs[p].page \in Nat /\ procs[p].page <= all + 1
  BY <1>2, PageRange DEF At
<1>4. procs[p].pc \in Pcs /\ procs[p].sync \in BOOLEAN
  BY <1>1 DEF Locals
<1>5. PICK l : l = procs[p]
  OBVIOUS
<1>6. Left(l) \in 0..(3 * all + 8)
  <2>1. CASE l.pc \in {"idle", "deleted", "suspend", "unsuspend", "drop", "readActive"}
    BY <1>2, <1>5, <2>1, LeftAt
  <2>2. CASE l.pc \in {"add", "saved", "repositories", "pull", "findRepo", "findInst"}
    BY <1>2, <1>4, <1>5, <2>2, LeftAt
  <2>3. CASE l.pc \in {"list", "link", "readOwner", "check", "verify"}
    BY <1>2, <1>3, <1>5, <2>3, LeftAt
  <2> QED BY <1>4, <1>5, <2>1, <2>2, <2>3 DEF Pcs, Kinds
<1> QED
  BY <1>2, <1>5, <1>6 DEF StepsLeft, MaxSteps

StepsBounded == \A p \in Procs : StepsLeft(p) \in 0..MaxSteps

LEMMA StepsBoundedNext == IInv' => StepsBounded'
<1>1. IInv => StepsBounded
  BY StepsInRange DEF StepsBounded
<1> QED
  BY <1>1, PTL

LEMMA FewerLeft ==
    ASSUME IInv, NEW p \in Procs, IInv', Serve(p)
    PROVE  StepsLeft(p)' < StepsLeft(p)
<1>1. PICK old, new \in Locals : old = procs[p] /\ new = procs'[p]
  BY DEF IInv, TypeOK
<1>2. /\ old.pc # "idle" /\ old.pc \in Pcs
      /\ new = Free \/ Onward(old, new)
  BY <1>1, ServeMoves DEF Busy, At, Locals
<1>3. PICK all, add, drop, add1, drop1 \in Nat :
         /\ all = Cardinality(Repos)
         /\ add = Cardinality(old.add) /\ drop = Cardinality(old.drop)
         /\ add1 = Cardinality(new.add) /\ drop1 = Cardinality(new.drop)
         /\ add <= all /\ drop <= all /\ add1 <= all /\ drop1 <= all
         /\ \A r \in old.add : Cardinality(old.add \ {r}) = add - 1
         /\ \A r \in old.drop : Cardinality(old.drop \ {r}) = drop - 1
  <2>1. /\ old.add \in SUBSET Repos /\ old.drop \in SUBSET Repos
        /\ new.add \in SUBSET Repos /\ new.drop \in SUBSET Repos
    BY DEF Locals
  <2>2. /\ Cardinality(old.add) \in Nat /\ Cardinality(old.add) <= Cardinality(Repos)
        /\ \A r \in old.add : Cardinality(old.add \ {r}) = Cardinality(old.add) - 1
        /\ Cardinality(Repos) \in Nat
    BY <2>1, RepoSets
  <2>3. /\ Cardinality(old.drop) \in Nat /\ Cardinality(old.drop) <= Cardinality(Repos)
        /\ \A r \in old.drop : Cardinality(old.drop \ {r}) = Cardinality(old.drop) - 1
    BY <2>1, RepoSets
  <2>4. /\ Cardinality(new.add) \in Nat /\ Cardinality(new.add) <= Cardinality(Repos)
        /\ Cardinality(new.drop) \in Nat /\ Cardinality(new.drop) <= Cardinality(Repos)
    BY <2>1, RepoSets
  <2> QED BY <2>2, <2>3, <2>4
<1>4. old.pc = "list" => /\ old.sync /\ old.page \in Nat /\ 1 <= old.page /\ old.page <= all + 1
  BY <1>1, <1>3, PageRange DEF At
<1>5. /\ new.pc = "list" => new.page \in Nat /\ 1 <= new.page /\ new.page <= all + 1
      /\ old.pc \in {"saved", "repositories", "findInst"} => ~old.sync
      /\ old.pc = "readActive" => old.sync
  BY <1>1, <1>3, PagesInRangeNext DEF PagesInRange, At, IInv, ProcOK, Claiming, Syncing
<1>6. CASE new = Free
  <2>1. Left(new) = 0
    BY <1>6, LeftAt DEF Free
  <2>2. Left(old) \in Nat /\ Left(old) # 0
    BY <1>2, <1>3, <1>4, LeftAt DEF Pcs, Kinds
  <2> QED BY <1>1, <2>1, <2>2 DEF StepsLeft
<1>7. CASE Onward(old, new)
  <2> SUFFICES Left(new) < Left(old)
    BY <1>1 DEF StepsLeft
  <2>1. CASE old.pc \in {"verify", "check", "readOwner", "link"}
    BY <1>3, <1>5, <1>7, <2>1, LeftAt DEF Onward
  <2>2. CASE old.pc \in {"saved", "repositories", "pull", "findRepo", "findInst"}
    BY <1>3, <1>5, <1>7, <2>2, LeftAt DEF Onward
  <2>3. CASE old.pc = "list"
    BY <1>3, <1>4, <1>5, <1>7, <2>3, LeftAt DEF Onward
  <2>4. CASE old.pc = "add"
    <3>1. new.drop = old.drop /\ new.sync = old.sync
      BY <1>7, <2>4 DEF Onward
    <3>2. Left(old) = IF old.sync THEN add + all + 3 ELSE add + drop + 2
      BY <1>3, <2>4, LeftAt
    <3>3. CASE new.pc = "add"
      <4>1. add1 = add - 1
        BY <1>3, <1>7, <2>4, <3>3 DEF Onward
      <4>2. Left(new) = IF old.sync THEN add1 + all + 3 ELSE add1 + drop + 2
        BY <1>3, <3>1, <3>3, LeftAt
      <4> QED BY <3>2, <4>1, <4>2
    <3>4. CASE new.pc = (IF old.sync THEN "readActive" ELSE "drop")
      <4>1. Left(new) = IF old.sync THEN all + 2 ELSE drop + 1
        BY <1>3, <3>1, <3>4, LeftAt
      <4> QED BY <3>2, <4>1
    <3> QED BY <1>7, <2>4, <3>3, <3>4 DEF Onward
  <2>5. CASE old.pc \in {"readActive", "drop"}
    BY <1>3, <1>7, <2>5, LeftAt DEF Onward
  <2> QED BY <1>7, <2>1, <2>2, <2>3, <2>4, <2>5 DEF Onward
<1> QED
  BY <1>2, <1>6, <1>7

LEMMA NotMoreLeft ==
    ASSUME IInv, IInv', [Next]_vars, NEW p \in Procs, ~At(p, "idle")
    PROVE  StepsLeft(p)' <= StepsLeft(p)
<1>1. StepsLeft(p) \in Nat
  BY StepsInRange
<1>2. CASE Kept(p)
  <2>1. StepsLeft(p)' = StepsLeft(p)
    BY <1>2 DEF Kept, StepsLeft, Left
  <2> QED BY <1>1, <2>1
<1>3. CASE Serve(p)
  <2>1. StepsLeft(p)' < StepsLeft(p) /\ StepsLeft(p)' \in Nat
    BY <1>3, FewerLeft, StepsBoundedNext DEF StepsBounded, MaxSteps
  <2> QED BY <1>1, <2>1
<1>4. ASSUME NEW q \in Procs, NEW new, Begin(q, new)
      PROVE  Kept(p)
  BY <1>4 DEF Begin, At, Kept, IInv, TypeOK
<1>5. CASE UNCHANGED vars
  BY <1>2, <1>5 DEF vars, Kept
<1> QED
  BY <1>2, <1>3, <1>4, <1>5, OthersStay, GithubStays
     DEF Next, Receive, RequestClaim, RequestSync, Quiet

\* Whatever GitHub changes between two pages of a list and whatever the other
\* processes do, an event or a request is served in at most 3 n + 8 statements
\* and calls, where n is the number of repositories: the loop of
\* listInstallationRepositories, which has no bound of its own, ends
\* (github.service.ts).
THEOREM ServingTerminates ==
    Spec => []StepsBounded /\ ServingEnds
<1>1. IInv => StepsBounded
  BY StepsInRange DEF StepsBounded
<1>2. IInv /\ IInv' /\ [Next]_vars =>
        [\A p \in Procs :
            /\ Serve(p) => StepsLeft(p)' < StepsLeft(p)
            /\ ~At(p, "idle") => StepsLeft(p)' <= StepsLeft(p)]_vars
  BY FewerLeft, NotMoreLeft
<1> QED
  BY <1>1, <1>2, Always, PTL DEF Spec, ServingEnds

-----------------------------------------------------------------------------
(* The rows as Ingest has them.                                               *)

\* every uninstall was served, or is being served
Deleting == {p \in Procs : At(p, "deleted")}
UninstallsOK ==
    /\ IsFiniteSet(Deleting)
    /\ \A i \in Insts : epoch[i] + Cardinality(Deleting) <= served + 1

LEMMA FewerDeleting ==
    ASSUME IInv, UninstallsOK, Deleting' \subseteq Deleting,
           \A i \in Insts : epoch'[i] = epoch[i], served' \in Nat, served <= served'
    PROVE  UninstallsOK'
<1>1. /\ IsFiniteSet(Deleting') /\ Cardinality(Deleting') <= Cardinality(Deleting)
      /\ Cardinality(Deleting') \in Nat /\ Cardinality(Deleting) \in Nat
  BY FS_Subset, FS_CardinalityType DEF UninstallsOK
<1>2. served \in Nat /\ \A i \in Insts : epoch[i] \in Nat
  BY DEF IInv, TypeOK
<1> QED
  BY <1>1, <1>2 DEF UninstallsOK

LEMMA ServedDeletes ==
    ASSUME IInv, NEW p \in Procs, Serve(p)
    PROVE  procs'[p].pc # "deleted" /\ served' = served
BY ServeMoves DEF Onward, Free

LEMMA UninstallsInductive ==
    ASSUME IInv, UninstallsOK, [Next]_vars
    PROVE  UninstallsOK'
<1>1. served \in Nat /\ epoch \in [Insts -> Nat \ {0}] /\ procs \in [Procs -> Locals]
  BY DEF IInv, TypeOK
<1>2. CASE UNCHANGED vars
  BY <1>1, <1>2, FewerDeleting DEF vars, Deleting, At
<1>3. CASE Github
  <2>1. Deleting' \subseteq Deleting
    BY <1>3, GithubStays DEF Deleting, At, Kept
  <2>2. UNCHANGED <<epoch, served>>
    BY <1>3 DEF Github, GithubInstall, GithubUninstall, GithubSuspend, GithubUnsuspend,
                GithubAccept, GithubSelect, GithubPull, Emit
  <2> QED BY <1>1, <2>1, <2>2, FewerDeleting
<1>4. ASSUME NEW p \in Procs, NEW new, Begin(p, new)
      PROVE  UninstallsOK'
  <2>1. /\ served' = served + 1 /\ epoch' = epoch
        /\ \A q \in Procs \ {p} : procs'[q] = procs[q]
        /\ p \notin Deleting
    BY <1>1, <1>4 DEF Begin, Deleting, At
  <2>2. Deleting' \subseteq Deleting \cup {p}
    BY <2>1 DEF Deleting, At
  <2>3. /\ IsFiniteSet(Deleting \cup {p})
        /\ Cardinality(Deleting \cup {p}) = Cardinality(Deleting) + 1
    BY <2>1, FS_AddElement DEF UninstallsOK
  <2>4. /\ IsFiniteSet(Deleting') /\ Cardinality(Deleting') <= Cardinality(Deleting) + 1
        /\ Cardinality(Deleting') \in Nat /\ Cardinality(Deleting) \in Nat
    BY <2>2, <2>3, FS_Subset, FS_CardinalityType DEF UninstallsOK
  <2> QED BY <1>1, <2>1, <2>4 DEF UninstallsOK
<1>5. ASSUME NEW p \in Procs, Serve(p)
      PROVE  UninstallsOK'
  <2>1. Deleting' \subseteq Deleting \ {p} /\ served' = served
    BY <1>5, ServedDeletes, OthersStay DEF Deleting, At, Kept
  <2>2. CASE UNCHANGED epoch
    BY <1>1, <2>1, <2>2, FewerDeleting
  <2>3. CASE Delete(p)
    <3>1. /\ p \in Deleting /\ I(p) \in Insts
          /\ epoch' = [epoch EXCEPT ![I(p)] = @ + 1] \/ epoch' = epoch
      BY <1>1, <2>3 DEF Delete, Deleting, At, IInv, TypeOK
    <3>5. \A i \in Insts : epoch'[i] = epoch[i] \/ epoch'[i] = epoch[i] + 1
      BY <1>1, <3>1
    <3>6. \A i \in Insts : epoch'[i] <= epoch[i] + 1
      BY <1>1, <3>5
    <3>2. IsFiniteSet(Deleting \ {p}) /\ Cardinality(Deleting \ {p}) = Cardinality(Deleting) - 1
      BY <3>1, FS_RemoveElement DEF UninstallsOK
    <3>3. /\ IsFiniteSet(Deleting') /\ Cardinality(Deleting') <= Cardinality(Deleting) - 1
          /\ Cardinality(Deleting') \in Nat /\ Cardinality(Deleting) \in Nat
      BY <2>1, <3>2, FS_Subset, FS_CardinalityType DEF UninstallsOK
    <3>4. \A i \in Insts : epoch'[i] \in Nat
      BY <1>1, <3>5
    <3> QED BY <1>1, <2>1, <3>3, <3>4, <3>6 DEF UninstallsOK
  <2> QED BY <1>5, <2>2, <2>3 DEF Serve, Save, Suspend, Unsuspend, Place,
            CheckSuspended, FindRepository, FindInstallation,
            AddRepository, AddedAll, DropRepository, DroppedAll, Verify, CheckOwner, ReadOwner,
            Link, ListPage, ReadActive, Fail
<1> QED
  BY <1>2, <1>3, <1>4, <1>5 DEF Next, Receive, RequestClaim, RequestSync, Quiet

LEMMA UninstallsInitial ==
    ASSUME Init
    PROVE  UninstallsOK
<1>1. Deleting = {} /\ served = 0 /\ \A i \in Insts : epoch[i] = 1
  BY DEF Init, Deleting, At, Free
<1> QED
  BY <1>1, FS_EmptySet DEF UninstallsOK

LEMMA AlwaysUninstalls == Spec => [](IInv /\ UninstallsOK)
  BY Initial, Inductive, UninstallsInitial, UninstallsInductive, PTL DEF Spec

\* What GitHub does not say of r1 no other installation can write: not an event
\* of it, not a process that serves it.
StaysOK ==
    /\ \A e \in events : e.i # i1 => r1 \notin e.added
    /\ \A p \in Procs : I(p) # i1 => r1 \notin procs[p].add \cup procs[p].list
    /\ repo[r1] # None => repo[r1].inst = i1

LEMMA EmitKeepsStays ==
    ASSUME IInv, StaysOK, NEW i, NEW new, NEW kind, NEW added, NEW removed,
           Emit(i, new, kind, added, removed), i # i1 => r1 \notin added
    PROVE  StaysOK'
<1>1. \A q \in Procs : Kept(q)
  BY EmitStays
<1>2. \A e \in events' : e \in events \/ (e.i = i /\ e.added = added)
  BY DEF Emit
<1>3. repo' = repo
  BY DEF Emit
<1>4. \A e \in events' : e.i # i1 => r1 \notin e.added
  BY <1>2 DEF StaysOK
<1> QED
  BY <1>1, <1>3, <1>4 DEF StaysOK, Kept, I

LEMMA GithubKeepsStays ==
    ASSUME IInv, StaysOK, i1 \in Insts, r1 \in Repos, NotTransferred, NotTransferred', Github
    PROVE  StaysOK'
<1>1. PICK i \in Insts :
         \/ GithubInstall(i) \/ GithubUninstall(i) \/ GithubSuspend(i) \/ GithubUnsuspend(i)
         \/ GithubAccept(i) \/ GithubSelect(i) \/ GithubPull(i)
  BY DEF Github
<1>2. gh \in [Insts -> [state : {"absent", "installed", "suspended", "gone"}, repos : SUBSET Repos]]
  BY DEF IInv, TypeOK
<1>3. ASSUME NEW new, NEW kind, NEW added, NEW removed, Emit(i, new, kind, added, removed)
      PROVE  i # i1 => r1 \notin new.repos
  <2>1. gh'[i] = new
    BY <1>2, <1>3 DEF Emit
  <2> QED BY <2>1 DEF NotTransferred
<1>4. CASE GithubInstall(i)
  <2>1. PICK rs : Emit(i, [state |-> "installed", repos |-> rs], "saved", rs, {})
    BY <1>4 DEF GithubInstall
  <2>2. i # i1 => r1 \notin rs
    BY <1>3, <2>1
  <2> QED BY <2>1, <2>2, EmitKeepsStays
<1>5. CASE GithubUninstall(i) \/ GithubSuspend(i) \/ GithubUnsuspend(i) \/ GithubAccept(i)
  <2>1. PICK new, kind : Emit(i, new, kind, {}, {})
    BY <1>5, ZenonT(40) DEF GithubUninstall, GithubSuspend, GithubUnsuspend, GithubAccept
  <2> QED BY <2>1, EmitKeepsStays
<1>6. CASE GithubSelect(i)
  <2>1. CASE \E r \in Repos : Emit(i, [gh[i] EXCEPT !.repos = @ \cup {r}], "repositories", {r}, {})
    <3>1. PICK r \in Repos : Emit(i, [gh[i] EXCEPT !.repos = @ \cup {r}], "repositories", {r}, {})
      BY <2>1
    <3>2. r \in [gh[i] EXCEPT !.repos = @ \cup {r}].repos
      BY <1>2
    <3>3. i # i1 => r1 \notin [gh[i] EXCEPT !.repos = @ \cup {r}].repos
      BY <1>3, <3>1
    <3> QED BY <3>1, <3>2, <3>3, EmitKeepsStays
  <2>2. CASE \E r \in Repos : Emit(i, [gh[i] EXCEPT !.repos = @ \ {r}], "repositories", {}, {r})
    BY <2>2, EmitKeepsStays
  <2> QED BY <1>6, <2>1, <2>2 DEF GithubSelect
<1>7. CASE GithubPull(i)
  <2>1. PICK r \in gh[i].repos : Emit(i, gh[i], "pull", {r}, {})
    BY <1>7 DEF GithubPull
  <2>2. i # i1 => r1 \notin {r}
    BY <2>1 DEF NotTransferred
  <2> QED BY <2>1, <2>2, EmitKeepsStays
<1> QED
  BY <1>1, <1>4, <1>5, <1>6, <1>7

\* only AddRepository gives a repository to another installation
LEMMA RowStays ==
    ASSUME IInv, StaysOK, i1 \in Insts, r1 \in Repos, NEW p \in Procs, Serve(p)
    PROVE  repo'[r1] # None => repo'[r1].inst = i1
<1>1. repo \in [Repos -> RepoRows \cup {None}]
  BY DEF IInv, TypeOK
<1>2. CASE UNCHANGED repo
  BY <1>2 DEF StaysOK
<1>3. CASE Delete(p)
  <2>1. repo' = repo \/ repo' = Cascade(I(p))
    BY <1>3 DEF Delete
  <2> QED BY <1>1, <2>1 DEF Cascade, StaysOK
<1>4. CASE AddRepository(p)
  <2>1. PICK r \in procs[p].add : repo' = [repo EXCEPT ![r] = Upserted(I(p), r)]
    BY <1>4 DEF AddRepository
  <2>2. r = r1 => I(p) = i1
    BY DEF StaysOK
  <2>3. r = r1 => repo'[r1].inst = i1
    BY <1>1, <2>1, <2>2 DEF Upserted
  <2> QED BY <1>1, <2>1, <2>3 DEF StaysOK
<1>5. CASE DropRepository(p)
  <2>1. PICK r : repo' = IF repo[r] = None THEN repo ELSE [repo EXCEPT ![r].active = FALSE]
    BY <1>5 DEF DropRepository
  <2>2. repo'[r1] = repo[r1] \/ (repo[r1] # None /\ repo'[r1] = [repo[r1] EXCEPT !.active = FALSE])
    BY <1>1, <2>1
  <2>3. repo[r1] # None => [repo[r1] EXCEPT !.active = FALSE].inst = repo[r1].inst
    BY <1>1 DEF RepoRows
  <2> QED BY <2>2, <2>3 DEF StaysOK
<1> QED
  BY <1>2, <1>3, <1>4, <1>5 DEF Serve, Save, Suspend, Unsuspend, Place,
            CheckSuspended, FindRepository, FindInstallation,
     AddedAll, DroppedAll, Verify, CheckOwner, ReadOwner, Link, ListPage, ReadActive, Fail

LEMMA ServeKeepsStays ==
    ASSUME IInv, StaysOK, i1 \in Insts, r1 \in Repos, NotTransferred, NEW p \in Procs, Serve(p)
    PROVE  StaysOK'
<1>1. events' = events
  BY DEF Serve, Save, Delete, Suspend, Unsuspend, Place,
            CheckSuspended, FindRepository, FindInstallation, AddRepository,
         AddedAll, DropRepository, DroppedAll, Verify, CheckOwner, ReadOwner, Link, ListPage,
         ReadActive, Fail
<1>2. ASSUME NEW q \in Procs, I(q)' # i1
      PROVE  r1 \notin procs'[q].add \cup procs'[q].list
  <2>1. CASE q # p
    <3>1. Kept(q)
      BY <2>1, OthersStay
    <3> QED BY <1>2, <3>1 DEF StaysOK, Kept, I
  <2>2. CASE q = p /\ procs'[p] = Free
    BY <2>2 DEF Free
  <2>3. CASE q = p /\ Onward(procs[p], procs'[p])
    <3>1. I(p) # i1 /\ I(p) \in Insts
      BY <1>2, <2>3, ServeMoves DEF Onward, I, IInv, TypeOK, Busy
    <3>2. r1 \notin procs[p].add \cup procs[p].list /\ r1 \notin gh[procs[p].i].repos
      BY <3>1 DEF StaysOK, NotTransferred, I
    <3>3. procs'[p].add \cup procs'[p].list
             \subseteq procs[p].add \cup procs[p].list \cup gh[procs[p].i].repos
      BY <2>3 DEF Onward
    <3> QED BY <2>3, <3>2, <3>3
  <2> QED BY <2>1, <2>2, <2>3, ServeMoves
<1>3. repo'[r1] # None => repo'[r1].inst = i1
  BY RowStays
<1> QED
  BY <1>1, <1>2, <1>3 DEF StaysOK

LEMMA StaysInductive ==
    ASSUME IInv, StaysOK, i1 \in Insts, r1 \in Repos, NotTransferred, NotTransferred', [Next]_vars
    PROVE  StaysOK'
<1>1. CASE UNCHANGED vars
  BY <1>1 DEF vars, StaysOK, I
<1>2. CASE Github
  BY <1>2, GithubKeepsStays
<1>3. ASSUME NEW p \in Procs, NEW new, Begin(p, new), new.i # i1 => r1 \notin new.add \cup new.list
      PROVE  StaysOK'
  <2>1. procs'[p] = new /\ \A q \in Procs \ {p} : procs'[q] = procs[q]
    BY <1>3 DEF Begin, IInv, TypeOK
  <2>2. UNCHANGED <<events, repo>>
    BY <1>3 DEF Begin
  <2> QED BY <1>3, <2>1, <2>2 DEF StaysOK, I
<1>4. ASSUME NEW p \in Procs, NEW e \in events, Receive(p, e)
      PROVE  StaysOK'
  <2> DEFINE new == [Free EXCEPT !.pc = e.kind, !.i = e.i, !.add = e.added, !.drop = e.removed]
  <2>1. Begin(p, new) /\ new.i = e.i /\ new.add = e.added /\ new.list = {}
    BY <1>4 DEF Receive, Free
  <2>2. e.i # i1 => r1 \notin e.added
    BY DEF StaysOK
  <2> HIDE DEF new
  <2> QED BY <1>3, <2>1, <2>2
<1>5. ASSUME NEW p \in Procs, NEW u \in Users, NEW i \in Insts, RequestClaim(p, u, i)
      PROVE  StaysOK'
  <2> DEFINE new == [Free EXCEPT !.pc = "verify", !.i = i, !.user = u, !.sync = TRUE,
                                 !.open = (UserOf(i) = None)]
  <2>1. Begin(p, new) /\ new.add = {} /\ new.list = {}
    BY <1>5 DEF RequestClaim, Free
  <2> HIDE DEF new
  <2> QED BY <1>3, <2>1
<1>6. ASSUME NEW p \in Procs, NEW u \in Users, NEW i \in Insts, RequestSync(p, u, i)
      PROVE  StaysOK'
  <2> DEFINE new == Listing(u, i)
  <2>1. Begin(p, new) /\ new.add = {} /\ new.list = {}
    BY <1>6 DEF RequestSync, Listing, Free
  <2> HIDE DEF new
  <2> QED BY <1>3, <2>1
<1>7. ASSUME NEW p \in Procs, Serve(p)
      PROVE  StaysOK'
  BY <1>7, ServeKeepsStays
<1> QED
  BY <1>1, <1>2, <1>4, <1>5, <1>6, <1>7 DEF Next, Quiet

LEMMA StaysInitial ==
    ASSUME Init, r1 \in Repos
    PROVE  StaysOK
BY DEF Init, StaysOK, Free, I

\* a step that keeps the row and which repositories there are
LEMMA SameRows ==
    ASSUME epoch'[i1] = epoch[i1], inst'[i1] = inst[i1], repo'[r1] = None <=> repo[r1] = None
    PROVE  UNCHANGED Rows!vars
  BY DEF Rows!vars, Rows!rows, Rows!github, Empty

LEMMA SavedRows ==
    ASSUME UNCHANGED <<epoch, repo>>, NEW user, NEW suspended \in BOOLEAN,
           inst'[i1] = [user |-> user, suspended |-> suspended]
    PROVE  Rows!SaveInstallation([user |-> user, suspended |-> suspended])
  BY DEF Rows!SaveInstallation, Rows!Opened, Rows!github, Empty

LEMMA EventsFollow ==
    ASSUME IInv, UninstallsOK, i1 \in Insts, r1 \in Repos, NEW p \in Procs, I(p) = i1,
           \/ Save(p) \/ Place(p) \/ Suspend(p) \/ Unsuspend(p) \/ Link(p)
    PROVE  [Rows!Next]_Rows!vars
<1>1. I(p) = i1 /\ inst \in [Insts -> InstRows \cup {None}]
  BY DEF IInv, TypeOK
<1>2. UNCHANGED <<epoch, repo>>
  BY DEF Save, Place, Suspend, Unsuspend, Link
<1>3. CASE UNCHANGED inst
  BY <1>2, <1>3, SameRows
<1>4. ASSUME NEW user, NEW suspended \in BOOLEAN, SetInst(i1, user, suspended)
      PROVE  Rows!SaveInstallation([user |-> user, suspended |-> suspended])
  BY <1>1, <1>2, <1>4, SavedRows DEF SetInst
<1>5. Rows!UserOf = UserOf(i1)
  BY DEF Rows!UserOf, UserOf
<1>6. CASE Save(p)
  <2>1. SetInst(i1, UserOf(i1), FALSE)
    BY <1>1, <1>6 DEF Save
  <2> QED BY <1>4, <1>5, <2>1 DEF Rows!Next, Rows!Installation, Rows!UpsertInstallation
<1>7. CASE Place(p) /\ ~UNCHANGED inst
  <2>1. SetInst(i1, UserOf(i1), FALSE)
    BY <1>1, <1>7 DEF Place, UserOf
  <2> QED BY <1>4, <1>5, <2>1 DEF Rows!Next, Rows!Installation, Rows!UpsertInstallation
<1>8. CASE Suspend(p)
  <2>1. SetInst(i1, UserOf(i1), TRUE)
    BY <1>1, <1>8 DEF Suspend
  <2> QED BY <1>4, <1>5, <2>1 DEF Rows!Next, Rows!Installation, Rows!Suspend
<1>9. CASE Unsuspend(p) /\ ~UNCHANGED inst
  <2>1. inst[i1] # None /\ SetInst(i1, UserOf(i1), FALSE)
    BY <1>1, <1>9 DEF Unsuspend
  <2> QED BY <1>4, <1>5, <2>1 DEF Rows!Next, Rows!Installation, Rows!Unsuspend
<1>10. CASE Link(p)
  <2>1. procs[p].user \in Users
    BY <1>10 DEF Link, IInv, ProcOK, Claiming, ClaimOK, At
  <2>2. SetInst(i1, LinkedUser(p), FALSE) /\ LinkedUser(p) \in {procs[p].user, UserOf(i1)}
    BY <1>1, <1>10 DEF Link, LinkedUser
  <2> QED BY <1>4, <1>5, <2>1, <2>2 DEF Rows!Next, Rows!Installation, Rows!Claim
<1> QED
  BY <1>3, <1>6, <1>7, <1>8, <1>9, <1>10

LEMMA DeleteFollows ==
    ASSUME IInv, UninstallsOK, StaysOK, i1 \in Insts, r1 \in Repos, NEW p \in Procs, I(p) = i1,
           Delete(p)
    PROVE  [Rows!Next]_Rows!vars
<1>1. I(p) = i1 /\ inst \in [Insts -> InstRows \cup {None}] /\ epoch \in [Insts -> Nat \ {0}]
      /\ p \in Deleting /\ served \in 0..MaxServed
  BY DEF IInv, TypeOK, Delete, At, Deleting
<1>2. CASE inst[i1] = None
  BY <1>1, <1>2, SameRows DEF Delete
<1>3. CASE inst[i1] # None
  <2>0. /\ inst' = [inst EXCEPT ![i1] = None] /\ epoch' = [epoch EXCEPT ![i1] = @ + 1]
        /\ repo' = Cascade(i1)
    BY <1>1, <1>3 DEF Delete
  <2>1. inst'[i1] = None /\ epoch'[i1] = epoch[i1] + 1 /\ repo' = Cascade(i1)
    BY <1>1, <2>0
  <2>2. repo'[r1] = None
    <3>1. repo[r1] # None => repo[r1].inst = i1
      BY DEF StaysOK
    <3> QED BY <2>1, <3>1 DEF Cascade
  <2>3. epoch[i1] <= MaxServed
    <3>1. IsFiniteSet(Deleting \ {p}) /\ Cardinality(Deleting \ {p}) = Cardinality(Deleting) - 1
      BY <1>1, FS_RemoveElement DEF UninstallsOK
    <3>2. Cardinality(Deleting) \in Nat /\ Cardinality(Deleting) >= 1
      BY <3>1, FS_CardinalityType DEF UninstallsOK
    <3>3. epoch[i1] + Cardinality(Deleting) <= served + 1 /\ epoch[i1] \in Nat
      BY <1>1 DEF UninstallsOK
    <3> QED BY <1>1, <3>2, <3>3, InstallationsAssumption
  <2>4. Rows!Room /\ 0 + epoch[i1] <= MaxServed
    BY <1>1, <2>3, InstallationsAssumption DEF Rows!Room
  <2>5. Rows!Uninstall
    BY <1>3, <2>1, <2>2, <2>4 DEF Rows!Uninstall, Rows!Opened, Rows!github, Empty
  <2> QED BY <2>5 DEF Rows!Next, Rows!Installation
<1> QED
  BY <1>2, <1>3

LEMMA RepositoriesFollow ==
    ASSUME IInv, StaysOK, i1 \in Insts, r1 \in Repos, NEW p \in Procs,
           AddRepository(p) \/ DropRepository(p)
    PROVE  [Rows!Next]_Rows!vars
<1>1. I(p) \in Insts /\ repo \in [Repos -> RepoRows \cup {None}]
      /\ UNCHANGED <<gh, events, inst, epoch, served>>
  BY DEF IInv, TypeOK, AddRepository, DropRepository, At
<1>2. CASE DropRepository(p)
  <2>1. PICK r \in Repos : repo' = IF repo[r] = None THEN repo ELSE [repo EXCEPT ![r].active = FALSE]
    BY <1>2 DEF DropRepository, IInv, TypeOK, Locals
  <2>2. repo'[r1] = None <=> repo[r1] = None
    <3>1. CASE repo[r] # None /\ r = r1
      <4>1. repo[r] \in RepoRows /\ repo'[r1] = [repo[r1] EXCEPT !.active = FALSE]
        BY <1>1, <2>1, <3>1
      <4>2. repo'[r1] \in RepoRows
        BY <3>1, <4>1 DEF RepoRows
      <4> QED BY <3>1, <4>2, InstallationsAssumption DEF RepoRows
    <3>2. CASE repo[r] = None \/ r # r1
      BY <1>1, <2>1, <3>2
    <3> QED BY <3>1, <3>2
  <2> QED BY <1>1, <2>2, SameRows
<1>3. CASE AddRepository(p)
  <2>1. PICK r \in procs[p].add : repo' = [repo EXCEPT ![r] = Upserted(I(p), r)]
    BY <1>3 DEF AddRepository
  <2>2. /\ r \in Repos /\ inst[I(p)] # None /\ Upserted(I(p), r) # None
        /\ r = r1 => I(p) = i1
    <3>1. r \in Repos
      BY DEF IInv, TypeOK, Locals
    <3>2. r = r1 => I(p) = i1
      BY DEF StaysOK
    <3>3. inst[I(p)] # None
      BY <1>3 DEF AddRepository
    <3>4. Upserted(I(p), r) # None
      BY <1>1, InstallationsAssumption DEF Upserted
    <3> QED BY <3>1, <3>2, <3>3, <3>4
  <2>3. CASE r = r1 /\ repo[r1] = None
    <3>1. repo'[r1] # None
      BY <1>1, <2>1, <2>2, <2>3
    <3>2. Rows!AddRepository
      BY <1>1, <2>2, <2>3, <3>1 DEF Rows!AddRepository, Rows!github, Empty
    <3> QED BY <3>2 DEF Rows!Next, Rows!Installation
  <2>4. CASE ~(r = r1 /\ repo[r1] = None)
    <3>1. repo'[r1] = None <=> repo[r1] = None
      BY <1>1, <2>1, <2>2, <2>4
    <3> QED BY <1>1, <3>1, SameRows
  <2> QED BY <2>3, <2>4
<1> QED
  BY <1>2, <1>3

\* what a process does for another installation does not show
LEMMA OthersDoNotFollow ==
    ASSUME IInv, StaysOK, i1 \in Insts, r1 \in Repos, NEW p \in Procs, I(p) # i1,
           \/ Save(p) \/ Place(p) \/ Suspend(p) \/ Unsuspend(p) \/ Link(p) \/ Delete(p)
    PROVE  UNCHANGED Rows!vars
<1>1. inst'[i1] = inst[i1]
  BY DEF IInv, TypeOK, Save, Place, Suspend, Unsuspend, Link, Delete, SetInst
<1>2. epoch'[i1] = epoch[i1]
  BY DEF IInv, TypeOK, Save, Place, Suspend, Unsuspend, Link, Delete
<1>3. repo'[r1] = repo[r1]
  <2>1. repo' = repo \/ repo' = Cascade(I(p))
    BY DEF Save, Place, Suspend, Unsuspend, Link, Delete
  <2> QED BY <2>1 DEF Cascade, StaysOK
<1> QED
  BY <1>1, <1>2, <1>3, SameRows

LEMMA StepFollows ==
    ASSUME IInv, UninstallsOK, StaysOK, i1 \in Insts, r1 \in Repos, [Next]_vars
    PROVE  [Rows!Next]_Rows!vars
<1>1. CASE UNCHANGED <<inst, epoch, repo>>
  BY <1>1, SameRows
<1>2. ASSUME NEW p \in Procs, Serve(p)
      PROVE  [Rows!Next]_Rows!vars
  <2>1. CASE \/ Save(p) \/ Place(p) \/ Suspend(p) \/ Unsuspend(p) \/ Link(p) \/ Delete(p)
    BY <2>1, EventsFollow, DeleteFollows, OthersDoNotFollow
  <2> QED BY <1>1, <1>2, <2>1, RepositoriesFollow DEF Serve,
            CheckSuspended, FindRepository, FindInstallation,
     AddedAll, DroppedAll, Verify, CheckOwner, ReadOwner, ListPage, ReadActive, Fail
<1>3. Github => UNCHANGED <<inst, epoch, repo>>
  BY DEF Github, GithubInstall, GithubUninstall, GithubSuspend, GithubUnsuspend,
         GithubAccept, GithubSelect, GithubPull, Emit
<1> QED
  BY <1>1, <1>2, <1>3 DEF Next, Receive, RequestClaim, RequestSync, Begin, Quiet, vars

LEMMA InitFollows ==
    ASSUME Init, i1 \in Insts, r1 \in Repos
    PROVE  Rows!Init
<1>1. inst[i1] = None /\ epoch[i1] = 1 /\ repo[r1] = None
  BY DEF Init
<1>2. Empty(None) \in [{} -> [open : BOOLEAN, head : {0, 1}] \ {[open |-> TRUE, head |-> 0]}]
  BY DEF Empty
<1> QED
  BY <1>1, <1>2 DEF Rows!Init, Empty

\* A repository that GitHub covers by one installation only stays with it, in
\* whatever order the events and the requests of all the installations are
\* served: no late or repeated event, and no synchronisation of another
\* installation, takes the row over (repository.service.ts upsertRepository).
THEOREM RowsStay ==
    ASSUME i1 \in Insts, r1 \in Repos
    PROVE  Spec /\ []NotTransferred => [](repo[r1] # None => repo[r1].inst = i1)
<1>1. Init => StaysOK
  BY StaysInitial
<1>2. IInv /\ NotTransferred /\ NotTransferred' /\ StaysOK /\ [Next]_vars => StaysOK'
  BY StaysInductive
<1>3. StaysOK => (repo[r1] # None => repo[r1].inst = i1)
  BY DEF StaysOK
<1> QED
  BY <1>1, <1>2, <1>3, Always, PTL DEF Spec

\* Whatever the other installations do, what Installations does to the rows of
\* one of them and of a repository it keeps is what Ingest lets its environment
\* do: Installations, statement by statement, implements the rows that the
\* handlers of Ingest read (repository.service.ts, webhook.service.ts).
THEOREM RowsImplemented ==
    ASSUME i1 \in Insts, r1 \in Repos
    PROVE  Spec /\ []NotTransferred => RowsFollowIngest
<1>1. Init => Rows!Init /\ StaysOK
  BY InitFollows, StaysInitial
<1>2. IInv /\ NotTransferred /\ NotTransferred' /\ StaysOK /\ [Next]_vars => StaysOK'
  BY StaysInductive
<1>3. IInv /\ UninstallsOK /\ StaysOK /\ [Next]_vars => [Rows!Next]_Rows!vars
  BY StepFollows
<1> QED
  BY <1>1, <1>2, <1>3, AlwaysUninstalls, PTL DEF Spec, RowsFollowIngest, Rows!Spec

\* Of a single installation nothing needs to be assumed.
THEOREM RowsImplementedAlone ==
    ASSUME Insts = {i1}, r1 \in Repos
    PROVE  Spec => RowsFollowIngest
<1>1. i1 \in Insts
  OBVIOUS
<1>2. NotTransferred
  BY DEF NotTransferred
<1>3. []NotTransferred
  BY <1>2, PTL
<1>4. Spec /\ []NotTransferred => RowsFollowIngest
  BY <1>1, RowsImplemented
<1> QED
  BY <1>3, <1>4
=============================================================================
