--------------------------- MODULE LlmAccessProofs ---------------------------
EXTENDS LlmAccess, FiniteSetTheorems, TLAPS

(* The inductive invariant. *)

\* a call of u on day d that was counted, within the limit, and not yet tested
Counts(call, u, d) ==
    /\ call.pc \in {"expire", "test"}
    /\ call.u = u /\ call.on = d
    /\ call.count <= dailyLimit

Held(u, d) == {c \in Calls : Counts(calls[c], u, d)}
InTime(u, d) == {c \in Calls : Counts(calls[c], u, d) /\ ~calls[c].late}
Holds(u, d) == Cardinality(Held(u, d))
Timely(u, d) == Cardinality(InTime(u, d))

\* what accounts for the counts of u on day d: it never falls, even when Redis
\* forgets the counter
Spent(u, d) == granted[u][d] + Holds(u, d) + faults
Covers(n, u, d) == n <= Spent(u, d) \/ dailyLimit <= Spent(u, d)

\* calls let through that the counter of the day has seen, or is sure to see
Used(u, d) == granted[u][d] + Timely(u, d)

\* The counter of a day outlives the day, so that the calls it counts in time
\* have counts of their own.
Meter(u, d) ==
    /\ counters[u][d].expires > d
    /\ Used(u, d) <= late[u][d] + dailyLimit
    /\ day <= d => Used(u, d) <= late[u][d] + counters[u][d].count
    /\ Covers(counters[u][d].count, u, d)

Asked(c) ==
    /\ calls[c].pc # "idle" => calls[c].result = "none"
    /\ calls[c].pc \in {"incr", "expire", "test"} => Key(c) = calls[c].on /\ Key(c) <= day
    /\ calls[c].pc \in {"expire", "test"} => Covers(calls[c].count, U(c), calls[c].on)
    /\ calls[c].result = "refused" =>
          U(c) \in Users /\ dailyLimit <= Spent(U(c), calls[c].on)

\* the settings of a call that is steady are those it began with
Owned(c) ==
    calls[c].steady =>
        /\ U(c) \in Users /\ Steady(U(c), mode[U(c)], configs[U(c)])
        /\ calls[c].pc \notin {"incr", "expire", "test"}
        /\ calls[c].result \notin {"refused", "noConfig"}

Expiring(u, d) ==
    counters[u][d].count > 0 /\ counters[u][d].expires = Never =>
        faults > 0 \/ \E c \in Calls : At(c, "expire") /\ U(c) = u /\ Key(c) = d

MetersOK == \A u \in Users, d \in Days : Meter(u, d)
AskedOK == \A c \in Calls : Asked(c)
OwnedOK == \A c \in Calls : Owned(c)
ExpiringOK == \A u \in Users, d \in Days : Expiring(u, d)

IInv ==
    /\ TypeOK
    /\ MetersOK
    /\ AskedOK
    /\ OwnedOK
    /\ ExpiringOK

-----------------------------------------------------------------------------
(* Counting.                                                                *)

LEMMA HeldFinite ==
    ASSUME NEW u, NEW d
    PROVE  /\ IsFiniteSet(Held(u, d)) /\ Holds(u, d) \in Nat
           /\ IsFiniteSet(InTime(u, d)) /\ Timely(u, d) \in Nat
<1>1. IsFiniteSet(Held(u, d)) /\ IsFiniteSet(InTime(u, d))
  BY AccessAssumption, FS_Subset DEF Held, InTime
<1> QED
  BY <1>1, FS_CardinalityType DEF Holds, Timely

\* sets that agree but for one member
LEMMA OneMember ==
    ASSUME NEW S, NEW T, IsFiniteSet(S), NEW c, T \ {c} = S \ {c}
    PROVE  /\ c \notin S /\ c \in T => Cardinality(T) = Cardinality(S) + 1
           /\ c \in S /\ c \notin T => Cardinality(T) = Cardinality(S) - 1
           /\ (c \in S <=> c \in T) => Cardinality(T) = Cardinality(S)
<1>1. CASE c \notin S /\ c \in T
  <2>1. T = S \cup {c}
    BY <1>1
  <2> QED BY <1>1, <2>1, FS_AddElement
<1>2. CASE c \in S /\ c \notin T
  <2>1. T = S \ {c}
    BY <1>2
  <2> QED BY <1>2, <2>1, FS_RemoveElement
<1>3. CASE c \in S <=> c \in T
  <2>1. T = S
    BY <1>3
  <2> QED BY <1>3, <2>1
<1> QED
  BY <1>1, <1>2, <1>3

\* call c becomes new
LEMMA CallMoves ==
    ASSUME TypeOK, NEW c \in Calls, NEW new \in Locals, calls' = [calls EXCEPT ![c] = new],
           NEW u \in Users, NEW d \in Days
    PROVE  /\ ~Counts(calls[c], u, d) /\ Counts(new, u, d) => Holds(u, d)' = Holds(u, d) + 1
           /\ Counts(calls[c], u, d) /\ ~Counts(new, u, d) => Holds(u, d)' = Holds(u, d) - 1
           /\ (Counts(calls[c], u, d) <=> Counts(new, u, d)) => Holds(u, d)' = Holds(u, d)
           /\ ~(Counts(calls[c], u, d) /\ ~calls[c].late) /\ Counts(new, u, d) /\ ~new.late =>
                 Timely(u, d)' = Timely(u, d) + 1
           /\ Counts(calls[c], u, d) /\ ~calls[c].late /\ ~(Counts(new, u, d) /\ ~new.late) =>
                 Timely(u, d)' = Timely(u, d) - 1
           /\ (Counts(calls[c], u, d) /\ ~calls[c].late <=> Counts(new, u, d) /\ ~new.late) =>
                 Timely(u, d)' = Timely(u, d)
<1>1. \A k \in Calls : calls'[k] = IF k = c THEN new ELSE calls[k]
  BY DEF TypeOK
<1> DEFINE S == Held(u, d)
           T == Held(u, d)'
           A == InTime(u, d)
           B == InTime(u, d)'
<1>2. /\ T \ {c} = S \ {c} /\ IsFiniteSet(S) /\ B \ {c} = A \ {c} /\ IsFiniteSet(A)
      /\ c \in S <=> Counts(calls[c], u, d)
      /\ c \in T <=> Counts(new, u, d)
      /\ c \in A <=> Counts(calls[c], u, d) /\ ~calls[c].late
      /\ c \in B <=> Counts(new, u, d) /\ ~new.late
  BY <1>1, HeldFinite DEF Held, InTime
<1>3. Holds(u, d)' = Cardinality(T) /\ Timely(u, d)' = Cardinality(B)
      /\ Holds(u, d) = Cardinality(S) /\ Timely(u, d) = Cardinality(A)
  BY DEF Holds, Timely
<1>4. /\ c \notin S /\ c \in T => Cardinality(T) = Cardinality(S) + 1
      /\ c \in S /\ c \notin T => Cardinality(T) = Cardinality(S) - 1
      /\ (c \in S <=> c \in T) => Cardinality(T) = Cardinality(S)
  BY <1>2, OneMember
<1>5. /\ c \notin A /\ c \in B => Cardinality(B) = Cardinality(A) + 1
      /\ c \in A /\ c \notin B => Cardinality(B) = Cardinality(A) - 1
      /\ (c \in A <=> c \in B) => Cardinality(B) = Cardinality(A)
  BY <1>2, OneMember
<1> HIDE DEF S, T, A, B
<1> QED
  BY <1>2, <1>3, <1>4, <1>5

LEMMA CallKeeps ==
    ASSUME TypeOK, NEW c \in Calls, NEW new \in Locals, calls' = [calls EXCEPT ![c] = new],
           NEW u \in Users, NEW d \in Days,
           Counts(calls[c], u, d) <=> Counts(new, u, d),
           Counts(calls[c], u, d) /\ ~calls[c].late <=> Counts(new, u, d) /\ ~new.late
    PROVE  Holds(u, d)' = Holds(u, d) /\ Timely(u, d)' = Timely(u, d)
  BY CallMoves

LEMMA SpentType ==
    ASSUME TypeOK, NEW u \in Users, NEW d \in Days
    PROVE  /\ Spent(u, d) \in Nat /\ Used(u, d) \in Nat
           /\ granted[u][d] \in Nat /\ late[u][d] \in Nat /\ faults \in Nat
           /\ counters[u][d] \in [count : Nat, expires : Nat]
           /\ counters[u][d].count \in Nat /\ counters[u][d].expires \in Nat
           /\ d \in Nat /\ day \in Nat
<1>1. /\ granted[u][d] \in Nat /\ late[u][d] \in Nat /\ faults \in Nat
      /\ counters[u][d] \in [count : Nat, expires : Nat] /\ d \in Nat /\ day \in Nat
  BY AccessAssumption DEF TypeOK, Days
<1> QED
  BY <1>1, HeldFinite DEF Spent, Used

-----------------------------------------------------------------------------
(* A call goes on.                                                          *)

Moves(c, new) ==
    /\ calls' = [calls EXCEPT ![c] = new]
    /\ new.pc # "idle" => new.u \in Users
    /\ day' = day /\ configs' = configs
    /\ mode' \in [Users -> {"FREE", "BYOK"}]
    /\ \A u \in Users : mode'[u] \in {mode[u], "BYOK"}
    /\ counters' \in [Users -> [Days -> [count : Nat, expires : Nat]]]
    /\ faults' \in 0..MaxFaults
    /\ granted' \in [Users -> [Days -> Nat]] /\ late' \in [Users -> [Days -> Nat]]
    /\ \A u \in Users, d \in Days : Spent(u, d)' >= Spent(u, d)

\* what is asked of a call stays true of the calls that do not move
LEMMA AskedKept ==
    ASSUME IInv, TypeOK', NEW k \in Calls, day' >= day,
           \A f \in {"pc", "u", "key", "count", "on", "result"} : calls'[k][f] = calls[k][f],
           \A u \in Users, d \in Days : Spent(u, d)' >= Spent(u, d)
    PROVE  Asked(k)'
<1>1. TypeOK /\ Asked(k)
  BY DEF IInv, AskedOK
<1>2. /\ calls'[k].pc = calls[k].pc /\ calls'[k].key = calls[k].key /\ calls'[k].on = calls[k].on
      /\ calls'[k].u = calls[k].u /\ calls'[k].count = calls[k].count
      /\ calls'[k].result = calls[k].result /\ calls[k].count \in Nat
      /\ calls[k].key \in Nat /\ calls[k].on \in Days /\ day \in Nat /\ day' \in Nat
  BY <1>1, AccessAssumption DEF TypeOK, Locals, Days
<1>3. calls[k].pc \in {"incr", "expire", "test"} => calls[k].key = calls[k].on /\ calls[k].key <= day'
  BY <1>1, <1>2 DEF Asked, Key
<1>4. \A u \in Users, d \in Days : Spent(u, d) \in Nat /\ Spent(u, d)' \in Nat
  <2>1. ASSUME NEW u \in Users, NEW d \in Days PROVE Spent(u, d)' \in Nat
    <3>1. Holds(u, d)' \in Nat
      <4>1. IsFiniteSet(Held(u, d)')
        <5>1. Held(u, d)' \subseteq Calls
          BY DEF Held
        <5> QED BY <5>1, AccessAssumption, FS_Subset
      <4> QED BY <4>1, FS_CardinalityType DEF Holds
    <3>2. granted'[u][d] \in Nat /\ faults' \in Nat
      BY AccessAssumption DEF TypeOK
    <3> QED BY <3>1, <3>2 DEF Spent
  <2> QED BY <1>1, <2>1, SpentType
<1>5. ASSUME NEW u \in Users, u = calls[k].u, NEW d \in Days, d = calls[k].on
      PROVE  /\ calls[k].pc \in {"expire", "test"} => Covers(calls[k].count, u, d)'
             /\ calls[k].result = "refused" => dailyLimit <= Spent(u, d)'
  <2>1. /\ Spent(u, d)' >= Spent(u, d) /\ Spent(u, d) \in Nat /\ Spent(u, d)' \in Nat
        /\ dailyLimit \in Nat
    BY <1>4, AccessAssumption
  <2>2. /\ calls[k].pc \in {"expire", "test"} =>
              calls[k].count <= Spent(u, d) \/ dailyLimit <= Spent(u, d)
        /\ calls[k].result = "refused" => dailyLimit <= Spent(u, d)
    BY <1>1, <1>5 DEF Asked, Covers, U
  <2> QED BY <1>2, <2>1, <2>2 DEF Covers
<1>6. calls[k].pc \in {"expire", "test"} \/ calls[k].result = "refused" => calls[k].u \in Users
  BY <1>1 DEF TypeOK, Asked, At, U
<1> QED
  BY <1>1, <1>2, <1>3, <1>5, <1>6 DEF Asked, U, Key

LEMMA CallStep ==
    ASSUME IInv, NEW c \in Calls, NEW new \in Locals, Moves(c, new), MetersOK', ExpiringOK',
           \A k \in {c} : Asked(k)' /\ Owned(k)'
    PROVE  IInv'
<1>1. TypeOK /\ AskedOK /\ OwnedOK
  BY DEF IInv
<1>2. \A k \in Calls : calls'[k] = IF k = c THEN new ELSE calls[k]
  BY <1>1 DEF Moves, TypeOK
<1>3. TypeOK'
  <2>1. calls' \in [Calls -> Locals]
    BY <1>1 DEF Moves, TypeOK
  <2>2. \A k \in Calls : ~At(k, "idle")' => U(k)' \in Users
    BY <1>1, <1>2 DEF Moves, TypeOK, At, U
  <2> QED BY <1>1, <2>1, <2>2 DEF Moves, TypeOK
<1>4. AskedOK'
  <2>1. ASSUME NEW k \in Calls \ {c} PROVE Asked(k)'
    <3>1. calls'[k] = calls[k] /\ day' >= day
      BY <1>1, <1>2, AccessAssumption DEF Moves, TypeOK, Days
    <3> QED BY <1>3, <3>1, AskedKept DEF Moves
  <2> QED BY <2>1 DEF AskedOK
<1>5. OwnedOK'
  <2>1. ASSUME NEW k \in Calls \ {c} PROVE Owned(k)'
    <3>1. calls'[k] = calls[k] /\ Owned(k) /\ configs' = configs
      BY <1>1, <1>2 DEF Moves, OwnedOK
    <3>2. U(k) \in Users => mode'[U(k)] \in {mode[U(k)], "BYOK"}
      BY DEF Moves
    <3> QED BY <3>1, <3>2 DEF Owned, U, Steady
  <2> QED BY <2>1 DEF OwnedOK
<1> QED
  BY <1>3, <1>4, <1>5 DEF IInv

\* a call that is not counted, before or after, and changes no setting but to BYOK
Aside(c, new) ==
    /\ calls' = [calls EXCEPT ![c] = new]
    /\ new.pc # "idle" => new.u \in Users
    /\ mode' \in [Users -> {"FREE", "BYOK"}]
    /\ \A u \in Users : mode'[u] \in {mode[u], "BYOK"}
    /\ new.pc \notin {"expire", "test"}
    /\ calls[c].pc \notin {"expire", "test"}
    /\ UNCHANGED <<day, configs, counters, faults, granted, late>>

LEMMA AsideStep ==
    ASSUME IInv, NEW c \in Calls, NEW new \in Locals, Aside(c, new),
           new.pc = "incr" => new.key = new.on /\ new.key <= day,
           new.result # "refused", new.pc # "idle" => new.result = "none",
           \A k \in {c} : Owned(k)'
    PROVE  IInv'
<1>1. TypeOK /\ MetersOK /\ ExpiringOK
  BY DEF IInv
<1>2. calls' = [calls EXCEPT ![c] = new] /\ \A k \in Calls \ {c} : calls'[k] = calls[k]
  BY <1>1 DEF Aside, TypeOK
<1>3. calls'[c] = new
  BY <1>1 DEF Aside, TypeOK
<1>4. ASSUME NEW u \in Users, NEW d \in Days
      PROVE  Spent(u, d)' = Spent(u, d) /\ Used(u, d)' = Used(u, d)
  <2>1. ~Counts(calls[c], u, d) /\ ~Counts(new, u, d)
    BY DEF Counts, Aside
  <2>2. /\ Holds(u, d)' = Holds(u, d)
        /\ Timely(u, d)' = Timely(u, d)
    BY <1>1, <1>2, <2>1, CallKeeps
  <2> QED BY <2>2 DEF Aside, Spent, Used
<1>5. MetersOK'
  BY <1>1, <1>4 DEF MetersOK, Meter, Covers, Aside
<1>6. ExpiringOK'
  <2>1. \A k \in Calls : At(k, "expire") => k # c
    BY DEF Aside, At
  <2> QED BY <1>1, <1>2, <2>1 DEF ExpiringOK, Expiring, Aside, At, U, Key
<1>7. Moves(c, new)
  <2>1. \A u \in Users, d \in Days : Spent(u, d)' >= Spent(u, d)
    BY <1>1, <1>4, SpentType
  <2> QED BY <1>1, <1>2, <2>1 DEF Moves, Aside, TypeOK
<1>8. \A k \in {c} : Asked(k)'
  BY <1>3 DEF Asked, Aside, Key
<1> QED
  BY <1>5, <1>6, <1>7, <1>8, CallStep

\* what a call leaves behind when it ends
Ended(c, result) ==
    [NoCall EXCEPT !.u = U(c), !.on = calls[c].on, !.result = result, !.steady = calls[c].steady]

LEMMA EndType ==
    ASSUME TypeOK, NEW c \in Calls, NEW result \in Results
    PROVE  LET new == Ended(c, result)
           IN  /\ new \in Locals /\ new.pc = "idle" /\ new.u = U(c) /\ new.on = calls[c].on
               /\ new.result = result /\ new.steady = calls[c].steady
<1>1. calls[c] \in Locals /\ U(c) \in Users \cup {None} /\ calls[c].on \in Days
      /\ calls[c].steady \in BOOLEAN
  BY DEF TypeOK, Locals, U
<1>2. NoCall \in Locals /\ NoCall.pc = "idle"
  BY AccessAssumption DEF NoCall, Locals, Days, Pcs, Results
<1> DEFINE half == [NoCall EXCEPT !.u = U(c), !.on = calls[c].on]
           new == [half EXCEPT !.result = result, !.steady = calls[c].steady]
<1>3. half \in Locals /\ half.pc = "idle" /\ half.u = U(c) /\ half.on = calls[c].on
  BY <1>1, <1>2 DEF Locals
<1>4. Ended(c, result) = new
  BY DEF Ended
<1> HIDE DEF half
<1>5. /\ new \in Locals /\ new.pc = "idle" /\ new.u = U(c) /\ new.on = calls[c].on
      /\ new.result = result /\ new.steady = calls[c].steady
  BY <1>1, <1>3 DEF Locals
<1> HIDE DEF new
<1> QED
  BY <1>4, <1>5

LEMMA BeginStep ==
    ASSUME IInv, NEW c \in Calls, NEW u \in Users, NEW pc \in {"user", "mode"}, Begin(c, u, pc)
    PROVE  IInv'
<1> DEFINE new == [NoCall EXCEPT !.pc = pc, !.u = u, !.steady = Steady(u, mode[u], configs[u])]
<1>1. TypeOK
  BY DEF IInv
<1>2. Steady(u, mode[u], configs[u]) \in BOOLEAN
  BY DEF Steady
<1>3. new \in Locals /\ new.pc = pc /\ new.u = u /\ new.result = "none"
      /\ new.steady = Steady(u, mode[u], configs[u])
  <2>1. NoCall \in Locals /\ NoCall.result = "none"
    BY AccessAssumption DEF NoCall, Locals, Days, Pcs, Results
  <2> QED BY <1>2, <2>1 DEF Locals, Pcs
<1>4. calls' = [calls EXCEPT ![c] = new]
  BY DEF Begin
<1> HIDE DEF new
<1>5. calls'[c] = new
  BY <1>1, <1>4 DEF TypeOK
<1>6. Aside(c, new)
  BY <1>1, <1>3, <1>4 DEF Begin, Aside, At, TypeOK
<1>7. \A k \in {c} : Owned(k)'
  BY <1>3, <1>5 DEF Begin, Owned, U
<1> QED
  BY <1>3, <1>6, <1>7, AsideStep

LEMMA SetByokStep == ASSUME IInv, NEW c \in Calls, SetByok(c) PROVE IInv'
<1>1. TypeOK /\ U(c) \in Users /\ At(c, "mode")
  BY DEF IInv, TypeOK, SetByok, At
<1>2. NoCall \in Locals /\ NoCall.pc = "idle" /\ NoCall.result = "none" /\ NoCall.steady = FALSE
  BY AccessAssumption DEF NoCall, Locals, Days, Pcs, Results
<1>3. calls' = [calls EXCEPT ![c] = NoCall] /\ calls'[c] = NoCall
  BY <1>1 DEF SetByok, TypeOK
<1>4. mode' \in [Users -> {"FREE", "BYOK"}] /\ \A u \in Users : mode'[u] \in {mode[u], "BYOK"}
  BY <1>1 DEF SetByok, TypeOK
<1>5. Aside(c, NoCall)
  BY <1>1, <1>2, <1>3, <1>4 DEF SetByok, Aside, At
<1>6. \A k \in {c} : Owned(k)'
  BY <1>2, <1>3 DEF Owned
<1> QED
  BY <1>2, <1>5, <1>6, AsideStep

LEMMA ReadUserStep == ASSUME IInv, NEW c \in Calls, ReadUser(c) PROVE IInv'
<1> DEFINE pc == IF Metered(U(c)) THEN "incr" ELSE "config"
           new == [calls[c] EXCEPT !.pc = pc, !.key = day, !.on = day]
<1>1. /\ TypeOK /\ U(c) \in Users /\ At(c, "user") /\ Owned(c) /\ calls[c] \in Locals
      /\ day \in Days /\ Asked(c)
  BY DEF IInv, TypeOK, ReadUser, At, OwnedOK, AskedOK
<1>2. pc \in {"incr", "config"} /\ (pc = "incr" <=> mode[U(c)] # "BYOK")
  BY DEF Metered
<1> HIDE DEF pc
<1>3. /\ new \in Locals /\ new.pc = pc /\ new.key = day /\ new.on = day
      /\ new.u = U(c) /\ new.steady = calls[c].steady /\ new.result = calls[c].result
  BY <1>1, <1>2 DEF Locals, Pcs, U
<1>4. calls' = [calls EXCEPT ![c] = new]
  BY DEF ReadUser, KeyOfToday, pc
<1> HIDE DEF new
<1>5. calls'[c] = new
  BY <1>1, <1>4 DEF TypeOK
<1>6. Aside(c, new)
  BY <1>1, <1>2, <1>3, <1>4 DEF ReadUser, Aside, At, TypeOK
<1>7. \A k \in {c} : Owned(k)'
  BY <1>1, <1>2, <1>3, <1>5 DEF ReadUser, Owned, U, Steady
<1>8. new.key <= day
  BY <1>1, <1>3, AccessAssumption DEF Days
<1>9. calls[c].result = "none"
  BY <1>1 DEF Asked, At
<1> QED
  BY <1>3, <1>6, <1>7, <1>8, <1>9, AsideStep

LEMMA ReadConfigStep == ASSUME IInv, NEW c \in Calls, ReadConfig(c) PROVE IInv'
<1>1. /\ TypeOK /\ U(c) \in Users /\ At(c, "config") /\ Owned(c) /\ calls[c] \in Locals /\ Asked(c)
  BY DEF IInv, TypeOK, ReadConfig, At, OwnedOK, AskedOK
<1>2. CASE OpenRouter \in configs[U(c)]
  <2> DEFINE new == [calls[c] EXCEPT !.pc = "provider"]
  <2>1. /\ new \in Locals /\ new.pc = "provider" /\ new.u = U(c)
        /\ new.steady = calls[c].steady /\ new.result = calls[c].result
    BY <1>1 DEF Locals, Pcs, U
  <2>2. calls' = [calls EXCEPT ![c] = new]
    BY <1>2 DEF ReadConfig, Goto
  <2> HIDE DEF new
  <2>3. calls'[c] = new
    BY <1>1, <2>2 DEF TypeOK
  <2>4. Aside(c, new)
    BY <1>1, <2>1, <2>2 DEF ReadConfig, Aside, At, TypeOK
  <2>5. \A k \in {c} : Owned(k)'
    BY <1>1, <2>1, <2>3 DEF ReadConfig, Owned, U, Steady
  <2>6. calls[c].result = "none"
    BY <1>1 DEF Asked, At
  <2> QED BY <2>1, <2>4, <2>5, <2>6, AsideStep
<1>3. CASE OpenRouter \notin configs[U(c)]
  <2> DEFINE new == Ended(c, "noConfig")
  <2>1. /\ new \in Locals /\ new.pc = "idle" /\ new.u = U(c) /\ new.result = "noConfig"
        /\ new.steady = calls[c].steady
    BY <1>1, EndType DEF Results
  <2>2. calls' = [calls EXCEPT ![c] = new]
    BY <1>3 DEF ReadConfig, End, Ended
  <2> HIDE DEF new
  <2>3. calls'[c] = new
    BY <1>1, <2>2 DEF TypeOK
  <2>4. Aside(c, new)
    BY <1>1, <2>1, <2>2 DEF ReadConfig, Aside, At, TypeOK
  <2>5. \A k \in {c} : Owned(k)'
    BY <1>1, <1>3, <2>1, <2>3 DEF ReadConfig, Owned, U, Steady
  <2> QED BY <2>1, <2>4, <2>5, AsideStep
<1> QED
  BY <1>2, <1>3

\* a call that is not counted ends
LEMMA CloseStep ==
    ASSUME IInv, NEW c \in Calls, NEW result \in {"answered", "failed"}, End(c, result),
           calls[c].pc \notin {"idle", "expire", "test"},
           UNCHANGED <<day, mode, configs, counters, faults, granted, late>>
    PROVE  IInv'
<1>1. /\ TypeOK /\ U(c) \in Users /\ Owned(c) /\ calls[c] \in Locals
  BY DEF IInv, TypeOK, At, OwnedOK
<1> DEFINE new == Ended(c, result)
<1>2. /\ new \in Locals /\ new.pc = "idle" /\ new.u = U(c) /\ new.result = result
      /\ new.steady = calls[c].steady
  BY <1>1, EndType DEF Results
<1>3. calls' = [calls EXCEPT ![c] = new]
  BY DEF End, Ended
<1> HIDE DEF new
<1>4. calls'[c] = new
  BY <1>1, <1>3 DEF TypeOK
<1>5. Aside(c, new)
  BY <1>1, <1>2, <1>3 DEF Aside, TypeOK
<1>6. \A k \in {c} : Owned(k)'
  BY <1>1, <1>2, <1>4 DEF Owned, U, Steady
<1> QED
  BY <1>2, <1>5, <1>6, AsideStep

LEMMA CallProviderStep == ASSUME IInv, NEW c \in Calls, CallProvider(c) PROVE IInv'
BY CloseStep DEF CallProvider, At

LEMMA MissPlatformKeyStep == ASSUME IInv, NEW c \in Calls, MissPlatformKey(c) PROVE IInv'
BY CloseStep DEF MissPlatformKey, At

-----------------------------------------------------------------------------
(* Steps that count.                                                        *)

LEMMA FaultStep == ASSUME IInv, NEW c \in Calls, Fault(c) PROVE IInv'
<1> DEFINE new == Ended(c, "failed")
<1>1. TypeOK /\ MetersOK /\ OwnedOK /\ ~At(c, "idle")
  BY DEF IInv, Fault
<1>2. /\ new \in Locals /\ new.pc = "idle" /\ new.u = U(c) /\ new.result = "failed"
      /\ new.steady = calls[c].steady
  BY <1>1, EndType DEF Results
<1>3. calls' = [calls EXCEPT ![c] = new]
  BY DEF Fault, End, Ended
<1> HIDE DEF new
<1>4. calls'[c] = new
  BY <1>1, <1>3 DEF TypeOK
<1>5. faults' = faults + 1 /\ faults' \in 0..MaxFaults /\ faults \in Nat
      /\ UNCHANGED <<day, mode, configs, counters, granted, late>>
  BY <1>1, AccessAssumption DEF Fault, TypeOK
<1>6. ASSUME NEW u \in Users, NEW d \in Days
      PROVE  /\ Spent(u, d)' >= Spent(u, d) /\ Used(u, d)' <= Used(u, d)
             /\ Spent(u, d)' \in Nat /\ Used(u, d)' \in Int
  <2>1. ~Counts(new, u, d)
    BY <1>2 DEF Counts
  <2>2. Holds(u, d) \in Nat /\ Timely(u, d) \in Nat /\ granted[u][d] \in Nat
    BY <1>1, HeldFinite, SpentType
  <2>3. Holds(u, d)' \in {Holds(u, d), Holds(u, d) - 1}
    BY <1>1, <1>2, <1>3, <2>1, CallMoves
  <2>4. Timely(u, d)' \in {Timely(u, d), Timely(u, d) - 1}
    BY <1>1, <1>2, <1>3, <2>1, CallMoves
  <2>5. granted'[u][d] = granted[u][d]
    BY <1>5
  <2>6. Spent(u, d) = granted[u][d] + Holds(u, d) + faults
        /\ Spent(u, d)' = granted'[u][d] + Holds(u, d)' + faults'
        /\ Used(u, d) = granted[u][d] + Timely(u, d)
        /\ Used(u, d)' = granted'[u][d] + Timely(u, d)'
    BY DEF Spent, Used
  <2> QED BY <1>5, <2>2, <2>3, <2>4, <2>5, <2>6
<1>7. MetersOK'
  <2>1. ASSUME NEW u \in Users, NEW d \in Days PROVE Meter(u, d)'
    <3>1. Meter(u, d)
      BY <1>1 DEF MetersOK
    <3>2. /\ Used(u, d) \in Nat /\ Spent(u, d) \in Nat /\ late[u][d] \in Nat
          /\ counters[u][d].count \in Nat /\ dailyLimit \in Nat
      BY <1>1, SpentType, AccessAssumption
    <3> QED BY <1>5, <1>6, <3>1, <3>2 DEF Meter, Covers
  <2> QED BY <2>1 DEF MetersOK
<1>8. ExpiringOK'
  BY <1>5 DEF ExpiringOK, Expiring
<1>9. Moves(c, new)
  BY <1>1, <1>2, <1>3, <1>5, <1>6 DEF Moves, TypeOK
<1>10. \A k \in {c} : Asked(k)' /\ Owned(k)'
  BY <1>1, <1>2, <1>4, <1>5 DEF Asked, OwnedOK, Owned, U
<1> QED
  BY <1>2, <1>7, <1>8, <1>9, <1>10, CallStep

CountBecomes(u, d, n) == counters' = [counters EXCEPT ![u][d].count = n]

LEMMA CountMoves ==
    ASSUME TypeOK, NEW u \in Users, NEW d \in Days, NEW n \in Nat,
           CountBecomes(u, d, n)
    PROVE  /\ counters' \in [Users -> [Days -> [count : Nat, expires : Nat]]]
           /\ counters'[u][d].count = n
           /\ \A v \in Users, e \in Days : counters'[v][e].expires = counters[v][e].expires
           /\ \A v \in Users, e \in Days : v # u \/ e # d => counters'[v][e] = counters[v][e]
<1>1. counters \in [Users -> [Days -> [count : Nat, expires : Nat]]]
  BY DEF TypeOK
<1> DEFINE row == [counters[u][d] EXCEPT !.count = n]
<1>2. row \in [count : Nat, expires : Nat] /\ row.count = n /\ row.expires = counters[u][d].expires
  BY <1>1
<1>3. counters' = [counters EXCEPT ![u] = [counters[u] EXCEPT ![d] = row]]
  BY <1>1 DEF CountBecomes
<1> HIDE DEF row
<1>4. [counters[u] EXCEPT ![d] = row] \in [Days -> [count : Nat, expires : Nat]]
  BY <1>1, <1>2
<1>5. counters' \in [Users -> [Days -> [count : Nat, expires : Nat]]]
  BY <1>1, <1>3, <1>4
<1>6. \A v \in Users, e \in Days :
        counters'[v][e] = IF v = u /\ e = d THEN row ELSE counters[v][e]
  BY <1>1, <1>3
<1> QED
  BY <1>2, <1>5, <1>6

LEMMA IncrStep == ASSUME IInv, NEW c \in Calls, Incr(c) PROVE IInv'
<1>1. TypeOK /\ MetersOK /\ Asked(c) /\ Owned(c) /\ ExpiringOK /\ At(c, "incr") /\ calls[c] \in Locals
  BY DEF IInv, AskedOK, OwnedOK, Incr, TypeOK
<1>2. PICK u \in Users, d \in Days :
        u = U(c) /\ d = Key(c) /\ d = calls[c].on /\ d <= day
  BY <1>1 DEF TypeOK, Locals, Asked, At, Key
<1>3. PICK n \in Nat : n = counters[u][d].count + 1
  BY <1>1, SpentType
<1> DEFINE pc == IF First(n) THEN "expire" ELSE "test"
           new == [calls[c] EXCEPT !.count = n, !.late = (calls[c].on # day), !.pc = pc]
<1>4. /\ n = counters[u][d].count + 1 /\ n > 0
      /\ pc \in {"expire", "test"} /\ (n = 1 => pc = "expire")
  BY <1>1, <1>3, SpentType DEF First
<1>5. /\ CountBecomes(u, d, n)
      /\ calls' = [calls EXCEPT ![c] = new]
      /\ UNCHANGED <<day, mode, configs, faults, granted, late>>
  BY <1>2, <1>3 DEF Incr, CountBecomes
<1> HIDE DEF pc
<1>6. /\ new \in Locals /\ new.pc = pc /\ new.u = u /\ new.on = d /\ new.key = d /\ new.count = n
      /\ (new.late <=> d # day) /\ new.steady = calls[c].steady /\ new.result = calls[c].result
  BY <1>1, <1>2, <1>4 DEF Locals, Pcs, U, Key
<1> HIDE DEF new
<1>7. calls'[c] = new /\ \A k \in Calls \ {c} : calls'[k] = calls[k]
  BY <1>1, <1>5 DEF TypeOK
<1>8. /\ counters' \in [Users -> [Days -> [count : Nat, expires : Nat]]]
      /\ counters'[u][d].count = n
      /\ \A v \in Users, e \in Days : counters'[v][e].expires = counters[v][e].expires
      /\ \A v \in Users, e \in Days : v # u \/ e # d => counters'[v][e] = counters[v][e]
  BY <1>1, <1>5, CountMoves
<1>9. /\ Holds(u, d)' = (IF n <= dailyLimit THEN Holds(u, d) + 1 ELSE Holds(u, d))
      /\ Timely(u, d)' = (IF n <= dailyLimit /\ d = day THEN Timely(u, d) + 1 ELSE Timely(u, d))
  <2>1. ~Counts(calls[c], u, d)
    BY <1>1 DEF Counts, At
  <2>2. Counts(new, u, d) <=> n <= dailyLimit
    BY <1>4, <1>6 DEF Counts
  <2>3. /\ Counts(new, u, d) => Holds(u, d)' = Holds(u, d) + 1
        /\ ~Counts(new, u, d) => Holds(u, d)' = Holds(u, d)
        /\ Counts(new, u, d) /\ ~new.late => Timely(u, d)' = Timely(u, d) + 1
        /\ ~(Counts(new, u, d) /\ ~new.late) => Timely(u, d)' = Timely(u, d)
    BY <1>1, <1>5, <1>6, <2>1, CallMoves, ZenonT(40)
  <2> QED BY <1>6, <2>2, <2>3
<1>10. ASSUME NEW v \in Users, NEW e \in Days, v # u \/ e # d
      PROVE  Spent(v, e)' = Spent(v, e) /\ Used(v, e)' = Used(v, e)
  <2>1. ~Counts(calls[c], v, e) /\ ~Counts(new, v, e)
    BY <1>1, <1>6, <1>10 DEF Counts, At
  <2>2. Holds(v, e)' = Holds(v, e) /\ Timely(v, e)' = Timely(v, e)
    BY <1>1, <1>5, <1>6, <2>1, CallKeeps
  <2> QED BY <1>5, <2>2 DEF Spent, Used
<1>11. /\ Spent(u, d) \in Nat /\ Used(u, d) \in Nat /\ late[u][d] \in Nat
       /\ counters[u][d].count \in Nat /\ counters[u][d].expires \in Nat
       /\ dailyLimit \in Nat /\ d \in Nat /\ day \in Nat
       /\ Holds(u, d) \in Nat /\ Timely(u, d) \in Nat
       /\ granted[u][d] \in Nat /\ faults \in Nat
  BY <1>1, SpentType, AccessAssumption, HeldFinite
<1>12. /\ Spent(u, d)' = (IF n <= dailyLimit THEN Spent(u, d) + 1 ELSE Spent(u, d))
       /\ Used(u, d)' = (IF n <= dailyLimit /\ d = day THEN Used(u, d) + 1 ELSE Used(u, d))
  <2>1. /\ Spent(u, d) = granted[u][d] + Holds(u, d) + faults
        /\ Spent(u, d)' = granted[u][d] + Holds(u, d)' + faults
        /\ Used(u, d) = granted[u][d] + Timely(u, d)
        /\ Used(u, d)' = granted[u][d] + Timely(u, d)'
    BY <1>5 DEF Spent, Used
  <2> QED BY <1>9, <1>11, <2>1
<1>13. Meter(u, d) /\ counters'[u][d].expires = counters[u][d].expires
  BY <1>1, <1>8 DEF MetersOK
<1>14. Covers(n, u, d)'
  BY <1>4, <1>11, <1>12, <1>13 DEF Meter, Covers
<1>15. Meter(u, d)'
  <2>1. Used(u, d)' <= late'[u][d] + dailyLimit
    <3>0. /\ Used(u, d) <= late[u][d] + dailyLimit /\ late'[u][d] = late[u][d]
          /\ day <= d => Used(u, d) <= late[u][d] + counters[u][d].count
      BY <1>5, <1>13 DEF Meter
    <3>1. CASE n <= dailyLimit /\ d = day
      BY <1>4, <1>11, <1>12, <3>0, <3>1
    <3>2. CASE ~(n <= dailyLimit /\ d = day)
      BY <1>12, <3>0, <3>2
    <3> QED BY <3>1, <3>2
  <2>2. day' <= d => Used(u, d)' <= late'[u][d] + counters'[u][d].count
    BY <1>4, <1>5, <1>8, <1>11, <1>12, <1>13 DEF Meter
  <2> QED BY <1>8, <1>13, <1>14, <2>1, <2>2 DEF Meter, Covers
<1>16. MetersOK'
  <2>1. ASSUME NEW v \in Users, NEW e \in Days, v # u \/ e # d PROVE Meter(v, e)'
    <3>1. Meter(v, e) /\ counters'[v][e] = counters[v][e]
      BY <1>1, <1>8, <2>1 DEF MetersOK
    <3> QED BY <1>5, <1>10, <2>1, <3>1 DEF Meter, Covers
  <2> QED BY <1>15, <2>1 DEF MetersOK
<1>17. ExpiringOK'
  <2>1. ASSUME NEW v \in Users, NEW e \in Days, v # u \/ e # d PROVE Expiring(v, e)'
    <3>1. Expiring(v, e) /\ counters'[v][e] = counters[v][e]
      BY <1>1, <1>8, <2>1 DEF ExpiringOK
    <3> QED BY <1>1, <1>5, <1>7, <3>1 DEF Expiring, At, U, Key
  <2>2. Expiring(u, d)'
    <3>1. CASE n = 1
      BY <1>4, <1>6, <1>7, <3>1 DEF Expiring, At, U, Key
    <3>2. CASE n # 1
      <4>1. Expiring(u, d) /\ counters[u][d].count > 0
        BY <1>1, <1>4, <1>11, <3>2 DEF ExpiringOK
      <4> QED BY <1>1, <1>5, <1>7, <1>8, <4>1 DEF Expiring, At, U, Key
    <3> QED BY <3>1, <3>2
  <2> QED BY <2>1, <2>2 DEF ExpiringOK
<1>18. Moves(c, new)
  <2>1. \A v \in Users, e \in Days : Spent(v, e)' >= Spent(v, e)
    BY <1>1, <1>10, <1>11, <1>12, SpentType
  <2> QED BY <1>1, <1>5, <1>6, <1>8, <2>1 DEF Moves, TypeOK
<1>19. \A k \in {c} : Asked(k)' /\ Owned(k)'
  <2>1. \A k \in {c} : Asked(k)'
    BY <1>1, <1>2, <1>4, <1>5, <1>6, <1>7, <1>14, ZenonT(40) DEF Asked, U, Key, At
  <2>2. \A k \in {c} : Owned(k)'
    BY <1>1, <1>6, <1>7 DEF Owned, At
  <2> QED BY <2>1, <2>2
<1> QED
  BY <1>6, <1>16, <1>17, <1>18, <1>19, CallStep

LEMMA ExpireStep == ASSUME IInv, NEW c \in Calls, Expire(c) PROVE IInv'
<1> DEFINE new == [calls[c] EXCEPT !.pc = "test"]
<1>1. /\ TypeOK /\ MetersOK /\ Asked(c) /\ Owned(c) /\ ExpiringOK /\ At(c, "expire")
      /\ calls[c] \in Locals
  BY DEF IInv, AskedOK, OwnedOK, Expire, TypeOK
<1>2. PICK u \in Users, d \in Days :
        u = U(c) /\ d = Key(c) /\ d = calls[c].on /\ d <= day
  BY <1>1 DEF TypeOK, Locals, Asked, At, Key
<1>3. calls' = [calls EXCEPT ![c] = new] /\ UNCHANGED <<day, mode, configs, faults, granted, late>>
  BY DEF Expire, Goto
<1>4. /\ new \in Locals /\ new.pc = "test" /\ new.u = u /\ new.on = d /\ new.key = d
      /\ new.count = calls[c].count /\ new.late = calls[c].late
      /\ new.steady = calls[c].steady /\ new.result = calls[c].result
  BY <1>1, <1>2 DEF Locals, Pcs, U, Key
<1> HIDE DEF new
<1>5. calls'[c] = new /\ \A k \in Calls \ {c} : calls'[k] = calls[k]
  BY <1>1, <1>3 DEF TypeOK
<1>6. /\ d \in Nat /\ day \in Nat /\ day <= MaxDay /\ MaxDay \in Nat
  BY <1>1, AccessAssumption DEF TypeOK, Days
<1>7. /\ counters' \in [Users -> [Days -> [count : Nat, expires : Nat]]]
      /\ \A v \in Users, e \in Days : counters'[v][e].count = counters[v][e].count
      /\ \A v \in Users, e \in Days : v # u \/ e # d => counters'[v][e] = counters[v][e]
      /\ counters'[u][d] = NoCounter \/ counters'[u][d].expires = day + 1
  <2>1. counters \in [Users -> [Days -> [count : Nat, expires : Nat]]]
    BY <1>1 DEF TypeOK
  <2>2. CASE counters[u][d] = NoCounter
    <3>1. counters' = counters
      BY <1>2, <2>2 DEF Expire
    <3> QED BY <2>1, <2>2, <3>1
  <2>3. CASE counters[u][d] # NoCounter
    <3> DEFINE row == [counters[u][d] EXCEPT !.expires = day + 1]
    <3>1. row \in [count : Nat, expires : Nat] /\ row.expires = day + 1 /\ row.count = counters[u][d].count
      BY <1>6, <2>1
    <3>2. counters' = [counters EXCEPT ![u][d].expires = day + 1]
      BY <1>2, <2>3 DEF Expire, Expires
    <3>3. counters' = [counters EXCEPT ![u] = [counters[u] EXCEPT ![d] = row]]
      BY <2>1, <3>2
    <3> HIDE DEF row
    <3>4. [counters[u] EXCEPT ![d] = row] \in [Days -> [count : Nat, expires : Nat]]
      BY <2>1, <3>1
    <3>5. counters' \in [Users -> [Days -> [count : Nat, expires : Nat]]]
      BY <2>1, <3>3, <3>4
    <3>6. \A v \in Users, e \in Days :
            counters'[v][e] = IF v = u /\ e = d THEN row ELSE counters[v][e]
      BY <2>1, <3>3
    <3> QED BY <3>1, <3>5, <3>6
  <2> QED BY <2>2, <2>3
<1>8. ASSUME NEW v \in Users, NEW e \in Days
      PROVE  Spent(v, e)' = Spent(v, e) /\ Used(v, e)' = Used(v, e)
  <2>1. /\ Counts(calls[c], v, e) <=> Counts(new, v, e)
        /\ Counts(calls[c], v, e) /\ ~calls[c].late <=> Counts(new, v, e) /\ ~new.late
    BY <1>1, <1>2, <1>4 DEF Counts, At, U
  <2>2. Holds(v, e)' = Holds(v, e) /\ Timely(v, e)' = Timely(v, e)
    BY <1>1, <1>3, <1>4, <2>1, CallKeeps, ZenonT(60)
  <2> QED BY <1>3, <2>2 DEF Spent, Used
<1>9. MetersOK'
  <2>1. ASSUME NEW v \in Users, NEW e \in Days PROVE Meter(v, e)'
    <3>1. Meter(v, e) /\ counters'[v][e].count = counters[v][e].count
      BY <1>1, <1>7 DEF MetersOK
    <3>2. counters'[v][e].expires > e
      <4>1. CASE v = u /\ e = d
        BY <1>2, <1>6, <1>7, <4>1 DEF NoCounter, Never
      <4>2. CASE v # u \/ e # d
        BY <1>7, <3>1, <4>2 DEF Meter
      <4> QED BY <4>1, <4>2
    <3> QED BY <1>3, <1>8, <3>1, <3>2 DEF Meter, Covers
  <2> QED BY <2>1 DEF MetersOK
<1>10. ExpiringOK'
  <2>1. ASSUME NEW v \in Users, NEW e \in Days, v # u \/ e # d PROVE Expiring(v, e)'
    <3>1. Expiring(v, e) /\ counters'[v][e] = counters[v][e]
      BY <1>1, <1>7, <2>1 DEF ExpiringOK
    <3> QED BY <1>2, <1>3, <1>5, <2>1, <3>1 DEF Expiring, At, U, Key
  <2>2. Expiring(u, d)'
    BY <1>6, <1>7 DEF Expiring, NoCounter, Never
  <2> QED BY <2>1, <2>2 DEF ExpiringOK
<1>11. Moves(c, new)
  <2>1. \A v \in Users, e \in Days : Spent(v, e)' >= Spent(v, e)
    BY <1>1, <1>8, SpentType
  <2> QED BY <1>1, <1>3, <1>4, <1>7, <2>1 DEF Moves, TypeOK
<1>12. \A k \in {c} : Asked(k)' /\ Owned(k)'
  <2>1. Covers(calls[c].count, u, d)
    BY <1>1, <1>2 DEF Asked, At
  <2>2. PICK n \in Nat : n = calls[c].count
    BY <1>1 DEF Locals
  <2>3. Covers(n, u, d)'
    BY <1>8, <2>1, <2>2 DEF Covers
  <2>4. \A k \in {c} : Asked(k)'
    BY <1>1, <1>2, <1>3, <1>4, <1>5, <2>2, <2>3 DEF Asked, U, Key, At
  <2>5. \A k \in {c} : Owned(k)'
    BY <1>1, <1>4, <1>5 DEF Owned, At
  <2> QED BY <2>4, <2>5
<1> QED
  BY <1>4, <1>9, <1>10, <1>11, <1>12, CallStep

LEMMA RefuseStep ==
    ASSUME IInv, NEW c \in Calls, TestQuota(c), Over(c), End(c, "refused"), UNCHANGED <<granted, late>>
    PROVE  IInv'
<1> DEFINE new == Ended(c, "refused")
<1>1. /\ TypeOK /\ MetersOK /\ Asked(c) /\ Owned(c) /\ ExpiringOK /\ At(c, "test")
      /\ calls[c] \in Locals
  BY DEF IInv, AskedOK, OwnedOK, TestQuota, TypeOK
<1>2. PICK u \in Users, d \in Days : u = U(c) /\ d = calls[c].on
  BY <1>1 DEF TypeOK, Locals, At
<1>3. /\ calls' = [calls EXCEPT ![c] = new]
      /\ UNCHANGED <<day, mode, configs, counters, faults, granted, late>>
  BY DEF TestQuota, End, Ended
<1>4. /\ new \in Locals /\ new.pc = "idle" /\ new.u = u /\ new.on = d
      /\ new.result = "refused" /\ new.steady = calls[c].steady
  BY <1>1, <1>2, EndType DEF Results
<1> HIDE DEF new
<1>5. calls'[c] = new /\ \A k \in Calls \ {c} : calls'[k] = calls[k]
  BY <1>1, <1>3 DEF TypeOK
<1>6. calls[c].count \in Nat /\ calls[c].count > dailyLimit /\ dailyLimit \in Nat
  BY <1>1, AccessAssumption DEF Over, Locals
<1>7. ASSUME NEW v \in Users, NEW e \in Days
      PROVE  Spent(v, e)' = Spent(v, e) /\ Used(v, e)' = Used(v, e)
  <2>1. ~Counts(calls[c], v, e) /\ ~Counts(new, v, e)
    BY <1>4, <1>6 DEF Counts
  <2>2. Holds(v, e)' = Holds(v, e) /\ Timely(v, e)' = Timely(v, e)
    BY <1>1, <1>3, <1>4, <2>1, CallKeeps
  <2> QED BY <1>3, <2>2 DEF Spent, Used
<1>8. MetersOK'
  BY <1>1, <1>3, <1>7 DEF MetersOK, Meter, Covers
<1>9. ExpiringOK'
  <2>1. \A k \in Calls : At(k, "expire") => k # c
    BY <1>1 DEF At
  <2> QED BY <1>1, <1>3, <1>5, <2>1 DEF ExpiringOK, Expiring, At, U, Key
<1>10. Moves(c, new)
  <2>1. \A v \in Users, e \in Days : Spent(v, e)' >= Spent(v, e)
    BY <1>1, <1>7, SpentType
  <2> QED BY <1>1, <1>3, <1>4, <2>1 DEF Moves, TypeOK
<1>11. dailyLimit <= Spent(u, d)'
  <2>1. Covers(calls[c].count, u, d)
    BY <1>1, <1>2 DEF Asked, At
  <2>2. Spent(u, d) \in Nat
    BY <1>1, SpentType
  <2> QED BY <1>6, <1>7, <2>1, <2>2 DEF Covers
<1>12. \A k \in {c} : Asked(k)' /\ Owned(k)'
  <2>1. \A k \in {c} : Asked(k)'
    BY <1>4, <1>5, <1>11 DEF Asked, U
  <2>2. \A k \in {c} : Owned(k)'
    BY <1>1, <1>4, <1>5 DEF Owned, At
  <2> QED BY <2>1, <2>2
<1> QED
  BY <1>4, <1>8, <1>9, <1>10, <1>12, CallStep

LEMMA GrantStep == ASSUME IInv, NEW c \in Calls, TestQuota(c), ~Over(c), Goto(c, "provider"),
        granted' = [granted EXCEPT ![U(c)][calls[c].on] = @ + 1],
        late' = IF calls[c].late THEN [late EXCEPT ![U(c)][calls[c].on] = @ + 1] ELSE late
    PROVE IInv'
<1> DEFINE new == [calls[c] EXCEPT !.pc = "provider"]
<1>1. /\ TypeOK /\ MetersOK /\ Asked(c) /\ Owned(c) /\ ExpiringOK /\ At(c, "test")
      /\ calls[c] \in Locals
  BY DEF IInv, AskedOK, OwnedOK, TestQuota, TypeOK
<1>2. PICK u \in Users, d \in Days : u = U(c) /\ d = calls[c].on
  BY <1>1 DEF TypeOK, Locals, At
<1>3. /\ calls' = [calls EXCEPT ![c] = new]
      /\ UNCHANGED <<day, mode, configs, counters, faults>>
  BY DEF TestQuota, Goto
<1>4. /\ new \in Locals /\ new.pc = "provider" /\ new.u = u /\ new.on = d
      /\ new.result = calls[c].result /\ new.steady = calls[c].steady
  BY <1>1, <1>2 DEF Locals, Pcs, U
<1> HIDE DEF new
<1>5. calls'[c] = new /\ \A k \in Calls \ {c} : calls'[k] = calls[k]
  BY <1>1, <1>3 DEF TypeOK
<1>6. calls[c].count \in Nat /\ calls[c].count <= dailyLimit /\ dailyLimit \in Nat
  BY <1>1, AccessAssumption DEF Over, Locals
<1>7. /\ granted' \in [Users -> [Days -> Nat]]
      /\ \A v \in Users, e \in Days :
            granted'[v][e] = IF v = u /\ e = d THEN granted[v][e] + 1 ELSE granted[v][e]
  BY <1>1, <1>2 DEF TypeOK
<1>8. /\ late' \in [Users -> [Days -> Nat]]
      /\ \A v \in Users, e \in Days :
            late'[v][e] = IF v = u /\ e = d /\ calls[c].late THEN late[v][e] + 1 ELSE late[v][e]
  BY <1>1, <1>2 DEF TypeOK
<1>9. ASSUME NEW v \in Users, NEW e \in Days
      PROVE  /\ Spent(v, e)' = Spent(v, e) /\ Spent(v, e) \in Nat
             /\ Used(v, e) \in Nat /\ late[v][e] \in Nat
             /\ \/ Used(v, e)' = Used(v, e) /\ late'[v][e] = late[v][e]
                \/ Used(v, e)' = Used(v, e) + 1 /\ late'[v][e] = late[v][e] + 1
  <2>1. /\ Holds(v, e) \in Nat /\ Timely(v, e) \in Nat /\ granted[v][e] \in Nat /\ faults \in Nat
        /\ Spent(v, e) \in Nat /\ Used(v, e) \in Nat /\ late[v][e] \in Nat
    BY <1>1, HeldFinite, SpentType
  <2>2. /\ Spent(v, e) = granted[v][e] + Holds(v, e) + faults
        /\ Spent(v, e)' = granted'[v][e] + Holds(v, e)' + faults
        /\ Used(v, e) = granted[v][e] + Timely(v, e)
        /\ Used(v, e)' = granted'[v][e] + Timely(v, e)'
    BY <1>3 DEF Spent, Used
  <2>3. ~Counts(new, v, e)
    BY <1>4 DEF Counts
  <2>4. CASE v = u /\ e = d
    <3>1. Counts(calls[c], v, e)
      BY <1>1, <1>2, <1>6, <2>4 DEF Counts, At, U
    <3>2. Holds(v, e)' = Holds(v, e) - 1
      BY <1>1, <1>3, <1>4, <2>3, <3>1, CallMoves
    <3>3. CASE calls[c].late
      <4>1. Timely(v, e)' = Timely(v, e)
        BY <1>1, <1>3, <1>4, <2>3, <3>3, CallMoves, ZenonT(40)
      <4> QED BY <1>7, <1>8, <2>1, <2>2, <2>4, <3>2, <3>3, <4>1
    <3>4. CASE ~calls[c].late
      <4>1. Timely(v, e)' = Timely(v, e) - 1
        BY <1>1, <1>3, <1>4, <2>3, <3>1, <3>4, CallMoves
      <4> QED BY <1>7, <1>8, <2>1, <2>2, <2>4, <3>2, <3>4, <4>1
    <3> QED BY <3>3, <3>4
  <2>5. CASE v # u \/ e # d
    <3>1. ~Counts(calls[c], v, e)
      BY <1>2, <2>5 DEF Counts, U
    <3>2. Holds(v, e)' = Holds(v, e) /\ Timely(v, e)' = Timely(v, e)
      BY <1>1, <1>3, <1>4, <2>3, <3>1, CallKeeps, ZenonT(60)
    <3> QED BY <1>7, <1>8, <2>1, <2>2, <2>5, <3>2
  <2> QED BY <2>4, <2>5
<1>10. MetersOK'
  <2>1. ASSUME NEW v \in Users, NEW e \in Days PROVE Meter(v, e)'
    <3>1. Meter(v, e)
      BY <1>1 DEF MetersOK
    <3>2. counters[v][e].count \in Nat
      BY <1>1, SpentType
    <3> QED BY <1>3, <1>6, <1>9, <3>1, <3>2 DEF Meter, Covers
  <2> QED BY <2>1 DEF MetersOK
<1>11. ExpiringOK'
  <2>1. \A k \in Calls : At(k, "expire") => k # c
    BY <1>1 DEF At
  <2> QED BY <1>1, <1>3, <1>5, <2>1 DEF ExpiringOK, Expiring, At, U, Key
<1>12. Moves(c, new)
  <2>1. \A v \in Users, e \in Days : Spent(v, e)' >= Spent(v, e)
    BY <1>9
  <2> QED BY <1>1, <1>3, <1>4, <1>7, <1>8, <2>1 DEF Moves, TypeOK
<1>13. \A k \in {c} : Asked(k)' /\ Owned(k)'
  <2>1. \A k \in {c} : Asked(k)'
    BY <1>1, <1>4, <1>5 DEF Asked, U, At
  <2>2. \A k \in {c} : Owned(k)'
    BY <1>1, <1>4, <1>5 DEF Owned, At
  <2> QED BY <2>1, <2>2
<1> QED
  BY <1>4, <1>10, <1>11, <1>12, <1>13, CallStep

-----------------------------------------------------------------------------
(* Steps during which every call stands still.                              *)

Standing ==
    \A k \in Calls : \A f \in {"pc", "u", "key", "count", "on", "late", "result"} :
        calls'[k][f] = calls[k][f]

LEMMA StandingHeld ==
    ASSUME Standing, NEW u, NEW d
    PROVE  Holds(u, d)' = Holds(u, d) /\ Timely(u, d)' = Timely(u, d)
<1>1. \A k \in Calls : /\ calls'[k].pc = calls[k].pc /\ calls'[k].u = calls[k].u
                       /\ calls'[k].count = calls[k].count /\ calls'[k].on = calls[k].on
                       /\ calls'[k].late = calls[k].late
  BY DEF Standing
<1>2. Held(u, d)' = Held(u, d)
  BY <1>1 DEF Held, Counts
<1>3. InTime(u, d)' = InTime(u, d)
  BY <1>1 DEF InTime, Counts
<1> QED
  BY <1>2, <1>3 DEF Holds, Timely

LEMMA StandingStep ==
    ASSUME IInv, Standing, TypeOK', day' >= day, faults' >= faults, UNCHANGED <<granted, late>>,
           MetersOK', OwnedOK', ExpiringOK'
    PROVE  IInv'
<1>1. TypeOK
  BY DEF IInv
<1>2. \A u \in Users, d \in Days : Spent(u, d)' >= Spent(u, d)
  <2>1. ASSUME NEW u \in Users, NEW d \in Days PROVE Spent(u, d)' >= Spent(u, d)
    <3>1. granted[u][d] \in Nat /\ Holds(u, d) \in Nat /\ faults \in Nat /\ faults' \in Nat
      BY <1>1, HeldFinite, SpentType, AccessAssumption DEF TypeOK
    <3>2. Holds(u, d)' = Holds(u, d) /\ granted'[u][d] = granted[u][d]
      BY StandingHeld
    <3> QED BY <3>1, <3>2 DEF Spent
  <2> QED BY <2>1
<1>3. ASSUME NEW k \in Calls PROVE Asked(k)'
  <2>1. \A f \in {"pc", "u", "key", "count", "on", "result"} : calls'[k][f] = calls[k][f]
    BY DEF Standing
  <2> QED BY <1>2, <2>1, AskedKept
<1> QED
  BY <1>3 DEF IInv, AskedOK

LEMMA ResendStep == ASSUME IInv, NEW c \in Calls, Resend(c) PROVE IInv'
<1>1. TypeOK /\ MetersOK /\ OwnedOK /\ Asked(c) /\ At(c, "incr") /\ calls[c] \in Locals
  BY DEF IInv, AskedOK, Resend, TypeOK
<1>2. PICK u \in Users, d \in Days : u = U(c) /\ d = Key(c)
  BY <1>1 DEF TypeOK, Locals, At, Key
<1>3. PICK n \in Nat : n = counters[u][d].count + 1
  BY <1>1, SpentType
<1>4. /\ CountBecomes(u, d, n) /\ faults' = faults + 1 /\ faults < MaxFaults
      /\ UNCHANGED <<day, mode, configs, calls, granted, late>>
  BY <1>2, <1>3 DEF Resend, CountBecomes
<1>5. /\ counters' \in [Users -> [Days -> [count : Nat, expires : Nat]]]
      /\ counters'[u][d].count = n
      /\ \A v \in Users, e \in Days : counters'[v][e].expires = counters[v][e].expires
      /\ \A v \in Users, e \in Days : v # u \/ e # d => counters'[v][e] = counters[v][e]
  BY <1>1, <1>4, CountMoves
<1>6. faults \in Nat /\ faults' \in 0..MaxFaults
  BY <1>1, <1>4, AccessAssumption DEF TypeOK
<1>7. Standing
  BY <1>4 DEF Standing
<1>8. TypeOK'
  BY <1>1, <1>4, <1>5, <1>6 DEF TypeOK, At, U
<1>9. MetersOK'
  <2>1. ASSUME NEW v \in Users, NEW e \in Days PROVE Meter(v, e)'
    <3>1. Meter(v, e) /\ counters'[v][e].expires = counters[v][e].expires
      BY <1>1, <1>5 DEF MetersOK
    <3>2. /\ Spent(v, e) \in Nat /\ Used(v, e) \in Nat /\ late[v][e] \in Nat
          /\ counters[v][e].count \in Nat /\ dailyLimit \in Nat /\ granted[v][e] \in Nat
          /\ Holds(v, e) \in Nat
      BY <1>1, SpentType, HeldFinite, AccessAssumption
    <3>3. Spent(v, e)' = Spent(v, e) + 1 /\ Used(v, e)' = Used(v, e)
      <4>1. Holds(v, e)' = Holds(v, e) /\ Timely(v, e)' = Timely(v, e)
        BY <1>7, StandingHeld
      <4> QED BY <1>4, <1>6, <3>2, <4>1 DEF Spent, Used
    <3>4. counters'[v][e].count \in {counters[v][e].count, counters[v][e].count + 1}
      BY <1>3, <1>5
    <3> QED BY <1>4, <3>1, <3>2, <3>3, <3>4 DEF Meter, Covers
  <2> QED BY <2>1 DEF MetersOK
<1>10. OwnedOK'
  BY <1>1, <1>4 DEF OwnedOK, Owned, U
<1>11. ExpiringOK'
  BY <1>4, <1>6 DEF ExpiringOK, Expiring
<1>12. day' >= day /\ faults' >= faults
  BY <1>1, <1>4, <1>6, SpentType, AccessAssumption DEF TypeOK, Days
<1> QED
  BY <1>4, <1>7, <1>8, <1>9, <1>10, <1>11, <1>12, StandingStep

LEMMA MidnightStep == ASSUME IInv, Midnight PROVE IInv'
<1>1. TypeOK /\ MetersOK /\ OwnedOK /\ ExpiringOK
  BY DEF IInv
<1>2. /\ day \in Nat /\ day' = day + 1 /\ day' \in Days /\ faults \in Nat
      /\ UNCHANGED <<mode, configs, counters, calls, faults, granted, late>>
  BY <1>1, AccessAssumption DEF Midnight, TypeOK, Days
<1>3. Standing
  BY <1>2 DEF Standing
<1>4. TypeOK'
  BY <1>1, <1>2 DEF TypeOK, At, U
<1>5. MetersOK'
  <2>1. ASSUME NEW v \in Users, NEW e \in Days PROVE Meter(v, e)'
    <3>1. Meter(v, e) /\ e \in Nat
      BY <1>1, SpentType DEF MetersOK
    <3>2. Spent(v, e)' = Spent(v, e) /\ Used(v, e)' = Used(v, e)
      BY <1>2, <1>3, StandingHeld DEF Spent, Used
    <3> QED BY <1>2, <3>1, <3>2 DEF Meter, Covers
  <2> QED BY <2>1 DEF MetersOK
<1>6. OwnedOK' /\ ExpiringOK'
  BY <1>1, <1>2 DEF OwnedOK, Owned, U, ExpiringOK, Expiring, At, Key
<1>7. day' >= day /\ faults' >= faults
  BY <1>2
<1> QED
  BY <1>2, <1>3, <1>4, <1>5, <1>6, <1>7, StandingStep

LEMMA ForgetStep == ASSUME IInv, NEW u \in Users, NEW d \in Days, Forget(u, d) PROVE IInv'
<1>1. TypeOK /\ MetersOK /\ OwnedOK /\ ExpiringOK
  BY DEF IInv
<1>2. /\ counters' = [counters EXCEPT ![u][d] = NoCounter] /\ counters[u][d].expires <= day
      /\ UNCHANGED <<day, mode, configs, calls, faults, granted, late>>
  BY DEF Forget
<1>3. /\ d \in Nat /\ d <= MaxDay /\ MaxDay \in Nat /\ day \in Nat /\ faults \in Nat
      /\ counters[u][d].expires \in Nat
  <2>1. d <= MaxDay /\ MaxDay \in Nat
    BY AccessAssumption DEF Days
  <2> QED BY <1>1, <2>1, SpentType
<1>4. /\ NoCounter \in [count : Nat, expires : Nat]
      /\ NoCounter.count = 0 /\ NoCounter.expires > d
  BY <1>3 DEF NoCounter, Never
<1>5. /\ counters' \in [Users -> [Days -> [count : Nat, expires : Nat]]]
      /\ \A v \in Users, e \in Days :
            counters'[v][e] = IF v = u /\ e = d THEN NoCounter ELSE counters[v][e]
  <2>1. counters \in [Users -> [Days -> [count : Nat, expires : Nat]]]
    BY <1>1 DEF TypeOK
  <2> HIDE DEF NoCounter
  <2>2. [counters[u] EXCEPT ![d] = NoCounter] \in [Days -> [count : Nat, expires : Nat]]
    BY <1>4, <2>1
  <2>3. counters' = [counters EXCEPT ![u] = [counters[u] EXCEPT ![d] = NoCounter]]
    BY <1>2
  <2> QED BY <2>1, <2>2, <2>3
<1>6. Standing
  BY <1>2 DEF Standing
<1>7. TypeOK'
  BY <1>1, <1>2, <1>5 DEF TypeOK, At, U
<1>8. d < day
  BY <1>1, <1>2, <1>3 DEF MetersOK, Meter
<1>9. MetersOK'
  <2>1. ASSUME NEW v \in Users, NEW e \in Days PROVE Meter(v, e)'
    <3>1. Meter(v, e) /\ Spent(v, e) \in Nat
      BY <1>1, SpentType DEF MetersOK
    <3>2. Spent(v, e)' = Spent(v, e) /\ Used(v, e)' = Used(v, e)
      BY <1>2, <1>6, StandingHeld DEF Spent, Used
    <3>3. CASE v = u /\ e = d
      BY <1>2, <1>3, <1>4, <1>5, <1>8, <3>1, <3>2, <3>3 DEF Meter, Covers
    <3>4. CASE v # u \/ e # d
      BY <1>2, <1>5, <3>1, <3>2, <3>4 DEF Meter, Covers
    <3> QED BY <3>3, <3>4
  <2> QED BY <2>1 DEF MetersOK
<1>10. OwnedOK'
  BY <1>1, <1>2 DEF OwnedOK, Owned, U
<1>11. ExpiringOK'
  <2>1. ASSUME NEW v \in Users, NEW e \in Days PROVE Expiring(v, e)'
    <3>1. Expiring(v, e)
      BY <1>1 DEF ExpiringOK
    <3>2. CASE v = u /\ e = d
      BY <1>4, <1>5, <3>2 DEF Expiring
    <3>3. CASE v # u \/ e # d
      BY <1>2, <1>5, <3>1, <3>3 DEF Expiring, At, U, Key
    <3> QED BY <3>2, <3>3
  <2> QED BY <2>1 DEF ExpiringOK
<1>12. day' >= day /\ faults' >= faults
  BY <1>2, <1>3
<1> QED
  BY <1>2, <1>6, <1>7, <1>9, <1>10, <1>11, <1>12, StandingStep

\* a user settles on mode m and the configurations ps
LEMMA SettleStep ==
    ASSUME IInv, NEW u \in Users, NEW m \in {"FREE", "BYOK"}, NEW ps \in SUBSET Providers,
           calls' = Unsettled(u, m, ps),
           mode' = [mode EXCEPT ![u] = m], configs' = [configs EXCEPT ![u] = ps],
           UNCHANGED <<day, counters, faults, granted, late>>
    PROVE  IInv'
<1>1. TypeOK /\ MetersOK /\ OwnedOK /\ ExpiringOK
  BY DEF IInv
<1>2. Steady(u, m, ps) \in BOOLEAN
  BY DEF Steady
<1>3. ASSUME NEW k \in Calls
      PROVE  /\ calls'[k] \in Locals
             /\ calls'[k].pc = calls[k].pc /\ calls'[k].u = calls[k].u
             /\ calls'[k].key = calls[k].key /\ calls'[k].count = calls[k].count
             /\ calls'[k].on = calls[k].on /\ calls'[k].late = calls[k].late
             /\ calls'[k].result = calls[k].result
             /\ calls'[k].steady =>
                  calls[k].steady /\ (calls[k].u = u => Steady(u, m, ps))
  <2>1. calls[k] \in Locals /\ calls[k].steady \in BOOLEAN
    BY <1>1 DEF TypeOK, Locals
  <2>2. CASE calls[k].u = u
    <3> DEFINE s == calls[k].steady /\ Steady(u, m, ps)
    <3>1. calls'[k] = [calls[k] EXCEPT !.steady = s]
      BY <2>2 DEF Unsettled
    <3>2. s \in BOOLEAN /\ (s => calls[k].steady /\ Steady(u, m, ps))
      BY <1>2, <2>1
    <3> HIDE DEF s
    <3> QED BY <2>1, <3>1, <3>2 DEF Locals
  <2>3. CASE calls[k].u # u
    BY <2>1, <2>3 DEF Unsettled
  <2> QED BY <2>2, <2>3
<1>4. Standing
  BY <1>3 DEF Standing
<1>5. TypeOK'
  <2>1. calls' \in [Calls -> Locals]
    <3>1. calls' = [k \in Calls |-> calls'[k]]
      BY DEF Unsettled
    <3> QED BY <1>3, <3>1
  <2>2. mode' \in [Users -> {"FREE", "BYOK"}] /\ configs' \in [Users -> SUBSET Providers]
    BY <1>1 DEF TypeOK
  <2>3. \A k \in Calls : ~At(k, "idle")' => U(k)' \in Users
    BY <1>1, <1>3 DEF TypeOK, At, U
  <2> QED BY <1>1, <2>1, <2>2, <2>3 DEF TypeOK
<1>6. MetersOK'
  <2>1. ASSUME NEW v \in Users, NEW e \in Days PROVE Meter(v, e)'
    <3>1. Spent(v, e)' = Spent(v, e) /\ Used(v, e)' = Used(v, e)
      BY <1>4, StandingHeld DEF Spent, Used
    <3> QED BY <1>1, <3>1 DEF MetersOK, Meter, Covers
  <2> QED BY <2>1 DEF MetersOK
<1>7. OwnedOK'
  <2>1. ASSUME NEW k \in Calls, calls'[k].steady
        PROVE  /\ calls'[k].u \in Users
               /\ Steady(calls'[k].u, mode'[calls'[k].u], configs'[calls'[k].u])
               /\ calls'[k].pc \notin {"incr", "expire", "test"}
               /\ calls'[k].result \notin {"refused", "noConfig"}
    <3>1. Owned(k) /\ calls[k].steady /\ (calls[k].u = u => Steady(u, m, ps))
      BY <1>1, <1>3, <2>1 DEF OwnedOK
    <3>2. PICK v \in Users : v = calls[k].u
      BY <3>1 DEF Owned, U
    <3>3. mode'[v] = (IF v = u THEN m ELSE mode[v]) /\ configs'[v] = (IF v = u THEN ps ELSE configs[v])
      BY <1>1 DEF TypeOK
    <3> QED BY <1>3, <3>1, <3>2, <3>3 DEF Owned, U, Steady
  <2> QED BY <2>1 DEF OwnedOK, Owned, U, Steady
<1>8. ExpiringOK'
  BY <1>1, <1>3 DEF ExpiringOK, Expiring, At, U, Key
<1>9. day' >= day /\ faults' >= faults
  BY <1>1, AccessAssumption DEF TypeOK, Days
<1> QED
  BY <1>4, <1>5, <1>6, <1>7, <1>8, <1>9, StandingStep

-----------------------------------------------------------------------------
(* The theorems.                                                            *)

LEMMA InitInv == Init => IInv
<1> SUFFICES ASSUME Init PROVE IInv
  OBVIOUS
<1>1. /\ NoCall \in Locals /\ NoCall.pc = "idle" /\ NoCall.result = "none"
      /\ NoCall.steady = FALSE /\ 0 \in Days /\ 0 \in 0..MaxFaults
  BY AccessAssumption DEF NoCall, Locals, Days, Pcs, Results
<1>2. NoCounter \in [count : Nat, expires : Nat] /\ NoCounter.count = 0 /\ NoCounter.expires = Never
  BY AccessAssumption DEF NoCounter, Never
<1>3. TypeOK
  <2>1. calls \in [Calls -> Locals] /\ \A c \in Calls : calls[c] = NoCall
    BY <1>1 DEF Init
  <2>2. counters \in [Users -> [Days -> [count : Nat, expires : Nat]]]
    BY <1>2 DEF Init
  <2>3. granted \in [Users -> [Days -> Nat]] /\ late \in [Users -> [Days -> Nat]]
    BY DEF Init
  <2>4. mode \in [Users -> {"FREE", "BYOK"}] /\ configs \in [Users -> SUBSET Providers]
    BY DEF Init
  <2> QED BY <1>1, <2>1, <2>2, <2>3, <2>4 DEF Init, TypeOK, At, U
<1>4. \A c \in Calls : calls[c] = NoCall
  BY DEF Init
<1>5. AskedOK /\ OwnedOK
  BY <1>1, <1>4 DEF AskedOK, Asked, OwnedOK, Owned
<1>6. MetersOK
  <2>1. ASSUME NEW u \in Users, NEW d \in Days PROVE Meter(u, d)
    <3>1. counters[u][d] = NoCounter /\ granted[u][d] = 0 /\ late[u][d] = 0
      BY DEF Init
    <3>2. Held(u, d) = {} /\ InTime(u, d) = {}
      BY <1>1, <1>4 DEF Held, InTime, Counts
    <3>3. Holds(u, d) = 0 /\ Timely(u, d) = 0
      BY <3>2, FS_EmptySet DEF Holds, Timely
    <3>4. Never > d /\ dailyLimit \in Nat /\ faults = 0
      BY AccessAssumption DEF Never, Days, Init
    <3> QED BY <1>2, <3>1, <3>3, <3>4 DEF Meter, Used, Spent, Covers
  <2> QED BY <2>1 DEF MetersOK
<1>7. ExpiringOK
  <2>1. \A u \in Users, d \in Days : counters[u][d] = NoCounter
    BY DEF Init
  <2> QED BY <1>2, <2>1 DEF ExpiringOK, Expiring
<1> QED
  BY <1>3, <1>5, <1>6, <1>7 DEF IInv

LEMMA StutterStep == ASSUME IInv, UNCHANGED vars PROVE IInv'
<1>1. UNCHANGED <<day, mode, configs, counters, calls, faults, granted, late>>
  BY DEF vars
<1>2. Standing
  BY <1>1 DEF Standing
<1>3. TypeOK' /\ OwnedOK' /\ ExpiringOK'
  BY <1>1 DEF IInv, TypeOK, OwnedOK, Owned, ExpiringOK, Expiring, At, U, Key
<1>4. MetersOK'
  <2>1. ASSUME NEW v \in Users, NEW e \in Days PROVE Meter(v, e)'
    <3>1. Spent(v, e)' = Spent(v, e) /\ Used(v, e)' = Used(v, e)
      BY <1>1, <1>2, StandingHeld DEF Spent, Used
    <3> QED BY <1>1, <3>1 DEF IInv, MetersOK, Meter, Covers
  <2> QED BY <2>1 DEF MetersOK
<1>5. day' >= day /\ faults' >= faults
  BY <1>1, AccessAssumption DEF IInv, TypeOK, Days
<1> QED
  BY <1>1, <1>2, <1>3, <1>4, <1>5, StandingStep

LEMMA Inductive == IInv /\ [Next]_vars => IInv'
<1> SUFFICES ASSUME IInv, [Next]_vars PROVE IInv'
  OBVIOUS
<1>1. CASE Midnight
  BY <1>1, MidnightStep
<1>2. ASSUME NEW u \in Users, NEW d \in Days, Forget(u, d) PROVE IInv'
  BY <1>2, ForgetStep
<1>3. ASSUME NEW u \in Users, NEW ps \in SUBSET Providers, SetConfigs(u, ps) PROVE IInv'
  <2>1. mode \in [Users -> {"FREE", "BYOK"}]
    BY DEF IInv, TypeOK
  <2>2. mode' = [mode EXCEPT ![u] = mode[u]] /\ mode[u] \in {"FREE", "BYOK"}
    BY <1>3, <2>1 DEF SetConfigs
  <2> QED BY <1>3, <2>2, SettleStep DEF SetConfigs
<1>4. ASSUME NEW u \in Users, NEW provider \in Providers,
             UpsertConfig(u, provider) \/ RemoveConfig(u, provider)
      PROVE  IInv'
  <2>1. configs[u] \in SUBSET Providers
    BY DEF IInv, TypeOK
  <2> QED BY <1>3, <1>4, <2>1 DEF UpsertConfig, RemoveConfig
<1>5. ASSUME NEW u \in Users, ChooseFree(u) PROVE IInv'
  <2>1. configs \in [Users -> SUBSET Providers]
    BY DEF IInv, TypeOK
  <2>2. configs' = [configs EXCEPT ![u] = configs[u]] /\ configs[u] \in SUBSET Providers
    BY <1>5, <2>1 DEF ChooseFree
  <2> QED BY <1>5, <2>2, SettleStep DEF ChooseFree
<1>6. ASSUME NEW u \in Users, NEW c \in Calls, Call(c, u) \/ ChooseByok(c, u) PROVE IInv'
  BY <1>6, BeginStep DEF Call, ChooseByok
<1>7. ASSUME NEW c \in Calls, TestQuota(c) PROVE IInv'
  BY <1>7, RefuseStep, GrantStep DEF TestQuota
<1>8. ASSUME NEW c \in Calls, Resolve(c) \/ Resend(c) \/ Fault(c) PROVE IInv'
  BY <1>7, <1>8, ReadUserStep, MissPlatformKeyStep, ReadConfigStep, IncrStep,
     ExpireStep, CallProviderStep, SetByokStep, ResendStep, FaultStep DEF Resolve
<1>9. CASE UNCHANGED vars
  BY <1>9, StutterStep
<1> QED
  BY <1>1, <1>2, <1>4, <1>5, <1>6, <1>8, <1>9 DEF Next

LEMMA Invariant == Spec => []IInv
<1> QED
  BY InitInv, Inductive, PTL DEF Spec

\* Every variable of the model stays in its type.
THEOREM TypeCorrect == Spec => []TypeOK
<1>1. IInv => TypeOK
  BY DEF IInv
<1> QED
  BY <1>1, Invariant, PTL

\* However many calls run at once, whatever is lost or sent twice, and wherever
\* midnight falls between LlmService choosing the counter and using it: of the
\* calls a user begins on one day, no more are let through than the limit and
\* those that were counted after the day had ended.
THEOREM QuotaKept == Spec => []LimitKept
<1>1. IInv => LimitKept
  <2> SUFFICES ASSUME IInv, NEW u \in Users, NEW d \in Days
               PROVE  granted[u][d] <= dailyLimit + late[u][d]
    BY DEF LimitKept
  <2>1. Meter(u, d) /\ TypeOK
    BY DEF IInv, MetersOK
  <2>2. /\ granted[u][d] \in Nat /\ late[u][d] \in Nat /\ dailyLimit \in Nat
        /\ Timely(u, d) \in Nat
    BY <2>1, HeldFinite, SpentType, AccessAssumption
  <2> QED BY <2>1, <2>2 DEF Meter, Used
<1> QED
  BY <1>1, Invariant, PTL

\* The quota refuses nobody early: at a refusal, as many calls of that user and
\* day as the limit were let through, are about to be, or were lost to a fault.
THEOREM RefusalsEarned == Spec => []RefusedAtLimit
<1>1. IInv => RefusedAtLimit
  <2> SUFFICES ASSUME IInv, NEW c \in Calls, calls[c].result = "refused"
               PROVE  LET d == calls[c].on
                          pending == {k \in Calls \ {c} : /\ calls[k].pc \in {"expire", "test"}
                                                         /\ U(k) = U(c) /\ calls[k].on = d}
                      IN  granted[U(c)][d] + Cardinality(pending) + faults >= dailyLimit
    BY DEF RefusedAtLimit
  <2>1. TypeOK /\ Asked(c)
    BY DEF IInv, AskedOK
  <2>2. PICK u \in Users, d \in Days : u = U(c) /\ d = calls[c].on
    BY <2>1 DEF Asked, TypeOK, Locals
  <2> DEFINE pending == {k \in Calls \ {c} : /\ calls[k].pc \in {"expire", "test"}
                                            /\ U(k) = u /\ calls[k].on = d}
  <2>3. dailyLimit <= Spent(u, d) /\ calls[c].pc = "idle"
    BY <2>1, <2>2 DEF Asked
  <2>4. Held(u, d) \subseteq pending
    BY <2>3 DEF Held, Counts, U
  <2>5. IsFiniteSet(pending)
    BY AccessAssumption, FS_Subset
  <2>6. Holds(u, d) <= Cardinality(pending) /\ Cardinality(pending) \in Nat
    BY <2>4, <2>5, FS_Subset, FS_CardinalityType DEF Holds
  <2>7. granted[u][d] \in Nat /\ Holds(u, d) \in Nat /\ faults \in Nat /\ dailyLimit \in Nat
    BY <2>1, HeldFinite, SpentType, AccessAssumption
  <2> HIDE DEF pending
  <2>8. granted[u][d] + Cardinality(pending) + faults >= dailyLimit
    BY <2>3, <2>6, <2>7 DEF Spent
  <2> QED BY <2>2, <2>8 DEF pending
<1> QED
  BY <1>1, Invariant, PTL

\* INCR and EXPIRE are two commands: without a fault, no counter of Redis is
\* left without an expiry and without the call that will set it.
THEOREM CountersGo == Spec => []CountersExpire
<1>1. IInv => CountersExpire
  BY DEF IInv, ExpiringOK, Expiring, CountersExpire
<1> QED
  BY <1>1, Invariant, PTL

\* A call whose user stays in mode BYOK, with a configuration, while it runs is
\* neither counted nor refused, whatever else the user and others change.
THEOREM OwnKeyHonoured == Spec => []OwnKeyUnmetered
<1>1. IInv => OwnKeyUnmetered
  BY DEF IInv, OwnedOK, Owned, OwnKeyUnmetered
<1> QED
  BY <1>1, Invariant, PTL
=============================================================================
