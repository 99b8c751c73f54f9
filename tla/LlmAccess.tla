------------------------------ MODULE LlmAccess ------------------------------
(***************************************************************************)
(* Whose key pays for a call of the language model.  A user in mode FREE   *)
(* uses the platform's key and has a daily quota, counted in Redis under   *)
(* the user and the UTC day; a user in mode BYOK uses a key of their own.  *)
(* Reviews and chats, over all server processes, make calls at the same    *)
(* time; each await of LlmService.resolveKeyAndModel is a step, and days   *)
(* end between any two of them.                                            *)
(*                                                                         *)
(* The variables granted and late and the fields on and steady of a call   *)
(* are history; no step reads them.                                        *)
(***************************************************************************)
EXTENDS Naturals, FiniteSets

CONSTANTS Users, Calls, Providers,
          OpenRouter,   \* the provider every call goes to
          dailyLimit,   \* FREE_REVIEWS_PER_USER_PER_DAY
          None,
          MaxDay,       \* bound: days
          MaxCount,     \* bound: calls counted per user and day
          MaxFaults     \* bound: deaths, and commands failed or sent twice

ASSUME AccessAssumption ==
    /\ OpenRouter \in Providers
    /\ dailyLimit \in Nat \ {0}
    /\ IsFiniteSet(Calls)
    /\ MaxDay \in Nat /\ MaxCount \in Nat /\ MaxFaults \in Nat
    /\ None \notin Users

Days == 0..MaxDay
Never == MaxDay + 2      \* the expiry of a key that has none

VARIABLES
    day,       \* the UTC day it is
    mode,      \* mode[u]: User.llmMode
    configs,   \* configs[u]: the providers of u's UserLlmConfig rows
    counters,  \* counters[u][d]: the Redis counter of u on day d
    calls,     \* calls[c]: the local state of a call, or of a change of mode
    faults,    \* number of faults so far
    granted,   \* granted[u][d]: calls begun on day d that the quota let through
    late       \* late[u][d]: those of them that were counted after day d

vars == <<day, mode, configs, counters, calls, faults, granted, late>>

NoCounter == [count |-> 0, expires |-> Never]
NoCall == [pc |-> "idle", u |-> None, key |-> 0, count |-> 0, on |-> 0, late |-> FALSE,
           steady |-> FALSE, result |-> "none"]

Init ==
    /\ day = 0
    /\ mode = [u \in Users |-> "FREE"]
    /\ configs = [u \in Users |-> {}]
    /\ counters = [u \in Users |-> [d \in Days |-> NoCounter]]
    /\ calls = [c \in Calls |-> NoCall]
    /\ faults = 0
    /\ granted = [u \in Users |-> [d \in Days |-> 0]]
    /\ late = granted

-----------------------------------------------------------------------------
(* Time.                                                                    *)

Midnight ==
    /\ day < MaxDay
    /\ day' = day + 1
    /\ UNCHANGED <<mode, configs, counters, calls, faults, granted, late>>

\* Redis drops a key whose time has come
Forget(u, d) ==
    /\ counters[u][d].expires <= day
    /\ counters' = [counters EXCEPT ![u][d] = NoCounter]
    /\ UNCHANGED <<day, mode, configs, calls, faults, granted, late>>

-----------------------------------------------------------------------------
(* The settings of a user.                                                  *)

Steady(u, m, ps) == m = "BYOK" /\ OpenRouter \in ps

\* calls in flight remember whether u stayed ready for its own key
Unsettled(u, m, ps) ==
    [c \in Calls |-> IF calls[c].u = u
                     THEN [calls[c] EXCEPT !.steady = @ /\ Steady(u, m, ps)]
                     ELSE calls[c]]

SetConfigs(u, ps) ==
    /\ configs' = [configs EXCEPT ![u] = ps]
    /\ calls' = Unsettled(u, mode[u], ps)
    /\ UNCHANGED <<day, mode, counters, faults, granted, late>>

UpsertConfig(u, provider) == SetConfigs(u, configs[u] \cup {provider})

RemoveConfig(u, provider) == provider \in configs[u] /\ SetConfigs(u, configs[u] \ {provider})

\* updateMode(FREE) is one statement
ChooseFree(u) ==
    /\ mode' = [mode EXCEPT ![u] = "FREE"]
    /\ calls' = Unsettled(u, "FREE", configs[u])
    /\ UNCHANGED <<day, configs, counters, faults, granted, late>>

-----------------------------------------------------------------------------
(* A call.                                                                  *)

At(c, pc) == calls[c].pc = pc
U(c) == calls[c].u
Key(c) == calls[c].key

Goto(c, pc) == calls' = [calls EXCEPT ![c].pc = pc]
End(c, result) ==
    calls' = [calls EXCEPT ![c] = [NoCall EXCEPT !.u = U(c), !.on = calls[c].on, !.result = result,
                                                 !.steady = calls[c].steady]]
Begin(c, u, pc) ==
    /\ At(c, "idle")
    /\ calls' = [calls EXCEPT ![c] = [NoCall EXCEPT !.pc = pc, !.u = u,
                                                    !.steady = Steady(u, mode[u], configs[u])]]
    /\ UNCHANGED <<day, mode, configs, counters, faults, granted, late>>

Call(c, u) == Begin(c, u, "user")

\* updateMode(BYOK) needs a configuration of any provider when it looks
ChooseByok(c, u) == configs[u] # {} /\ Begin(c, u, "mode")

SetByok(c) ==
    /\ At(c, "mode")
    /\ mode' = [mode EXCEPT ![U(c)] = "BYOK"]
    /\ calls' = [calls EXCEPT ![c] = NoCall]
    /\ UNCHANGED <<day, configs, counters, faults, granted, late>>

\* resolveKeyAndModel reads the mode; the counter is that of this day
MeteredBug(u) == TRUE
Metered(u) == mode[u] # "BYOK"

KeyBug == 0
KeyAheadBug == day + 1
KeyOfToday == day

ReadUser(c) ==
    /\ At(c, "user")
    /\ calls' = [calls EXCEPT ![c].pc = IF Metered(U(c)) THEN "incr" ELSE "config",
                              ![c].key = KeyOfToday, ![c].on = day]
    /\ UNCHANGED <<day, mode, configs, counters, faults, granted, late>>

\* without a key and a model of the platform, a metered call ends uncounted;
\* the server's settings are not modelled, and may be missing at any call
MissPlatformKey(c) ==
    /\ At(c, "user")
    /\ Metered(U(c))
    /\ End(c, "failed")
    /\ UNCHANGED <<day, mode, configs, counters, faults, granted, late>>

\* getDecryptedConfig, always of OpenRouter
ReadConfig(c) ==
    /\ At(c, "config")
    /\ IF OpenRouter \in configs[U(c)] THEN Goto(c, "provider") ELSE End(c, "noConfig")
    /\ UNCHANGED <<day, mode, configs, counters, faults, granted, late>>

\* consumeFreeReview: INCR answers the new count
FirstBug(n) == n = dailyLimit + 1
First(n) == n = 1

Incr(c) ==
    LET n == counters[U(c)][Key(c)].count + 1 IN
    /\ At(c, "incr")
    /\ n <= MaxCount
    /\ counters' = [counters EXCEPT ![U(c)][Key(c)].count = n]
    /\ calls' = [calls EXCEPT ![c].count = n, ![c].late = (calls[c].on # day),
                              ![c].pc = IF First(n) THEN "expire" ELSE "test"]
    /\ UNCHANGED <<day, mode, configs, faults, granted, late>>

\* the connection is lost after the INCR, and the client sends it again
Resend(c) ==
    LET n == counters[U(c)][Key(c)].count + 1 IN
    /\ At(c, "incr")
    /\ n <= MaxCount /\ faults < MaxFaults
    /\ counters' = [counters EXCEPT ![U(c)][Key(c)].count = n]
    /\ faults' = faults + 1
    /\ UNCHANGED <<day, mode, configs, calls, granted, late>>

\* the first call sets the expiry, to the end of the day it is by then
ExpiresBug == day
Expires == day + 1

Expire(c) ==
    /\ At(c, "expire")
    /\ counters' = IF counters[U(c)][Key(c)] = NoCounter THEN counters
                   ELSE [counters EXCEPT ![U(c)][Key(c)].expires = Expires]
    /\ Goto(c, "test")
    /\ UNCHANGED <<day, mode, configs, faults, granted, late>>

OverBug(c) == calls[c].count > dailyLimit + 1
Over(c) == calls[c].count > dailyLimit

TestQuota(c) ==
    /\ At(c, "test")
    /\ \/ /\ Over(c)
          /\ End(c, "refused")
          /\ UNCHANGED <<granted, late>>
       \/ /\ ~Over(c)
          /\ Goto(c, "provider")
          /\ granted' = [granted EXCEPT ![U(c)][calls[c].on] = @ + 1]
          /\ late' = IF calls[c].late THEN [late EXCEPT ![U(c)][calls[c].on] = @ + 1] ELSE late
    /\ UNCHANGED <<day, mode, configs, counters, faults>>

\* OpenRouter answers, or the request fails
CallProvider(c) ==
    /\ At(c, "provider")
    /\ End(c, "answered") \/ End(c, "failed")
    /\ UNCHANGED <<day, mode, configs, counters, faults, granted, late>>

Resolve(c) ==
    \/ ReadUser(c) \/ MissPlatformKey(c) \/ ReadConfig(c) \/ Incr(c) \/ Expire(c)
    \/ TestQuota(c) \/ CallProvider(c) \/ SetByok(c)

\* the process dies, or the database or Redis does not answer
Fault(c) ==
    /\ ~At(c, "idle")
    /\ faults < MaxFaults
    /\ faults' = faults + 1
    /\ End(c, "failed")
    /\ UNCHANGED <<day, mode, configs, counters, granted, late>>

Next ==
    \/ Midnight
    \/ \E u \in Users : \/ \E d \in Days : Forget(u, d)
                        \/ \E pr \in Providers : UpsertConfig(u, pr) \/ RemoveConfig(u, pr)
                        \/ ChooseFree(u)
                        \/ \E c \in Calls : Call(c, u) \/ ChooseByok(c, u)
    \/ \E c \in Calls : Resolve(c) \/ Resend(c) \/ Fault(c)

Spec == Init /\ [][Next]_vars

-----------------------------------------------------------------------------
(* What is checked.                                                         *)

Pcs == {"idle", "mode", "user", "config", "incr", "expire", "test", "provider"}
Results == {"none", "noConfig", "refused", "answered", "failed"}
Locals == [pc : Pcs, u : Users \cup {None}, key : Days, count : Nat, on : Days,
           late : BOOLEAN, steady : BOOLEAN, result : Results]

\* Every variable stays in its type, and a call in progress has a user.
TypeOK ==
    /\ day \in Days
    /\ mode \in [Users -> {"FREE", "BYOK"}]
    /\ configs \in [Users -> SUBSET Providers]
    /\ counters \in [Users -> [Days -> [count : Nat, expires : Nat]]]
    /\ calls \in [Calls -> Locals]
    /\ \A c \in Calls : ~At(c, "idle") => U(c) \in Users
    /\ faults \in 0..MaxFaults
    /\ granted \in [Users -> [Days -> Nat]]
    /\ late \in [Users -> [Days -> Nat]]

\* The key of the counter is chosen before INCR runs, and the expiry is set
\* after it, so a day may end in between.  Of the calls that a user begins on
\* one day, at most dailyLimit are let through, and one more for each that was
\* counted only after the day had ended.
LimitKept == \A u \in Users, d \in Days : granted[u][d] <= dailyLimit + late[u][d]

\* A call that is refused was one too many: dailyLimit others of the same user
\* and day were let through, are about to be, or were counted and then failed.
RefusedAtLimit ==
    \A c \in Calls : calls[c].result = "refused" =>
        LET d == calls[c].on
            pending == {k \in Calls \ {c} : /\ calls[k].pc \in {"expire", "test"}
                                           /\ U(k) = U(c) /\ calls[k].on = d}
        IN granted[U(c)][d] + Cardinality(pending) + faults >= dailyLimit

\* The expiry is a second command, sent by the call that created the counter.
\* Short of a fault, a counter without expiry has that call still to come.
CountersExpire ==
    \A u \in Users, d \in Days :
        counters[u][d].count > 0 /\ counters[u][d].expires = Never =>
            faults > 0 \/ \E c \in Calls : At(c, "expire") /\ U(c) = u /\ Key(c) = d

\* Users change their settings while calls run.  A call during which its user
\* stays in mode BYOK with a configuration is neither metered nor refused.
OwnKeyUnmetered ==
    \A c \in Calls : calls[c].steady =>
        /\ calls[c].pc \notin {"incr", "expire", "test"}
        /\ calls[c].result \notin {"refused", "noConfig"}
=============================================================================
