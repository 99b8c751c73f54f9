-------------------------------- MODULE Chat --------------------------------
(***************************************************************************)
(* The chat about a review: ReviewsService.chat.  A turn loads the         *)
(* conversation from Redis, awaits the language model, and stores the      *)
(* conversation whole; turns of any number of users run at the same time,  *)
(* on any number of server processes.                                      *)
(*                                                                         *)
(* Turns are numbered as they begin.  A conversation is named by the turn  *)
(* that made its id, a fresh uuid.  A message is a role and a turn; the    *)
(* system message, rebuilt on every turn, is left out.                     *)
(*                                                                         *)
(* The field rivals of a turn is history; no step reads it.                *)
(***************************************************************************)
EXTENDS Naturals, Sequences, FiniteSets

CONSTANTS Users, Reviews, None,
          MaxTurns      \* bound: turns

ASSUME ChatAssumption == MaxTurns \in Nat /\ None \notin Users

Turns == 1..MaxTurns
NoId == 0               \* the request carries no conversationId

VARIABLES
    owner,    \* owner[r]: the user to whom review r belongs, None once it is deleted
    stored,   \* stored[k]: the Redis value of conversation k, or None
    turns     \* turns[t]: the local state of turn t

vars == <<owner, stored, turns>>

Unused == [pc |-> "unused", user |-> None, review |-> None, conv |-> NoId,
           messages |-> <<>>, rivals |-> {}]

Init ==
    /\ owner \in [Reviews -> Users]
    /\ stored = [k \in Turns |-> None]
    /\ turns = [t \in Turns |-> Unused]

-----------------------------------------------------------------------------
At(t, pc) == turns[t].pc = pc
Conv(t) == turns[t].conv
Messages(t) == turns[t].messages

\* past the load, and not yet ended
Holding(t) == turns[t].pc \in {"llm", "save", "saveRefused"}

UserMessage(t) == [role |-> "user", turn |-> t]
AssistantMessage(t) == [role |-> "assistant", turn |-> t]

Goto(t, pc, messages) ==
    turns' = [turns EXCEPT ![t].pc = pc, ![t].messages = messages]

\* A user sends a message, with the id of an earlier answer or with none; the
\* review is found if it is theirs.
Ask(t, u, r, k) ==
    /\ At(t, "unused") /\ \A v \in Turns : v < t => ~At(v, "unused")
    /\ owner[r] = u
    /\ k = NoId \/ \E v \in Turns : At(v, "answered") /\ Conv(v) = k
    /\ turns' = [turns EXCEPT ![t] = [Unused EXCEPT !.pc = "load", !.user = u,
                                                    !.review = r, !.conv = k]]
    /\ UNCHANGED <<owner, stored>>

\* the conversation is discarded if it belongs to a different user or review
TheirsBug(t) == stored[Conv(t)].review = turns[t].review
Theirs(t) ==
    stored[Conv(t)].user = turns[t].user /\ stored[Conv(t)].review = turns[t].review

Resumes(t) == Conv(t) # NoId /\ stored[Conv(t)] # None /\ Theirs(t)

HistoryBug(t) == <<>>
History(t) == stored[Conv(t)].messages

\* crypto.randomUUID()
FreshIdBug(t) == Conv(t)
FreshId(t) == t

LoadConversation(t) ==
    /\ At(t, "load")
    /\ \/ /\ Resumes(t)
          /\ Goto(t, "llm", Append(History(t), UserMessage(t)))
       \/ /\ ~Resumes(t)
          /\ turns' = [turns EXCEPT ![t].pc = "llm", ![t].conv = FreshId(t),
                                    ![t].messages = <<UserMessage(t)>>]
    /\ UNCHANGED <<owner, stored>>

LlmAnswers(t) ==
    /\ At(t, "llm")
    /\ Goto(t, "save", Append(Messages(t), AssistantMessage(t)))
    /\ UNCHANGED <<owner, stored>>

\* no key, no quota, or the provider fails: the user's message is taken back
PoppedBug(t) == Messages(t)
Popped(t) == SubSeq(Messages(t), 1, Len(Messages(t)) - 1)

LlmRefuses(t) ==
    /\ At(t, "llm")
    /\ Goto(t, "saveRefused", Popped(t))
    /\ UNCHANGED <<owner, stored>>

\* on both paths the conversation is stored whole, for another two hours
SaveConversation(t) ==
    /\ turns[t].pc \in {"save", "saveRefused"}
    /\ stored' = [stored EXCEPT ![Conv(t)] = [user |-> turns[t].user,
                                              review |-> turns[t].review,
                                              messages |-> Messages(t)]]
    /\ turns' = [turns EXCEPT
                   ![t].pc = IF At(t, "save") THEN "answered" ELSE "refused",
                   ![t].messages = <<>>,
                   ![t].rivals = {v \in Turns \ {t} : Holding(v) /\ Conv(v) = Conv(t)}]
    /\ UNCHANGED owner

Turn(t) == LoadConversation(t) \/ LlmAnswers(t) \/ LlmRefuses(t) \/ SaveConversation(t)

\* Redis does not answer, or the process dies
Die(t) ==
    /\ Holding(t) \/ At(t, "load")
    /\ Goto(t, "dead", <<>>)
    /\ UNCHANGED <<owner, stored>>

\* two hours without a turn, which a turn in progress does not prevent
Expire(k) ==
    /\ stored[k] # None
    /\ stored' = [stored EXCEPT ![k] = None]
    /\ UNCHANGED <<owner, turns>>

\* overlapping claims may replace the owner of the installation
Reclaim(r, u) ==
    /\ owner[r] # None
    /\ owner' = [owner EXCEPT ![r] = u]
    /\ UNCHANGED <<stored, turns>>

\* the installation is deleted, with its reviews
Uninstall(r) ==
    /\ owner' = [owner EXCEPT ![r] = None]
    /\ UNCHANGED <<stored, turns>>

Next ==
    \/ \E t \in Turns :
          \/ \E u \in Users, r \in Reviews, k \in Turns \cup {NoId} : Ask(t, u, r, k)
          \/ Turn(t)
          \/ Die(t)
    \/ \E k \in Turns : Expire(k)
    \/ \E r \in Reviews : Uninstall(r) \/ \E u \in Users : Reclaim(r, u)

Spec == Init /\ [][Next]_vars

-----------------------------------------------------------------------------
(* What is checked.                                                         *)

Message == [role : {"user", "assistant"}, turn : Turns]
Conversation == [user : Users, review : Reviews, messages : Seq(Message)]
Pcs == {"unused", "load", "llm", "save", "saveRefused", "answered", "refused", "dead"}

Locals == [pc : Pcs, user : Users \cup {None}, review : Reviews \cup {None},
           conv : Turns \cup {NoId}, messages : Seq(Message), rivals : SUBSET Turns]

Complete(t) ==
    /\ At(t, "unused") => turns[t] = Unused
    /\ ~At(t, "unused") => turns[t].user \in Users /\ turns[t].review \in Reviews
    /\ Holding(t) => Conv(t) # NoId

\* Every variable stays in its type; a turn has a user and a review, and once it
\* has loaded the conversation, an id.
TypeOK ==
    /\ owner \in [Reviews -> Users \cup {None}]
    /\ stored \in [Turns -> Conversation \cup {None}]
    /\ turns \in [Turns -> Locals]
    /\ \A t \in Turns : Complete(t)

\* A stored conversation is a sequence of whole turns, each once: a question
\* and its answer.  Turns that overlap, are refused or die leave neither a
\* question without answer nor the pieces of two turns.
WholeTurns ==
    \A k \in Turns : stored[k] # None =>
        LET ms == stored[k].messages
            asks == {i \in DOMAIN ms : ms[i].role = "user"}
        IN /\ asks = {i \in DOMAIN ms : i % 2 = 1} /\ Len(ms) % 2 = 0
           /\ \A i \in asks : ms[i + 1].turn = ms[i].turn
           /\ \A i, j \in asks : ms[i].turn = ms[j].turn => i = j

Own(m, u, r) == turns[m.turn].user = u /\ turns[m.turn].review = r
OwnHistory(k) ==
    stored[k] # None => \A i \in DOMAIN stored[k].messages :
        Own(stored[k].messages[i], stored[k].user, stored[k].review)
OwnMessages(t) ==
    \A i \in DOMAIN Messages(t) : Own(Messages(t)[i], turns[t].user, turns[t].review)
\* Conversations are scoped to the user and the review: whatever ids requests
\* carry and whoever the review belongs to by then, a message that is stored in
\* a conversation, or sent to the model for a turn, was asked by its user about
\* its review.
Scoped == (\A k \in Turns : OwnHistory(k)) /\ (\A t \in Turns : OwnMessages(t))

\* A turn that was answered stays in its conversation until that expires,
\* unless another turn, which had loaded the conversation before this one was
\* stored, stored it afterwards.
TurnKept ==
    \A t \in Turns : At(t, "answered") /\ stored[Conv(t)] # None =>
        \/ \E i \in DOMAIN stored[Conv(t)].messages :
              stored[Conv(t)].messages[i] = AssistantMessage(t)
        \/ \E v \in turns[t].rivals : turns[v].pc \in {"answered", "refused"}
=============================================================================
