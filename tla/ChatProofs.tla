----------------------------- MODULE ChatProofs -----------------------------
EXTENDS Chat, SequenceTheorems, TLAPS

(* Scoped speaks of the messages in place only, but it is inductive together *)
(* with the types: a message cannot belong to a turn that has not begun,     *)
(* since that would have no user.                                            *)
IInv == TypeOK /\ Scoped

LEMMA UnusedLocal == Unused \in Locals
  BY DEF Unused, Locals, Pcs, NoId

LEMMA InitInv == Init => IInv
<1> SUFFICES ASSUME Init PROVE IInv
  OBVIOUS
<1>1. TypeOK
  BY UnusedLocal DEF Init, TypeOK, Complete, At, Holding, Unused
<1>2. Scoped
  BY DEF Init, Scoped, OwnHistory, OwnMessages, Messages, Unused
<1> QED
  BY <1>1, <1>2 DEF IInv

-----------------------------------------------------------------------------
(* Types.                                                                    *)

LEMMA StepType ==
    ASSUME TypeOK, NEW t \in Turns, NEW new \in Locals,
           turns' = [turns EXCEPT ![t] = new],
           new.pc # "unused", new.user \in Users, new.review \in Reviews,
           new.pc \in {"llm", "save", "saveRefused"} => new.conv # NoId,
           UNCHANGED owner, stored' \in [Turns -> Conversation \cup {None}]
    PROVE  TypeOK'
<1>1. turns' \in [Turns -> Locals] /\ owner' \in [Reviews -> Users \cup {None}]
  BY DEF TypeOK
<1>2. ASSUME NEW v \in Turns PROVE Complete(v)'
  <2>1. CASE v = t
    <3>1. turns'[v] = new
      BY <2>1 DEF TypeOK
    <3> QED
      BY <3>1 DEF Complete, At, Holding, Conv
  <2>2. CASE v # t
    <3>1. turns'[v] = turns[v] /\ Complete(v)
      BY <2>2 DEF TypeOK
    <3> QED
      BY <3>1 DEF Complete, At, Holding, Conv
  <2> QED
    BY <2>1, <2>2
<1> QED
  BY <1>1, <1>2 DEF TypeOK

LEMMA AskType ==
    ASSUME TypeOK, NEW t \in Turns, NEW u \in Users, NEW r \in Reviews,
           NEW k \in Turns \cup {NoId}, Ask(t, u, r, k)
    PROVE  TypeOK'
<1> DEFINE new == [Unused EXCEPT !.pc = "load", !.user = u, !.review = r, !.conv = k]
<1>1. /\ new \in Locals /\ new.pc = "load" /\ new.user = u /\ new.review = r
  BY UnusedLocal DEF Locals, Pcs, Unused
<1>2. turns' = [turns EXCEPT ![t] = new] /\ UNCHANGED <<owner, stored>>
  BY DEF Ask
<1>3. stored' \in [Turns -> Conversation \cup {None}]
  BY <1>2 DEF TypeOK
<1> HIDE DEF new
<1> QED
  BY <1>1, <1>2, <1>3, StepType

LEMMA LoadType ==
    ASSUME TypeOK, NEW t \in Turns, LoadConversation(t)
    PROVE  TypeOK'
<1>1. UserMessage(t) \in Message
  BY DEF UserMessage, Message
<1>2. owner' = owner /\ stored' \in [Turns -> Conversation \cup {None}]
  BY DEF LoadConversation, TypeOK
<1>3. turns[t] \in Locals /\ turns[t].user \in Users /\ turns[t].review \in Reviews
  BY DEF LoadConversation, TypeOK, Complete, At
<1>4. CASE Resumes(t) /\ Goto(t, "llm", Append(History(t), UserMessage(t)))
  <2> DEFINE ms == Append(History(t), UserMessage(t))
             new == [turns[t] EXCEPT !.pc = "llm", !.messages = ms]
  <2>1. stored[Conv(t)] \in Conversation /\ Conv(t) # NoId
    BY <1>3, <1>4 DEF Resumes, TypeOK, Locals, Conv
  <2>2. ms \in Seq(Message)
    BY <2>1, <1>1 DEF History, Conversation
  <2> HIDE DEF ms
  <2>3. new \in Locals /\ new.pc = "llm" /\ new.user = turns[t].user
        /\ new.review = turns[t].review /\ new.conv # NoId
    BY <2>1, <2>2, <1>3 DEF Locals, Pcs, Conv
  <2>4. turns' = [turns EXCEPT ![t] = new]
    BY <1>4 DEF Goto, ms, TypeOK
  <2> QED
    BY <2>3, <2>4, <1>2, <1>3, StepType
<1>5. CASE turns' = [turns EXCEPT ![t].pc = "llm", ![t].conv = FreshId(t),
                                  ![t].messages = <<UserMessage(t)>>]
  <2> DEFINE ms == <<UserMessage(t)>>
             new == [turns[t] EXCEPT !.pc = "llm", !.conv = FreshId(t), !.messages = ms]
  <2>1. ms \in Seq(Message) /\ FreshId(t) \in Turns /\ FreshId(t) # NoId
    BY <1>1 DEF FreshId, NoId, Turns
  <2> HIDE DEF ms
  <2>2. new \in Locals /\ new.pc = "llm" /\ new.user = turns[t].user
        /\ new.review = turns[t].review /\ new.conv # NoId
    BY <2>1, <1>3 DEF Locals, Pcs
  <2>3. turns' = [turns EXCEPT ![t] = new]
    BY <1>5 DEF ms, TypeOK
  <2> QED
    BY <2>2, <2>3, <1>2, <1>3, StepType
<1> QED
  BY <1>4, <1>5 DEF LoadConversation

\* the steps that only move a turn on, with new messages
LEMMA GotoType ==
    ASSUME TypeOK, NEW t \in Turns, NEW pc \in Pcs \ {"unused"}, NEW ms \in Seq(Message),
           Goto(t, pc, ms), ~At(t, "unused"), Holding(t) \/ pc = "dead",
           UNCHANGED <<owner, stored>>
    PROVE  TypeOK'
<1> DEFINE new == [turns[t] EXCEPT !.pc = pc, !.messages = ms]
<1>1. turns[t] \in Locals /\ turns[t].user \in Users /\ turns[t].review \in Reviews
  BY DEF TypeOK, Complete
<1>2. new \in Locals /\ new.pc = pc /\ new.user = turns[t].user
      /\ new.review = turns[t].review /\ new.conv = Conv(t)
  BY <1>1 DEF Locals, Conv
<1>3. turns' = [turns EXCEPT ![t] = new] /\ stored' \in [Turns -> Conversation \cup {None}]
  BY DEF Goto, TypeOK
<1>4. pc \in {"llm", "save", "saveRefused"} => Conv(t) # NoId
  BY DEF TypeOK, Complete
<1> HIDE DEF new
<1> QED
  BY <1>1, <1>2, <1>3, <1>4, StepType

LEMMA AnswersType ==
    ASSUME TypeOK, NEW t \in Turns, LlmAnswers(t)
    PROVE  TypeOK'
<1>1. AssistantMessage(t) \in Message /\ Messages(t) \in Seq(Message)
  BY DEF AssistantMessage, Message, Messages, TypeOK, Locals
<1>2. Append(Messages(t), AssistantMessage(t)) \in Seq(Message)
  BY <1>1
<1> QED
  BY <1>2, GotoType DEF LlmAnswers, At, Holding, Pcs

LEMMA PoppedPrefix ==
    ASSUME TypeOK, NEW t \in Turns
    PROVE  /\ Popped(t) \in Seq(Message)
           /\ \A i \in DOMAIN Popped(t) : i \in DOMAIN Messages(t) /\ Popped(t)[i] = Messages(t)[i]
<1>1. Messages(t) \in Seq(Message)
  BY DEF Messages, TypeOK, Locals
<1> QED
  BY <1>1 DEF Popped

LEMMA RefusesType ==
    ASSUME TypeOK, NEW t \in Turns, LlmRefuses(t)
    PROVE  TypeOK'
  BY PoppedPrefix, GotoType DEF LlmRefuses, At, Holding, Pcs

LEMMA DieType ==
    ASSUME TypeOK, NEW t \in Turns, Die(t)
    PROVE  TypeOK'
<1>1. <<>> \in Seq(Message)
  OBVIOUS
<1> QED
  BY <1>1, GotoType DEF Die, At, Holding, Pcs

LEMMA SaveType ==
    ASSUME TypeOK, NEW t \in Turns, SaveConversation(t)
    PROVE  TypeOK'
<1> DEFINE rivals == {v \in Turns \ {t} : Holding(v) /\ Conv(v) = Conv(t)}
           pc == IF At(t, "save") THEN "answered" ELSE "refused"
           new == [turns[t] EXCEPT !.pc = pc, !.messages = <<>>, !.rivals = rivals]
<1>1. turns[t] \in Locals /\ turns[t].user \in Users /\ turns[t].review \in Reviews
  BY DEF SaveConversation, TypeOK, Complete, At
<1>2. [user |-> turns[t].user, review |-> turns[t].review, messages |-> Messages(t)]
         \in Conversation
  BY <1>1 DEF Conversation, Messages, Locals
<1>3. owner' = owner /\ stored' \in [Turns -> Conversation \cup {None}]
  BY <1>2 DEF SaveConversation, TypeOK
<1>4. rivals \in SUBSET Turns /\ pc \in {"answered", "refused"} /\ <<>> \in Seq(Message)
  OBVIOUS
<1>5. turns' = [turns EXCEPT ![t].pc = pc, ![t].messages = <<>>, ![t].rivals = rivals]
  BY DEF SaveConversation
<1> HIDE DEF rivals, pc
<1>6. new \in Locals /\ new.pc = pc /\ new.user = turns[t].user /\ new.review = turns[t].review
  BY <1>1, <1>4 DEF Locals, Pcs
<1>7. turns' = [turns EXCEPT ![t] = new]
  BY <1>5 DEF TypeOK
<1> HIDE DEF new
<1> QED
  BY <1>1, <1>3, <1>4, <1>6, <1>7, StepType

LEMMA ExpireType ==
    ASSUME TypeOK, NEW k \in Turns, Expire(k)
    PROVE  TypeOK'
  BY DEF Expire, TypeOK, Complete, At, Holding, Conv

-----------------------------------------------------------------------------
(* Scopes.                                                                   *)

\* The messages of a turn's new state are of this turn or have been its own.
Inherits(t, new) ==
    /\ ~At(t, "unused") => new.user = turns[t].user /\ new.review = turns[t].review
    /\ new.user \in Users
    /\ \A i \in DOMAIN new.messages :
          \/ new.messages[i].turn = t
          \/ Own(new.messages[i], new.user, new.review)

\* A turn that goes on to such a state, storing nothing or a conversation that
\* is its user's own, keeps the scopes.
LEMMA StepScoped ==
    ASSUME IInv, NEW t \in Turns, NEW new \in Locals, turns' = [turns EXCEPT ![t] = new],
           Inherits(t, new),
           \A k \in Turns : stored'[k] = stored[k] \/ OwnHistory(k)'
    PROVE  Scoped'
<1>1. TypeOK /\ Scoped
  BY DEF IInv
<1>2. ASSUME NEW m \in Message, NEW u \in Users, NEW r, Own(m, u, r)
      PROVE  turns'[m.turn].user = u /\ turns'[m.turn].review = r
  \* a message that belongs to a user is of a turn that has begun
  <2>1. m.turn \in Turns
    BY DEF Message
  <2>2. m.turn = t => ~At(t, "unused")
    BY <1>1, <1>2, ChatAssumption DEF Own, TypeOK, Complete, Unused, Inherits
  <2>3. turns'[m.turn] = IF m.turn = t THEN new ELSE turns[m.turn]
    BY <1>1, <2>1 DEF TypeOK
  <2> QED
    BY <1>2, <2>2, <2>3 DEF Own, Inherits
<1>3. ASSUME NEW k \in Turns PROVE OwnHistory(k)'
  <2>1. SUFFICES ASSUME stored'[k] = stored[k], stored[k] # None,
                        NEW i \in DOMAIN stored[k].messages
                 PROVE  Own(stored[k].messages[i], stored[k].user, stored[k].review)'
    BY DEF OwnHistory
  <2> DEFINE m == stored[k].messages[i]
             u == stored[k].user
             r == stored[k].review
  <2>2. stored[k] \in Conversation
    BY <1>1, <2>1 DEF TypeOK
  <2>3. m \in Message /\ u \in Users
    BY <2>2 DEF Conversation
  <2>4. Own(m, u, r)
    BY <1>1, <2>1 DEF Scoped, OwnHistory
  <2>5. turns'[m.turn].user = u /\ turns'[m.turn].review = r
    BY <2>3, <2>4, <1>2
  <2> QED
    BY <2>1, <2>5 DEF Own
<1>4. ASSUME NEW v \in Turns \ {t} PROVE OwnMessages(v)'
  <2>1. turns'[v] = turns[v] /\ turns[v] \in Locals
    BY <1>1 DEF TypeOK
  <2>2. SUFFICES ASSUME NEW i \in DOMAIN Messages(v)
                 PROVE  Own(Messages(v)[i], turns[v].user, turns[v].review)'
    BY <2>1 DEF OwnMessages, Messages
  <2> DEFINE m == Messages(v)[i]
             u == turns[v].user
             r == turns[v].review
  <2>3. m \in Message
    BY <2>1 DEF Messages, Locals
  <2>4. u \in Users
    BY <1>1, <2>2 DEF TypeOK, Complete, Unused, Messages
  <2>5. Own(m, u, r)
    BY <1>1 DEF Scoped, OwnMessages
  <2>6. turns'[m.turn].user = u /\ turns'[m.turn].review = r
    BY <2>3, <2>4, <2>5, <1>2
  <2> QED
    BY <2>1, <2>6 DEF Own, Messages
<1>5. OwnMessages(t)'
  <2>1. turns'[t] = new
    BY <1>1 DEF TypeOK
  <2>2. SUFFICES ASSUME NEW i \in DOMAIN new.messages
                 PROVE  Own(new.messages[i], new.user, new.review)'
    BY <2>1 DEF OwnMessages, Messages
  <2> DEFINE m == new.messages[i]
  <2>3. m \in Message
    BY DEF Locals
  <2>4. CASE m.turn = t
    BY <2>1, <2>4 DEF Own
  <2>5. CASE Own(m, new.user, new.review)
    <3>1. turns'[m.turn].user = new.user /\ turns'[m.turn].review = new.review
      BY <2>3, <2>5, <1>2 DEF Inherits
    <3> QED
      BY <3>1 DEF Own
  <2> QED
    BY <2>4, <2>5 DEF Inherits
<1> QED
  BY <1>3, <1>4, <1>5 DEF Scoped

LEMMA AskScoped ==
    ASSUME IInv, NEW t \in Turns, NEW u \in Users, NEW r \in Reviews,
           NEW k \in Turns \cup {NoId}, Ask(t, u, r, k)
    PROVE  Scoped'
<1> DEFINE new == [Unused EXCEPT !.pc = "load", !.user = u, !.review = r, !.conv = k]
<1>1. new \in Locals
  BY UnusedLocal DEF Locals, Pcs, Unused
<1>2. Inherits(t, new)
  BY DEF Inherits, Unused, Ask
<1>3. turns' = [turns EXCEPT ![t] = new] /\ stored' = stored
  BY DEF Ask
<1> HIDE DEF new
<1> QED
  BY <1>1, <1>2, <1>3, StepScoped

LEMMA LoadScoped ==
    ASSUME IInv, NEW t \in Turns, LoadConversation(t)
    PROVE  Scoped'
<1>1. /\ TypeOK /\ Scoped /\ stored' = stored
      /\ turns[t] \in Locals /\ turns[t].user \in Users
  BY DEF IInv, LoadConversation, TypeOK, Complete, At
<1>2. UserMessage(t) \in Message /\ UserMessage(t).turn = t
  BY DEF UserMessage, Message
<1>3. CASE Resumes(t) /\ Goto(t, "llm", Append(History(t), UserMessage(t)))
  <2> DEFINE ms == Append(History(t), UserMessage(t))
             new == [turns[t] EXCEPT !.pc = "llm", !.messages = ms]
  <2>1. Conv(t) \in Turns /\ stored[Conv(t)] \in Conversation /\ OwnHistory(Conv(t))
    BY <1>1, <1>3 DEF Resumes, TypeOK, Locals, Conv, Scoped
  <2>2. History(t) \in Seq(Message)
    BY <2>1 DEF History, Conversation
  <2>3. \A i \in DOMAIN History(t) : Own(History(t)[i], turns[t].user, turns[t].review)
    BY <2>1, <1>3 DEF OwnHistory, History, Resumes, Theirs
  <2>4. ms \in Seq(Message) /\ \A i \in DOMAIN ms :
            ms[i].turn = t \/ Own(ms[i], turns[t].user, turns[t].review)
    BY <2>2, <2>3, <1>2
  <2> HIDE DEF ms
  <2>5. new \in Locals /\ new.user = turns[t].user /\ new.review = turns[t].review
        /\ new.messages = ms
    BY <2>4, <1>1 DEF Locals, Pcs
  <2>6. turns' = [turns EXCEPT ![t] = new]
    BY <1>1, <1>3 DEF Goto, ms, TypeOK
  <2> HIDE DEF new
  <2>7. Inherits(t, new)
    BY <1>1, <2>4, <2>5 DEF Inherits
  <2> QED
    BY <2>5, <2>6, <2>7, <1>1, StepScoped
<1>4. CASE turns' = [turns EXCEPT ![t].pc = "llm", ![t].conv = FreshId(t),
                                  ![t].messages = <<UserMessage(t)>>]
  <2> DEFINE ms == <<UserMessage(t)>>
             new == [turns[t] EXCEPT !.pc = "llm", !.conv = FreshId(t), !.messages = ms]
  <2>1. ms \in Seq(Message) /\ FreshId(t) \in Turns /\ \A i \in DOMAIN ms : ms[i].turn = t
    BY <1>2 DEF FreshId
  <2> HIDE DEF ms
  <2>2. new \in Locals /\ new.user = turns[t].user /\ new.review = turns[t].review
        /\ new.messages = ms
    BY <2>1, <1>1 DEF Locals, Pcs
  <2>3. turns' = [turns EXCEPT ![t] = new]
    BY <1>1, <1>4 DEF ms, TypeOK
  <2> HIDE DEF new
  <2>4. Inherits(t, new)
    BY <1>1, <2>1, <2>2 DEF Inherits
  <2> QED
    BY <2>2, <2>3, <2>4, <1>1, StepScoped
<1> QED
  BY <1>3, <1>4 DEF LoadConversation

LEMMA GotoScoped ==
    ASSUME IInv, NEW t \in Turns, NEW pc \in Pcs, NEW ms \in Seq(Message),
           Goto(t, pc, ms), ~At(t, "unused"), stored' = stored,
           \A i \in DOMAIN ms : ms[i].turn = t \/ Own(ms[i], turns[t].user, turns[t].review)
    PROVE  Scoped'
<1> DEFINE new == [turns[t] EXCEPT !.pc = pc, !.messages = ms]
<1>1. TypeOK /\ turns[t] \in Locals /\ turns[t].user \in Users
  BY DEF IInv, TypeOK, Complete
<1>2. new \in Locals /\ new.user = turns[t].user /\ new.review = turns[t].review
      /\ new.messages = ms
  BY <1>1 DEF Locals
<1>3. turns' = [turns EXCEPT ![t] = new]
  BY <1>1 DEF Goto, TypeOK
<1> HIDE DEF new
<1>4. Inherits(t, new)
  BY <1>1, <1>2 DEF Inherits
<1> QED
  BY <1>2, <1>3, <1>4, StepScoped

LEMMA AnswersScoped ==
    ASSUME IInv, NEW t \in Turns, LlmAnswers(t)
    PROVE  Scoped'
<1> DEFINE ms == Append(Messages(t), AssistantMessage(t))
<1>1. /\ AssistantMessage(t) \in Message /\ AssistantMessage(t).turn = t
      /\ Messages(t) \in Seq(Message) /\ OwnMessages(t)
  BY DEF IInv, Scoped, AssistantMessage, Message, Messages, TypeOK, Locals
<1>2. ms \in Seq(Message) /\ \A i \in DOMAIN ms :
          ms[i].turn = t \/ Own(ms[i], turns[t].user, turns[t].review)
  BY <1>1 DEF OwnMessages
<1> HIDE DEF ms
<1>3. Goto(t, "save", ms) /\ ~At(t, "unused") /\ stored' = stored
  BY DEF LlmAnswers, At, ms
<1> QED
  BY <1>2, <1>3, GotoScoped DEF Pcs

LEMMA RefusesScoped ==
    ASSUME IInv, NEW t \in Turns, LlmRefuses(t)
    PROVE  Scoped'
<1>1. Popped(t) \in Seq(Message) /\ \A i \in DOMAIN Popped(t) :
          Own(Popped(t)[i], turns[t].user, turns[t].review)
  BY PoppedPrefix DEF IInv, Scoped, OwnMessages
<1>2. Goto(t, "saveRefused", Popped(t)) /\ ~At(t, "unused") /\ stored' = stored
  BY DEF LlmRefuses, At
<1> QED
  BY <1>1, <1>2, GotoScoped DEF Pcs

LEMMA DieScoped ==
    ASSUME IInv, NEW t \in Turns, Die(t)
    PROVE  Scoped'
<1>1. <<>> \in Seq(Message) /\ \A i \in DOMAIN <<>> : FALSE
  OBVIOUS
<1>2. Goto(t, "dead", <<>>) /\ ~At(t, "unused") /\ stored' = stored
  BY DEF Die, At, Holding
<1> QED
  BY <1>1, <1>2, GotoScoped DEF Pcs

LEMMA SaveScoped ==
    ASSUME IInv, NEW t \in Turns, SaveConversation(t)
    PROVE  Scoped'
<1> DEFINE rivals == {v \in Turns \ {t} : Holding(v) /\ Conv(v) = Conv(t)}
           pc == IF At(t, "save") THEN "answered" ELSE "refused"
           new == [turns[t] EXCEPT !.pc = pc, !.messages = <<>>, !.rivals = rivals]
           c == [user |-> turns[t].user, review |-> turns[t].review, messages |-> Messages(t)]
<1>1. /\ TypeOK /\ OwnMessages(t) /\ ~At(t, "unused")
      /\ turns[t] \in Locals /\ turns[t].user \in Users
  BY DEF IInv, Scoped, SaveConversation, TypeOK, Complete, At
<1>2. rivals \in SUBSET Turns /\ pc \in Pcs /\ <<>> \in Seq(Message)
  BY DEF Pcs
<1>3. turns' = [turns EXCEPT ![t].pc = pc, ![t].messages = <<>>, ![t].rivals = rivals]
  BY DEF SaveConversation
<1> HIDE DEF rivals, pc
<1>4. /\ new \in Locals /\ new.user = turns[t].user /\ new.review = turns[t].review
      /\ new.messages = <<>>
  BY <1>1, <1>2 DEF Locals
<1>5. turns' = [turns EXCEPT ![t] = new]
  BY <1>1, <1>3 DEF TypeOK
<1> HIDE DEF new
<1>6. Inherits(t, new)
  BY <1>1, <1>4 DEF Inherits
<1>7. ASSUME NEW k \in Turns, stored'[k] # stored[k] PROVE OwnHistory(k)'
  <2>1. stored'[k] = c
    BY <1>1, <1>7 DEF SaveConversation, TypeOK
  <2>2. \A v \in Turns : turns'[v].user = turns[v].user /\ turns'[v].review = turns[v].review
    BY <1>1, <1>4, <1>5 DEF TypeOK
  <2>3. ASSUME NEW i \in DOMAIN c.messages
        PROVE  turns'[c.messages[i].turn].user = c.user
               /\ turns'[c.messages[i].turn].review = c.review
    <3>1. c.messages[i] \in Message /\ c.messages[i] = Messages(t)[i]
      BY <1>1 DEF Messages, Locals
    <3>2. Own(Messages(t)[i], turns[t].user, turns[t].review)
      BY <1>1 DEF OwnMessages
    <3> QED
      BY <3>1, <3>2, <2>2 DEF Own, Message
  <2> HIDE DEF c
  <2> QED
    BY <2>1, <2>3 DEF OwnHistory, Own
<1> QED
  BY <1>4, <1>5, <1>6, <1>7, StepScoped

LEMMA ExpireScoped ==
    ASSUME IInv, NEW k \in Turns, Expire(k)
    PROVE  Scoped'
<1>1. /\ TypeOK /\ Scoped /\ turns' = turns
      /\ \A j \in Turns : stored'[j] = None \/ stored'[j] = stored[j]
  BY DEF IInv, Expire, TypeOK
<1> QED
  BY <1>1 DEF Scoped, OwnHistory, OwnMessages, Own, Messages

LEMMA OwnerScoped ==
    ASSUME IInv, UNCHANGED <<stored, turns>>
    PROVE  Scoped'
  BY DEF IInv, Scoped, OwnHistory, OwnMessages, Own, Messages

-----------------------------------------------------------------------------
LEMMA StepInv == IInv /\ [Next]_vars => IInv'
<1> SUFFICES ASSUME IInv, [Next]_vars PROVE IInv'
  OBVIOUS
<1>1. TypeOK
  BY DEF IInv
<1>2. ASSUME NEW t \in Turns, NEW u \in Users, NEW r \in Reviews,
             NEW k \in Turns \cup {NoId}, Ask(t, u, r, k)
      PROVE  IInv'
  BY <1>1, <1>2, AskType, AskScoped DEF IInv
<1>3. ASSUME NEW t \in Turns, Turn(t) PROVE IInv'
  <2>1. CASE LoadConversation(t)
    BY <1>1, <2>1, LoadType, LoadScoped DEF IInv
  <2>2. CASE LlmAnswers(t)
    BY <1>1, <2>2, AnswersType, AnswersScoped DEF IInv
  <2>3. CASE LlmRefuses(t)
    BY <1>1, <2>3, RefusesType, RefusesScoped DEF IInv
  <2>4. CASE SaveConversation(t)
    BY <1>1, <2>4, SaveType, SaveScoped DEF IInv
  <2> QED
    BY <1>3, <2>1, <2>2, <2>3, <2>4 DEF Turn
<1>4. ASSUME NEW t \in Turns, Die(t) PROVE IInv'
  BY <1>1, <1>4, DieType, DieScoped DEF IInv
<1>5. ASSUME NEW k \in Turns, Expire(k) PROVE IInv'
  BY <1>1, <1>5, ExpireType, ExpireScoped DEF IInv
<1>6. ASSUME NEW r \in Reviews, Uninstall(r) PROVE IInv'
  <2>1. TypeOK'
    BY <1>1, <1>6 DEF Uninstall, TypeOK, Complete, At, Holding, Conv
  <2> QED
    BY <1>6, <2>1, OwnerScoped DEF Uninstall, IInv
<1>7. ASSUME NEW r \in Reviews, NEW u \in Users, Reclaim(r, u) PROVE IInv'
  <2>1. TypeOK'
    BY <1>1, <1>7 DEF Reclaim, TypeOK, Complete, At, Holding, Conv
  <2> QED
    BY <1>7, <2>1, OwnerScoped DEF Reclaim, IInv
<1>8. CASE UNCHANGED vars
  <2>1. TypeOK'
    BY <1>1, <1>8 DEF vars, TypeOK, Complete, At, Holding, Conv
  <2> QED
    BY <1>8, <2>1, OwnerScoped DEF vars, IInv
<1> QED
  BY <1>2, <1>3, <1>4, <1>5, <1>6, <1>7, <1>8 DEF Next

\* Every variable of the chat stays in its type, for any users, reviews and
\* number of turns.
THEOREM TypeCorrect == Spec => []TypeOK
<1>1. IInv => TypeOK
  BY DEF IInv
<1> QED
  BY <1>1, InitInv, StepInv, PTL DEF Spec

\* What ReviewsService.chat stores and sends to the model stays within one user
\* and one review, for any users, reviews, number of turns, expiries, deaths
\* and changes of ownership.
THEOREM ChatScoped == Spec => []Scoped
<1>1. IInv => Scoped
  BY DEF IInv
<1> QED
  BY <1>1, InitInv, StepInv, PTL DEF Spec
=============================================================================
