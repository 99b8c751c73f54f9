------------------------- MODULE ChatHistoryProofs -------------------------
EXTENDS ChatProofs

(* What the conversations remember of the turns.  The invariant of           *)
(* ChatProofs gives the types; this one is inductive next to it.             *)

Asks(i) == i % 2 = 1
Whole(ms) ==
    /\ Len(ms) % 2 = 0
    /\ \A i \in 1..Len(ms) : ms[i].role = (IF Asks(i) THEN "user" ELSE "assistant")
    /\ \A i \in 1..Len(ms) : Asks(i) => i + 1 \in 1..Len(ms) /\ ms[i + 1].turn = ms[i].turn
    /\ \A i, j \in 1..Len(ms) : Asks(i) /\ Asks(j) /\ ms[i].turn = ms[j].turn => i = j

Answered(ms) == \A i \in 1..Len(ms) : At(ms[i].turn, "answered")
Has(ms, t) == \E i \in 1..Len(ms) : ms[i] = AssistantMessage(t)

Past(h) == h \in Seq(Message) /\ Whole(h) /\ Answered(h)

\* A stored conversation is one of whole turns that were answered; a turn in
\* progress has added at most its own two messages to such a one.
HistoryOK(k) == stored[k] # None => Past(stored[k].messages)
MessagesOK(t) ==
    /\ At(t, "llm") => \E h : Past(h) /\ Messages(t) = Append(h, UserMessage(t))
    /\ At(t, "save") => \E h : Past(h) /\
          Messages(t) = Append(Append(h, UserMessage(t)), AssistantMessage(t))
    /\ At(t, "saveRefused") => Past(Messages(t))

\* the turn that a conversation is named after has loaded
FreshOK(t) == Conv(t) # NoId => turns[Conv(t)].pc \notin {"unused", "load"}

\* Whoever may still overwrite the conversation of an answered turn has that
\* answer, or had loaded the conversation before.
Ended(t) == \E v \in turns[t].rivals : turns[v].pc \in {"answered", "refused"}
KeptOK(t) == At(t, "answered") =>
    /\ Conv(t) # NoId
    /\ stored[Conv(t)] # None => Has(stored[Conv(t)].messages, t) \/ Ended(t)
    /\ \A v \in Turns : Holding(v) /\ Conv(v) = Conv(t) =>
          Has(Messages(v), t) \/ v \in turns[t].rivals \/ Ended(t)

HInv ==
    /\ \A k \in Turns : HistoryOK(k)
    /\ \A t \in Turns : MessagesOK(t)
    /\ \A t \in Turns : FreshOK(t)
    /\ \A t \in Turns : KeptOK(t)

-----------------------------------------------------------------------------
(* Sequences of messages.                                                    *)

LEMMA MessageFacts ==
    ASSUME NEW t \in Turns
    PROVE  /\ UserMessage(t) \in Message /\ AssistantMessage(t) \in Message
           /\ UserMessage(t).role = "user" /\ AssistantMessage(t).role = "assistant"
           /\ UserMessage(t).turn = t /\ AssistantMessage(t).turn = t
           /\ \A v : UserMessage(t) # AssistantMessage(v)
  BY DEF UserMessage, AssistantMessage, Message

LEMMA HasAppend ==
    ASSUME NEW h \in Seq(Message), NEW m \in Message, NEW t
    PROVE  /\ Append(h, m) \in Seq(Message)
           /\ Has(h, t) => Has(Append(h, m), t)
           /\ m # AssistantMessage(t) /\ Has(Append(h, m), t) => Has(h, t)
<1>1. /\ Append(h, m) \in Seq(Message) /\ Len(h) \in Nat /\ Len(Append(h, m)) = Len(h) + 1
      /\ Append(h, m)[Len(h) + 1] = m
      /\ \A i \in 1..Len(h) : Append(h, m)[i] = h[i]
  OBVIOUS
<1> DEFINE a == Append(h, m)
<1> HIDE DEF a
<1>2. \A i \in 1..(Len(h) + 1) : i \in 1..Len(h) \/ i = Len(h) + 1
  BY <1>1
<1>3. \A i \in 1..Len(h) : i \in 1..(Len(h) + 1)
  BY <1>1
<1>4. Has(h, t) => Has(a, t)
  BY <1>1, <1>3 DEF Has, a
<1>5. m # AssistantMessage(t) /\ Has(a, t) => Has(h, t)
  BY <1>1, <1>2 DEF Has, a
<1> QED
  BY <1>1, <1>4, <1>5 DEF a

LEMMA Unappend ==
    ASSUME NEW h \in Seq(Message), NEW m \in Message
    PROVE  SubSeq(Append(h, m), 1, Len(Append(h, m)) - 1) = h
  OBVIOUS

LEMMA WholeTurn ==
    ASSUME NEW h \in Seq(Message), Whole(h), NEW t \in Turns,
           \A i \in 1..Len(h) : h[i].turn # t
    PROVE  LET ms == Append(Append(h, UserMessage(t)), AssistantMessage(t))
           IN  /\ ms \in Seq(Message) /\ Whole(ms) /\ Has(ms, t)
               /\ \A i \in 1..Len(ms) : ms[i].turn = t \/ \E j \in 1..Len(h) : ms[i] = h[j]
<1> DEFINE ms == Append(Append(h, UserMessage(t)), AssistantMessage(t))
<1>1. PICK n \in Nat : n = Len(h)
  OBVIOUS
<1>2. /\ ms \in Seq(Message) /\ Len(ms) = n + 2
      /\ ms[n + 1] = UserMessage(t) /\ ms[n + 2] = AssistantMessage(t)
      /\ \A i \in 1..n : ms[i] = h[i]
  BY <1>1, MessageFacts
<1> HIDE DEF ms
<1>3. n % 2 = 0 /\ Asks(n + 1) /\ ~Asks(n + 2) /\ (n + 2) % 2 = 0
  BY <1>1 DEF Whole, Asks
<1>4. \A i \in 1..(n + 2) : i \in 1..n \/ i = n + 1 \/ i = n + 2
  BY <1>1
<1>5. \A i \in 1..(n + 2) : ms[i].role = (IF Asks(i) THEN "user" ELSE "assistant")
  BY <1>1, <1>2, <1>3, <1>4, MessageFacts DEF Whole
<1>6. \A i \in 1..(n + 2) : Asks(i) => i + 1 \in 1..(n + 2) /\ ms[i + 1].turn = ms[i].turn
  <2> SUFFICES ASSUME NEW i \in 1..(n + 2), Asks(i)
               PROVE  i + 1 \in 1..(n + 2) /\ ms[i + 1].turn = ms[i].turn
    OBVIOUS
  <2>1. CASE i \in 1..n
    <3>1. i + 1 \in 1..n /\ h[i + 1].turn = h[i].turn
      BY <1>1, <2>1 DEF Whole
    <3> QED BY <1>1, <1>2, <2>1, <3>1
  <2>2. CASE i = n + 1
    <3>1. i + 1 = n + 2
      BY <1>1, <2>2
    <3> QED BY <1>1, <1>2, <2>2, <3>1, MessageFacts
  <2> QED BY <1>3, <1>4, <2>1, <2>2
<1>7. \A i, j \in 1..(n + 2) : Asks(i) /\ Asks(j) /\ ms[i].turn = ms[j].turn => i = j
  <2>1. \A i \in 1..(n + 2) : Asks(i) => i \in 1..n \/ i = n + 1
    BY <1>3, <1>4
  <2>2. \A i \in 1..n : ms[i] = h[i] /\ ms[i].turn # t
    BY <1>1, <1>2
  <2>3. ms[n + 1].turn = t
    BY <1>2, MessageFacts
  <2>4. \A i, j \in 1..n : Asks(i) /\ Asks(j) /\ h[i].turn = h[j].turn => i = j
    BY <1>1 DEF Whole
  <2> QED BY <2>1, <2>2, <2>3, <2>4
<1>8. Whole(ms)
  BY <1>2, <1>3, <1>5, <1>6, <1>7 DEF Whole
<1>9. Has(ms, t)
  <2>1. n + 2 \in 1..Len(ms)
    BY <1>1, <1>2
  <2> QED BY <1>2, <2>1 DEF Has
<1>10. \A i \in 1..Len(ms) : ms[i].turn = t \/ \E j \in 1..Len(h) : ms[i] = h[j]
  BY <1>1, <1>2, <1>4, MessageFacts
<1> QED
  BY <1>2, <1>8, <1>9, <1>10 DEF ms

LEMMA NoPast == Past(<<>>)
  BY DEF Past, Whole, Answered

-----------------------------------------------------------------------------
(* A step of one turn.                                                       *)

LEMMA OthersSame ==
    ASSUME TypeOK, NEW t \in Turns, NEW new \in Locals, turns' = [turns EXCEPT ![t] = new]
    PROVE  turns'[t] = new /\ \A v \in Turns \ {t} : turns'[v] = turns[v]
  BY DEF TypeOK

\* what was answered stays so
LEMMA EndStays ==
    ASSUME TypeOK, NEW t \in Turns, NEW new \in Locals, turns' = [turns EXCEPT ![t] = new],
           turns[t].pc \notin {"answered", "refused"}
    PROVE  /\ \A h : Past(h) => Past(h)'
           /\ \A v \in Turns \ {t} : Ended(v) => Ended(v)'
<1>1. turns'[t] = new /\ \A v \in Turns \ {t} : turns'[v] = turns[v]
  BY OthersSame
<1>2. ASSUME NEW h, Past(h)
      PROVE  Past(h)'
  <2>1. ASSUME NEW i \in 1..Len(h)
        PROVE  At(h[i].turn, "answered")'
    <3>1. h \in Seq(Message) /\ At(h[i].turn, "answered")
      BY <1>2 DEF Past, Answered
    <3>2. h[i] \in Message
      BY <3>1
    <3>3. h[i].turn \in Turns
      BY <3>2 DEF Message
    <3> QED BY <1>1, <3>1, <3>3 DEF At
  <2> QED BY <1>2, <2>1 DEF Past, Answered, Whole, Asks
<1>3. ASSUME NEW v \in Turns \ {t}, Ended(v)
      PROVE  Ended(v)'
  <2>1. PICK w \in turns[v].rivals : turns[w].pc \in {"answered", "refused"}
    BY <1>3 DEF Ended
  <2>2. w \in Turns /\ w # t
    BY <2>1 DEF TypeOK, Locals
  <2> QED BY <1>1, <1>3, <2>1, <2>2 DEF Ended
<1> QED
  BY <1>2, <1>3

LEMMA StepHistory ==
    ASSUME TypeOK, HInv, NEW t \in Turns, NEW new \in Locals, turns' = [turns EXCEPT ![t] = new],
           turns[t].pc \notin {"answered", "refused"},
           new.pc # "unused", At(t, "unused") \/ new.pc # "load",
           new.conv # NoId => new.conv \in Turns /\
               (turns[new.conv].pc \notin {"unused", "load"} \/ (new.conv = t /\ new.pc # "load")),
           MessagesOK(t)', \A k \in Turns : stored'[k] = stored[k] \/ HistoryOK(k)',
           \A v \in Turns : KeptOK(v)'
    PROVE  HInv'
<1>1. turns'[t] = new /\ \A v \in Turns \ {t} : turns'[v] = turns[v]
  BY OthersSame
<1>2. \A h : Past(h) => Past(h)'
  BY EndStays
<1>3. ASSUME NEW k \in Turns
      PROVE  HistoryOK(k)'
  BY <1>2, <1>3 DEF HInv, HistoryOK
<1>4. ASSUME NEW v \in Turns \ {t}
      PROVE  MessagesOK(v)'
  <2>1. MessagesOK(v) /\ turns'[v] = turns[v]
    BY <1>1 DEF HInv
  <2>2. Messages(v)' = Messages(v) /\ \A pc : At(v, pc)' <=> At(v, pc)
    BY <2>1 DEF Messages, At
  <2> QED BY <1>2, <2>1, <2>2 DEF MessagesOK, UserMessage, AssistantMessage
<1>5. ASSUME NEW k \in Turns, turns[k].pc \notin {"unused", "load"}
      PROVE  turns'[k].pc \notin {"unused", "load"}
  BY <1>1, <1>5 DEF At
<1>6. ASSUME NEW v \in Turns
      PROVE  FreshOK(v)'
  <2>1. CASE v = t
    BY <1>1, <1>5, <2>1 DEF FreshOK, Conv
  <2>2. CASE v # t
    <3>1. FreshOK(v) /\ turns'[v] = turns[v] /\ turns[v] \in Locals
      BY <1>1, <2>2 DEF HInv, TypeOK
    <3> QED BY <1>5, <3>1 DEF FreshOK, Conv, Locals
  <2> QED BY <2>1, <2>2
<1> QED
  BY <1>3, <1>4, <1>6 DEF HInv

\* When nothing is stored, only the turn that moves can put an answer at risk.
LEMMA StepKept ==
    ASSUME TypeOK, HInv, NEW t \in Turns, NEW new \in Locals, turns' = [turns EXCEPT ![t] = new],
           turns[t].pc \notin {"answered", "refused"}, new.pc # "answered",
           stored' = stored,
           \A v \in Turns \ {t} :
               At(v, "answered") /\ new.pc \in {"llm", "save", "saveRefused"} /\ new.conv = Conv(v)
               => Has(new.messages, v) \/ t \in turns[v].rivals \/ Ended(v)
    PROVE  \A v \in Turns : KeptOK(v)'
<1>1. turns'[t] = new /\ \A v \in Turns \ {t} : turns'[v] = turns[v]
  BY OthersSame
<1>2. \A v \in Turns \ {t} : Ended(v) => Ended(v)'
  BY EndStays
<1>3. KeptOK(t)'
  BY <1>1 DEF KeptOK, At
<1>4. ASSUME NEW v \in Turns \ {t}, At(v, "answered")
      PROVE  KeptOK(v)'
  <2>1. KeptOK(v) /\ turns'[v] = turns[v]
    BY <1>1 DEF HInv
  <2>2. \A ms : Has(ms, v)' <=> Has(ms, v)
    BY DEF Has, AssistantMessage
  <2>3. ASSUME NEW w \in Turns, Holding(w)', Conv(w)' = Conv(v)
        PROVE  Has(Messages(w), v)' \/ w \in turns[v].rivals \/ Ended(v)
    <3>1. CASE w = t
      <4>1. Has(new.messages, v) \/ t \in turns[v].rivals \/ Ended(v)
        BY <1>1, <1>4, <2>3, <3>1 DEF Holding, Conv
      <4> QED BY <1>1, <3>1, <4>1 DEF Messages, Has, AssistantMessage
    <3>2. CASE w # t
      <4>1. turns'[w] = turns[w]
        BY <1>1, <3>2
      <4>2. Has(Messages(w), v) \/ w \in turns[v].rivals \/ Ended(v)
        BY <1>4, <2>1, <2>3, <4>1 DEF KeptOK, Holding, Conv
      <4> QED BY <4>1, <4>2 DEF Messages, Has, AssistantMessage
    <3> QED BY <3>1, <3>2
  <2>4. Conv(v)' = Conv(v) /\ Conv(v) # NoId
    BY <1>4, <2>1 DEF KeptOK, Conv
  <2>5. stored'[Conv(v)] # None => Has(stored'[Conv(v)].messages, v) \/ Ended(v)
    BY <1>4, <2>1 DEF KeptOK
  <2> QED BY <1>2, <2>1, <2>3, <2>4, <2>5 DEF KeptOK, Has, AssistantMessage
<1>5. ASSUME NEW v \in Turns \ {t}, ~At(v, "answered")
      PROVE  KeptOK(v)'
  BY <1>1, <1>5 DEF KeptOK, At
<1> QED
  BY <1>3, <1>4, <1>5

-----------------------------------------------------------------------------
(* The actions.                                                              *)

LEMMA AskHistory ==
    ASSUME TypeOK, HInv, NEW t \in Turns, NEW u \in Users, NEW r \in Reviews,
           NEW k \in Turns \cup {NoId}, Ask(t, u, r, k)
    PROVE  HInv'
<1> DEFINE new == [Unused EXCEPT !.pc = "load", !.user = u, !.review = r, !.conv = k]
<1>1. /\ new \in Locals /\ new.pc = "load" /\ new.conv = k
  BY UnusedLocal DEF Locals, Pcs, Unused
<1>2. /\ turns' = [turns EXCEPT ![t] = new] /\ stored' = stored /\ At(t, "unused")
      /\ k = NoId \/ \E v \in Turns : At(v, "answered") /\ Conv(v) = k
  BY DEF Ask
<1> HIDE DEF new
<1>3. k # NoId => turns[k].pc \notin {"unused", "load"}
  BY <1>2 DEF HInv, FreshOK
<1>4. MessagesOK(t)'
  BY <1>1, <1>2, OthersSame DEF MessagesOK, At
<1>5. turns[t].pc \notin {"answered", "refused"}
  BY <1>2 DEF At
<1>6. \A v \in Turns : KeptOK(v)'
  BY <1>1, <1>2, <1>5, StepKept
<1> QED
  BY <1>1, <1>2, <1>3, <1>4, <1>5, <1>6, StepHistory

LEMMA LoadHistory ==
    ASSUME TypeOK, HInv, NEW t \in Turns, LoadConversation(t)
    PROVE  HInv'
<1>1. /\ At(t, "load") /\ stored' = stored /\ turns[t] \in Locals
      /\ turns[t].pc \notin {"answered", "refused"}
  BY DEF LoadConversation, TypeOK, At
<1>2. CASE Resumes(t) /\ Goto(t, "llm", Append(History(t), UserMessage(t)))
  <2>1. PICK k \in Turns : k = Conv(t)
    BY <1>1, <1>2 DEF Resumes, Locals, Conv
  <2>2. PICK h : h = stored[k].messages
    OBVIOUS
  <2>3. stored[k] # None /\ Past(h) /\ h \in Seq(Message)
    BY <1>2, <2>1, <2>2 DEF Resumes, HInv, HistoryOK, Past
  <2> DEFINE ms == Append(h, UserMessage(t))
             new == [turns[t] EXCEPT !.pc = "llm", !.messages = ms]
  <2>4. ms \in Seq(Message) /\ \A v : Has(h, v) => Has(ms, v)
    BY <2>3, MessageFacts, HasAppend
  <2>5. turns' = [turns EXCEPT ![t] = new]
    BY <1>1, <1>2, <2>1, <2>2 DEF Goto, History, TypeOK
  <2> HIDE DEF ms
  <2>6. new \in Locals /\ new.pc = "llm" /\ new.conv = k /\ new.messages = ms
    BY <1>1, <2>1, <2>4 DEF Locals, Pcs, Conv
  <2> HIDE DEF new
  <2>7. turns[k].pc \notin {"unused", "load"}
    BY <2>1 DEF HInv, FreshOK, NoId, Turns
  <2>8. MessagesOK(t)'
    <3>1. turns'[t] = new /\ Past(h)'
      BY <1>1, <2>3, <2>5, <2>6, OthersSame, EndStays
    <3> QED BY <2>6, <3>1 DEF MessagesOK, At, Messages, UserMessage, ms
  <2>9. \A v \in Turns \ {t} : At(v, "answered") /\ new.conv = Conv(v) =>
            Has(new.messages, v) \/ Ended(v)
    BY <2>2, <2>3, <2>4, <2>6 DEF HInv, KeptOK
  <2>10. \A v \in Turns : KeptOK(v)'
    BY <1>1, <2>5, <2>6, <2>9, StepKept
  <2> QED BY <1>1, <2>5, <2>6, <2>7, <2>8, <2>10, StepHistory
<1>3. CASE turns' = [turns EXCEPT ![t].pc = "llm", ![t].conv = FreshId(t),
                                  ![t].messages = <<UserMessage(t)>>]
  <2> DEFINE ms == <<UserMessage(t)>>
             new == [turns[t] EXCEPT !.pc = "llm", !.conv = t, !.messages = ms]
  <2>1. ms \in Seq(Message) /\ ms = Append(<<>>, UserMessage(t))
    BY MessageFacts
  <2>2. turns' = [turns EXCEPT ![t] = new]
    BY <1>1, <1>3 DEF FreshId, TypeOK
  <2> HIDE DEF ms
  <2>3. new \in Locals /\ new.pc = "llm" /\ new.conv = t /\ new.messages = ms
    BY <1>1, <2>1 DEF Locals, Pcs
  <2> HIDE DEF new
  <2>4. MessagesOK(t)'
    <3>1. PICK h : h = <<>>
      OBVIOUS
    <3>2. Past(h)
      BY <3>1, NoPast
    <3>3. turns'[t] = new
      BY <2>2, <2>3, OthersSame
    <3>5. \A g : Past(g) => Past(g)'
      BY <1>1, <2>2, <2>3, EndStays
    <3>4. Past(h)'
      BY <3>2, <3>5
    <3> QED BY <2>1, <2>3, <3>1, <3>3, <3>4 DEF MessagesOK, At, Messages, UserMessage
  <2>5. \A v \in Turns \ {t} : ~(At(v, "answered") /\ new.conv = Conv(v))
    BY <1>1, <2>3 DEF HInv, KeptOK, FreshOK, At
  <2>6. \A v \in Turns : KeptOK(v)'
    BY <1>1, <2>2, <2>3, <2>5, StepKept
  <2> QED BY <1>1, <2>2, <2>3, <2>4, <2>6, StepHistory
<1> QED
  BY <1>2, <1>3 DEF LoadConversation

\* the steps that only move a turn on
LEMMA GotoHistory ==
    ASSUME TypeOK, HInv, NEW t \in Turns, NEW pc \in Pcs \ {"unused", "load", "answered"},
           NEW ms \in Seq(Message), Goto(t, pc, ms), stored' = stored,
           Holding(t) \/ (At(t, "load") /\ pc = "dead"),
           Holding(t) => pc = "dead" \/ \A v \in Turns : Has(Messages(t), v) => Has(ms, v),
           turns'[t].pc = pc /\ Messages(t)' = ms => MessagesOK(t)'
    PROVE  HInv'
<1> DEFINE new == [turns[t] EXCEPT !.pc = pc, !.messages = ms]
<1>1. turns[t] \in Locals /\ turns[t].pc \notin {"answered", "refused"}
  BY DEF TypeOK, Holding, At
<1>2. new \in Locals /\ new.pc = pc /\ new.conv = Conv(t) /\ new.messages = ms
  BY <1>1 DEF Locals, Conv
<1>3. turns' = [turns EXCEPT ![t] = new]
  BY <1>1 DEF Goto, TypeOK
<1> HIDE DEF new
<1>4. MessagesOK(t)'
  BY <1>2, <1>3, OthersSame DEF Messages
<1>5. new.conv # NoId => new.conv \in Turns /\ turns[new.conv].pc \notin {"unused", "load"}
  BY <1>1, <1>2 DEF HInv, FreshOK, Locals, Conv
<1>6. \A v \in Turns \ {t} :
         At(v, "answered") /\ new.pc \in {"llm", "save", "saveRefused"} /\ new.conv = Conv(v)
         => Has(new.messages, v) \/ t \in turns[v].rivals \/ Ended(v)
  BY <1>2 DEF HInv, KeptOK
<1>7. \A v \in Turns : KeptOK(v)'
  BY <1>1, <1>2, <1>3, <1>6, StepKept
<1> QED
  BY <1>1, <1>2, <1>3, <1>4, <1>5, <1>7, StepHistory

LEMMA LlmHistory ==
    ASSUME TypeOK, HInv, NEW t \in Turns, LlmAnswers(t) \/ LlmRefuses(t)
    PROVE  HInv'
<1>1. At(t, "llm") /\ Holding(t) /\ turns[t].pc \notin {"answered", "refused"} /\ stored' = stored
  BY DEF LlmAnswers, LlmRefuses, At, Holding
<1>2. PICK h : Past(h) /\ Messages(t) = Append(h, UserMessage(t))
  BY <1>1 DEF HInv, MessagesOK
<1>3. h \in Seq(Message) /\ Messages(t) \in Seq(Message)
  BY <1>2, HasAppend, MessageFacts DEF Past
<1>4. \E pc \in {"save", "saveRefused"} : \E ms :
        /\ Goto(t, pc, ms)
        /\ pc = "save" => ms = Append(Append(h, UserMessage(t)), AssistantMessage(t))
        /\ pc = "saveRefused" => ms = h
  <2>1. CASE LlmAnswers(t)
    BY <1>2, <2>1 DEF LlmAnswers
  <2>2. CASE LlmRefuses(t)
    <3>1. Popped(t) = h
      BY <1>2, <1>3, MessageFacts, Unappend DEF Popped
    <3> QED BY <2>2, <3>1 DEF LlmRefuses
  <2> QED BY <2>1, <2>2
<1>9. PICK pc \in {"save", "saveRefused"} : \E ms :
        /\ Goto(t, pc, ms)
        /\ pc = "save" => ms = Append(Append(h, UserMessage(t)), AssistantMessage(t))
        /\ pc = "saveRefused" => ms = h
  BY <1>4
<1>10. PICK ms :
        /\ Goto(t, pc, ms)
        /\ pc = "save" => ms = Append(Append(h, UserMessage(t)), AssistantMessage(t))
        /\ pc = "saveRefused" => ms = h
  BY <1>9
<1>5. ms \in Seq(Message) /\ \A v \in Turns : Has(Messages(t), v) => Has(ms, v)
  <2>1. CASE pc = "save"
    <3>1. UserMessage(t) \in Message /\ AssistantMessage(t) \in Message
      BY MessageFacts
    <3>2. ms = Append(Messages(t), AssistantMessage(t))
      BY <1>2, <1>10, <2>1
    <3> QED BY <1>3, <3>1, <3>2, HasAppend
  <2>2. CASE pc = "saveRefused"
    BY <1>2, <1>3, <1>10, <2>2, MessageFacts, HasAppend
  <2> QED BY <2>1, <2>2
<1>6. Past(h)'
  <2> DEFINE new == [turns[t] EXCEPT !.pc = pc, !.messages = ms]
  <2>1. turns[t] \in Locals
    BY DEF TypeOK
  <2>2. new \in Locals
    BY <1>5, <2>1 DEF Locals, Pcs
  <2>3. turns' = [turns EXCEPT ![t] = new]
    BY <1>10 DEF Goto, TypeOK
  <2> HIDE DEF new
  <2> QED BY <1>1, <1>2, <2>2, <2>3, EndStays
<1>7. turns'[t].pc = pc /\ Messages(t)' = ms => MessagesOK(t)'
  BY <1>10, <1>6 DEF MessagesOK, At, UserMessage, AssistantMessage
<1>8. pc \in Pcs \ {"unused", "load", "answered"}
  BY DEF Pcs
<1> QED
  BY <1>1, <1>10, <1>5, <1>7, <1>8, GotoHistory

LEMMA DieHistory ==
    ASSUME TypeOK, HInv, NEW t \in Turns, Die(t)
    PROVE  HInv'
<1>1. "dead" \in Pcs \ {"unused", "load", "answered"} /\ <<>> \in Seq(Message)
  BY DEF Pcs
<1>2. turns'[t].pc = "dead" => MessagesOK(t)'
  BY DEF MessagesOK, At
<1>3. Goto(t, "dead", <<>>) /\ stored' = stored /\ (Holding(t) \/ At(t, "load"))
  BY DEF Die
<1> QED
  BY <1>1, <1>2, <1>3, GotoHistory

LEMMA SaveHistory ==
    ASSUME TypeOK, HInv, NEW t \in Turns, SaveConversation(t)
    PROVE  HInv'
<1>1. PICK k \in Turns : k = Conv(t)
  BY DEF SaveConversation, TypeOK, Complete, Holding, Locals, Conv
<1>2. PICK ms : ms = Messages(t)
  OBVIOUS
<1>3. PICK rivals : rivals = {v \in Turns \ {t} : Holding(v) /\ Conv(v) = k}
  OBVIOUS
<1>4. PICK pc : pc = IF At(t, "save") THEN "answered" ELSE "refused"
  OBVIOUS
<1>5. /\ turns[t].pc \in {"save", "saveRefused"} /\ Holding(t)
      /\ turns[t] \in Locals /\ turns[t].pc \notin {"answered", "refused"}
      /\ pc = "answered" => At(t, "save")
      /\ pc = "refused" => At(t, "saveRefused")
  BY <1>4 DEF SaveConversation, TypeOK, Holding, At
<1> DEFINE new == [turns[t] EXCEPT !.pc = pc, !.messages = <<>>, !.rivals = rivals]
           c == [user |-> turns[t].user, review |-> turns[t].review, messages |-> ms]
<1>6. new \in Locals /\ new.pc = pc /\ new.conv = k /\ new.rivals = rivals
  <2>1. rivals \in SUBSET Turns /\ pc \in Pcs /\ <<>> \in Seq(Message)
    BY <1>3, <1>4 DEF Pcs
  <2> QED BY <1>1, <1>5, <2>1 DEF Locals, Conv
<1>7. turns' = [turns EXCEPT ![t] = new]
  <2>1. turns' = [turns EXCEPT ![t].pc = pc, ![t].messages = <<>>, ![t].rivals = rivals]
    BY <1>1, <1>3, <1>4 DEF SaveConversation
  <2> QED BY <2>1 DEF TypeOK
<1>8. stored'[k] = c /\ c.messages = ms /\ \A j \in Turns \ {k} : stored'[j] = stored[j]
  BY <1>1, <1>2 DEF SaveConversation, TypeOK
<1> HIDE DEF new, c
<1>9. turns'[t] = new /\ \A v \in Turns \ {t} : turns'[v] = turns[v]
  BY <1>6, <1>7, OthersSame
<1>10. (\A h : Past(h) => Past(h)') /\ \A v \in Turns \ {t} : Ended(v) => Ended(v)'
  BY <1>5, <1>6, <1>7, EndStays
\* what is stored
<1>11. Past(ms)' /\ (pc = "answered" => Has(ms, t))
  <2>1. CASE At(t, "saveRefused")
    <3>1. Past(ms) /\ pc = "refused"
      BY <1>2, <1>4, <2>1 DEF HInv, MessagesOK, At
    <3> QED BY <1>10, <3>1
  <2>2. CASE At(t, "save")
    <3>1. PICK h : Past(h) /\ ms = Append(Append(h, UserMessage(t)), AssistantMessage(t))
      BY <1>2, <2>2 DEF HInv, MessagesOK
    <3>2. h \in Seq(Message) /\ Whole(h) /\ \A i \in 1..Len(h) : h[i].turn # t
      BY <1>5, <3>1 DEF Past, Answered, At
    <3>3. /\ ms \in Seq(Message) /\ Whole(ms) /\ Has(ms, t)
          /\ \A i \in 1..Len(ms) : ms[i].turn = t \/ \E j \in 1..Len(h) : ms[i] = h[j]
      BY <3>1, <3>2, WholeTurn
    <3>4. \A j \in 1..Len(h) : At(h[j].turn, "answered")'
      BY <1>10, <3>1 DEF Past, Answered
    <3>5. At(t, "answered")'
      BY <1>4, <1>6, <1>9, <2>2 DEF At
    <3>6. \A i \in 1..Len(ms) : At(ms[i].turn, "answered")'
      BY <3>3, <3>4, <3>5
    <3> QED BY <3>3, <3>6 DEF Past, Answered, Whole, Asks
  <2> QED BY <1>5, <2>1, <2>2 DEF At
<1>12. \A j \in Turns : stored'[j] = stored[j] \/ HistoryOK(j)'
  BY <1>8, <1>11 DEF HistoryOK
<1>13. MessagesOK(t)'
  BY <1>4, <1>6, <1>9 DEF MessagesOK, At
<1>14. k # NoId
  BY DEF NoId, Turns
\* the turn itself
<1>15. KeptOK(t)'
  <2>1. Conv(t)' = k
    BY <1>6, <1>9 DEF Conv
  <2>2. At(t, "answered")' => Has(stored'[k].messages, t)
    BY <1>6, <1>8, <1>9, <1>11 DEF At
  <2>3. ~Holding(t)'
    BY <1>4, <1>6, <1>9 DEF Holding
  <2>4. \A v \in Turns : Holding(v)' /\ Conv(v)' = k => v \in turns'[t].rivals
    BY <1>3, <1>6, <1>9, <2>3 DEF Holding, Conv
  <2> QED BY <1>14, <2>1, <2>2, <2>4 DEF KeptOK, Has, AssistantMessage
\* the turns that were answered before
<1>16. ASSUME NEW v \in Turns \ {t}, At(v, "answered")
       PROVE  KeptOK(v)'
  <2>1. KeptOK(v) /\ turns'[v] = turns[v]
    BY <1>9 DEF HInv
  <2>2. Conv(v)' = Conv(v) /\ Conv(v) # NoId /\ Conv(v) \in Turns
    BY <1>16, <2>1 DEF KeptOK, Conv, TypeOK, Locals
  <2>3. stored'[Conv(v)] # None => Has(stored'[Conv(v)].messages, v) \/ Ended(v)'
    <3>1. CASE Conv(v) = k
      <4>1. Has(ms, v) \/ t \in turns[v].rivals \/ Ended(v)
        BY <1>1, <1>2, <1>5, <1>16, <2>1, <3>1 DEF KeptOK
      <4>2. t \in turns[v].rivals => Ended(v)'
        BY <1>4, <1>6, <1>9, <2>1 DEF Ended
      <4> QED BY <1>8, <1>10, <3>1, <4>1, <4>2
    <3>2. CASE Conv(v) # k
      <4>1. stored'[Conv(v)] = stored[Conv(v)]
        BY <1>8, <2>2, <3>2
      <4> QED BY <1>10, <1>16, <2>1, <4>1 DEF KeptOK
    <3> QED BY <3>1, <3>2
  <2>4. ~Holding(t)'
    BY <1>4, <1>6, <1>9 DEF Holding
  <2>5. ASSUME NEW w \in Turns, Holding(w)', Conv(w)' = Conv(v)
        PROVE  Has(Messages(w), v)' \/ w \in turns'[v].rivals \/ Ended(v)'
    <3>1. turns'[w] = turns[w]
      BY <1>9, <2>4, <2>5
    <3>2. Has(Messages(w), v) \/ w \in turns[v].rivals \/ Ended(v)
      BY <1>16, <2>1, <2>5, <3>1 DEF KeptOK, Holding, Conv
    <3> QED BY <1>10, <2>1, <3>1, <3>2 DEF Messages, Has, AssistantMessage
  <2> QED BY <2>2, <2>3, <2>5 DEF KeptOK, Has, AssistantMessage
<1>17. ASSUME NEW v \in Turns \ {t}, ~At(v, "answered")
       PROVE  KeptOK(v)'
  BY <1>9, <1>17 DEF KeptOK, At
<1>18. turns[k].pc \notin {"unused", "load"}
  BY <1>1, <1>14 DEF HInv, FreshOK
<1>19. new.pc # "unused" /\ new.pc # "load"
  BY <1>4, <1>6
<1> QED
  BY <1>5, <1>6, <1>7, <1>12, <1>13, <1>15, <1>16, <1>17, <1>18, <1>19, StepHistory

LEMMA ExpireHistory ==
    ASSUME TypeOK, HInv, turns' = turns,
           \A k \in Turns : stored'[k] = None \/ stored'[k] = stored[k]
    PROVE  HInv'
<1>1. ASSUME NEW k \in Turns PROVE HistoryOK(k)'
  <2>1. HistoryOK(k)
    BY DEF HInv
  <2> QED BY <2>1 DEF HistoryOK, Past, Whole, Asks, Answered, At
<1>2. ASSUME NEW t \in Turns PROVE MessagesOK(t)' /\ FreshOK(t)'
  <2>1. MessagesOK(t) /\ FreshOK(t)
    BY DEF HInv
  <2>2. \A h : Past(h) => Past(h)'
    BY DEF Past, Whole, Asks, Answered, At
  <2> QED BY <2>1, <2>2 DEF MessagesOK, FreshOK, Messages, Conv, At, UserMessage, AssistantMessage
<1>3. ASSUME NEW t \in Turns, At(t, "answered") PROVE KeptOK(t)'
  <2>1. KeptOK(t) /\ Conv(t) \in Turns
    BY <1>3 DEF HInv, KeptOK, TypeOK, Locals, Conv
  <2> QED BY <1>3, <2>1 DEF KeptOK, Conv, Has, AssistantMessage, Ended, Holding, Messages
<1>4. ASSUME NEW t \in Turns, ~At(t, "answered") PROVE KeptOK(t)'
  BY <1>4 DEF KeptOK, At
<1> QED
  BY <1>1, <1>2, <1>3, <1>4 DEF HInv

-----------------------------------------------------------------------------
(* The invariant is inductive.                                               *)

LEMMA InitHistory == Init => HInv
<1> SUFFICES ASSUME Init PROVE HInv
  OBVIOUS
<1>1. \A k \in Turns : stored[k] = None
  BY DEF Init
<1>2. \A t \in Turns : turns[t].pc = "unused" /\ turns[t].conv = NoId
  BY DEF Init, Unused
<1> QED
  BY <1>1, <1>2 DEF HInv, HistoryOK, MessagesOK, FreshOK, KeptOK, At, Conv

LEMMA StepHInv == IInv /\ HInv /\ [Next]_vars => HInv'
<1> SUFFICES ASSUME IInv, HInv, [Next]_vars PROVE HInv'
  OBVIOUS
<1>1. TypeOK
  BY DEF IInv
<1>2. CASE \E t \in Turns : \E u \in Users, r \in Reviews, k \in Turns \cup {NoId} : Ask(t, u, r, k)
  BY <1>1, <1>2, AskHistory
<1>3. CASE \E t \in Turns : Turn(t) \/ Die(t)
  BY <1>1, <1>3, LoadHistory, LlmHistory, SaveHistory, DieHistory DEF Turn
<1>4. CASE \E k \in Turns : Expire(k)
  <2>1. turns' = turns /\ \A k \in Turns : stored'[k] = None \/ stored'[k] = stored[k]
    BY <1>1, <1>4 DEF Expire, TypeOK
  <2> QED BY <1>1, <2>1, ExpireHistory
<1>5. CASE UNCHANGED <<stored, turns>>
  BY <1>1, <1>5, ExpireHistory
<1> QED
  BY <1>2, <1>3, <1>4, <1>5 DEF Next, Uninstall, Reclaim, vars

LEMMA AlwaysHistory == Spec => [](IInv /\ HInv)
  BY InitInv, InitHistory, StepInv, StepHInv, PTL DEF Spec

\* Turns of one conversation may overlap, be refused or die, and each stores the
\* whole conversation: what is stored is still a sequence of questions, each
\* followed by its answer, and no turn twice (ReviewsService.chat).
THEOREM TurnsWhole == Spec => []WholeTurns
<1>1. HInv => WholeTurns
  <2> SUFFICES ASSUME HInv, NEW k \in Turns, stored[k] # None
               PROVE  LET ms == stored[k].messages
                          asks == {i \in DOMAIN ms : ms[i].role = "user"}
                      IN /\ asks = {i \in DOMAIN ms : i % 2 = 1} /\ Len(ms) % 2 = 0
                         /\ \A i \in asks : ms[i + 1].turn = ms[i].turn
                         /\ \A i, j \in asks : ms[i].turn = ms[j].turn => i = j
    BY DEF WholeTurns
  <2>1. PICK ms : ms = stored[k].messages
    OBVIOUS
  <2>2. Past(ms)
    BY <2>1 DEF HInv, HistoryOK
  <2>3. DOMAIN ms = 1..Len(ms)
    BY <2>2 DEF Past
  <2>4. \A i \in DOMAIN ms : ms[i].role = "user" <=> Asks(i)
    BY <2>2, <2>3 DEF Past, Whole
  <2> DEFINE asks == {i \in DOMAIN ms : ms[i].role = "user"}
  <2>5. asks = {i \in DOMAIN ms : i % 2 = 1} /\ \A i \in asks : i \in 1..Len(ms) /\ Asks(i)
    BY <2>3, <2>4 DEF Asks
  <2> HIDE DEF asks
  <2>6. /\ Len(ms) % 2 = 0
        /\ \A i \in asks : ms[i + 1].turn = ms[i].turn
        /\ \A i, j \in asks : ms[i].turn = ms[j].turn => i = j
    BY <2>2, <2>5 DEF Past, Whole
  <2> QED BY <2>1, <2>5, <2>6 DEF asks
<1> QED
  BY <1>1, AlwaysHistory, PTL

\* An answered turn stays in its conversation until that expires, unless a turn
\* that had loaded the conversation earlier stored it later
\* (ReviewsService.chat, which loads and stores without a lock).
THEOREM AnswersKept == Spec => []TurnKept
<1>1. IInv /\ HInv => TurnKept
  <2> SUFFICES ASSUME IInv, HInv, NEW t \in Turns, At(t, "answered"), stored[Conv(t)] # None
               PROVE  \/ \E i \in DOMAIN stored[Conv(t)].messages :
                            stored[Conv(t)].messages[i] = AssistantMessage(t)
                      \/ \E v \in turns[t].rivals : turns[v].pc \in {"answered", "refused"}
    BY DEF TurnKept
  <2>1. Conv(t) \in Turns /\ (Has(stored[Conv(t)].messages, t) \/ Ended(t))
    BY DEF IInv, TypeOK, Locals, Conv, HInv, KeptOK
  <2>2. DOMAIN stored[Conv(t)].messages = 1..Len(stored[Conv(t)].messages)
    BY <2>1 DEF HInv, HistoryOK, Past
  <2> QED BY <2>1, <2>2 DEF Has, Ended
<1> QED
  BY <1>1, AlwaysHistory, PTL
=============================================================================
