------------------------------ MODULE Chat_proofs ------------------------------
(* What is proved of the study coach's conversations, for every number of     *)
(* students and turns and every even length of the history.                   *)
EXTENDS Chat, FiniteSetTheorems, TLAPS

Active(t) == turns[t].step # "idle"
Asked(t) == turns[t].step \in {"retrieve", "generate"}

\* A turn in state s: keys and turn numbers are handed out in order.
TurnOK(s, keys, last) ==
  /\ s \in [step: {"idle", "question", "retrieve", "generate"}, turn: {s.turn}, user: {s.user},
            conversation: Nat, question: Nat, history: {s.history}, chunks: {s.chunks}]
  /\ s.step = "idle" => s = NoTurn
  /\ s.step # "idle" => /\ s.conversation # 0 /\ s.conversation <= keys.conversation
                        /\ s.turn \in Nat /\ s.turn <= last
  /\ s.step \in {"retrieve", "generate"} => s.question <= keys.message

MessageOK(m, keys, last) ==
  /\ m.id \in Nat /\ m.id <= keys.message /\ m.turn \in Nat /\ m.turn <= last
  /\ m.role \in {"USER", "ASSISTANT"}

KeysOK ==
  /\ sequences \in [conversation: Nat, message: Nat] /\ begun \in Nat
  /\ \A c \in conversations : c.id \in Nat /\ c.id # 0 /\ c.id <= sequences.conversation

ShapesOK ==
  /\ KeysOK
  /\ turns = [t \in Turns |-> turns[t]]
  /\ \A t \in Turns : TurnOK(turns[t], sequences, begun)
  /\ IsFiniteSet(chat)
  /\ \A m \in chat : MessageOK(m, sequences, begun)

\* A turn's number is its own, and it writes at most one message of each role.
TurnsDiffer ==
  /\ \A t, o \in Turns : Active(t) /\ Active(o) /\ turns[t].turn = turns[o].turn => t = o
  /\ \A t \in Turns, m \in chat : Active(t) => m.turn # turns[t].turn
  /\ \A m, n \in chat : m.turn = n.turn /\ m.role = n.role => m = n

\* Each question has its answer, and the answer comes later.
Answered ==
  \A m \in chat : \E q, a \in chat :
    /\ q.turn = m.turn /\ q.role = "USER"
    /\ a.turn = m.turn /\ a.role = "ASSISTANT" /\ a.id > q.id
    /\ q.conversation = m.conversation /\ a.conversation = m.conversation

\* In these messages ids differ, and none is between a question and its answer.
Adjacent(messages) ==
  /\ \A m, n \in messages : m.id = n.id => m = n
  /\ \A q, a, m \in messages :
       q.turn = a.turn /\ q.role = "USER" /\ a.role = "ASSISTANT" => m.id <= q.id \/ a.id <= m.id

\* A conversation whose turns never overlapped: one turn at a time, which asks
\* after everything that has been said.
InTurn ==
  \A c \in Nat \ crossed :
    /\ \A t, o \in Turns : Active(t) /\ Active(o) /\ turns[t].conversation = c /\ turns[o].conversation = c => t = o
    /\ \A t \in Turns : Asked(t) /\ turns[t].conversation = c => \A m \in ListMessages(c) : m.id < turns[t].question
    /\ Adjacent(ListMessages(c))

\* These messages are of whole turns.
Balanced(messages) ==
  {q.turn : q \in RoleOf(messages, "USER")} = {a.turn : a \in RoleOf(messages, "ASSISTANT")}

HistoriesWhole == \A t \in Turns : turns[t].conversation \notin crossed => Balanced(turns[t].history)

ChatInv == ShapesOK /\ TurnsDiffer /\ Answered /\ InTurn /\ HistoriesWhole

-----------------------------------------------------------------------------
(* The window of the last messages: it is cut between whole turns.           *)

\* A conversation's messages, as the committed turns leave them.
Kinds(messages) == \A m \in messages : m.id \in Nat /\ m.role \in {"USER", "ASSISTANT"}
OneEach(messages) == \A m, n \in messages : m.turn = n.turn /\ m.role = n.role => m = n
Complete(messages) ==
  \A m \in messages : \E q, a \in messages :
    /\ q.turn = m.turn /\ q.role = "USER"
    /\ a.turn = m.turn /\ a.role = "ASSISTANT" /\ a.id > q.id

Paired(messages) ==
  IsFiniteSet(messages) /\ Kinds(messages) /\ OneEach(messages) /\ Complete(messages) /\ Adjacent(messages)

After(messages, m) == {n \in messages : n.id > m.id}

\* Messages that each have a partner of their own are no more than the partners.
LEMMA PartnersBound ==
  ASSUME NEW S, NEW T, IsFiniteSet(T), \A x \in S : \E y \in T : y.turn = x.turn,
         \A x, y \in S : x.turn = y.turn => x = y
  PROVE  IsFiniteSet(S) /\ Cardinality(S) <= Cardinality(T)
<1> DEFINE f == [x \in S |-> CHOOSE y \in T : y.turn = x.turn]
<1>1. \A x \in S : f[x] \in T /\ f[x].turn = x.turn
      OBVIOUS
<1>2. f \in Injection(S, T)
    <2>1. f \in [S -> T] /\ \A x, y \in S : f[x] = f[y] => x = y
          BY <1>1
    <2> QED BY <2>1 DEF Injection, IsInjective
<1> QED BY <1>2, FS_Injection

\* Whole turns follow an answer, so an even number of messages.
LEMMA EvenAfterAnswer ==
  ASSUME NEW messages, Paired(messages), NEW a \in messages, a.role = "ASSISTANT"
  PROVE  /\ IsFiniteSet(After(messages, a))
         /\ \E i \in Nat : Cardinality(After(messages, a)) = 2 * i
<1> DEFINE Q == {m \in After(messages, a) : m.role = "USER"}
           A == {m \in After(messages, a) : m.role = "ASSISTANT"}
<1>1. /\ IsFiniteSet(After(messages, a)) /\ IsFiniteSet(Q) /\ IsFiniteSet(A)
    <2>1. IsFiniteSet(messages) /\ After(messages, a) \in SUBSET messages
          BY DEF Paired, After
    <2>2. IsFiniteSet(After(messages, a))
          BY <2>1, FS_Subset
    <2>3. Q \in SUBSET After(messages, a) /\ A \in SUBSET After(messages, a)
          OBVIOUS
    <2> QED BY <2>2, <2>3, FS_Subset
<1>0. Kinds(messages) /\ OneEach(messages) /\ Complete(messages) /\ Adjacent(messages)
      BY DEF Paired
<1>2. \A q \in Q : \E b \in A : b.turn = q.turn
    <2> SUFFICES ASSUME NEW q \in Q PROVE \E b \in A : b.turn = q.turn
        OBVIOUS
    <2>1. q \in messages /\ q.role = "USER" /\ q.id > a.id
          BY DEF After
    <2>2. PICK p, b \in messages : /\ p.turn = q.turn /\ p.role = "USER"
                                   /\ b.turn = q.turn /\ b.role = "ASSISTANT" /\ b.id > p.id
          BY <1>0, <2>1 DEF Complete
    <2>3. p = q
          BY <1>0, <2>1, <2>2 DEF OneEach
    <2>4. b.id > a.id
          BY <1>0, <2>1, <2>2, <2>3 DEF Kinds
    <2> QED BY <2>2, <2>4 DEF After
<1>3. \A b \in A : \E q \in Q : q.turn = b.turn
    <2> SUFFICES ASSUME NEW b \in A PROVE \E q \in Q : q.turn = b.turn
        OBVIOUS
    <2>1. b \in messages /\ b.role = "ASSISTANT" /\ b.id > a.id
          BY DEF After
    <2>2. PICK q, d \in messages : /\ q.turn = b.turn /\ q.role = "USER"
                                   /\ d.turn = b.turn /\ d.role = "ASSISTANT" /\ d.id > q.id
          BY <1>0, <2>1 DEF Complete
    <2>3. a.id <= q.id \/ b.id <= a.id
          BY <1>0, <2>1, <2>2 DEF Adjacent
    <2>4. a # q
          BY <2>2
    <2>5. a.id # q.id
          BY <1>0, <2>2, <2>4 DEF Adjacent
    <2>6. q.id > a.id
          BY <1>0, <2>1, <2>2, <2>3, <2>5 DEF Kinds
    <2> QED BY <2>2, <2>6 DEF After
<1>4. /\ \A x, y \in Q : x.turn = y.turn => x = y
      /\ \A x, y \in A : x.turn = y.turn => x = y
      BY <1>0 DEF OneEach, After
<1>5. After(messages, a) = Q \cup A /\ Q \cap A = {}
    <2>1. \A n \in After(messages, a) : n.role \in {"USER", "ASSISTANT"}
          BY <1>0 DEF Kinds, After
    <2> QED BY <2>1
<1> HIDE DEF Q, A
<1>6. Cardinality(Q) <= Cardinality(A) /\ Cardinality(A) <= Cardinality(Q)
      BY <1>1, <1>2, <1>3, <1>4, PartnersBound
<1>7. Cardinality(Q \cup A) = Cardinality(Q) + Cardinality(A) - Cardinality(Q \cap A)
      BY <1>1, FS_Union
<1>8. Cardinality(Q) \in Nat /\ Cardinality(A) \in Nat /\ Cardinality({}) = 0
      BY <1>1, FS_CardinalityType, FS_EmptySet
<1>9. Cardinality(After(messages, a)) = 2 * Cardinality(Q)
    <2>1. Cardinality(After(messages, a)) = Cardinality(Q) + Cardinality(A) - 0
          BY <1>5, <1>7, <1>8
    <2> QED BY <1>6, <1>8, <2>1
<1> QED BY <1>1, <1>8, <1>9

\* A question is followed by its answer and what follows that.
LEMMA AfterQuestion ==
  ASSUME NEW messages, Paired(messages), NEW q \in messages, NEW a \in messages,
         q.role = "USER", a.role = "ASSISTANT", q.turn = a.turn
  PROVE  /\ Cardinality(After(messages, q)) = Cardinality(After(messages, a)) + 1
         /\ Cardinality(After(messages, a)) \in Nat
         /\ Cardinality(After(messages, a)) < MaxHistory <=> Cardinality(After(messages, q)) < MaxHistory
<1>0. Kinds(messages) /\ OneEach(messages) /\ Complete(messages) /\ Adjacent(messages)
      BY DEF Paired
<1>1. a.id > q.id
    <2>1. PICK p, b \in messages : /\ p.turn = q.turn /\ p.role = "USER"
                                   /\ b.turn = q.turn /\ b.role = "ASSISTANT" /\ b.id > p.id
          BY <1>0 DEF Complete
    <2>2. p = q /\ b = a
          BY <1>0, <2>1 DEF OneEach
    <2> QED BY <2>1, <2>2
<1>2. After(messages, q) = After(messages, a) \cup {a}
    <2>1. ASSUME NEW n \in messages PROVE n.id > q.id <=> n.id > a.id \/ n = a
        <3>1. n.id <= q.id \/ a.id <= n.id
              BY <1>0 DEF Adjacent
        <3>2. n.id = a.id => n = a
              BY <1>0 DEF Adjacent
        <3>3. n.id \in Nat /\ a.id \in Nat /\ q.id \in Nat
              BY <1>0 DEF Kinds
        <3> QED BY <1>1, <3>1, <3>2, <3>3
    <2> QED BY <2>1 DEF After
<1>3. a \notin After(messages, a)
    <2>1. a.id \in Nat
          BY <1>0 DEF Kinds
    <2> QED BY <2>1 DEF After
<1>4. IsFiniteSet(After(messages, a)) /\ \E i \in Nat : Cardinality(After(messages, a)) = 2 * i
      BY EvenAfterAnswer
<1>5. PICK i \in Nat : Cardinality(After(messages, a)) = 2 * i
      BY <1>4
<1>6. Cardinality(After(messages, q)) = Cardinality(After(messages, a)) + 1
      BY <1>2, <1>3, <1>4, FS_AddElement
<1>7. MaxHistory \in Nat /\ MaxHistory % 2 = 0
      BY HistoryIsEven
<1>8. 2 * i < MaxHistory <=> 2 * i + 1 < MaxHistory
      BY <1>7
<1> QED BY <1>5, <1>6, <1>8

LEMMA WindowIsWhole ==
  ASSUME NEW messages, Paired(messages)
  PROVE  Balanced(LastOf(messages))
<1>1. \A m \in messages : m \in LastOf(messages) <=> Cardinality(After(messages, m)) < MaxHistory
      BY DEF LastOf, After
<1>2. LastOf(messages) \subseteq messages
      BY DEF LastOf
<1>3. ASSUME NEW m \in LastOf(messages)
      PROVE  \E q, a \in LastOf(messages) : q.turn = m.turn /\ q.role = "USER" /\ a.turn = m.turn /\ a.role = "ASSISTANT"
    <2>1. PICK q, a \in messages : q.turn = m.turn /\ q.role = "USER" /\ a.turn = m.turn /\ a.role = "ASSISTANT"
          BY <1>2 DEF Paired, Complete
    <2>2. m.role = "USER" \/ m.role = "ASSISTANT"
          BY <1>2 DEF Paired, Kinds
    <2>3. m = q \/ m = a
          BY <1>2, <2>1, <2>2 DEF Paired, OneEach
    <2>4. q \in LastOf(messages) <=> a \in LastOf(messages)
          BY <1>1, <2>1, AfterQuestion
    <2> QED BY <2>1, <2>3, <2>4
<1>4. \A m \in LastOf(messages) : m.role = "USER" => \E a \in LastOf(messages) : a.turn = m.turn /\ a.role = "ASSISTANT"
      BY <1>3
<1>5. \A m \in LastOf(messages) : m.role = "ASSISTANT" => \E q \in LastOf(messages) : q.turn = m.turn /\ q.role = "USER"
      BY <1>3
<1> QED BY <1>4, <1>5 DEF Balanced, RoleOf

-----------------------------------------------------------------------------
(* The steps of a turn.                                                       *)

\* The messages of a conversation whose turns never overlapped.
LEMMA ConversationPaired ==
  ASSUME ShapesOK, TurnsDiffer, Answered, InTurn, NEW c \in Nat, c \notin crossed
  PROVE  Paired(ListMessages(c))
<1>1. ListMessages(c) \in SUBSET chat /\ \A m \in chat : m \in ListMessages(c) <=> m.conversation = c
      BY DEF ListMessages
<1>2. IsFiniteSet(ListMessages(c))
      BY <1>1, FS_Subset DEF ShapesOK
<1>3. Kinds(ListMessages(c))
      BY <1>1 DEF Kinds, ShapesOK, MessageOK
<1>4. OneEach(ListMessages(c))
      BY <1>1 DEF OneEach, TurnsDiffer
<1>5. Complete(ListMessages(c))
    <2> SUFFICES ASSUME NEW m \in ListMessages(c)
                 PROVE  \E q, a \in ListMessages(c) :
                           /\ q.turn = m.turn /\ q.role = "USER"
                           /\ a.turn = m.turn /\ a.role = "ASSISTANT" /\ a.id > q.id
        BY DEF Complete
    <2>1. m \in chat /\ m.conversation = c
          BY <1>1
    <2>2. PICK q, a \in chat :
              /\ q.turn = m.turn /\ q.role = "USER"
              /\ a.turn = m.turn /\ a.role = "ASSISTANT" /\ a.id > q.id
              /\ q.conversation = m.conversation /\ a.conversation = m.conversation
          BY <2>1 DEF Answered
    <2> QED BY <1>1, <2>1, <2>2
<1>6. Adjacent(ListMessages(c))
      BY DEF InTurn
<1> QED BY <1>2, <1>3, <1>4, <1>5, <1>6 DEF Paired

\* Turn t goes to state s; nothing is committed.
TurnGoes(t, s) ==
  /\ turns'[t] = s
  /\ \A o \in Turns \ {t} : turns'[o] = turns[o]
  /\ turns' = [o \in Turns |-> turns'[o]]

KeysGrow ==
  /\ sequences.message <= sequences'.message /\ sequences.conversation <= sequences'.conversation
  /\ begun <= begun'

LEMMA StatesStay ==
  ASSUME KeysOK, KeysOK', KeysGrow
  PROVE  /\ \A s : TurnOK(s, sequences, begun) => TurnOK(s, sequences', begun')
         /\ \A m : MessageOK(m, sequences, begun) => MessageOK(m, sequences', begun')
<1>1. /\ sequences.message \in Nat /\ sequences'.message \in Nat
      /\ sequences.conversation \in Nat /\ sequences'.conversation \in Nat /\ begun \in Nat /\ begun' \in Nat
      BY DEF KeysOK
<1>2. ASSUME NEW s, TurnOK(s, sequences, begun) PROVE TurnOK(s, sequences', begun')
    <2>1. s.conversation \in Nat /\ s.question \in Nat
          BY <1>2 DEF TurnOK
    <2> QED BY <1>1, <1>2, <2>1 DEF TurnOK, KeysGrow
<1>3. ASSUME NEW m, MessageOK(m, sequences, begun) PROVE MessageOK(m, sequences', begun')
      BY <1>1, <1>3 DEF MessageOK, KeysGrow
<1> QED BY <1>2, <1>3

LEMMA MovesKeep ==
  ASSUME ChatInv, NEW t \in Turns, NEW s, TurnGoes(t, s), UNCHANGED chat, KeysOK', KeysGrow,
         crossed \subseteq crossed', TurnOK(s, sequences', begun'),
         s.step # "idle" => /\ \A o \in Turns \ {t} : Active(o) => turns[o].turn # s.turn
                            /\ \A m \in chat : m.turn # s.turn
                            /\ \A o \in Turns \ {t} : Active(o) /\ turns[o].conversation = s.conversation
                                                        => s.conversation \in crossed',
         s.step \in {"retrieve", "generate"} /\ s.conversation \notin crossed' =>
            \A m \in ListMessages(s.conversation) : m.id < s.question,
         s.conversation \notin crossed' => Balanced(s.history)
  PROVE  ChatInv'
<1> USE DEF ChatInv
<1>1. ShapesOK'
      BY StatesStay DEF ShapesOK, TurnGoes
<1>2. TurnsDiffer'
      BY DEF TurnsDiffer, TurnGoes, Active
<1>3. Answered'
      BY DEF Answered
<1>4. \A c : ListMessages(c)' = ListMessages(c)
      BY DEF ListMessages
<1>5. InTurn'
    <2> SUFFICES ASSUME NEW c \in Nat, c \notin crossed'
                 PROVE  /\ \A n, o \in Turns : Active(n)' /\ Active(o)' /\ turns'[n].conversation = c
                                                 /\ turns'[o].conversation = c => n = o
                        /\ \A o \in Turns : Asked(o)' /\ turns'[o].conversation = c
                                              => \A m \in ListMessages(c) : m.id < turns'[o].question
                        /\ Adjacent(ListMessages(c))
        BY <1>4 DEF InTurn
    <2>1. c \notin crossed
          OBVIOUS
    <2>2. Adjacent(ListMessages(c))
          BY <2>1 DEF InTurn
    <2>3. ASSUME NEW o \in Turns, Asked(o)', turns'[o].conversation = c
          PROVE  \A m \in ListMessages(c) : m.id < turns'[o].question
        <3>1. CASE o = t
              BY <2>3, <3>1 DEF TurnGoes, Asked
        <3>2. CASE o # t
            <4>1. Asked(o) /\ turns[o].conversation = c /\ turns'[o] = turns[o]
                  BY <2>3, <3>2 DEF TurnGoes, Asked
            <4> QED BY <2>1, <4>1 DEF InTurn
        <3> QED BY <3>1, <3>2
    <2>4. ASSUME NEW n \in Turns, NEW o \in Turns, Active(n)', Active(o)',
                 turns'[n].conversation = c, turns'[o].conversation = c
          PROVE  n = o
        <3>1. n # t /\ o # t => n = o
              BY <2>1, <2>4 DEF InTurn, TurnGoes, Active
        <3>2. n = t /\ o # t => FALSE
              BY <2>4 DEF TurnGoes, Active
        <3>3. n # t /\ o = t => FALSE
              BY <2>4 DEF TurnGoes, Active
        <3> QED BY <3>1, <3>2, <3>3
    <2> QED BY <2>2, <2>3, <2>4
<1>6. HistoriesWhole'
    <2>1. \A o \in Turns \ {t} : turns[o].conversation \notin crossed' => Balanced(turns[o].history)
          BY DEF HistoriesWhole
    <2>2. \A h : Balanced(h)' <=> Balanced(h)
          BY DEF Balanced, RoleOf
    <2> QED BY <2>1 DEF HistoriesWhole, TurnGoes, Balanced, RoleOf
<1> QED BY <1>1, <1>2, <1>3, <1>5, <1>6

\* A thread without a turn.
LEMMA NoTurnOK ==
  ASSUME NEW keys, NEW last
  PROVE  /\ TurnOK(NoTurn, keys, last) /\ NoTurn.step = "idle" /\ NoTurn.conversation = 0
         /\ NoTurn.question = 0 /\ Balanced(NoTurn.history)
<1>1. NoTurn.history = {} /\ NoTurn.step = "idle" /\ NoTurn.conversation = 0 /\ NoTurn.question = 0
      BY DEF NoTurn
<1>2. Balanced({})
      BY DEF Balanced, RoleOf
<1>3. NoTurn \in [step: {"idle", "question", "retrieve", "generate"}, turn: {NoTurn.turn}, user: {NoTurn.user},
                  conversation: Nat, question: Nat, history: {NoTurn.history}, chunks: {NoTurn.chunks}]
      BY DEF NoTurn
<1> QED BY <1>1, <1>2, <1>3 DEF TurnOK

LEMMA InitChat == ChatInit => ChatInv
<1> SUFFICES ASSUME ChatInit PROVE ChatInv
    OBVIOUS
<1>1. \A t \in Turns : turns[t] = NoTurn
      BY DEF ChatInit
<1>2. chat = {} /\ crossed = {} /\ \A c : ListMessages(c) = {}
      BY DEF ChatInit, ListMessages
<1>3. ShapesOK
    <2>1. KeysOK
          BY DEF ChatInit, KeysOK
    <2>2. turns = [t \in Turns |-> turns[t]]
          BY DEF ChatInit
    <2>3. \A t \in Turns : TurnOK(turns[t], sequences, begun)
          BY <1>1, NoTurnOK
    <2> QED BY <1>2, <2>1, <2>2, <2>3, FS_EmptySet DEF ShapesOK
<1>4. \A t \in Turns : ~Active(t) /\ ~Asked(t) /\ Balanced(turns[t].history)
      BY <1>1, NoTurnOK DEF Active, Asked
<1>5. TurnsDiffer /\ Answered
      BY <1>2, <1>4 DEF TurnsDiffer, Answered
<1>6. InTurn
      BY <1>2, <1>4 DEF InTurn, Adjacent
<1>7. HistoriesWhole
      BY <1>4 DEF HistoriesWhole
<1> QED BY <1>3, <1>5, <1>6, <1>7 DEF ChatInv

LEMMA TurnFailsKeeps == ASSUME ChatInv, NEW t \in Turns, TurnFails(t) PROVE ChatInv'
<1>1. TurnGoes(t, NoTurn)
      BY DEF TurnFails, TurnGoes, ChatInv, ShapesOK
<1>2. KeysOK' /\ KeysGrow
      BY DEF TurnFails, ChatInv, ShapesOK, KeysOK, KeysGrow
<1>3. UNCHANGED <<chat, crossed>>
      BY DEF TurnFails
<1>4. TurnOK(NoTurn, sequences', begun') /\ NoTurn.step = "idle" /\ Balanced(NoTurn.history)
      BY NoTurnOK
<1> QED BY <1>1, <1>2, <1>3, <1>4, MovesKeep

LEMMA RetrieveKeeps == ASSUME ChatInv, NEW t \in Turns, Retrieve(t) PROVE ChatInv'
<1>1. PICK found : turns' = [turns EXCEPT ![t].step = "generate", ![t].chunks = found]
      BY DEF Retrieve
<1>2. /\ turns[t].step = "retrieve" /\ UNCHANGED <<conversations, chat, sequences, begun, crossed>>
      /\ TurnOK(turns[t], sequences, begun) /\ turns = [o \in Turns |-> turns[o]] /\ KeysOK
      BY DEF Retrieve, ChatInv, ShapesOK
<1> DEFINE s == [turns[t] EXCEPT !.step = "generate", !.chunks = found]
<1>3. TurnGoes(t, s)
      BY <1>1, <1>2 DEF TurnGoes
<1>4. /\ s.step = "generate" /\ s.turn = turns[t].turn /\ s.conversation = turns[t].conversation
      /\ s.question = turns[t].question /\ s.history = turns[t].history /\ TurnOK(s, sequences', begun')
    <2>1. turns[t] \in [step: {"idle", "question", "retrieve", "generate"}, turn: {turns[t].turn}, user: {turns[t].user},
            conversation: Nat, question: Nat, history: {turns[t].history}, chunks: {turns[t].chunks}]
          BY <1>2 DEF TurnOK
    <2>2. s = [step |-> "generate", turn |-> turns[t].turn, user |-> turns[t].user, conversation |-> turns[t].conversation,
               question |-> turns[t].question, history |-> turns[t].history, chunks |-> found]
        <3>1. turns[t] = [step |-> turns[t].step, turn |-> turns[t].turn, user |-> turns[t].user,
                          conversation |-> turns[t].conversation, question |-> turns[t].question,
                          history |-> turns[t].history, chunks |-> turns[t].chunks]
              BY <2>1
        <3> DEFINE m == [turns[t] EXCEPT !.step = "generate"]
        <3>2. m = [step |-> "generate", turn |-> turns[t].turn, user |-> turns[t].user,
                   conversation |-> turns[t].conversation, question |-> turns[t].question,
                   history |-> turns[t].history, chunks |-> turns[t].chunks]
              BY <3>1
        <3>3. s = [m EXCEPT !.chunks = found]
              OBVIOUS
        <3> HIDE DEF m, s
        <3> QED BY <3>2, <3>3
    <2> HIDE DEF s
    <2> QED BY <1>2, <2>1, <2>2 DEF TurnOK
<1> HIDE DEF s
<1>5. KeysOK' /\ KeysGrow
      BY <1>2 DEF KeysOK, KeysGrow
<1>6. /\ \A o \in Turns \ {t} : Active(o) => turns[o].turn # s.turn
      /\ \A m \in chat : m.turn # s.turn
      BY <1>2, <1>4 DEF ChatInv, TurnsDiffer, Active
<1>7. s.conversation \in Nat
      BY <1>2, <1>4 DEF TurnOK
<1>8. \A o \in Turns \ {t} : Active(o) /\ turns[o].conversation = s.conversation => s.conversation \in crossed'
      BY <1>2, <1>4, <1>7 DEF ChatInv, InTurn, Active
<1>9. s.conversation \notin crossed' => \A m \in ListMessages(s.conversation) : m.id < s.question
      BY <1>2, <1>4, <1>7 DEF ChatInv, InTurn, Asked
<1>10. s.conversation \notin crossed' => Balanced(s.history)
      BY <1>2, <1>4 DEF ChatInv, HistoriesWhole
<1> QED BY <1>2, <1>3, <1>4, <1>5, <1>6, <1>8, <1>9, <1>10, MovesKeep

LEMMA AddQuestionKeeps == ASSUME ChatInv, NEW t \in Turns, AddQuestion(t) PROVE ChatInv'
<1> DEFINE c == turns[t].conversation
           h == LastOf(ListMessages(c))
           k == sequences.message + 1
           s == [turns[t] EXCEPT !.step = "retrieve", !.question = k, !.history = h]
<1>1. /\ turns[t].step = "question" /\ UNCHANGED <<conversations, chat, begun, crossed>>
      /\ sequences' = [sequences EXCEPT !.message = sequences.message + 1]
      /\ TurnOK(turns[t], sequences, begun) /\ turns = [o \in Turns |-> turns[o]] /\ KeysOK
      BY DEF AddQuestion, ChatInv, ShapesOK
<1>2. TurnGoes(t, s)
      BY <1>1 DEF TurnGoes, AddQuestion
<1>3. KeysOK' /\ KeysGrow /\ k = sequences'.message /\ k \in Nat
      BY <1>1 DEF KeysOK, KeysGrow
<1> HIDE DEF h, k
<1>4. /\ s.step = "retrieve" /\ s.turn = turns[t].turn /\ s.conversation = c
      /\ s.question = k /\ s.history = h /\ TurnOK(s, sequences', begun')
    <2>1. turns[t] \in [step: {"idle", "question", "retrieve", "generate"}, turn: {turns[t].turn}, user: {turns[t].user},
            conversation: Nat, question: Nat, history: {turns[t].history}, chunks: {turns[t].chunks}]
          BY <1>1 DEF TurnOK
    <2>2. turns[t] = [step |-> turns[t].step, turn |-> turns[t].turn, user |-> turns[t].user,
                      conversation |-> c, question |-> turns[t].question,
                      history |-> turns[t].history, chunks |-> turns[t].chunks]
          BY <2>1
    <2> DEFINE m == [turns[t] EXCEPT !.step = "retrieve"]
               n == [m EXCEPT !.question = k]
    <2>3. m = [step |-> "retrieve", turn |-> turns[t].turn, user |-> turns[t].user, conversation |-> c,
               question |-> turns[t].question, history |-> turns[t].history, chunks |-> turns[t].chunks]
          BY <2>2
    <2>4. s = [n EXCEPT !.history = h]
          OBVIOUS
    <2> HIDE DEF m, s
    <2>5. n = [step |-> "retrieve", turn |-> turns[t].turn, user |-> turns[t].user, conversation |-> c,
               question |-> k, history |-> turns[t].history, chunks |-> turns[t].chunks]
          BY <2>3
    <2> HIDE DEF n
    <2>6. s = [step |-> "retrieve", turn |-> turns[t].turn, user |-> turns[t].user, conversation |-> c,
               question |-> k, history |-> h, chunks |-> turns[t].chunks]
          BY <2>4, <2>5
    <2>7. c # 0 /\ c <= sequences'.conversation /\ turns[t].turn \in Nat /\ turns[t].turn <= begun'
          BY <1>1 DEF TurnOK, KeysOK
    <2>8. k <= sequences'.message
          BY <1>3
    <2> QED BY <1>3, <2>1, <2>6, <2>7, <2>8 DEF TurnOK
<1> HIDE DEF s
<1>5. /\ \A o \in Turns \ {t} : Active(o) => turns[o].turn # s.turn
      /\ \A m \in chat : m.turn # s.turn
      BY <1>1, <1>4 DEF ChatInv, TurnsDiffer, Active
<1>6. c \in Nat
      BY <1>1 DEF TurnOK
<1>7. \A o \in Turns \ {t} : Active(o) /\ turns[o].conversation = s.conversation => s.conversation \in crossed'
      BY <1>1, <1>4, <1>6 DEF ChatInv, InTurn, Active
<1>8. \A m \in ListMessages(s.conversation) : m.id < s.question
    <2>1. \A m \in chat : m.id \in Nat /\ m.id <= sequences.message
          BY DEF ChatInv, ShapesOK, MessageOK
    <2>2. sequences.message \in Nat
          BY <1>1 DEF KeysOK
    <2> QED BY <1>4, <2>1, <2>2 DEF ListMessages, k
<1>9. s.conversation \notin crossed' => Balanced(s.history)
    <2>1. c \notin crossed => Paired(ListMessages(c))
          BY <1>6, ConversationPaired DEF ChatInv
    <2> QED BY <1>1, <1>4, <2>1, WindowIsWhole DEF h
<1> QED BY <1>1, <1>2, <1>3, <1>4, <1>5, <1>7, <1>8, <1>9, MovesKeep

LEMMA SendMessageKeeps == ASSUME ChatInv, NEW t \in Turns, SendMessage(t) PROVE ChatInv'
<1>1. /\ turns[t].step = "idle" /\ begun' = begun + 1 /\ UNCHANGED <<conversations, chat>>
      /\ TurnOK(turns[t], sequences, begun) /\ turns = [o \in Turns |-> turns[o]] /\ KeysOK
      BY DEF SendMessage, ChatInv, ShapesOK
<1>2. turns[t] = NoTurn
      BY <1>1 DEF TurnOK
<1>3. PICK u \in Students, given \in {0} \cup {c.id : c \in conversations} :
        LET c == IF given = 0 THEN sequences.conversation + 1 ELSE given
        IN  IF given # 0 /\ ~Owned(given, u)
            THEN UNCHANGED <<sequences, turns, crossed>>
            ELSE /\ turns' = [turns EXCEPT ![t] = [NoTurn EXCEPT
                      !.step = "question", !.turn = begun', !.user = u, !.conversation = c]]
                 /\ sequences' = [sequences EXCEPT !.conversation = IF given = 0 THEN c ELSE @]
                 /\ crossed' = IF \E o \in Turns : turns[o].conversation = c
                               THEN crossed \cup {c} ELSE crossed
      BY DEF SendMessage
<1>4. CASE given # 0 /\ ~Owned(given, u)
    <2>1. UNCHANGED <<sequences, turns, crossed>>
          BY <1>3, <1>4
    <2>2. TurnGoes(t, NoTurn)
          BY <1>1, <1>2, <2>1 DEF TurnGoes
    <2>3. KeysOK' /\ KeysGrow
          BY <1>1, <2>1 DEF KeysOK, KeysGrow
    <2>4. TurnOK(NoTurn, sequences', begun') /\ NoTurn.step = "idle" /\ Balanced(NoTurn.history)
          BY NoTurnOK
    <2> QED BY <1>1, <2>1, <2>2, <2>3, <2>4, MovesKeep
<1>5. CASE ~(given # 0 /\ ~Owned(given, u))
    <2> DEFINE c == IF given = 0 THEN sequences.conversation + 1 ELSE given
               s == [NoTurn EXCEPT !.step = "question", !.turn = begun', !.user = u, !.conversation = c]
    <2>1. /\ turns' = [turns EXCEPT ![t] = s]
          /\ sequences' = [sequences EXCEPT !.conversation = IF given = 0 THEN c ELSE sequences.conversation]
          /\ crossed' = IF \E o \in Turns : turns[o].conversation = c THEN crossed \cup {c} ELSE crossed
          BY <1>3, <1>5
    <2>2. TurnGoes(t, s)
          BY <1>1, <2>1 DEF TurnGoes
    <2>3. c \in Nat /\ c # 0 /\ c <= sequences'.conversation
          BY <1>1, <2>1 DEF KeysOK
    <2>4. KeysOK' /\ KeysGrow
          BY <1>1, <2>1 DEF KeysOK, KeysGrow
    <2> HIDE DEF c
    <2>5. s = [step |-> "question", turn |-> begun', user |-> u, conversation |-> c,
               question |-> 0, history |-> {}, chunks |-> {}]
        <3> DEFINE m == [NoTurn EXCEPT !.step = "question"]
                   n == [m EXCEPT !.turn = begun']
                   r == [n EXCEPT !.user = u]
        <3>1. m = [step |-> "question", turn |-> 0, user |-> "nobody", conversation |-> 0,
                   question |-> 0, history |-> {}, chunks |-> {}]
              BY DEF NoTurn
        <3>2. s = [r EXCEPT !.conversation = c]
              OBVIOUS
        <3> HIDE DEF m, s
        <3>3. n = [step |-> "question", turn |-> begun', user |-> "nobody", conversation |-> 0,
                   question |-> 0, history |-> {}, chunks |-> {}]
              BY <3>1
        <3> HIDE DEF n
        <3>4. r = [step |-> "question", turn |-> begun', user |-> u, conversation |-> 0,
                   question |-> 0, history |-> {}, chunks |-> {}]
              BY <3>3
        <3> HIDE DEF r
        <3> QED BY <3>2, <3>4
    <2>6. begun' \in Nat /\ begun' > begun
          BY <1>1 DEF KeysOK
    <2> HIDE DEF s
    <2>7. TurnOK(s, sequences', begun')
          BY <2>3, <2>5, <2>6 DEF TurnOK
    <2>8. s.step = "question" /\ s.turn = begun' /\ s.conversation = c /\ s.history = {}
          BY <2>5
    <2>9. \A o \in Turns \ {t} : Active(o) => turns[o].turn # s.turn
        <3>1. \A o \in Turns : Active(o) => turns[o].turn \in Nat /\ turns[o].turn <= begun
              BY DEF ChatInv, ShapesOK, TurnOK, Active
        <3> QED BY <1>1, <2>6, <2>8, <3>1 DEF KeysOK
    <2>10. \A m \in chat : m.turn # s.turn
        <3>1. \A m \in chat : m.turn \in Nat /\ m.turn <= begun
              BY DEF ChatInv, ShapesOK, MessageOK
        <3> QED BY <1>1, <2>6, <2>8, <3>1 DEF KeysOK
    <2>11. \A o \in Turns \ {t} : Active(o) /\ turns[o].conversation = s.conversation => s.conversation \in crossed'
          BY <2>1, <2>8
    <2>12. Balanced(s.history)
          BY <2>8 DEF Balanced, RoleOf
    <2>13. crossed \subseteq crossed'
          BY <2>1
    <2> QED BY <1>1, <2>2, <2>4, <2>7, <2>8, <2>9, <2>10, <2>11, <2>12, <2>13, MovesKeep
<1> QED BY <1>4, <1>5

LEMMA ReplyKeeps == ASSUME ChatInv, NEW t \in Turns, Reply(t) PROVE ChatInv'
<1>1. PICK v : chat' = chat \cup {Question(t), Answer(t, v)}
      BY DEF Reply
<1> DEFINE q == Question(t)
           a == Answer(t, v)
           c == turns[t].conversation
           k == turns[t].question
           n == turns[t].turn
<1>2. /\ q.id = k /\ q.conversation = c /\ q.role = "USER" /\ q.turn = n
      /\ a.id = sequences.message + 1 /\ a.conversation = c /\ a.role = "ASSISTANT" /\ a.turn = n
      BY DEF Question, Answer
<1>3. chat' = chat \cup {q, a}
      BY <1>1
<1> HIDE DEF q, a
<1>4. /\ Active(t) /\ Asked(t) /\ TurnOK(turns[t], sequences, begun) /\ KeysOK
      /\ sequences' = [sequences EXCEPT !.message = sequences.message + 1]
      /\ conversations' = conversations \cup {[id |-> c, owner |-> turns[t].user]}
      /\ UNCHANGED <<begun, crossed>> /\ turns' = [turns EXCEPT ![t] = NoTurn]
      /\ turns = [o \in Turns |-> turns[o]]
      BY DEF Reply, ChatInv, ShapesOK, Active, Asked
<1>5. TurnGoes(t, NoTurn)
      BY <1>4 DEF TurnGoes
<1>6. /\ c \in Nat /\ c # 0 /\ c <= sequences.conversation /\ n \in Nat /\ n <= begun
      /\ k \in Nat /\ k <= sequences.message /\ sequences.message \in Nat
      BY <1>4 DEF TurnOK, Active, Asked, KeysOK
<1>7. KeysOK' /\ KeysGrow /\ sequences'.message = sequences.message + 1
      BY <1>4, <1>6 DEF KeysOK, KeysGrow
<1>8. q.id < a.id
      BY <1>2, <1>6
<1>9. NoTurn.step = "idle" /\ NoTurn.conversation = 0 /\ TurnOK(NoTurn, sequences', begun') /\ Balanced(NoTurn.history)
      BY NoTurnOK
<1>10. ShapesOK'
    <2>1. IsFiniteSet(chat')
        <3>1. IsFiniteSet(chat \cup {q})
              BY FS_AddElement DEF ChatInv, ShapesOK
        <3>2. IsFiniteSet((chat \cup {q}) \cup {a})
              BY <3>1, FS_AddElement
        <3>3. chat' = (chat \cup {q}) \cup {a}
              BY <1>3
        <3> QED BY <3>2, <3>3
    <2>2. \A o \in Turns : TurnOK(turns'[o], sequences', begun')
        <3>1. \A o \in Turns : TurnOK(turns[o], sequences, begun)
              BY DEF ChatInv, ShapesOK
        <3>2. \A o \in Turns : TurnOK(turns[o], sequences', begun')
              BY <1>4, <1>7, <3>1, StatesStay
        <3> QED BY <1>5, <1>9, <3>2 DEF TurnGoes
    <2>3. \A m \in chat' : MessageOK(m, sequences', begun')
        <3>1. \A m \in chat : MessageOK(m, sequences', begun')
              BY <1>4, <1>7, StatesStay DEF ChatInv, ShapesOK
        <3>2. MessageOK(q, sequences', begun') /\ MessageOK(a, sequences', begun')
              BY <1>2, <1>4, <1>6, <1>7 DEF MessageOK
        <3> QED BY <1>3, <3>1, <3>2
    <2> QED BY <1>5, <1>7, <2>1, <2>2, <2>3 DEF ShapesOK, TurnGoes
<1>11. /\ \A o \in Turns : Active(o)' => o # t /\ Active(o) /\ turns'[o] = turns[o]
       /\ \A o \in Turns : Asked(o)' => o # t /\ Asked(o) /\ turns'[o] = turns[o]
      BY <1>5, <1>9 DEF TurnGoes, Active, Asked
<1>12. \A m \in chat : m.turn # n
      BY <1>4 DEF ChatInv, TurnsDiffer
<1>13. TurnsDiffer'
    <2>1. \A o, p \in Turns : Active(o)' /\ Active(p)' /\ turns'[o].turn = turns'[p].turn => o = p
          BY <1>11 DEF ChatInv, TurnsDiffer
    <2>2. \A o \in Turns, m \in chat' : Active(o)' => m.turn # turns'[o].turn
        <3>1. \A o \in Turns : Active(o)' => turns'[o].turn # n
              BY <1>4, <1>11 DEF ChatInv, TurnsDiffer
        <3>2. \A o \in Turns, m \in chat : Active(o)' => m.turn # turns'[o].turn
              BY <1>11 DEF ChatInv, TurnsDiffer
        <3> QED BY <1>2, <1>3, <3>1, <3>2
    <2>3. \A m, p \in chat' : m.turn = p.turn /\ m.role = p.role => m = p
        <3>1. \A m, p \in chat : m.turn = p.turn /\ m.role = p.role => m = p
              BY DEF ChatInv, TurnsDiffer
        <3> QED BY <1>2, <1>3, <1>12, <3>1
    <2> QED BY <2>1, <2>2, <2>3 DEF TurnsDiffer
<1>14. Answered'
    <2> SUFFICES ASSUME NEW m \in chat'
                 PROVE  \E p, b \in chat' : /\ p.turn = m.turn /\ p.role = "USER"
                                            /\ b.turn = m.turn /\ b.role = "ASSISTANT" /\ b.id > p.id
                                            /\ p.conversation = m.conversation /\ b.conversation = m.conversation
        BY DEF Answered
    <2>1. CASE m \in chat
        <3>1. PICK p, b \in chat : /\ p.turn = m.turn /\ p.role = "USER"
                                   /\ b.turn = m.turn /\ b.role = "ASSISTANT" /\ b.id > p.id
                                   /\ p.conversation = m.conversation /\ b.conversation = m.conversation
              BY <2>1 DEF ChatInv, Answered
        <3> QED BY <1>3, <3>1
    <2>2. CASE m \in {q, a}
        <3>1. q \in chat' /\ a \in chat' /\ a.id > q.id
              BY <1>2, <1>3, <1>6
        <3> QED BY <1>2, <2>2, <3>1
    <2> QED BY <1>3, <2>1, <2>2
<1>15. InTurn'
    <2> SUFFICES ASSUME NEW d \in Nat, d \notin crossed
                 PROVE  /\ \A o, p \in Turns : Active(o)' /\ Active(p)' /\ turns'[o].conversation = d
                                                 /\ turns'[p].conversation = d => o = p
                        /\ \A o \in Turns : Asked(o)' /\ turns'[o].conversation = d
                                              => \A m \in ListMessages(d)' : m.id < turns'[o].question
                        /\ Adjacent(ListMessages(d)')
        BY <1>4 DEF InTurn
    <2>1. \A m : m \in ListMessages(d)' <=> m \in ListMessages(d) \/ (m \in {q, a} /\ c = d)
          BY <1>2, <1>3 DEF ListMessages
    <2>2. /\ \A o, p \in Turns : Active(o) /\ Active(p) /\ turns[o].conversation = d /\ turns[p].conversation = d => o = p
          /\ \A o \in Turns : Asked(o) /\ turns[o].conversation = d => \A m \in ListMessages(d) : m.id < turns[o].question
          /\ Adjacent(ListMessages(d))
          BY DEF ChatInv, InTurn
    <2>3. \A o, p \in Turns : Active(o)' /\ Active(p)' /\ turns'[o].conversation = d /\ turns'[p].conversation = d => o = p
          BY <1>11, <2>2
    <2>4. ASSUME NEW o \in Turns, Asked(o)', turns'[o].conversation = d
          PROVE  \A m \in ListMessages(d)' : m.id < turns'[o].question
        <3>1. o # t /\ Asked(o) /\ Active(o) /\ turns'[o] = turns[o]
              BY <1>11, <2>4 DEF Asked, Active
        <3>2. c # d
              BY <1>4, <2>2, <2>4, <3>1
        <3> QED BY <2>1, <2>2, <2>4, <3>1, <3>2
    <2>5. CASE c # d
        <3>1. ListMessages(d)' = ListMessages(d)
              BY <2>1, <2>5
        <3> QED BY <2>2, <2>3, <2>4, <3>1
    <2>6. CASE c = d
        <3> DEFINE L == ListMessages(d)
        <3>1. \A m \in L : m.id < q.id /\ m.id < a.id /\ m.id \in Nat /\ m.turn # n
            <4>1. \A m \in L : m \in chat /\ m.id \in Nat
                  BY DEF ListMessages, ChatInv, ShapesOK, MessageOK
            <4>2. \A m \in L : m.id < k
                  BY <1>4, <2>2, <2>6
            <4> QED BY <1>2, <1>6, <1>12, <4>1, <4>2
        <3>2. Adjacent(L)
              BY <2>2
        <3>3. q.id \in Nat /\ a.id \in Nat /\ q # a
              BY <1>2, <1>6, <1>8
        <3>4. \A m : m \in ListMessages(d)' <=> m \in L \/ m = q \/ m = a
              BY <2>1, <2>6
        <3> HIDE DEF L
        <3>5. \A m, p \in ListMessages(d)' : m.id = p.id => m = p
            <4> SUFFICES ASSUME NEW m, NEW p, m \in L \/ m = q \/ m = a, p \in L \/ p = q \/ p = a, m.id = p.id
                         PROVE  m = p
                BY <3>4
            <4>1. m \in L /\ p \in L => m = p
                  BY <3>2 DEF Adjacent
            <4>2. ~(m \in L /\ p \in {q, a}) /\ ~(m \in {q, a} /\ p \in L)
                  BY <3>1, <3>3
            <4>3. ~(m = q /\ p = a) /\ ~(m = a /\ p = q)
                  BY <1>8, <3>3
            <4> QED BY <4>1, <4>2, <4>3
        <3>6. ASSUME NEW p \in ListMessages(d)', NEW b \in ListMessages(d)', NEW m \in ListMessages(d)',
                     p.turn = b.turn, p.role = "USER", b.role = "ASSISTANT"
              PROVE  m.id <= p.id \/ b.id <= m.id
            <4>1. (p \in L /\ b \in L) \/ (p = q /\ b = a)
                  BY <1>2, <3>1, <3>4, <3>6
            <4>2. CASE p \in L /\ b \in L
                <5>1. m \in L => m.id <= p.id \/ b.id <= m.id
                      BY <3>2, <3>6, <4>2 DEF Adjacent
                <5>2. m \in {q, a} => b.id <= m.id
                      BY <3>1, <3>3, <4>2
                <5> QED BY <3>4, <5>1, <5>2
            <4>3. CASE p = q /\ b = a
                  BY <3>1, <3>3, <3>4, <4>3
            <4> QED BY <4>1, <4>2, <4>3
        <3>7. Adjacent(ListMessages(d)')
              BY <3>5, <3>6 DEF Adjacent
        <3> QED BY <2>3, <2>4, <3>7
    <2> QED BY <2>5, <2>6
<1>16. HistoriesWhole'
    <2>1. \A o \in Turns : turns'[o].conversation \notin crossed => Balanced(turns'[o].history)
          BY <1>5, <1>9 DEF ChatInv, HistoriesWhole, TurnGoes
    <2> QED BY <1>4, <2>1 DEF HistoriesWhole, Balanced, RoleOf
<1> QED BY <1>10, <1>13, <1>14, <1>15, <1>16 DEF ChatInv

LEMMA ChatInvariant == ChatSpec => []ChatInv
<1>1. ChatInit => ChatInv
      BY InitChat
<1>2. ChatInv /\ [ChatNext]_chatVars => ChatInv'
    <2> SUFFICES ASSUME ChatInv, [ChatNext]_chatVars PROVE ChatInv'
        OBVIOUS
    <2>1. CASE ChatNext
          BY <2>1, SendMessageKeeps, AddQuestionKeeps, RetrieveKeeps, ReplyKeeps, TurnFailsKeeps DEF ChatNext
    <2>2. CASE UNCHANGED chatVars
        <3>1. UNCHANGED <<conversations, chat, sequences, turns, begun, crossed>>
              BY <2>2 DEF chatVars
        <3>2. ShapesOK'
              BY <3>1 DEF ChatInv, ShapesOK, KeysOK
        <3>3. TurnsDiffer' /\ Answered'
              BY <3>1 DEF ChatInv, TurnsDiffer, Answered, Active
        <3>4. InTurn'
            <4>1. \A c : ListMessages(c)' = ListMessages(c)
                  BY <3>1 DEF ListMessages
            <4> QED BY <3>1, <4>1 DEF ChatInv, InTurn, Active, Asked
        <3>5. HistoriesWhole'
              BY <3>1 DEF ChatInv, HistoriesWhole, Balanced, RoleOf
        <3> QED BY <3>2, <3>3, <3>4, <3>5 DEF ChatInv
    <2> QED BY <2>1, <2>2
<1> QED BY <1>1, <1>2, PTL DEF ChatSpec

(* A conversation holds whole turns, each question with its later answer, and *)
(* what the model is shown of a conversation in which no two turns overlapped *)
(* is whole turns too (chat.py:90-110, 171-173), whatever the even length of  *)
(* the window: a question that fails leaves nothing behind.                   *)
THEOREM TurnsStayWhole == ChatSpec => []WholeTurns
<1>1. ChatInv => WholeTurns
      BY DEF ChatInv, Answered, HistoriesWhole, Balanced, WholeTurns
<1> QED BY <1>1, ChatInvariant, PTL
=============================================================================
