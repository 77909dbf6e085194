-------------------------------- MODULE Chat --------------------------------
(***************************************************************************)
(* The AI study coach: a turn of POST /chat (services/chat.py,             *)
(* repositories/conversation_repository.py, services/retrieval.py,         *)
(* services/academic_context.py) from the ownership check to the reply,    *)
(* in one database transaction, with other turns in between.               *)
(*                                                                         *)
(* Message texts, the prompt and the academic context are left out; a      *)
(* chunk stands for the excerpt it holds, a history is a set (its order is  *)
(* that of the ids).  A message's turn is a ghost.                         *)
(***************************************************************************)
EXTENDS Naturals, FiniteSets

CONSTANTS
  Students,      \* users who chat
  Turns,         \* request threads
  Completions,   \* what the model may answer: [grounded, personal, cited]
  OwnChunks,     \* [Students -> set of chunks]: what retrieval finds for each
  MaxHistory,    \* MAX_HISTORY_MESSAGES
  MaxTurns       \* bound on the turns

ASSUME HistoryIsEven == MaxHistory \in Nat /\ MaxHistory % 2 = 0

VARIABLES
  conversations,  \* [id, owner]: committed rows
  chat,           \* committed messages: [id, conversation, role, turn, mode, cited]
  sequences,      \* last keys handed out: [conversation, message]
  turns,          \* what each thread is doing
  begun,          \* turns begun
  crossed         \* ghost: conversations in which two turns overlapped

chatVars == <<conversations, chat, sequences, turns, begun, crossed>>

NoTurn == [step |-> "idle", turn |-> 0, user |-> "nobody", conversation |-> 0,
           question |-> 0, history |-> {}, chunks |-> {}]

ChatInit ==
  /\ conversations = {} /\ chat = {}
  /\ sequences = [conversation |-> 0, message |-> 0]
  /\ turns = [t \in Turns |-> NoTurn]
  /\ begun = 0
  /\ crossed = {}

-----------------------------------------------------------------------------
Owned(c, u) == [id |-> c, owner |-> u] \in conversations

\* _get_or_create_conversation: an id that is not the user's is refused, no id
\* inserts a conversation that the commit will show.
SendMessage(t) ==
  /\ turns[t].step = "idle"
  /\ begun < MaxTurns
  /\ begun' = begun + 1
  /\ \E u \in Students, given \in {0} \cup {c.id : c \in conversations} :
       LET c == IF given = 0 THEN sequences.conversation + 1 ELSE given
       IN  IF given # 0 /\ ~Owned(given, u)
           THEN UNCHANGED <<sequences, turns, crossed>>        \* 404
           ELSE /\ turns' = [turns EXCEPT ![t] = [NoTurn EXCEPT
                     !.step = "question", !.turn = begun', !.user = u, !.conversation = c]]
                /\ sequences' = [sequences EXCEPT !.conversation = IF given = 0 THEN c ELSE @]
                /\ crossed' = IF \E o \in Turns : turns[o].conversation = c
                              THEN crossed \cup {c} ELSE crossed
  /\ UNCHANGED <<conversations, chat>>

ListMessages(c) == {m \in chat : m.conversation = c}

\* The last MaxHistory by id: fewer than that many messages follow.
LastOf(messages) ==
  {m \in messages : Cardinality({n \in messages : n.id > m.id}) < MaxHistory}

\* The history is read, then the question is flushed: it has its key, and no
\* one else sees it.
AddQuestion(t) ==
  /\ turns[t].step = "question"
  /\ turns' = [turns EXCEPT ![t].step = "retrieve",
                            ![t].question = sequences.message + 1,
                            ![t].history = LastOf(ListMessages(turns[t].conversation))]
  /\ sequences' = [sequences EXCEPT !.message = @ + 1]
  /\ UNCHANGED <<conversations, chat, begun, crossed>>

\* Without an embedding provider the turn goes on with no chunk.
Retrieve(t) ==
  /\ turns[t].step = "retrieve"
  /\ \E found \in {{}, OwnChunks[turns[t].user]} :
       turns' = [turns EXCEPT ![t].step = "generate", ![t].chunks = found]
  /\ UNCHANGED <<conversations, chat, sequences, begun, crossed>>

\* _validate_and_filter: citations of chunks that were not given are dropped;
\* when none is left of several the answer is the honest one.
ValidateAndFilter(completion, chunks) ==
  IF completion.cited # {} /\ completion.cited \cap chunks = {}
  THEN [grounded |-> FALSE, personal |-> TRUE, cited |-> {}]
  ELSE [completion EXCEPT !.cited = @ \cap chunks]

AnswerMode(completion) ==
  CASE completion.grounded -> "GROUNDED"
    [] ~completion.grounded /\ completion.personal -> "MISSING_PERSONAL_CONTEXT"
    [] OTHER -> "GENERAL"

\* The rows a turn commits
Question(t) ==
  [id |-> turns[t].question, conversation |-> turns[t].conversation, role |-> "USER",
   turn |-> turns[t].turn, mode |-> "none", cited |-> {}]

Answer(t, completion) ==
  [id |-> sequences.message + 1, conversation |-> turns[t].conversation, role |-> "ASSISTANT",
   turn |-> turns[t].turn, mode |-> AnswerMode(completion), cited |-> completion.cited]

\* The model's answer, the assistant's message and the commit of the turn
Reply(t) ==
  /\ turns[t].step = "generate"
  /\ \E c \in Completions :
       chat' = chat \cup {Question(t), Answer(t, ValidateAndFilter(c, turns[t].chunks))}
  /\ sequences' = [sequences EXCEPT !.message = @ + 1]
  /\ conversations' = conversations \cup {[id |-> turns[t].conversation, owner |-> turns[t].user]}
  /\ turns' = [turns EXCEPT ![t] = NoTurn]
  /\ UNCHANGED <<begun, crossed>>

\* mutant: a failed turn has committed its question already
TurnFailsCommitted(t) ==
  /\ turns[t].step \in {"question", "retrieve", "generate"}
  /\ chat' = IF turns[t].step = "generate" THEN chat \cup {Question(t)} ELSE chat
  /\ turns' = [turns EXCEPT ![t] = NoTurn]
  /\ UNCHANGED <<conversations, sequences, begun, crossed>>

\* No provider, a provider's error (503), a database error or a dead server:
\* the transaction is rolled back, keys stay used.
TurnFails(t) ==
  /\ turns[t].step \in {"question", "retrieve", "generate"}
  /\ turns' = [turns EXCEPT ![t] = NoTurn]
  /\ UNCHANGED <<conversations, chat, sequences, begun, crossed>>

ChatNext ==
  \E t \in Turns : SendMessage(t) \/ AddQuestion(t) \/ Retrieve(t) \/ Reply(t) \/ TurnFails(t)

ChatSpec == ChatInit /\ [][ChatNext]_chatVars

-----------------------------------------------------------------------------
RoleOf(messages, role) == {m \in messages : m.role = role}

(* A conversation holds whole turns: each question with its answer, the     *)
(* answer later, or neither.  And the window of the last messages that the  *)
(* model is shown (chat.py:171-173) is made of whole turns, unless two      *)
(* turns of the conversation overlapped: a window cut between question and  *)
(* answer would show the model an answer to nothing.                        *)
WholeTurns ==
  /\ \A m \in chat : \E q, a \in chat :
       /\ q.turn = m.turn /\ q.role = "USER"
       /\ a.turn = m.turn /\ a.role = "ASSISTANT" /\ a.id > q.id
       /\ q.conversation = m.conversation /\ a.conversation = m.conversation
  /\ \A t \in Turns : turns[t].conversation \notin crossed =>
       LET shown == turns[t].history
       IN  {q.turn : q \in RoleOf(shown, "USER")} = {a.turn : a \in RoleOf(shown, "ASSISTANT")}
=============================================================================
