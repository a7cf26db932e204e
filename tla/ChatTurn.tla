------------------------------- MODULE ChatTurn -------------------------------
(***************************************************************************)
(* A chat turn, synchronous or streaming, from the client's request to the *)
(* stored answer with its citations, and the deletion of conversations.    *)
(* backend/api/routes/chat.py, agents/graph.py and agents/nodes,           *)
(* services/citation_service.py, services/conversation_service.py.         *)
(*                                                                         *)
(* A synchronous turn is one transaction.  A streaming turn commits the    *)
(* user's message with an empty answer first, then runs the agents, and    *)
(* then commits the answer, the conversation's time and the citations      *)
(* separately.  What a turn has flushed but not committed is in its turn   *)
(* record; the other variables are committed rows.                         *)
(***************************************************************************)
EXTENDS Naturals, FiniteSets

CONSTANTS Turns,          \* requests POST /chat and POST /chat/stream
          Conversations,  \* ids of conversations, chosen by clients or fresh
          Nobody,         \* no turn, no conversation
          CommitsFirst,   \* get_db ends before the response is sent (FastAPI < 0.118)
          Faults          \* which of the kinds below may happen

FaultKinds == {"exception", "caught", "database", "disconnect"}

ASSUME ChatConstants ==
  /\ Nobody \notin Turns /\ Nobody \notin Conversations
  /\ CommitsFirst \in BOOLEAN
  /\ Faults \subseteq FaultKinds

VARIABLES conversations,  \* rows of conversations
          messages,       \* the assistant message of each turn; the user's comes with it
          citations,      \* rows of message_citations of that message
          executions,     \* turns with a row in query_executions
          stamp,          \* the turn that wrote last_message_at
          turn            \* the requests

rows == <<conversations, messages, citations, executions, stamp>>
vars == <<conversations, messages, citations, executions, stamp, turn>>

-----------------------------------------------------------------------------
Intents == {"general", "clarification", "database", "document", "hybrid"}

\* classify_request, by the ids that the client sent: whatever the keywords and
\* the language model make of the message.
MayClassify(hasDb, hasDoc) ==
  {"general", "clarification"}
    \cup (IF hasDb THEN {"database"} ELSE {})
    \cup (IF hasDoc THEN {"document"} ELSE {})
    \cup (IF hasDb /\ hasDoc THEN {"hybrid"} ELSE {})

\* The status of an assistant message, or that there is none (models/message.py).
MessageStatuses == {"none", "pending", "processing", "completed", "failed", "cancelled"}

Agents == {"database", "document"}

AgentsOf(intent) ==
  CASE intent = "hybrid" -> Agents
    [] intent \in Agents -> {intent}
    [] OTHER -> {}

\* Contents of an answer: nothing, the model's words, the text of its exception
\* (streams only), the data that the agents found, that they found nothing, or a
\* fixed sentence.
Texts == {"empty", "model", "exception", "data", "nothingFound", "fixed"}

Turn == [phase: {"idle", "selected", "prepared", "working", "synthesized", "flushed",
                 "completed", "stamped", "cited", "done", "failed", "gone"},
         stream: BOOLEAN,
         conv: Conversations \cup {Nobody},
         creates: BOOLEAN,             \* it inserts the conversation
         intent: Intents,
         agents: SUBSET Agents,        \* those that have not finished
         rows: BOOLEAN,                \* the query returned rows
         sources: SUBSET Agents,       \* sources_used, by the agent that appended
         ran: BOOLEAN,                 \* its query_executions row is flushed only
         error: BOOLEAN,               \* error_message is set
         broken: BOOLEAN,              \* the session needs a rollback
         text: Texts,
         reported: BOOLEAN,            \* the answer starts with the error
         answered: BOOLEAN]            \* the client has the answer (the done event)

Ended(t) == turn[t].phase \in {"done", "failed", "gone"}

\* A transaction that inserted rows of a conversation, or of its messages, keeps
\* its row from being deleted.
Holds(t) ==
  \/ ~turn[t].stream /\ turn[t].phase \in {"prepared", "working", "synthesized", "flushed"}
  \/ turn[t].ran

\* The rows that a turn's uncommitted transaction has inserted for its conversation.
Inserting(t) == turn[t].creates /\ turn[t].phase # "selected"

\* Mutant of StampLocked: the UPDATE also waits for those who only refer to the row.
StampLockedByReaders(t) ==
  \E u \in Turns \ {t} : Holds(u) /\ turn[u].conv = turn[t].conv

\* The UPDATE of the conversation's row waits for another turn's uncommitted one.
StampLocked(t) ==
  \E u \in Turns \ {t} :
    turn[u].phase = "flushed" /\ turn[u].conv = turn[t].conv

\* The rows of the turn's own conversation and message that its session can see.
HasMessage(t) == ~turn[t].stream \/ messages[t] # "none"

FoundNothing(t) == ~turn[t].rows /\ "document" \notin turn[t].sources

-----------------------------------------------------------------------------
NewTurn == [phase |-> "idle", stream |-> FALSE, conv |-> Nobody, creates |-> FALSE,
            intent |-> "general", agents |-> {}, rows |-> FALSE, sources |-> {},
            ran |-> FALSE, error |-> FALSE, broken |-> FALSE, text |-> "empty",
            reported |-> FALSE, answered |-> FALSE]

\* Nothing of the turn is uncommitted, and of the state of its agents only the
\* sources matter from now on.
Over(t, phase, answered) ==
  [NewTurn EXCEPT !.phase = phase, !.stream = turn[t].stream, !.conv = turn[t].conv,
                  !.sources = turn[t].sources, !.answered = answered]

\* An exception leaves the endpoint or the generator; the session is rolled back.
Fails(t) ==
  /\ turn' = [turn EXCEPT ![t] = Over(t, "failed", turn[t].answered)]
  /\ UNCHANGED rows

Init ==
  /\ conversations = {}
  /\ messages = [t \in Turns |-> "none"]
  /\ citations = [t \in Turns |-> {}]
  /\ executions = {}
  /\ stamp = [c \in Conversations |-> Nobody]
  /\ turn = [t \in Turns |-> NewTurn]

\* _get_or_create_conversation looks the id up.
SelectConversation(t, c, stream) ==
  /\ turn[t].phase = "idle"
  /\ turn' = [turn EXCEPT ![t].phase = "selected", ![t].stream = stream,
                          ![t].conv = c, ![t].creates = c \notin conversations]
  /\ UNCHANGED rows

\* Mutant of Prepare: no foreign key, so the conversation may be gone.
PrepareUnchecked(t) ==
  LET c == turn[t].conv IN
  /\ turn[t].phase = "selected"
  /\ turn[t].creates => \A u \in Turns \ {t} : ~(Inserting(u) /\ turn[u].conv = c)
  /\ turn' = [turn EXCEPT ![t].phase = "prepared", ![t].creates = FALSE]
  /\ messages' = [messages EXCEPT ![t] = IF turn[t].stream THEN "processing" ELSE @]
  /\ conversations' = IF turn[t].creates THEN conversations \cup {c} ELSE conversations
  /\ UNCHANGED <<citations, executions, stamp>>

\* Mutant of Prepare: the INSERT does not wait for an uncommitted one with its key.
PrepareUnawaited(t) ==
  LET c == turn[t].conv IN
  /\ turn[t].phase = "selected"
  /\ IF turn[t].creates = (c \in conversations)
     THEN Fails(t)
     ELSE /\ turn' = [turn EXCEPT ![t].phase = "prepared",
                                  ![t].creates = @ /\ ~turn[t].stream]
          /\ IF turn[t].stream
             THEN /\ conversations' = conversations \cup {c}
                  /\ messages' = [messages EXCEPT ![t] = "processing"]
             ELSE UNCHANGED <<conversations, messages>>
          /\ UNCHANGED <<citations, executions, stamp>>

\* Mutant of Prepare: a synchronous turn commits its empty answer, too.
PrepareCommits(t) ==
  LET c == turn[t].conv IN
  /\ turn[t].phase = "selected"
  /\ IF turn[t].creates = (c \in conversations)
     THEN Fails(t)
     ELSE /\ turn' = [turn EXCEPT ![t].phase = "prepared", ![t].creates = FALSE]
          /\ conversations' = conversations \cup {c}
          /\ messages' = [messages EXCEPT ![t] = "processing"]
          /\ UNCHANGED <<citations, executions, stamp>>

\* The conversation, if new, and both messages are inserted.  The first INSERT
\* waits for an uncommitted row with its key and fails if there is a committed
\* one; the others fail if the conversation was deleted.  A stream commits.
Prepare(t) ==
  LET c == turn[t].conv IN
  /\ turn[t].phase = "selected"
  /\ turn[t].creates => \A u \in Turns \ {t} : ~(Inserting(u) /\ turn[u].conv = c)
  /\ IF turn[t].creates = (c \in conversations)
     THEN Fails(t)
     ELSE /\ turn' = [turn EXCEPT ![t].phase = "prepared",
                                  ![t].creates = @ /\ ~turn[t].stream]
          /\ IF turn[t].stream
             THEN /\ conversations' = conversations \cup {c}
                  /\ messages' = [messages EXCEPT ![t] = "processing"]
             ELSE UNCHANGED <<conversations, messages>>
          /\ UNCHANGED <<citations, executions, stamp>>

\* Mutant of Classify: the conversation's time is committed when the prompt arrives.
ClassifyStamps(t, intent) ==
  /\ turn[t].phase = "prepared"
  /\ IF turn[t].stream /\ (CommitsFirst \/ turn[t].conv \notin conversations)
     THEN Fails(t)
     ELSE /\ turn' = [turn EXCEPT ![t].phase = "working", ![t].intent = intent,
                                  ![t].agents = AgentsOf(intent)]
          /\ stamp' = IF turn[t].stream THEN [stamp EXCEPT ![turn[t].conv] = t] ELSE stamp
          /\ UNCHANGED <<conversations, messages, citations, executions>>

\* classifier_node and source_selector_node.  A stream reloads the conversation's
\* row first, which fails if it is gone or get_db has closed the session.
Classify(t, intent) ==
  /\ turn[t].phase = "prepared"
  /\ IF turn[t].stream /\ (CommitsFirst \/ turn[t].conv \notin conversations)
     THEN Fails(t)
     ELSE /\ turn' = [turn EXCEPT ![t].phase = "working", ![t].intent = intent,
                                  ![t].agents = AgentsOf(intent)]
          /\ UNCHANGED rows

-----------------------------------------------------------------------------
(* The agents; in hybrid mode both run, in threads with one session. *)

AgentEnds(t, a) == turn[t].phase = "working" /\ a \in turn[t].agents

\* Mutant of ExecuteQuery: a query without rows is not recorded.
ExecuteQueryUnrecorded(t, succeeds, some) ==
  /\ AgentEnds(t, "database")
  /\ ~turn[t].broken
  /\ IF HasMessage(t)
     THEN turn' = [turn EXCEPT
            ![t].agents = @ \ {"database"}, ![t].ran = succeeds /\ some,
            ![t].error = @ \/ ~succeeds, ![t].rows = succeeds /\ some,
            ![t].sources = @ \cup (IF succeeds THEN {"database"} ELSE {})]
     ELSE turn' = [turn EXCEPT ![t].agents = @ \ {"database"},
                               ![t].error = TRUE, ![t].broken = TRUE]
  /\ UNCHANGED rows

\* execute_plan runs the query, records it and, if it succeeded, the agent names
\* its source.  The record refers to the conversation and the message.
ExecuteQuery(t, succeeds, some) ==
  /\ AgentEnds(t, "database")
  /\ ~turn[t].broken
  /\ IF HasMessage(t)
     THEN turn' = [turn EXCEPT
            ![t].agents = @ \ {"database"}, ![t].ran = TRUE,
            ![t].error = @ \/ ~succeeds, ![t].rows = succeeds /\ some,
            ![t].sources = @ \cup (IF succeeds THEN {"database"} ELSE {})]
     ELSE turn' = [turn EXCEPT ![t].agents = @ \ {"database"},
                               ![t].error = TRUE, ![t].broken = TRUE]
  /\ UNCHANGED rows

\* retrieve_evidence returns something.
FindEvidence(t) ==
  /\ AgentEnds(t, "document")
  /\ ~turn[t].broken
  /\ turn' = [turn EXCEPT ![t].agents = @ \ {"document"},
                          ![t].sources = @ \cup {"document"}]
  /\ UNCHANGED rows

\* An agent ends with nothing: an empty schema, a refused plan, no evidence; or
\* an exception that it catches, as any use of a broken session is.
AgentStops(t, a, error) ==
  /\ AgentEnds(t, a)
  /\ turn[t].broken => error
  /\ turn' = [turn EXCEPT ![t].agents = @ \ {a}, ![t].error = @ \/ error]
  /\ UNCHANGED rows

\* A statement fails, or both threads use the session at once: the agent catches
\* the exception, but nothing rolls the session back.
SessionBreaks(t, a) ==
  /\ "database" \in Faults
  /\ AgentEnds(t, a)
  /\ turn' = [turn EXCEPT ![t].agents = @ \ {a}, ![t].error = TRUE, ![t].broken = TRUE]
  /\ UNCHANGED rows

-----------------------------------------------------------------------------
(* The answer *)

\* What comes of asking the language model for the answer: it is disabled, there is a
\* text, one that says it cannot, none, or an exception.
Replies == {"disabled", "text", "refusal", "silent", "raises"}

\* What final_answer is when final_response_node gets it.  The model is asked
\* unless it is disabled; hybrid_merger_node has set an answer if nothing was found.
Given(t, model) ==
  LET merged == IF turn[t].intent = "hybrid" /\ FoundNothing(t)
                THEN "nothingFound" ELSE "empty"
  IN IF AgentsOf(turn[t].intent) = {}
     THEN "empty"
     ELSE CASE model \in {"text", "refusal"} -> "model"
            [] model = "raises" /\ turn[t].stream -> "exception"
            [] model = "silent" /\ turn[t].stream -> "empty"
            [] OTHER -> merged

\* The text that final_response_node puts in place of an empty answer.
Fallback(t, error) ==
  IF AgentsOf(turn[t].intent) = {}
  THEN "fixed"
  ELSE CASE ~FoundNothing(t) -> "data"
         [] FoundNothing(t) /\ turn[t].intent # "document" /\ error -> "empty"
         [] OTHER -> "nothingFound"

\* Mutant of Synthesize: nothing takes the place of an empty answer.
SynthesizeOnly(t, model) ==
  /\ turn[t].phase = "working" /\ turn[t].agents = {}
  /\ turn' = [turn EXCEPT ![t].phase = "synthesized", ![t].text = Given(t, model)]
  /\ UNCHANGED rows

\* _synthesize_answer or the second half of stream_run, with final_response_node:
\* an answer in the model's or the merger's words stays, unless it is a refusal;
\* otherwise the error is put before it.
Synthesize(t, model) ==
  LET given == Given(t, model)
      asked == AgentsOf(turn[t].intent) # {}
      error == turn[t].error \/ (asked /\ model = "raises" /\ ~turn[t].stream)
      stays == given # "empty" /\ ~(asked /\ model = "refusal")
  IN
  /\ turn[t].phase = "working" /\ turn[t].agents = {}
  /\ turn' = [turn EXCEPT ![t].phase = "synthesized", ![t].error = error,
                          ![t].text = IF given = "empty" THEN Fallback(t, error) ELSE given,
                          ![t].reported = error /\ ~stays]
  /\ UNCHANGED rows

-----------------------------------------------------------------------------
(* The end of a synchronous turn *)

\* The answer, the conversation's time and the citations are flushed.
Flush(t) ==
  /\ turn[t].phase = "synthesized" /\ ~turn[t].stream
  /\ ~StampLocked(t)
  /\ IF turn[t].broken
     THEN Fails(t)
     ELSE /\ turn' = [turn EXCEPT ![t] = [Over(t, "flushed", FALSE) EXCEPT
                         !.creates = turn[t].creates, !.ran = turn[t].ran]]
          /\ UNCHANGED rows

\* The response is sent before get_db resumes.
Respond(t) ==
  /\ turn[t].phase = "flushed" /\ ~CommitsFirst /\ ~turn[t].answered
  /\ turn' = [turn EXCEPT ![t].answered = TRUE]
  /\ UNCHANGED rows

\* get_db commits the whole turn.
Commit(t) ==
  /\ turn[t].phase = "flushed" /\ (CommitsFirst \/ turn[t].answered)
  /\ conversations' = IF turn[t].creates THEN conversations \cup {turn[t].conv}
                                         ELSE conversations
  /\ messages' = [messages EXCEPT ![t] = "completed"]
  /\ citations' = [citations EXCEPT ![t] = turn[t].sources]
  /\ executions' = IF turn[t].ran THEN executions \cup {t} ELSE executions
  /\ stamp' = [stamp EXCEPT ![turn[t].conv] = t]
  /\ turn' = [turn EXCEPT ![t] = Over(t, "done", TRUE)]

-----------------------------------------------------------------------------
(* The end of a streaming turn *)

\* The answer is committed, with what the agents had flushed; the UPDATE of a
\* message that is gone raises, as a broken session does.
WriteAnswer(t) ==
  /\ turn[t].phase = "synthesized" /\ turn[t].stream
  /\ IF turn[t].broken \/ ~HasMessage(t)
     THEN Fails(t)
     ELSE /\ messages' = [messages EXCEPT ![t] = "completed"]
          /\ executions' = IF turn[t].ran THEN executions \cup {t} ELSE executions
          /\ turn' = [turn EXCEPT ![t] = Over(t, "completed", FALSE)]
          /\ UNCHANGED <<conversations, citations, stamp>>

\* The conversation's time is committed; its row may be gone.
StampConversation(t) ==
  /\ turn[t].phase = "completed"
  /\ ~StampLocked(t)
  /\ IF turn[t].conv \notin conversations
     THEN Fails(t)
     ELSE /\ stamp' = [stamp EXCEPT ![turn[t].conv] = t]
          /\ turn' = [turn EXCEPT ![t].phase = "stamped"]
          /\ UNCHANGED <<conversations, messages, citations, executions>>

\* Mutant of Cite: the last commit is missing.
CiteUncommitted(t) ==
  /\ turn[t].phase = "stamped"
  /\ turn' = [turn EXCEPT ![t].phase = "cited"]
  /\ UNCHANGED rows

\* The citations are committed; they refer to the message.
Cite(t) ==
  /\ turn[t].phase = "stamped"
  /\ IF turn[t].sources # {} /\ ~HasMessage(t)
     THEN Fails(t)
     ELSE /\ citations' = [citations EXCEPT ![t] = turn[t].sources]
          /\ turn' = [turn EXCEPT ![t].phase = "cited"]
          /\ UNCHANGED <<conversations, messages, executions, stamp>>

\* The done event.
SendDone(t) ==
  /\ turn[t].phase = "cited"
  /\ turn' = [turn EXCEPT ![t] = Over(t, "done", TRUE)]
  /\ UNCHANGED rows

-----------------------------------------------------------------------------
(* Faults, and the deletion of a conversation *)

\* Mutant of EndsEarly: the turn's message is removed.
EndsEarlyRemoves(t, phase) ==
  /\ messages' = [messages EXCEPT ![t] = "none"]
  /\ citations' = [citations EXCEPT ![t] = {}]
  /\ turn' = [turn EXCEPT ![t] = Over(t, phase, FALSE)]
  /\ UNCHANGED <<conversations, executions, stamp>>

\* The session's last commit, when a stream ends without an exception.
EndsEarly(t, phase) ==
  /\ executions' = IF turn[t].ran /\ ~turn[t].broken THEN executions \cup {t} ELSE executions
  /\ turn' = [turn EXCEPT ![t] = Over(t, phase, FALSE)]
  /\ UNCHANGED <<conversations, messages, citations, stamp>>

\* An exception, or a crash, anywhere.
TurnFails(t) ==
  /\ "exception" \in Faults
  /\ turn[t].phase # "idle" /\ ~Ended(t)
  /\ Fails(t)

\* An exception in stream_run that the route catches and only tells the client:
\* the message keeps the status that it has.
StreamRaises(t) ==
  /\ "caught" \in Faults
  /\ turn[t].stream /\ turn[t].phase = "working" /\ turn[t].agents = {}
  /\ EndsEarly(t, "failed")

\* The client goes away; the stream is abandoned at its next event: the intent,
\* a part of the answer, or the last one.
Disconnect(t) ==
  /\ "disconnect" \in Faults
  /\ turn[t].stream
  /\ \/ turn[t].phase = "working" /\ turn[t].agents \in {{}, AgentsOf(turn[t].intent)}
     \/ turn[t].phase = "cited"
  /\ EndsEarly(t, "gone")

\* create_conversation: POST /conversations, with an id nobody knows.
CreateConversation(c) ==
  /\ c \notin conversations
  /\ \A t \in Turns : turn[t].conv # c
  /\ conversations' = conversations \cup {c}
  /\ UNCHANGED <<messages, citations, executions, stamp, turn>>

\* delete_conversation; its messages and their citations go with it.
DeleteConversation(c) ==
  /\ c \in conversations
  /\ \A t \in Turns : turn[t].conv = c => ~Holds(t)
  /\ conversations' = conversations \ {c}
  /\ messages' = [t \in Turns |-> IF turn[t].conv = c THEN "none" ELSE messages[t]]
  /\ citations' = [t \in Turns |-> IF turn[t].conv = c THEN {} ELSE citations[t]]
  /\ stamp' = [stamp EXCEPT ![c] = Nobody]
  /\ UNCHANGED <<executions, turn>>

TurnStep(t) ==
  \/ Prepare(t)
  \/ \E hasDb, hasDoc \in BOOLEAN :
       \E intent \in MayClassify(hasDb, hasDoc) : Classify(t, intent)
  \/ \E succeeds, some \in BOOLEAN : ExecuteQuery(t, succeeds, some)
  \/ FindEvidence(t)
  \/ \E a \in Agents, error \in BOOLEAN : AgentStops(t, a, error)
  \/ \E model \in Replies : Synthesize(t, model)
  \/ Flush(t) \/ Respond(t) \/ Commit(t)
  \/ WriteAnswer(t) \/ StampConversation(t) \/ Cite(t) \/ SendDone(t)

Next ==
  \/ \E t \in Turns, c \in Conversations, stream \in BOOLEAN :
       SelectConversation(t, c, stream)
  \/ \E t \in Turns : TurnStep(t)
  \/ \E t \in Turns, a \in Agents : SessionBreaks(t, a)
  \/ \E t \in Turns : TurnFails(t) \/ StreamRaises(t) \/ Disconnect(t)
  \/ \E c \in Conversations : CreateConversation(c) \/ DeleteConversation(c)

Spec == Init /\ [][Next]_vars

\* A request that is being served goes on, unless it waits for another one's row.
FairSpec == Spec /\ \A t \in Turns : WF_vars(TurnStep(t))

-----------------------------------------------------------------------------
(* Properties *)

\* Every variable has its type; a request that has begun has a conversation.
TypeOK ==
  /\ conversations \subseteq Conversations
  /\ messages \in [Turns -> MessageStatuses]
  /\ citations \in [Turns -> SUBSET Agents]
  /\ executions \subseteq Turns
  /\ stamp \in [Conversations -> Turns \cup {Nobody}]
  /\ turn \in [Turns -> Turn]
  /\ \A t \in Turns : turn[t].phase # "idle" => turn[t].conv # Nobody

\* What a client was told with the done event is in the database, whatever else
\* happened: the answer with all its citations, or nothing of a deleted conversation.
DoneIsDurable ==
  \A t \in Turns : turn[t].stream /\ turn[t].answered =>
    \/ messages[t] = "completed" /\ citations[t] = turn[t].sources
    \/ messages[t] = "none" /\ citations[t] = {}

\* A synchronous turn is seen completely or not at all; a stream's citations never
\* appear without its answer, nor in part.
TurnsAreWhole ==
  \A t \in Turns :
    /\ citations[t] # {} => messages[t] = "completed" /\ citations[t] = turn[t].sources
    /\ ~turn[t].stream => messages[t] # "processing"
    /\ ~turn[t].stream /\ messages[t] = "completed" => citations[t] = turn[t].sources

\* An answer that rests on a query has the record of that query, and a turn that
\* was rolled back leaves none: the answer and the record are in one transaction,
\* though two services write them and a stream commits several times.
QueriesAreTraced ==
  \A t \in Turns :
    /\ messages[t] = "completed" /\ "database" \in turn[t].sources => t \in executions
    /\ t \in executions => turn[t].phase \notin {"idle", "selected", "prepared"}

\* A message is in a conversation that exists, however turns with one new id,
\* their failures and deletions interleave.
MessagesHaveConversation ==
  \A t \in Turns : messages[t] # "none" => turn[t].conv \in conversations

\* The time of a conversation was written by a turn of it that had completed its message.
StampsAreEarned ==
  \A c \in Conversations : stamp[c] # Nobody =>
    /\ c \in conversations
    /\ turn[stamp[c]].conv = c
    /\ turn[stamp[c]].phase \in {"stamped", "cited", "done", "failed", "gone"}

\* Data that the agents found reaches the user, in the model's words or raw, except
\* in a stream whose model fails; nobody is told that nothing was found when
\* something was; and no answer is empty without an error before it.
AnswersAreGrounded ==
  \A t \in Turns : turn[t].phase = "synthesized" =>
    /\ ~FoundNothing(t) => turn[t].text \in {"model", "data"}
                             \cup (IF turn[t].stream THEN {"exception"} ELSE {})
    /\ turn[t].text = "empty" => turn[t].reported

\* A committed answer stays, with its citations, until its conversation is deleted.
AnswersStay ==
  [][\A t \in Turns : messages[t] = "completed" =>
       \/ messages'[t] = "completed" /\ citations[t] \subseteq citations'[t]
       \/ turn[t].conv \in conversations \ conversations']_vars

\* What makes these inductive, turn by turn.  Before its first commit a turn has no
\* rows, which for a synchronous one is until it is done.
NothingCommitted(t) == messages[t] = "none" /\ citations[t] = {} /\ t \notin executions

Unstarted(t) ==
  /\ turn[t].phase = "idle" => turn[t].conv = Nobody
  /\ turn[t].phase \in {"idle", "selected"} =>
       /\ NothingCommitted(t)
       /\ turn[t].sources = {} /\ ~turn[t].rows /\ ~turn[t].ran /\ ~turn[t].answered

SyncIsAtomic(t) ==
  ~turn[t].stream =>
    /\ turn[t].phase \notin {"completed", "stamped", "cited", "gone"}
    /\ turn[t].phase # "done" => NothingCommitted(t)
    /\ messages[t] # "processing"
    /\ citations[t] = IF messages[t] = "completed" THEN turn[t].sources ELSE {}

\* How far the commits of a stream have come, unless its conversation was deleted.
StreamCommits(t) ==
  turn[t].stream =>
    /\ turn[t].phase # "flushed"
    /\ turn[t].answered => turn[t].phase = "done"
    /\ turn[t].phase \in {"prepared", "working", "synthesized"} =>
         /\ messages[t] \in {"none", "processing"}
         /\ citations[t] = {} /\ t \notin executions
    /\ turn[t].phase \in {"completed", "stamped"} =>
         messages[t] \in {"none", "completed"} /\ citations[t] = {}
    /\ turn[t].phase \in {"cited", "done"} =>
         /\ messages[t] \in {"none", "completed"}
         /\ messages[t] = "completed" => citations[t] = turn[t].sources
    /\ citations[t] # {} => messages[t] = "completed" /\ citations[t] = turn[t].sources

\* An open transaction with the query's source has the query's record; one that
\* only refers to its conversation keeps it; and ran ends with the transaction.
OpenTransaction(t) ==
  /\ turn[t].phase \in {"working", "synthesized", "flushed"} =>
       ("database" \in turn[t].sources => turn[t].ran)
  /\ turn[t].phase = "prepared" => turn[t].sources = {} /\ ~turn[t].rows /\ ~turn[t].ran
  /\ ~turn[t].stream /\ Holds(t) /\ ~turn[t].creates => turn[t].conv \in conversations
  /\ turn[t].ran => turn[t].phase \in {"working", "synthesized", "flushed"}
  /\ turn[t].creates =>
       \/ turn[t].phase = "selected"
       \/ ~turn[t].stream /\ turn[t].phase \in {"prepared", "working", "synthesized", "flushed"}

\* Only the agents of the turn's intent work, and find something.
AgentsKeepIntent(t) ==
  turn[t].phase = "working" =>
    /\ turn[t].agents \subseteq AgentsOf(turn[t].intent)
    /\ turn[t].rows => "database" \in AgentsOf(turn[t].intent)
    /\ "document" \in turn[t].sources => "document" \in AgentsOf(turn[t].intent)

\* The primary key: an uncommitted conversation is in nobody else's hands.
OneInserts ==
  \A t \in Turns : Inserting(t) =>
    /\ turn[t].conv \notin conversations
    /\ \A u \in Turns : Inserting(u) /\ turn[u].conv = turn[t].conv => u = t

IInv ==
  /\ TypeOK
  /\ \A t \in Turns :
       /\ Unstarted(t) /\ SyncIsAtomic(t) /\ StreamCommits(t)
       /\ OpenTransaction(t) /\ AgentsKeepIntent(t)
  /\ OneInserts
  /\ QueriesAreTraced
  /\ MessagesHaveConversation
  /\ StampsAreEarned
  /\ AnswersAreGrounded

\* The refinement mapping: how much of a turn is stored.  A synchronous turn is new
\* until its commit, which stores everything.
Stage(t) ==
  CASE turn[t].phase \in {"prepared", "working", "synthesized"} /\ turn[t].stream -> "asked"
    [] turn[t].phase = "completed" -> "answered"
    [] turn[t].phase = "stamped" -> "dated"
    [] turn[t].phase = "cited" -> "cited"
    [] turn[t].phase = "done" -> "told"
    [] turn[t].phase \in {"failed", "gone"} -> "given up"
    [] OTHER -> "new"

RestsOn(t) ==
  IF Stage(t) \in {"answered", "dated", "cited", "told"} THEN turn[t].sources ELSE {}

Homes == [t \in Turns |-> turn[t].conv]
Beginning == {t \in Turns : turn[t].creates}
StageOf == [t \in Turns |-> Stage(t)]
SourcesOf == [t \in Turns |-> RestsOn(t)]

Ledger == INSTANCE ConversationLedger WITH
  Sources <- Agents, Recorded <- {"database"},
  home <- Homes, begins <- Beginning, stage <- StageOf, sources <- SourcesOf

\* What is stored of a turn is stored in the order and the pieces that the ledger
\* promises, and what is deleted never comes back, whatever streams, rollbacks,
\* disconnects and deletions do to each other (api/routes/chat.py:189, :254).
ImplementsLedger == Ledger!Spec

\* Every turn ends, though it may wait for the conversation's row.
TurnsEnd == \A t \in Turns : turn[t].phase = "selected" ~> Ended(t)

\* An answer is stored with "completed or failed status" (plan/16:28), and a stream
\* whose client disconnects must "persist a cancelled/failed state" (plan/18:28); so
\* no turn that has ended, by an exception or a disconnect, leaves its message in
\* processing.
EndedTurnsAreFinal == \A t \in Turns : Ended(t) => messages[t] # "processing"
=============================================================================
