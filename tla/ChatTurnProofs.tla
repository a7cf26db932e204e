---------------------------- MODULE ChatTurnProofs ----------------------------
(***************************************************************************)
(* Theorems about ChatTurn, for any turns, conversations and faults, and   *)
(* for both ways in which get_db may end.                                  *)
(***************************************************************************)
EXTENDS ChatTurn, TLAPS

-----------------------------------------------------------------------------
(* Types, and what a turn's step leaves alone *)

\* A step of turn t touches no row and no state of the others, and deletes nothing.
OnlyOf(t) ==
  /\ \A u \in Turns \ {t} :
       /\ turn'[u] = turn[u] /\ messages'[u] = messages[u]
       /\ citations'[u] = citations[u] /\ (u \in executions' <=> u \in executions)
  /\ conversations \subseteq conversations'

\* What a turn's state is after its commits or its failure is a turn's state.
LEMMA OverType ==
  ASSUME TypeOK, NEW t \in Turns, turn[t].phase # "idle", NEW answered \in BOOLEAN,
         NEW phase \in {"done", "failed", "gone", "flushed", "completed"}
  PROVE  Over(t, phase, answered) \in Turn /\ Over(t, phase, answered).conv # Nobody
<1>1. turn[t] \in Turn /\ turn[t].conv # Nobody
  BY DEF TypeOK
<1>2. NewTurn \in Turn
  BY DEF NewTurn, Turn, Intents, Agents, Texts
<1>3. QED
  BY <1>1, <1>2 DEF Over, Turn

\* The initial state is well typed.
LEMMA InitType == Init => TypeOK
<1> SUFFICES ASSUME Init PROVE TypeOK
  OBVIOUS
<1>1. NewTurn \in Turn /\ NewTurn.phase = "idle"
  BY DEF NewTurn, Turn, Intents, Agents, Texts
<1>2. QED
  BY <1>1 DEF Init, TypeOK, MessageStatuses

\* A turn whose state is replaced by a well-typed one.
LEMMA Replaced ==
  ASSUME TypeOK, NEW t \in Turns, NEW r \in Turn, r.conv # Nobody,
         turn' = [turn EXCEPT ![t] = r]
  PROVE  /\ turn' \in [Turns -> Turn]
         /\ \A u \in Turns : turn'[u].phase # "idle" => turn'[u].conv # Nobody
         /\ turn'[t] = r
         /\ \A u \in Turns \ {t} : turn'[u] = turn[u]
BY DEF TypeOK

\* The same with no row changed.
LEMMA OnlyTurn ==
  ASSUME TypeOK, NEW t \in Turns, NEW r \in Turn, r.conv # Nobody,
         turn' = [turn EXCEPT ![t] = r], UNCHANGED rows
  PROVE  TypeOK' /\ OnlyOf(t) /\ turn'[t] = r
BY Replaced DEF TypeOK, OnlyOf, rows

\* A request that fails changes only itself.
LEMMA FailsType ==
  ASSUME TypeOK, NEW t \in Turns, turn[t].phase # "idle", Fails(t)
  PROVE  TypeOK' /\ OnlyOf(t) /\ turn'[t] = Over(t, "failed", turn[t].answered)
<1>1. turn[t].answered \in BOOLEAN
  BY DEF TypeOK, Turn
<1>2. /\ Over(t, "failed", turn[t].answered) \in Turn
      /\ Over(t, "failed", turn[t].answered).conv # Nobody
  BY <1>1, OverType
<1>3. QED
  BY <1>2, OnlyTurn DEF Fails

\* One lemma for each action.  SelectConversation keeps the types, and is only of its turn.
LEMMA SelectType ==
  ASSUME TypeOK, NEW t \in Turns, NEW c \in Conversations, NEW stream \in BOOLEAN,
         SelectConversation(t, c, stream)
  PROVE  TypeOK' /\ OnlyOf(t)
<1> DEFINE r == [turn[t] EXCEPT !.phase = "selected", !.stream = stream, !.conv = c,
                                !.creates = c \notin conversations]
<1>1. turn[t] \in Turn /\ turn \in [Turns -> Turn]
  BY DEF TypeOK
<1>2. r \in Turn /\ r.conv # Nobody
  BY <1>1, ChatConstants DEF Turn
<1>3. turn' = [turn EXCEPT ![t] = r]
  BY <1>1 DEF SelectConversation
<1>4. QED
  BY <1>2, <1>3, OnlyTurn DEF SelectConversation

\* Prepare keeps the types, and is only of its turn.
LEMMA PrepareType ==
  ASSUME TypeOK, NEW t \in Turns, Prepare(t)
  PROVE  TypeOK' /\ OnlyOf(t)
<1>1. CASE Fails(t)
  BY <1>1, FailsType DEF Prepare
<1>2. CASE ~Fails(t)
  <2> DEFINE r == [turn[t] EXCEPT !.phase = "prepared",
                                  !.creates = @ /\ ~turn[t].stream]
  <2>1. turn[t] \in Turn /\ turn \in [Turns -> Turn] /\ turn[t].conv # Nobody
    BY DEF TypeOK, Prepare
  <2>2. r \in Turn /\ r.conv # Nobody
    BY <2>1 DEF Turn
  <2>3. turn' = [turn EXCEPT ![t] = r]
    BY <2>1, <1>2 DEF Prepare
  <2>4. turn[t].conv \in Conversations
    BY <2>1 DEF Turn
  <2>5. QED
    BY <1>2, <2>2, <2>3, <2>4, Replaced DEF Prepare, TypeOK, MessageStatuses, OnlyOf, rows
<1>3. QED
  BY <1>1, <1>2

\* Classify keeps the types, and is only of its turn.
LEMMA ClassifyType ==
  ASSUME TypeOK, NEW t \in Turns, NEW intent \in Intents, Classify(t, intent)
  PROVE  TypeOK' /\ OnlyOf(t)
<1>1. CASE Fails(t)
  BY <1>1, FailsType DEF Classify
<1>2. CASE ~Fails(t)
  <2> DEFINE r == [turn[t] EXCEPT !.phase = "working", !.intent = intent,
                                  !.agents = AgentsOf(intent)]
  <2>1. turn[t] \in Turn /\ turn \in [Turns -> Turn] /\ turn[t].conv # Nobody
    BY DEF TypeOK, Classify
  <2>2. r \in Turn /\ r.conv # Nobody
    BY <2>1 DEF Turn, AgentsOf
  <2>3. turn' = [turn EXCEPT ![t] = r] /\ UNCHANGED rows
    BY <2>1, <1>2 DEF Classify
  <2>4. QED
    BY <2>2, <2>3, OnlyTurn
<1>3. QED
  BY <1>1, <1>2

\* ExecuteQuery keeps the types, and is only of its turn.
LEMMA ExecuteType ==
  ASSUME TypeOK, NEW t \in Turns, NEW succeeds \in BOOLEAN, NEW some \in BOOLEAN,
         ExecuteQuery(t, succeeds, some)
  PROVE  TypeOK' /\ OnlyOf(t)
<1> DEFINE r == [turn[t] EXCEPT !.agents = @ \ {"database"}, !.ran = TRUE,
                   !.error = @ \/ ~succeeds, !.rows = succeeds /\ some,
                   !.sources = @ \cup (IF succeeds THEN {"database"} ELSE {})]
           q == [turn[t] EXCEPT !.agents = @ \ {"database"}, !.error = TRUE,
                                !.broken = TRUE]
<1>1. turn[t] \in Turn /\ turn \in [Turns -> Turn] /\ turn[t].conv # Nobody
  BY DEF TypeOK, ExecuteQuery, AgentEnds
<1>2. r \in Turn /\ r.conv # Nobody /\ q \in Turn /\ q.conv # Nobody
  <2>1. r.conv # Nobody /\ q.conv # Nobody
    BY <1>1 DEF Turn
  <2>2. /\ turn[t].sources \cup (IF succeeds THEN {"database"} ELSE {}) \in SUBSET Agents
        /\ turn[t].agents \ {"database"} \in SUBSET Agents
    BY <1>1 DEF Turn, Agents
  <2>3. r \in Turn
    <3> DEFINE agents == turn[t].agents \ {"database"}
               sources == turn[t].sources \cup (IF succeeds THEN {"database"} ELSE {})
               error == turn[t].error \/ ~succeeds
               some_ == succeeds /\ some
    <3>1. agents \in SUBSET Agents /\ sources \in SUBSET Agents
      BY <2>2
    <3>2. error \in BOOLEAN /\ some_ \in BOOLEAN
      OBVIOUS
    <3> HIDE DEF agents, sources, error, some_
    <3>3. [turn[t] EXCEPT !.agents = agents, !.ran = TRUE, !.error = error,
                          !.rows = some_, !.sources = sources] \in Turn
      BY <1>1, <3>1, <3>2 DEF Turn
    <3>4. QED
      BY <3>3 DEF agents, sources, error, some_
  <2>4. q \in Turn
    BY <1>1 DEF Turn
  <2>5. QED
    BY <2>1, <2>3, <2>4
<1>3. CASE HasMessage(t)
  <2>1. turn' = [turn EXCEPT ![t] = r] /\ UNCHANGED rows
    BY <1>1, <1>3 DEF ExecuteQuery
  <2>2. QED
    BY <1>2, <2>1, OnlyTurn
<1>4. CASE ~HasMessage(t)
  <2>1. turn' = [turn EXCEPT ![t] = q] /\ UNCHANGED rows
    BY <1>1, <1>4 DEF ExecuteQuery
  <2>2. QED
    BY <1>2, <2>1, OnlyTurn
<1>5. QED
  BY <1>3, <1>4

\* FindEvidence keeps the types, and is only of its turn.
LEMMA EvidenceType ==
  ASSUME TypeOK, NEW t \in Turns,
         FindEvidence(t)
  PROVE  TypeOK' /\ OnlyOf(t)
<1> DEFINE r == [turn[t] EXCEPT !.agents = @ \ {"document"},
                                !.sources = @ \cup {"document"}]
<1>1. turn[t] \in Turn /\ turn \in [Turns -> Turn] /\ turn[t].conv # Nobody
  BY DEF TypeOK, FindEvidence, AgentEnds
<1>2. r \in Turn /\ r.conv # Nobody
  BY <1>1 DEF Turn, Agents
<1>3. turn' = [turn EXCEPT ![t] = r] /\ UNCHANGED rows
  BY <1>1 DEF FindEvidence, AgentEnds
<1>4. QED
  BY <1>2, <1>3, OnlyTurn

\* AgentStops keeps the types, and is only of its turn.
LEMMA AgentStopsType ==
  ASSUME TypeOK, NEW t \in Turns, NEW a \in Agents, NEW error \in BOOLEAN,
         AgentStops(t, a, error)
  PROVE  TypeOK' /\ OnlyOf(t)
<1> DEFINE r == [turn[t] EXCEPT !.agents = @ \ {a}, !.error = @ \/ error]
<1>1. turn[t] \in Turn /\ turn \in [Turns -> Turn] /\ turn[t].conv # Nobody
  BY DEF TypeOK, AgentStops, AgentEnds
<1>2. r \in Turn /\ r.conv # Nobody
  BY <1>1 DEF Turn
<1>3. turn' = [turn EXCEPT ![t] = r] /\ UNCHANGED rows
  BY <1>1 DEF AgentStops, AgentEnds
<1>4. QED
  BY <1>2, <1>3, OnlyTurn

\* SessionBreaks keeps the types, and is only of its turn.
LEMMA BreaksType ==
  ASSUME TypeOK, NEW t \in Turns, NEW a \in Agents,
         SessionBreaks(t, a)
  PROVE  TypeOK' /\ OnlyOf(t)
<1> DEFINE r == [turn[t] EXCEPT !.agents = @ \ {a}, !.error = TRUE, !.broken = TRUE]
<1>1. turn[t] \in Turn /\ turn \in [Turns -> Turn] /\ turn[t].conv # Nobody
  BY DEF TypeOK, SessionBreaks, AgentEnds
<1>2. r \in Turn /\ r.conv # Nobody
  BY <1>1 DEF Turn
<1>3. turn' = [turn EXCEPT ![t] = r] /\ UNCHANGED rows
  BY <1>1 DEF SessionBreaks, AgentEnds
<1>4. QED
  BY <1>2, <1>3, OnlyTurn

\* Synthesize keeps the types, and is only of its turn.
LEMMA SynthesizeType ==
  ASSUME TypeOK, NEW t \in Turns, NEW model, Synthesize(t, model)
  PROVE  TypeOK' /\ OnlyOf(t)
<1> DEFINE given == Given(t, model)
           asked == AgentsOf(turn[t].intent) # {}
           error == turn[t].error \/ (asked /\ model = "raises" /\ ~turn[t].stream)
           text == IF given = "empty" THEN Fallback(t, error) ELSE given
           reported == error /\ ~(given # "empty" /\ ~(asked /\ model = "refusal"))
           r == [turn[t] EXCEPT !.phase = "synthesized", !.error = error,
                                !.text = text, !.reported = reported]
<1>1. turn[t] \in Turn /\ turn \in [Turns -> Turn] /\ turn[t].conv # Nobody
  BY DEF TypeOK, Synthesize
<1>2. given \in Texts /\ Fallback(t, error) \in Texts
  BY DEF Given, Fallback, Texts
<1>3. error \in BOOLEAN /\ text \in Texts /\ reported \in BOOLEAN
  BY <1>1, <1>2 DEF Turn
<1> HIDE DEF error, text, reported
<1>4. r \in Turn /\ r.conv # Nobody
  BY <1>1, <1>3 DEF Turn
<1>5. turn' = [turn EXCEPT ![t] = r] /\ UNCHANGED rows
  BY <1>1 DEF Synthesize, error, text, reported
<1>6. QED
  BY <1>4, <1>5, OnlyTurn

\* Flush keeps the types, and is only of its turn.
LEMMA FlushType ==
  ASSUME TypeOK, NEW t \in Turns, Flush(t)
  PROVE  TypeOK' /\ OnlyOf(t)
<1>1. CASE Fails(t)
  BY <1>1, FailsType DEF Flush
<1>2. CASE ~Fails(t)
  <2> DEFINE r == [Over(t, "flushed", FALSE) EXCEPT
                     !.creates = turn[t].creates, !.ran = turn[t].ran]
  <2>1. turn[t] \in Turn /\ turn[t].phase # "idle"
    BY DEF TypeOK, Flush
  <2>2. Over(t, "flushed", FALSE) \in Turn /\ Over(t, "flushed", FALSE).conv # Nobody
    BY <2>1, OverType
  <2>3. r \in Turn /\ r.conv # Nobody
    BY <2>1, <2>2 DEF Turn
  <2>4. turn' = [turn EXCEPT ![t] = r] /\ UNCHANGED rows
    BY <1>2 DEF Flush
  <2>5. QED
    BY <2>3, <2>4, OnlyTurn
<1>3. QED
  BY <1>1, <1>2

\* Respond keeps the types, and is only of its turn.
LEMMA RespondType ==
  ASSUME TypeOK, NEW t \in Turns,
         Respond(t)
  PROVE  TypeOK' /\ OnlyOf(t)
<1> DEFINE r == [turn[t] EXCEPT !.answered = TRUE]
<1>1. turn[t] \in Turn /\ turn \in [Turns -> Turn] /\ turn[t].conv # Nobody
  BY DEF TypeOK, Respond
<1>2. r \in Turn /\ r.conv # Nobody
  BY <1>1 DEF Turn
<1>3. turn' = [turn EXCEPT ![t] = r] /\ UNCHANGED rows
  BY <1>1 DEF Respond
<1>4. QED
  BY <1>2, <1>3, OnlyTurn

\* Commit keeps the types, and is only of its turn.
LEMMA CommitType ==
  ASSUME TypeOK, NEW t \in Turns, Commit(t)
  PROVE  TypeOK' /\ OnlyOf(t)
<1>1. turn[t] \in Turn /\ turn[t].phase # "idle" /\ turn[t].conv \in Conversations
  BY DEF TypeOK, Turn, Commit
<1>2. /\ Over(t, "done", TRUE) \in Turn
      /\ Over(t, "done", TRUE).conv # Nobody
  BY <1>1, OverType
<1>3. turn' = [turn EXCEPT ![t] = Over(t, "done", TRUE)]
  BY DEF Commit
<1>4. turn[t].sources \subseteq Agents
  BY <1>1 DEF Turn
<1>5. /\ turn' \in [Turns -> Turn]
      /\ \A u \in Turns : turn'[u].phase # "idle" => turn'[u].conv # Nobody
      /\ \A u \in Turns \ {t} : turn'[u] = turn[u]
  BY <1>2, <1>3, Replaced
<1>6. QED
  BY <1>1, <1>4, <1>5 DEF TypeOK, MessageStatuses, OnlyOf, Commit

\* WriteAnswer keeps the types, and is only of its turn.
LEMMA WriteAnswerType ==
  ASSUME TypeOK, NEW t \in Turns, WriteAnswer(t)
  PROVE  TypeOK' /\ OnlyOf(t)
<1>1. CASE Fails(t)
  BY <1>1, FailsType DEF WriteAnswer
<1>2. CASE ~Fails(t)
  <2>1. turn[t].phase # "idle"
    BY DEF WriteAnswer
  <2>2. /\ Over(t, "completed", FALSE) \in Turn
        /\ Over(t, "completed", FALSE).conv # Nobody
    BY <2>1, OverType
  <2>3. turn' = [turn EXCEPT ![t] = Over(t, "completed", FALSE)]
    BY <1>2 DEF WriteAnswer
  <2>4. /\ turn' \in [Turns -> Turn]
        /\ \A u \in Turns : turn'[u].phase # "idle" => turn'[u].conv # Nobody
        /\ \A u \in Turns \ {t} : turn'[u] = turn[u]
    BY <2>2, <2>3, Replaced
  <2>5. /\ messages' = [messages EXCEPT ![t] = "completed"]
        /\ executions' = IF turn[t].ran THEN executions \cup {t} ELSE executions
        /\ UNCHANGED <<conversations, citations, stamp>>
    BY <1>2 DEF WriteAnswer
  <2>6. TypeOK'
    BY <2>4, <2>5 DEF TypeOK, MessageStatuses
  <2>7. QED
    BY <2>4, <2>5, <2>6 DEF TypeOK, OnlyOf
<1>3. QED
  BY <1>1, <1>2

\* StampConversation keeps the types, and is only of its turn.
LEMMA StampType ==
  ASSUME TypeOK, NEW t \in Turns, StampConversation(t)
  PROVE  TypeOK' /\ OnlyOf(t)
<1>1. CASE Fails(t)
  BY <1>1, FailsType DEF StampConversation
<1>2. CASE ~Fails(t)
  <2> DEFINE r == [turn[t] EXCEPT !.phase = "stamped"]
  <2>1. turn[t] \in Turn /\ turn \in [Turns -> Turn] /\ turn[t].conv # Nobody
    BY DEF TypeOK, StampConversation
  <2>2. r \in Turn /\ r.conv # Nobody
    BY <2>1 DEF Turn
  <2>3. turn' = [turn EXCEPT ![t] = r]
    BY <1>2 DEF StampConversation
  <2>4. turn[t].sources \subseteq Agents
    BY <2>1 DEF Turn
  <2>5. QED
    BY <1>2, <2>2, <2>3, <2>4, Replaced DEF TypeOK, OnlyOf, StampConversation
<1>3. QED
  BY <1>1, <1>2

\* Cite keeps the types, and is only of its turn.
LEMMA CiteType ==
  ASSUME TypeOK, NEW t \in Turns, Cite(t)
  PROVE  TypeOK' /\ OnlyOf(t)
<1>1. CASE Fails(t)
  BY <1>1, FailsType DEF Cite
<1>2. CASE ~Fails(t)
  <2> DEFINE r == [turn[t] EXCEPT !.phase = "cited"]
  <2>1. turn[t] \in Turn /\ turn \in [Turns -> Turn] /\ turn[t].conv # Nobody
    BY DEF TypeOK, Cite
  <2>2. r \in Turn /\ r.conv # Nobody
    BY <2>1 DEF Turn
  <2>3. turn' = [turn EXCEPT ![t] = r]
    BY <1>2 DEF Cite
  <2>4. turn[t].sources \subseteq Agents
    BY <2>1 DEF Turn
  <2>5. QED
    BY <1>2, <2>2, <2>3, <2>4, Replaced DEF TypeOK, OnlyOf, Cite
<1>3. QED
  BY <1>1, <1>2

\* SendDone keeps the types, and is only of its turn.
LEMMA SendDoneType ==
  ASSUME TypeOK, NEW t \in Turns, SendDone(t)
  PROVE  TypeOK' /\ OnlyOf(t)
<1>1. turn[t] \in Turn /\ turn[t].phase # "idle" /\ turn[t].conv \in Conversations
  BY DEF TypeOK, Turn, SendDone
<1>2. /\ Over(t, "done", TRUE) \in Turn
      /\ Over(t, "done", TRUE).conv # Nobody
  BY <1>1, OverType
<1>3. turn' = [turn EXCEPT ![t] = Over(t, "done", TRUE)]
  BY DEF SendDone
<1>4. QED
  BY <1>1, <1>2, <1>3, Replaced DEF TypeOK, OnlyOf, rows, SendDone

\* EndsEarly keeps the types, and is only of its turn.
LEMMA EndsEarlyType ==
  ASSUME TypeOK, NEW t \in Turns, turn[t].phase # "idle",
         NEW phase \in {"failed", "gone"}, EndsEarly(t, phase)
  PROVE  TypeOK' /\ OnlyOf(t) /\ turn'[t] = Over(t, phase, FALSE)
<1>1. Over(t, phase, FALSE) \in Turn /\ Over(t, phase, FALSE).conv # Nobody
  BY OverType
<1>2. QED
  BY <1>1, Replaced DEF TypeOK, OnlyOf, EndsEarly

\* A conversation that comes or goes keeps the types.
LEMMA ConversationType ==
  ASSUME TypeOK, NEW c \in Conversations, CreateConversation(c) \/ DeleteConversation(c)
  PROVE  TypeOK'
BY DEF TypeOK, MessageStatuses, CreateConversation, DeleteConversation

-----------------------------------------------------------------------------
(* The invariant of one turn *)

\* The parts of IInv that speak of one turn.
Traced(t) ==
  /\ messages[t] = "completed" /\ "database" \in turn[t].sources => t \in executions
  /\ t \in executions => turn[t].phase \notin {"idle", "selected", "prepared"}

Placed(t) == messages[t] # "none" => turn[t].conv \in conversations

Grounded(t) ==
  turn[t].phase = "synthesized" =>
    /\ ~FoundNothing(t) => turn[t].text \in {"model", "data"}
                             \cup (IF turn[t].stream THEN {"exception"} ELSE {})
    /\ turn[t].text = "empty" => turn[t].reported

TurnOK(t) ==
  /\ Unstarted(t) /\ SyncIsAtomic(t) /\ StreamCommits(t) /\ OpenTransaction(t)
  /\ AgentsKeepIntent(t) /\ Traced(t) /\ Placed(t) /\ Grounded(t)

\* A turn that may have written a conversation's time.
Earned(t) == turn[t].phase \in {"stamped", "cited", "done", "failed", "gone"}

\* A step of turn t that is of no interest to what relates several turns.
Quiet(t) ==
  /\ UNCHANGED <<conversations, stamp>>
  /\ Inserting(t)' => Inserting(t) /\ turn'[t].conv = turn[t].conv
  /\ Earned(t) => Earned(t)' /\ turn'[t].conv = turn[t].conv

\* They are all of IInv but its types and what relates several turns.
LEMMA Parts ==
  IInv <=> TypeOK /\ (\A t \in Turns : TurnOK(t)) /\ OneInserts /\ StampsAreEarned
BY DEF IInv, TurnOK, QueriesAreTraced, MessagesHaveConversation, AnswersAreGrounded,
       Traced, Placed, Grounded

\* A turn keeps its invariant through the step of another.
LEMMA OthersOK ==
  ASSUME NEW t \in Turns, OnlyOf(t), NEW u \in Turns \ {t}, TurnOK(u)
  PROVE  TurnOK(u)'
<1>1. /\ turn'[u] = turn[u] /\ messages'[u] = messages[u]
      /\ citations'[u] = citations[u] /\ (u \in executions' <=> u \in executions)
      /\ conversations \subseteq conversations'
  BY DEF OnlyOf
<1>2. QED
  BY <1>1 DEF TurnOK, Unstarted, NothingCommitted, SyncIsAtomic, StreamCommits,
       OpenTransaction, AgentsKeepIntent, Holds, Traced, Placed, Grounded, FoundNothing

\* A turn that fails leaves what it has committed.
LEMMA FailsOK ==
  ASSUME TypeOK, NEW t \in Turns, TurnOK(t), Fails(t),
         turn[t].phase \notin {"idle", "done", "failed", "gone"}
  PROVE  TurnOK(t)' /\ Quiet(t)
<1>1. turn'[t] = Over(t, "failed", turn[t].answered)
  BY FailsType
<1>2. /\ turn'[t].phase = "failed" /\ turn'[t].stream = turn[t].stream
      /\ turn'[t].conv = turn[t].conv /\ turn'[t].sources = turn[t].sources
      /\ turn'[t].answered = turn[t].answered /\ turn'[t].creates = FALSE
      /\ turn'[t].ran = FALSE
  BY <1>1 DEF Over, NewTurn
<1>3. UNCHANGED <<conversations, messages, citations, executions, stamp>>
  BY DEF Fails, rows
<1>4. QED
  BY <1>2, <1>3 DEF TurnOK, Unstarted, NothingCommitted, SyncIsAtomic, StreamCommits,
       OpenTransaction, AgentsKeepIntent, Holds, Traced, Placed, Grounded, Quiet,
       Earned, Inserting, FoundNothing

\* A request that selects its conversation has nothing yet.
LEMMA SelectOK ==
  ASSUME TypeOK, NEW t \in Turns, NEW c \in Conversations, NEW stream \in BOOLEAN,
         TurnOK(t), SelectConversation(t, c, stream)
  PROVE  TurnOK(t)' /\ Quiet(t)
<1>1. turn[t] \in Turn /\ turn \in [Turns -> Turn]
  BY DEF TypeOK
<1>2. /\ turn'[t].phase = "selected"
      /\ turn'[t].stream = stream
      /\ turn'[t].conv = c
      /\ turn'[t].creates = (c \notin conversations)
      /\ turn'[t].sources = turn[t].sources
      /\ turn'[t].ran = turn[t].ran
      /\ turn'[t].answered = turn[t].answered
      /\ turn'[t].rows = turn[t].rows
  BY <1>1 DEF Turn, SelectConversation
<1>3. QED
  BY <1>1, <1>2 DEF TurnOK, Unstarted, NothingCommitted, SyncIsAtomic, StreamCommits,
       OpenTransaction, AgentsKeepIntent, Holds, Traced, Placed, Grounded, Quiet,
       Earned, Inserting, FoundNothing, rows, SelectConversation

\* A stream commits its empty message in a conversation that exists; a synchronous
\* turn still has nothing.
LEMMA PrepareOK ==
  ASSUME TypeOK, NEW t \in Turns, TurnOK(t), Prepare(t)
  PROVE  TurnOK(t)'
<1>1. CASE Fails(t)
  BY <1>1, FailsOK DEF Prepare
<1>2. CASE ~Fails(t)
  <2>1. /\ turn[t] \in Turn /\ turn \in [Turns -> Turn] /\ turn[t].creates \in BOOLEAN
        /\ messages \in [Turns -> MessageStatuses]
    BY DEF TypeOK, Turn
  <2>2. /\ turn'[t].phase = "prepared" /\ turn'[t].stream = turn[t].stream
        /\ turn'[t].conv = turn[t].conv /\ turn'[t].sources = turn[t].sources
        /\ turn'[t].creates = (turn[t].creates /\ ~turn[t].stream)
        /\ turn'[t].ran = turn[t].ran /\ turn'[t].answered = turn[t].answered
        /\ turn'[t].rows = turn[t].rows
    BY <2>1, <1>2 DEF Turn, Prepare
  <2>3. /\ turn[t].creates # (turn[t].conv \in conversations)
        /\ UNCHANGED <<citations, executions>> /\ turn[t].phase = "selected"
    BY <1>2 DEF Prepare
  <2>4. CASE turn[t].stream
    <3>1. messages'[t] = "processing" /\ turn[t].conv \in conversations'
      BY <2>1, <2>4, <1>2 DEF Prepare
    <3>2. QED
      BY <2>2, <2>3, <2>4, <3>1 DEF TurnOK, Unstarted, NothingCommitted, SyncIsAtomic,
           StreamCommits, OpenTransaction, AgentsKeepIntent, Holds, Traced, Placed,
           Grounded
  <2>5. CASE ~turn[t].stream
    <3>1. UNCHANGED <<conversations, messages>>
      BY <2>1, <2>5, <1>2 DEF Prepare
    <3>2. QED
      BY <2>1, <2>2, <2>3, <2>5, <3>1 DEF TurnOK, Unstarted, NothingCommitted,
           SyncIsAtomic, StreamCommits, OpenTransaction, AgentsKeepIntent, Holds,
           Traced, Placed, Grounded
  <2>6. QED
    BY <2>4, <2>5
<1>3. QED
  BY <1>1, <1>2

\* The intent determines the agents.
LEMMA ClassifyOK ==
  ASSUME TypeOK, NEW t \in Turns, NEW intent \in Intents,
         TurnOK(t), Classify(t, intent)
  PROVE  TurnOK(t)' /\ Quiet(t)
<1>1. CASE Fails(t)
  BY <1>1, FailsOK DEF Classify
<1>2. CASE ~Fails(t)
  <2>1. turn[t] \in Turn /\ turn \in [Turns -> Turn]
    BY DEF TypeOK
  <2>2. /\ turn'[t].phase = "working"
        /\ turn'[t].stream = turn[t].stream
        /\ turn'[t].conv = turn[t].conv
        /\ turn'[t].creates = turn[t].creates
        /\ turn'[t].sources = turn[t].sources
        /\ turn'[t].ran = turn[t].ran
        /\ turn'[t].answered = turn[t].answered
        /\ turn'[t].rows = turn[t].rows
        /\ turn'[t].intent = intent
        /\ turn'[t].agents = AgentsOf(intent)
    BY <2>1, <1>2 DEF Turn, Classify
  <2>3. QED
    BY <1>2, <2>1, <2>2 DEF TurnOK, Unstarted, NothingCommitted, SyncIsAtomic,
         StreamCommits, OpenTransaction, AgentsKeepIntent, Holds, Traced, Placed,
         Grounded, Quiet, Earned, Inserting, FoundNothing,
         rows, Classify
<1>3. QED
  BY <1>1, <1>2

\* The source of a query comes with its record, in the turn's transaction.
LEMMA ExecuteOK ==
  ASSUME TypeOK, NEW t \in Turns, NEW succeeds \in BOOLEAN, NEW some \in BOOLEAN,
         TurnOK(t), ExecuteQuery(t, succeeds, some)
  PROVE  TurnOK(t)' /\ Quiet(t)
<1>1. turn[t] \in Turn /\ turn \in [Turns -> Turn]
  BY DEF TypeOK
<1>2. /\ turn'[t].phase = "working" /\ turn'[t].stream = turn[t].stream
      /\ turn'[t].conv = turn[t].conv /\ turn'[t].creates = turn[t].creates
      /\ turn'[t].answered = turn[t].answered
      /\ turn'[t].intent = turn[t].intent
      /\ turn'[t].agents = turn[t].agents \ {"database"}
      /\ "document" \in turn'[t].sources => "document" \in turn[t].sources
  BY <1>1 DEF Turn, ExecuteQuery, AgentEnds
<1>3. "database" \in turn'[t].sources => turn'[t].ran
  <2>1. CASE HasMessage(t)
    BY <1>1, <2>1 DEF Turn, ExecuteQuery
  <2>2. CASE ~HasMessage(t)
    BY <1>1, <2>2 DEF Turn, ExecuteQuery, AgentEnds, TurnOK, OpenTransaction
  <2>3. QED
    BY <2>1, <2>2
<1>4. turn[t].phase = "working" /\ UNCHANGED rows
  BY DEF ExecuteQuery, AgentEnds
<1>5. "database" \in AgentsOf(turn[t].intent)
  BY DEF ExecuteQuery, AgentEnds, TurnOK, AgentsKeepIntent
<1>6. QED
  BY <1>2, <1>3, <1>4, <1>5 DEF TurnOK, Unstarted, NothingCommitted, SyncIsAtomic,
       StreamCommits, OpenTransaction, AgentsKeepIntent, Holds, Traced, Placed,
       Grounded, Quiet, Earned, Inserting, FoundNothing, rows

\* Only a turn that asked for documents has evidence.
LEMMA EvidenceOK ==
  ASSUME TypeOK, NEW t \in Turns, TurnOK(t), FindEvidence(t)
  PROVE  TurnOK(t)' /\ Quiet(t)
<1>1. turn[t] \in Turn /\ turn \in [Turns -> Turn]
  BY DEF TypeOK
<1>2. /\ turn'[t].phase = "working"
      /\ turn'[t].stream = turn[t].stream
      /\ turn'[t].conv = turn[t].conv
      /\ turn'[t].creates = turn[t].creates
      /\ turn'[t].sources = turn[t].sources \cup {"document"}
      /\ turn'[t].ran = turn[t].ran
      /\ turn'[t].answered = turn[t].answered
      /\ turn'[t].rows = turn[t].rows
      /\ turn'[t].intent = turn[t].intent
      /\ turn'[t].agents = turn[t].agents \ {"document"}
  BY <1>1 DEF Turn, FindEvidence, AgentEnds
<1>3. QED
  BY <1>1, <1>2 DEF TurnOK, Unstarted, NothingCommitted, SyncIsAtomic, StreamCommits,
       OpenTransaction, AgentsKeepIntent, Holds, Traced, Placed, Grounded, Quiet,
       Earned, Inserting, FoundNothing, rows, FindEvidence, AgentEnds

\* An agent that ends with nothing leaves what the other has.
LEMMA StopsOK ==
  ASSUME TypeOK, NEW t \in Turns, NEW a \in Agents, NEW error \in BOOLEAN,
         TurnOK(t), AgentStops(t, a, error)
  PROVE  TurnOK(t)' /\ Quiet(t)
<1>1. turn[t] \in Turn /\ turn \in [Turns -> Turn]
  BY DEF TypeOK
<1>2. /\ turn'[t].phase = "working"
      /\ turn'[t].stream = turn[t].stream
      /\ turn'[t].conv = turn[t].conv
      /\ turn'[t].creates = turn[t].creates
      /\ turn'[t].sources = turn[t].sources
      /\ turn'[t].ran = turn[t].ran
      /\ turn'[t].answered = turn[t].answered
      /\ turn'[t].rows = turn[t].rows
      /\ turn'[t].intent = turn[t].intent
      /\ turn'[t].agents = turn[t].agents \ {a}
  BY <1>1 DEF Turn, AgentStops, AgentEnds
<1>3. QED
  BY <1>1, <1>2 DEF TurnOK, Unstarted, NothingCommitted, SyncIsAtomic, StreamCommits,
       OpenTransaction, AgentsKeepIntent, Holds, Traced, Placed, Grounded, Quiet,
       Earned, Inserting, FoundNothing, rows, AgentStops, AgentEnds

\* A broken session has lost nothing that was committed.
LEMMA BreaksOK ==
  ASSUME TypeOK, NEW t \in Turns, NEW a \in Agents, TurnOK(t), SessionBreaks(t, a)
  PROVE  TurnOK(t)' /\ Quiet(t)
<1>1. turn[t] \in Turn /\ turn \in [Turns -> Turn]
  BY DEF TypeOK
<1>2. /\ turn'[t].phase = "working"
      /\ turn'[t].stream = turn[t].stream
      /\ turn'[t].conv = turn[t].conv
      /\ turn'[t].creates = turn[t].creates
      /\ turn'[t].sources = turn[t].sources
      /\ turn'[t].ran = turn[t].ran
      /\ turn'[t].answered = turn[t].answered
      /\ turn'[t].rows = turn[t].rows
      /\ turn'[t].intent = turn[t].intent
      /\ turn'[t].agents = turn[t].agents \ {a}
  BY <1>1 DEF Turn, SessionBreaks, AgentEnds
<1>3. QED
  BY <1>1, <1>2 DEF TurnOK, Unstarted, NothingCommitted, SyncIsAtomic, StreamCommits,
       OpenTransaction, AgentsKeepIntent, Holds, Traced, Placed, Grounded, Quiet,
       Earned, Inserting, FoundNothing, rows, SessionBreaks, AgentEnds

\* What the answer may be, by what the agents found.
LEMMA SynthesizeGrounded ==
  ASSUME TypeOK, NEW t \in Turns, AgentsKeepIntent(t), turn[t].phase = "working",
         NEW model, NEW error \in BOOLEAN
  PROVE  LET given == Given(t, model)
             text == IF given = "empty" THEN Fallback(t, error) ELSE given
         IN /\ ~FoundNothing(t) => text \in {"model", "data"}
                                     \cup (IF turn[t].stream THEN {"exception"} ELSE {})
            /\ text = "empty" => given = "empty" /\ error
<1> DEFINE given == Given(t, model)
           text == IF given = "empty" THEN Fallback(t, error) ELSE given
<1>1. given \in {"empty", "model", "nothingFound"}
                  \cup (IF turn[t].stream THEN {"exception"} ELSE {})
  BY DEF Given
<1>2. given = "nothingFound" => FoundNothing(t)
  BY DEF Given
<1>3. ~FoundNothing(t) => AgentsOf(turn[t].intent) # {}
  BY DEF FoundNothing, AgentsKeepIntent
<1>4. ~FoundNothing(t) => Fallback(t, error) = "data"
  BY <1>3 DEF Fallback
<1>5. Fallback(t, error) = "empty" => error
  BY DEF Fallback
<1> HIDE DEF given
<1>6. QED
  BY <1>1, <1>2, <1>4, <1>5 DEF given

\* The answer of a turn rests on what its agents found.
LEMMA SynthesizeOK ==
  ASSUME TypeOK, NEW t \in Turns, NEW model, TurnOK(t), Synthesize(t, model)
  PROVE  TurnOK(t)' /\ Quiet(t)
<1> DEFINE given == Given(t, model)
           asked == AgentsOf(turn[t].intent) # {}
           error == turn[t].error \/ (asked /\ model = "raises" /\ ~turn[t].stream)
           text == IF given = "empty" THEN Fallback(t, error) ELSE given
           reported == error /\ ~(given # "empty" /\ ~(asked /\ model = "refusal"))
<1>1. turn[t] \in Turn /\ turn \in [Turns -> Turn] /\ turn[t].phase = "working"
  BY DEF TypeOK, Synthesize
<1>2. error \in BOOLEAN
  BY <1>1 DEF Turn
<1>3. /\ ~FoundNothing(t) => text \in {"model", "data"}
                               \cup (IF turn[t].stream THEN {"exception"} ELSE {})
      /\ text = "empty" => reported
  BY <1>1, <1>2, SynthesizeGrounded DEF TurnOK
<1> HIDE DEF text, reported, error
<1>4. /\ turn' = [turn EXCEPT ![t] =
                    [turn[t] EXCEPT !.phase = "synthesized", !.error = error,
                                    !.text = text, !.reported = reported]]
      /\ UNCHANGED rows
  BY <1>1 DEF Synthesize, error, text, reported
<1>5. /\ turn'[t].phase = "synthesized" /\ turn'[t].stream = turn[t].stream
      /\ turn'[t].conv = turn[t].conv /\ turn'[t].creates = turn[t].creates
      /\ turn'[t].sources = turn[t].sources /\ turn'[t].ran = turn[t].ran
      /\ turn'[t].answered = turn[t].answered /\ turn'[t].rows = turn[t].rows
      /\ turn'[t].text = text /\ turn'[t].reported = reported
  BY <1>1, <1>4 DEF Turn
<1>6. Grounded(t)'
  BY <1>3, <1>5 DEF Grounded, FoundNothing
<1>7. QED
  BY <1>1, <1>4, <1>5, <1>6 DEF TurnOK, Unstarted, NothingCommitted, SyncIsAtomic,
       StreamCommits, OpenTransaction, AgentsKeepIntent, Holds, Traced, Placed, Quiet,
       Earned, Inserting, rows

\* A synchronous turn that flushes has committed nothing.
LEMMA FlushOK ==
  ASSUME TypeOK, NEW t \in Turns, TurnOK(t), Flush(t)
  PROVE  TurnOK(t)' /\ Quiet(t)
<1>1. CASE Fails(t)
  BY <1>1, FailsOK DEF Flush
<1>2. CASE ~Fails(t)
  <2>1. turn[t] \in Turn /\ turn \in [Turns -> Turn]
    BY DEF TypeOK
  <2>2. turn'[t] = [Over(t, "flushed", FALSE) EXCEPT
                      !.creates = turn[t].creates, !.ran = turn[t].ran]
    BY <2>1, <1>2 DEF Flush
  <2>3. /\ turn'[t].phase = "flushed" /\ turn'[t].stream = turn[t].stream
        /\ turn'[t].conv = turn[t].conv /\ turn'[t].sources = turn[t].sources
        /\ turn'[t].creates = turn[t].creates /\ turn'[t].ran = turn[t].ran
        /\ turn'[t].answered = FALSE
    BY <2>2 DEF Over, NewTurn
  <2>4. turn[t].phase = "synthesized" /\ ~turn[t].stream /\ UNCHANGED rows
    BY <1>2 DEF Flush
  <2>5. QED
    BY <2>3, <2>4 DEF TurnOK, Unstarted, NothingCommitted, SyncIsAtomic, StreamCommits,
         OpenTransaction, AgentsKeepIntent, Holds, Traced, Placed, Grounded, Quiet,
         Earned, Inserting, rows
<1>3. QED
  BY <1>1, <1>2

\* The response changes nothing but what the client knows.
LEMMA RespondOK ==
  ASSUME TypeOK, NEW t \in Turns, TurnOK(t), Respond(t)
  PROVE  TurnOK(t)' /\ Quiet(t)
<1>1. turn[t] \in Turn /\ turn \in [Turns -> Turn]
  BY DEF TypeOK
<1>2. /\ turn'[t].phase = turn[t].phase /\ turn'[t].stream = turn[t].stream
      /\ turn'[t].conv = turn[t].conv /\ turn'[t].creates = turn[t].creates
      /\ turn'[t].sources = turn[t].sources /\ turn'[t].ran = turn[t].ran
      /\ turn[t].phase = "flushed" /\ UNCHANGED rows
  BY <1>1 DEF Turn, Respond
<1>3. ~turn[t].stream
  BY <1>2 DEF TurnOK, StreamCommits
<1>4. QED
  BY <1>2, <1>3 DEF TurnOK, Unstarted, NothingCommitted, SyncIsAtomic, StreamCommits,
       OpenTransaction, AgentsKeepIntent, Holds, Traced, Placed, Grounded, Quiet,
       Earned, Inserting, rows

\* A synchronous turn commits everything at once.
LEMMA CommitOK ==
  ASSUME TypeOK, NEW t \in Turns, TurnOK(t), Commit(t)
  PROVE  TurnOK(t)'
<1>1. /\ turn[t] \in Turn /\ turn \in [Turns -> Turn]
      /\ messages \in [Turns -> MessageStatuses]
      /\ citations \in [Turns -> SUBSET Agents]
  BY DEF TypeOK
<1>2. turn'[t] = Over(t, "done", TRUE) /\ turn[t].phase = "flushed"
  BY <1>1 DEF Commit
<1>3. /\ turn'[t].phase = "done" /\ turn'[t].stream = turn[t].stream
      /\ turn'[t].conv = turn[t].conv /\ turn'[t].sources = turn[t].sources
      /\ turn'[t].answered = TRUE /\ turn'[t].creates = FALSE /\ turn'[t].ran = FALSE
  BY <1>2 DEF Over, NewTurn
<1>4. ~turn[t].stream /\ ("database" \in turn[t].sources => turn[t].ran)
  BY <1>2 DEF TurnOK, StreamCommits, OpenTransaction
<1>5. messages'[t] = "completed" /\ citations'[t] = turn[t].sources
  BY <1>1 DEF Commit
<1>6. "database" \in turn[t].sources => t \in executions'
  BY <1>4 DEF Commit
<1>7. turn[t].conv \in conversations'
  BY <1>2, <1>4 DEF Commit, TurnOK, OpenTransaction, Holds
<1>8. QED
  BY <1>3, <1>4, <1>5, <1>6, <1>7 DEF TurnOK, Unstarted, SyncIsAtomic, StreamCommits,
       OpenTransaction, AgentsKeepIntent, Holds, Traced, Placed, Grounded

\* A stream's answer is committed with the record of its query.
LEMMA WriteAnswerOK ==
  ASSUME TypeOK, NEW t \in Turns, TurnOK(t), WriteAnswer(t)
  PROVE  TurnOK(t)' /\ Quiet(t)
<1>1. CASE Fails(t)
  BY <1>1, FailsOK DEF WriteAnswer
<1>2. CASE ~Fails(t)
  <2>1. /\ turn[t] \in Turn /\ turn \in [Turns -> Turn]
        /\ messages \in [Turns -> MessageStatuses]
    BY DEF TypeOK
  <2>2. /\ turn'[t] = Over(t, "completed", FALSE)
        /\ turn[t].phase = "synthesized" /\ turn[t].stream
        /\ messages[t] # "none" /\ messages'[t] = "completed"
        /\ executions' = IF turn[t].ran THEN executions \cup {t} ELSE executions
        /\ UNCHANGED <<conversations, citations, stamp>>
    BY <2>1, <1>2 DEF WriteAnswer, HasMessage
  <2>3. /\ turn'[t].phase = "completed" /\ turn'[t].stream = turn[t].stream
        /\ turn'[t].conv = turn[t].conv /\ turn'[t].sources = turn[t].sources
        /\ turn'[t].answered = FALSE /\ turn'[t].creates = FALSE /\ turn'[t].ran = FALSE
    BY <2>2 DEF Over, NewTurn
  <2>4. "database" \in turn[t].sources => t \in executions'
    BY <2>2 DEF TurnOK, OpenTransaction
  <2>5. QED
    BY <2>2, <2>3, <2>4 DEF TurnOK, Unstarted, SyncIsAtomic, StreamCommits,
         OpenTransaction, AgentsKeepIntent, Holds, Traced, Placed, Grounded, Quiet,
         Earned, Inserting
<1>3. QED
  BY <1>1, <1>2

\* The conversation's time says nothing of the turn's message.
LEMMA StampOK ==
  ASSUME TypeOK, NEW t \in Turns, TurnOK(t), StampConversation(t)
  PROVE  TurnOK(t)'
<1>1. CASE Fails(t)
  BY <1>1, FailsOK DEF StampConversation
<1>2. CASE ~Fails(t)
  <2>1. turn[t] \in Turn /\ turn \in [Turns -> Turn]
    BY DEF TypeOK
  <2>2. /\ turn'[t].phase = "stamped" /\ turn'[t].stream = turn[t].stream
        /\ turn'[t].conv = turn[t].conv /\ turn'[t].creates = turn[t].creates
        /\ turn'[t].sources = turn[t].sources /\ turn'[t].ran = turn[t].ran
        /\ turn'[t].answered = turn[t].answered /\ turn[t].phase = "completed"
        /\ UNCHANGED <<conversations, messages, citations, executions>>
    BY <2>1, <1>2 DEF Turn, StampConversation
  <2>3. QED
    BY <2>2 DEF TurnOK, Unstarted, SyncIsAtomic, StreamCommits, OpenTransaction,
         AgentsKeepIntent, Holds, Traced, Placed, Grounded
<1>3. QED
  BY <1>1, <1>2

\* All citations of the turn are committed, after its answer.
LEMMA CiteOK ==
  ASSUME TypeOK, NEW t \in Turns, TurnOK(t), Cite(t)
  PROVE  TurnOK(t)' /\ Quiet(t)
<1>1. CASE Fails(t)
  BY <1>1, FailsOK DEF Cite
<1>2. CASE ~Fails(t)
  <2>1. /\ turn[t] \in Turn /\ turn \in [Turns -> Turn]
        /\ messages \in [Turns -> MessageStatuses]
        /\ citations \in [Turns -> SUBSET Agents]
    BY DEF TypeOK
  <2>2. /\ turn'[t].phase = "cited" /\ turn'[t].stream = turn[t].stream
        /\ turn'[t].conv = turn[t].conv /\ turn'[t].creates = turn[t].creates
        /\ turn'[t].sources = turn[t].sources /\ turn'[t].ran = turn[t].ran
        /\ turn'[t].answered = turn[t].answered /\ turn[t].phase = "stamped"
        /\ citations'[t] = turn[t].sources
        /\ UNCHANGED <<conversations, messages, executions, stamp>>
    BY <2>1, <1>2 DEF Turn, Cite
  <2>3. turn[t].stream /\ messages[t] \in {"none", "completed"}
    BY <2>2 DEF TurnOK, SyncIsAtomic, StreamCommits
  <2>4. citations'[t] # {} => messages[t] = "completed"
    BY <1>2, <2>1, <2>2, <2>3 DEF Cite, HasMessage
  <2>5. QED
    BY <2>2, <2>3, <2>4 DEF TurnOK, Unstarted, SyncIsAtomic, StreamCommits,
         OpenTransaction, AgentsKeepIntent, Holds, Traced, Placed, Grounded, Quiet,
         Earned, Inserting
<1>3. QED
  BY <1>1, <1>2

\* The client is told after the last commit.
LEMMA SendDoneOK ==
  ASSUME TypeOK, NEW t \in Turns, TurnOK(t), SendDone(t)
  PROVE  TurnOK(t)' /\ Quiet(t)
<1>1. turn'[t] = Over(t, "done", TRUE) /\ turn[t].phase = "cited" /\ UNCHANGED rows
  BY DEF TypeOK, SendDone
<1>2. /\ turn'[t].phase = "done" /\ turn'[t].stream = turn[t].stream
      /\ turn'[t].conv = turn[t].conv /\ turn'[t].sources = turn[t].sources
      /\ turn'[t].answered = TRUE /\ turn'[t].creates = FALSE /\ turn'[t].ran = FALSE
  BY <1>1 DEF Over, NewTurn
<1>3. turn[t].stream
  BY <1>1 DEF TurnOK, SyncIsAtomic
<1>4. QED
  BY <1>1, <1>2, <1>3 DEF TurnOK, Unstarted, SyncIsAtomic, StreamCommits,
       OpenTransaction, AgentsKeepIntent, Holds, Traced, Placed, Grounded, Quiet,
       Earned, Inserting, rows

\* A stream that ends early keeps what it has committed, and may commit the record
\* of its query.
LEMMA EndsEarlyOK ==
  ASSUME TypeOK, NEW t \in Turns, TurnOK(t), turn[t].stream,
         turn[t].phase \in {"working", "cited"},
         NEW phase \in {"failed", "gone"}, EndsEarly(t, phase)
  PROVE  TurnOK(t)' /\ Quiet(t)
<1>1. /\ turn'[t] = Over(t, phase, FALSE)
      /\ UNCHANGED <<conversations, messages, citations, stamp>>
      /\ executions \subseteq executions'
  BY DEF TypeOK, EndsEarly
<1>2. /\ turn'[t].phase = phase /\ turn'[t].stream = turn[t].stream
      /\ turn'[t].conv = turn[t].conv /\ turn'[t].sources = turn[t].sources
      /\ turn'[t].answered = FALSE /\ turn'[t].creates = FALSE /\ turn'[t].ran = FALSE
  BY <1>1 DEF Over, NewTurn
<1>3. QED
  BY <1>1, <1>2 DEF TurnOK, Unstarted, SyncIsAtomic, StreamCommits, OpenTransaction,
       AgentsKeepIntent, Holds, Traced, Placed, Grounded, Quiet, Earned, Inserting

\* A new conversation disturbs no turn; the turns of a deleted one lose their rows.
LEMMA ConversationOK ==
  ASSUME TypeOK, NEW t \in Turns, TurnOK(t), NEW c \in Conversations,
         CreateConversation(c) \/ DeleteConversation(c)
  PROVE  TurnOK(t)'
<1>1. turn' = turn /\ executions' = executions
  BY DEF CreateConversation, DeleteConversation
<1>2. CASE CreateConversation(c)
  <2>1. /\ UNCHANGED <<messages, citations, executions, turn>>
        /\ conversations' = conversations \cup {c}
    BY <1>2 DEF CreateConversation
  <2>2. QED
    BY <2>1 DEF TurnOK, Unstarted, NothingCommitted, SyncIsAtomic, StreamCommits,
         OpenTransaction, AgentsKeepIntent, Holds, Traced, Placed, Grounded,
         FoundNothing
<1>3. CASE DeleteConversation(c)
  <2>1. CASE turn[t].conv = c
    <3>1. messages'[t] = "none" /\ citations'[t] = {} /\ ~Holds(t)
      BY <1>3, <2>1 DEF DeleteConversation
    <3>2. QED
      BY <1>1, <3>1 DEF TurnOK, Unstarted, NothingCommitted, SyncIsAtomic,
           StreamCommits, OpenTransaction, AgentsKeepIntent, Holds, Traced, Placed,
           Grounded, FoundNothing
  <2>2. CASE turn[t].conv # c
    <3>1. /\ messages'[t] = messages[t] /\ citations'[t] = citations[t]
          /\ turn[t].conv \in conversations' <=> turn[t].conv \in conversations
      BY <1>3, <2>2 DEF DeleteConversation
    <3>2. QED
      BY <1>1, <3>1 DEF TurnOK, Unstarted, NothingCommitted, SyncIsAtomic,
           StreamCommits, OpenTransaction, AgentsKeepIntent, Holds, Traced, Placed,
           Grounded, FoundNothing
  <2>3. QED
    BY <2>1, <2>2
<1>4. QED
  BY <1>2, <1>3

-----------------------------------------------------------------------------
(* What relates several turns *)

\* A quiet step does not disturb it.
LEMMA QuietStep ==
  ASSUME TypeOK, OneInserts, StampsAreEarned, NEW t \in Turns, OnlyOf(t), Quiet(t)
  PROVE  OneInserts' /\ StampsAreEarned'
<1>1. \A u \in Turns \ {t} : turn'[u] = turn[u]
  BY DEF OnlyOf
<1>2. OneInserts'
  <2>1. \A u \in Turns : Inserting(u)' => Inserting(u) /\ turn'[u].conv = turn[u].conv
    BY <1>1 DEF Quiet, Inserting
  <2>2. QED
    BY <2>1 DEF OneInserts, Quiet
<1>3. StampsAreEarned'
  <2>1. \A u \in Turns : Earned(u) => Earned(u)' /\ turn'[u].conv = turn[u].conv
    BY <1>1 DEF Quiet, Earned
  <2>2. \A c \in Conversations : stamp[c] # Nobody => stamp[c] \in Turns
    BY DEF TypeOK
  <2>3. QED
    BY <2>1, <2>2 DEF StampsAreEarned, Earned, Quiet
<1>4. QED
  BY <1>2, <1>3

\* The conversation that a stream commits is inserted by nobody else.
LEMMA PrepareShared ==
  ASSUME TypeOK, OneInserts, StampsAreEarned, NEW t \in Turns, TurnOK(t), Prepare(t)
  PROVE  OneInserts' /\ StampsAreEarned'
<1>1. OnlyOf(t)
  BY PrepareType
<1>2. CASE Fails(t)
  <2>1. Quiet(t)
    BY <1>2, FailsOK DEF Prepare
  <2>2. QED
    BY <1>1, <2>1, QuietStep
<1>3. CASE ~Fails(t)
  <2>1. turn[t] \in Turn /\ turn \in [Turns -> Turn] /\ turn[t].creates \in BOOLEAN
    BY DEF TypeOK, Turn
  <2>2. /\ turn'[t].phase = "prepared" /\ turn'[t].conv = turn[t].conv
        /\ turn'[t].creates = (turn[t].creates /\ ~turn[t].stream)
    BY <1>3, <2>1 DEF Turn, Prepare
  <2>3. /\ turn[t].phase = "selected" /\ stamp' = stamp
        /\ turn[t].creates # (turn[t].conv \in conversations)
        /\ turn[t].creates =>
             \A u \in Turns \ {t} : ~(Inserting(u) /\ turn[u].conv = turn[t].conv)
        /\ conversations' = IF turn[t].stream THEN conversations \cup {turn[t].conv}
                                              ELSE conversations
    BY <1>3 DEF Prepare
  <2>4. \A u \in Turns \ {t} : turn'[u] = turn[u]
    BY <1>1 DEF OnlyOf
  <2>5. \A u \in Turns \ {t} : Inserting(u)' <=> Inserting(u)
    BY <2>4 DEF Inserting
  <2>6. Inserting(t)' <=> turn[t].creates /\ ~turn[t].stream
    BY <2>2 DEF Inserting
  <2>7. OneInserts'
    BY <2>1, <2>2, <2>3, <2>4, <2>5, <2>6 DEF OneInserts
  <2>8. StampsAreEarned'
    BY <2>2, <2>3, <2>4 DEF StampsAreEarned, TypeOK
  <2>9. QED
    BY <2>7, <2>8
<1>4. QED
  BY <1>2, <1>3

\* The turn that commits is the one that inserts its conversation, if one does.
LEMMA CommitShared ==
  ASSUME TypeOK, OneInserts, StampsAreEarned, NEW t \in Turns, TurnOK(t), Commit(t)
  PROVE  OneInserts' /\ StampsAreEarned'
<1>1. \A u \in Turns \ {t} : turn'[u] = turn[u]
  BY CommitType DEF OnlyOf
<1>2. turn[t].phase = "flushed" /\ turn[t].conv \in Conversations
  BY DEF Commit, TypeOK, Turn
<1>3. turn'[t].phase = "done" /\ turn'[t].conv = turn[t].conv /\ turn'[t].creates = FALSE
  BY DEF Commit, TypeOK, Over, NewTurn
<1>4. turn[t].conv \in conversations'
  BY <1>2 DEF Commit, TurnOK, OpenTransaction, StreamCommits, Holds
<1>5. OneInserts'
  <2>1. \A u \in Turns : Inserting(u)' => u # t /\ Inserting(u) /\ turn'[u] = turn[u]
    BY <1>1, <1>3 DEF Inserting
  <2>2. \A u \in Turns \ {t} : Inserting(u) => turn[u].conv \notin conversations'
    BY <1>2 DEF Commit, OneInserts, Inserting
  <2>3. QED
    BY <2>1, <2>2 DEF OneInserts
<1>6. StampsAreEarned'
  <2>1. stamp' = [stamp EXCEPT ![turn[t].conv] = t] /\ conversations \subseteq conversations'
    BY DEF Commit
  <2>2. QED
    BY <1>1, <1>2, <1>3, <1>4, <2>1 DEF StampsAreEarned, TypeOK
<1>7. QED
  BY <1>5, <1>6

\* The time of a conversation that exists is written by a turn of it.
LEMMA StampShared ==
  ASSUME TypeOK, OneInserts, StampsAreEarned, NEW t \in Turns, TurnOK(t),
         StampConversation(t)
  PROVE  OneInserts' /\ StampsAreEarned'
<1>1. OnlyOf(t)
  BY StampType
<1>2. CASE Fails(t)
  <2>1. Quiet(t)
    BY <1>2, FailsOK DEF StampConversation
  <2>2. QED
    BY <1>1, <2>1, QuietStep
<1>3. CASE ~Fails(t)
  <2>1. turn[t] \in Turn /\ turn \in [Turns -> Turn] /\ turn[t].conv \in Conversations
    BY DEF TypeOK, Turn, StampConversation
  <2>2. /\ turn'[t].phase = "stamped" /\ turn'[t].conv = turn[t].conv
        /\ turn'[t].creates = turn[t].creates
    BY <1>3, <2>1 DEF Turn, StampConversation
  <2>3. /\ turn[t].phase = "completed" /\ turn[t].conv \in conversations
        /\ stamp' = [stamp EXCEPT ![turn[t].conv] = t]
        /\ conversations' = conversations
    BY <1>3 DEF StampConversation
  <2>4. \A u \in Turns \ {t} : turn'[u] = turn[u]
    BY <1>1 DEF OnlyOf
  <2>5. OneInserts'
    BY <2>2, <2>3, <2>4 DEF OneInserts, Inserting
  <2>6. StampsAreEarned'
    BY <2>1, <2>2, <2>3, <2>4 DEF StampsAreEarned, TypeOK
  <2>7. QED
    BY <2>5, <2>6
<1>4. QED
  BY <1>2, <1>3

\* A new conversation has no turn; a deleted one loses its time.
LEMMA ConversationShared ==
  ASSUME TypeOK, OneInserts, StampsAreEarned, NEW c \in Conversations,
         CreateConversation(c) \/ DeleteConversation(c)
  PROVE  OneInserts' /\ StampsAreEarned'
<1>1. CASE CreateConversation(c)
  BY <1>1 DEF CreateConversation, OneInserts, Inserting, StampsAreEarned
<1>2. CASE DeleteConversation(c)
  <2>1. /\ turn' = turn /\ conversations' = conversations \ {c}
        /\ stamp' = [stamp EXCEPT ![c] = Nobody]
    BY <1>2 DEF DeleteConversation
  <2>2. OneInserts'
    BY <2>1 DEF OneInserts, Inserting
  <2>3. StampsAreEarned'
    BY <2>1 DEF StampsAreEarned, TypeOK
  <2>4. QED
    BY <2>2, <2>3
<1>3. QED
  BY <1>1, <1>2

-----------------------------------------------------------------------------
(* Every step *)

\* IInv holds after a step of turn t that keeps the types, touches no other turn,
\* and keeps the invariants of t and those that relate several turns.
LEMMA Kept ==
  ASSUME IInv, NEW t \in Turns, TypeOK', OnlyOf(t), TurnOK(t)',
         Quiet(t) \/ (OneInserts' /\ StampsAreEarned')
  PROVE  IInv'
<1>1. TypeOK /\ OneInserts /\ StampsAreEarned /\ \A u \in Turns : TurnOK(u)
  BY Parts
<1>2. \A u \in Turns \ {t} : TurnOK(u)'
  BY <1>1, OthersOK
<1>3. OneInserts' /\ StampsAreEarned'
  BY <1>1, QuietStep
<1>4. QED
  BY <1>2, <1>3 DEF IInv, TurnOK, QueriesAreTraced, MessagesHaveConversation,
       AnswersAreGrounded, Traced, Placed, Grounded

\* What the client sent and what the agents do are of the types of the lemmas above.
LEMMA Inputs ==
  ASSUME NEW hasDb \in BOOLEAN, NEW hasDoc \in BOOLEAN,
         NEW intent \in MayClassify(hasDb, hasDoc)
  PROVE  intent \in Intents
BY DEF MayClassify, Intents

\* A fair step of a turn keeps the invariant.
LEMMA TurnStepInv ==
  ASSUME IInv, NEW t \in Turns, TurnStep(t)
  PROVE  IInv'
<1>1. TypeOK /\ OneInserts /\ StampsAreEarned /\ TurnOK(t)
  BY Parts
<1>2. CASE Prepare(t)
  BY <1>1, <1>2, PrepareType, PrepareOK, PrepareShared, Kept
<1>3. ASSUME NEW hasDb \in BOOLEAN, NEW hasDoc \in BOOLEAN,
             NEW intent \in MayClassify(hasDb, hasDoc), Classify(t, intent)
      PROVE  IInv'
  BY <1>1, <1>3, Inputs, ClassifyType, ClassifyOK, Kept
<1>4. ASSUME NEW succeeds \in BOOLEAN, NEW some \in BOOLEAN,
             ExecuteQuery(t, succeeds, some)
      PROVE  IInv'
  BY <1>1, <1>4, ExecuteType, ExecuteOK, Kept
<1>5. CASE FindEvidence(t)
  BY <1>1, <1>5, EvidenceType, EvidenceOK, Kept
<1>6. ASSUME NEW a \in Agents, NEW error \in BOOLEAN, AgentStops(t, a, error)
      PROVE  IInv'
  BY <1>1, <1>6, AgentStopsType, StopsOK, Kept
<1>7. ASSUME NEW model \in Replies, Synthesize(t, model)
      PROVE  IInv'
  BY <1>1, <1>7, SynthesizeType, SynthesizeOK, Kept
<1>8. CASE Flush(t)
  BY <1>1, <1>8, FlushType, FlushOK, Kept
<1>9. CASE Respond(t)
  BY <1>1, <1>9, RespondType, RespondOK, Kept
<1>10. CASE Commit(t)
  BY <1>1, <1>10, CommitType, CommitOK, CommitShared, Kept
<1>11. CASE WriteAnswer(t)
  BY <1>1, <1>11, WriteAnswerType, WriteAnswerOK, Kept
<1>12. CASE StampConversation(t)
  BY <1>1, <1>12, StampType, StampOK, StampShared, Kept
<1>13. CASE Cite(t)
  BY <1>1, <1>13, CiteType, CiteOK, Kept
<1>14. CASE SendDone(t)
  BY <1>1, <1>14, SendDoneType, SendDoneOK, Kept
<1>15. QED
  BY <1>2, <1>3, <1>4, <1>5, <1>6, <1>7, <1>8, <1>9, <1>10, <1>11, <1>12, <1>13, <1>14
     DEF TurnStep

\* Every step keeps the invariant.
LEMMA NextInv == IInv /\ [Next]_vars => IInv'
<1> SUFFICES ASSUME IInv, [Next]_vars PROVE IInv'
  OBVIOUS
<1>1. TypeOK /\ OneInserts /\ StampsAreEarned /\ \A t \in Turns : TurnOK(t)
  BY Parts
<1>2. ASSUME NEW t \in Turns, NEW c \in Conversations, NEW stream \in BOOLEAN,
             SelectConversation(t, c, stream)
      PROVE  IInv'
  BY <1>1, <1>2, SelectType, SelectOK, Kept
<1>3. ASSUME NEW t \in Turns, TurnStep(t) PROVE IInv'
  BY <1>3, TurnStepInv
<1>4. ASSUME NEW t \in Turns, NEW a \in Agents, SessionBreaks(t, a) PROVE IInv'
  BY <1>1, <1>4, BreaksType, BreaksOK, Kept
<1>5. ASSUME NEW t \in Turns, TurnFails(t) PROVE IInv'
  <2>1. turn[t].phase \notin {"idle", "done", "failed", "gone"} /\ Fails(t)
    BY <1>5 DEF TurnFails, Ended
  <2>2. QED
    BY <1>1, <2>1, FailsType, FailsOK, Kept
<1>6. ASSUME NEW t \in Turns, StreamRaises(t) PROVE IInv'
  <2>1. turn[t].stream /\ turn[t].phase = "working" /\ EndsEarly(t, "failed")
    BY <1>6 DEF StreamRaises
  <2>2. QED
    BY <1>1, <2>1, EndsEarlyType, EndsEarlyOK, Kept
<1>7. ASSUME NEW t \in Turns, Disconnect(t) PROVE IInv'
  <2>1. turn[t].stream /\ turn[t].phase \in {"working", "cited"} /\ EndsEarly(t, "gone")
    BY <1>7 DEF Disconnect
  <2>2. QED
    BY <1>1, <2>1, EndsEarlyType, EndsEarlyOK, Kept
<1>8. ASSUME NEW c \in Conversations, CreateConversation(c) \/ DeleteConversation(c)
      PROVE  IInv'
  <2>1. TypeOK' /\ OneInserts' /\ StampsAreEarned'
    BY <1>1, <1>8, ConversationType, ConversationShared
  <2>2. \A t \in Turns : TurnOK(t)'
    BY <1>1, <1>8, ConversationOK
  <2>3. QED
    BY <2>1, <2>2 DEF IInv, TurnOK, QueriesAreTraced, MessagesHaveConversation,
         AnswersAreGrounded, Traced, Placed, Grounded
<1>9. CASE UNCHANGED vars
  BY <1>9 DEF vars, IInv, TypeOK, Unstarted, NothingCommitted, SyncIsAtomic, StreamCommits,
       OpenTransaction, AgentsKeepIntent, Holds, OneInserts, Inserting, QueriesAreTraced,
       MessagesHaveConversation, StampsAreEarned, AnswersAreGrounded, FoundNothing
<1>10. QED
  BY <1>2, <1>3, <1>4, <1>5, <1>6, <1>7, <1>8, <1>9 DEF Next

\* The invariant holds at the start.
LEMMA InitInv == Init => IInv
<1> SUFFICES ASSUME Init PROVE IInv
  OBVIOUS
<1>1. TypeOK
  BY InitType
<1>2. \A t \in Turns : TurnOK(t)
  BY DEF Init, NewTurn, TurnOK, Unstarted, NothingCommitted, SyncIsAtomic,
         StreamCommits, OpenTransaction, AgentsKeepIntent, Holds, Traced, Placed, Grounded
<1>3. OneInserts /\ StampsAreEarned
  BY DEF Init, NewTurn, OneInserts, Inserting, StampsAreEarned
<1>4. QED
  BY <1>1, <1>2, <1>3, Parts

-----------------------------------------------------------------------------
(* The theorems *)

\* All of what makes the properties inductive holds of every reachable state.
THEOREM ChatInvariant == Spec => []IInv
BY InitInv, NextInv, PTL DEF Spec

\* Every reachable state is well typed.
THEOREM ChatTypes == Spec => []TypeOK
<1>1. IInv => TypeOK
  BY DEF IInv
<1>2. QED
  BY <1>1, ChatInvariant, PTL

\* The answer that a done event announced is stored with its citations, whatever
\* the other turns, failures and deletions do.
THEOREM DoneIsSafe == Spec => []DoneIsDurable
<1>1. IInv => DoneIsDurable
  BY DEF IInv, TypeOK, StreamCommits, DoneIsDurable
<1>2. QED
  BY <1>1, ChatInvariant, PTL

\* No reader of the database sees a part of a synchronous turn, nor citations of a
\* stream without its answer.
THEOREM TurnsStayWhole == Spec => []TurnsAreWhole
<1>1. IInv => TurnsAreWhole
  BY DEF IInv, TypeOK, SyncIsAtomic, StreamCommits, TurnsAreWhole
<1>2. QED
  BY <1>1, ChatInvariant, PTL

\* Answers from the database keep the record of their query (agents/graph.py:78).
THEOREM QueriesTraced == Spec => []QueriesAreTraced
<1>1. IInv => QueriesAreTraced
  BY DEF IInv
<1>2. QED
  BY <1>1, ChatInvariant, PTL

\* No message is without its conversation, though it may be deleted between any two
\* commits of a turn, and two turns may create it at once (api/routes/chat.py:256).
THEOREM MessagesAreHeld == Spec => []MessagesHaveConversation
<1>1. IInv => MessagesHaveConversation
  BY DEF IInv
<1>2. QED
  BY <1>1, ChatInvariant, PTL

\* No time of a conversation is without the turn that earned it
\* (api/routes/chat.py:267).
THEOREM StampsHold == Spec => []StampsAreEarned
<1>1. IInv => StampsAreEarned
  BY DEF IInv
<1>2. QED
  BY <1>1, ChatInvariant, PTL

\* What the agents found reaches the answer.
THEOREM AnswersRestOnData == Spec => []AnswersAreGrounded
<1>1. IInv => AnswersAreGrounded
  BY DEF IInv
<1>2. QED
  BY <1>1, ChatInvariant, PTL

\* The step of a turn does not take back an answer.
Stays(t) ==
  messages[t] = "completed" =>
    messages'[t] = "completed" /\ citations[t] \subseteq citations'[t]

\* A turn's own step does not, whichever it is.
LEMMA OwnStays ==
  ASSUME TypeOK, NEW t \in Turns, TurnOK(t), TurnStep(t)
  PROVE  Stays(t)
<1>1. CASE UNCHANGED rows
  BY <1>1 DEF rows, Stays
<1>2. CASE Prepare(t) /\ ~Fails(t)
  BY <1>2 DEF Prepare, Stays, TurnOK, Unstarted, NothingCommitted
<1>3. CASE Commit(t)
  BY <1>3 DEF Commit, Stays, TurnOK, SyncIsAtomic, StreamCommits, NothingCommitted
<1>4. CASE WriteAnswer(t) /\ ~Fails(t)
  BY <1>4 DEF WriteAnswer, Stays, TypeOK
<1>5. CASE StampConversation(t) /\ ~Fails(t)
  BY <1>5 DEF StampConversation, Stays
<1>6. CASE Cite(t) /\ ~Fails(t)
  <2>1. turn[t].phase = "stamped" /\ messages' = messages
    BY <1>6 DEF Cite
  <2>2. citations[t] = {}
    BY <2>1 DEF TurnOK, SyncIsAtomic, StreamCommits
  <2>3. QED
    BY <2>1, <2>2 DEF Stays
<1>7. QED
  BY <1>1, <1>2, <1>3, <1>4, <1>5, <1>6
     DEF TurnStep, Classify, ExecuteQuery, FindEvidence, AgentStops, Synthesize, Flush,
         Respond, SendDone, Prepare, WriteAnswer, StampConversation, Cite, Fails

\* A committed answer is only lost with its conversation.
THEOREM AnswersAreKept == Spec => AnswersStay
<1> DEFINE AnswerKept(t) ==
             messages[t] = "completed" =>
               \/ messages'[t] = "completed" /\ citations[t] \subseteq citations'[t]
               \/ turn[t].conv \in conversations \ conversations'
           Step == \A t \in Turns : AnswerKept(t)
<1>1. IInv /\ [Next]_vars => [Step]_vars
  <2> SUFFICES ASSUME IInv, Next, NEW u \in Turns PROVE AnswerKept(u)
    OBVIOUS
  <2>1. TypeOK /\ \A t \in Turns : TurnOK(t)
    BY Parts
  <2>2. ASSUME NEW t \in Turns, OnlyOf(t), Stays(t) PROVE AnswerKept(u)
    BY <2>2 DEF OnlyOf, Stays
  <2>3. CASE UNCHANGED <<messages, citations>>
    BY <2>3
  <2>4. ASSUME NEW t \in Turns, TurnStep(t) PROVE AnswerKept(u)
    <3>1. Stays(t)
      BY <2>1, <2>4, OwnStays
    <3>2. CASE UNCHANGED <<messages, citations>>
      BY <3>2
    <3>3. CASE Prepare(t) \/ Commit(t) \/ WriteAnswer(t) \/ StampConversation(t) \/ Cite(t)
      BY <2>1, <2>2, <3>1, <3>3, PrepareType, CommitType, WriteAnswerType, StampType, CiteType
    <3>4. QED
      BY <2>4, <3>2, <3>3
         DEF TurnStep, Classify, ExecuteQuery, FindEvidence, AgentStops, Synthesize, Flush,
             Respond, SendDone, Fails, rows
  <2>5. ASSUME NEW c \in Conversations, DeleteConversation(c) PROVE AnswerKept(u)
    BY <2>5 DEF DeleteConversation
  <2>6. QED
    BY <2>3, <2>4, <2>5
       DEF Next, SelectConversation, SessionBreaks, TurnFails, Fails, StreamRaises,
           Disconnect, EndsEarly, CreateConversation, rows
<1>2. QED
  BY <1>1, ChatInvariant, PTL DEF Spec, AnswersStay

-----------------------------------------------------------------------------
(* The refinement: turns as the conversation ledger sees them *)

\* What the ledger sees of a step of turn t, and of t alone.
LEMMA SeenOf ==
  ASSUME TypeOK, NEW t \in Turns, OnlyOf(t)
  PROVE  /\ Homes' = [Homes EXCEPT ![t] = turn'[t].conv]
         /\ Beginning' = IF turn'[t].creates THEN Beginning \cup {t} ELSE Beginning \ {t}
         /\ StageOf' = [StageOf EXCEPT ![t] = Stage(t)']
         /\ SourcesOf' = [SourcesOf EXCEPT ![t] = RestsOn(t)']
<1>1. ASSUME NEW u \in Turns \ {t}
      PROVE  turn'[u] = turn[u] /\ Stage(u)' = Stage(u) /\ RestsOn(u)' = RestsOn(u)
  BY DEF OnlyOf, Stage, RestsOn
<1>2. Homes' = [Homes EXCEPT ![t] = turn'[t].conv]
  BY <1>1 DEF Homes
<1>3. Beginning' = IF turn'[t].creates THEN Beginning \cup {t} ELSE Beginning \ {t}
  BY <1>1 DEF Beginning
<1>4. StageOf' = [StageOf EXCEPT ![t] = Stage(t)']
  BY <1>1 DEF StageOf
<1>5. SourcesOf' = [SourcesOf EXCEPT ![t] = RestsOn(t)']
  BY <1>1 DEF SourcesOf
<1> QED BY <1>2, <1>3, <1>4, <1>5

\* What a turn does before it commits anything, the ledger does not see.
LEMMA Unseen ==
  ASSUME TypeOK, NEW t \in Turns, OnlyOf(t), UNCHANGED rows,
         turn'[t].conv = turn[t].conv, turn'[t].creates = turn[t].creates,
         Stage(t)' = Stage(t), RestsOn(t)' = RestsOn(t)
  PROVE  UNCHANGED Ledger!vars
<1>1. turn[t].creates \in BOOLEAN
  BY DEF TypeOK, Turn
<1>2. Homes' = Homes
  BY SeenOf DEF Homes
<1>3. Beginning' = Beginning
  BY SeenOf, <1>1 DEF Beginning
<1>4. StageOf' = StageOf
  BY SeenOf DEF StageOf
<1>5. SourcesOf' = SourcesOf
  BY SeenOf DEF SourcesOf
<1> QED BY <1>2, <1>3, <1>4, <1>5 DEF Ledger!vars, rows

\* A turn that ends without an answer, or after a part of its commits, gives up.
LEMMA GivesUp ==
  ASSUME TypeOK, NEW t \in Turns, OnlyOf(t), turn[t].phase \notin {"idle", "done", "failed", "gone"},
         turn'[t].phase \in {"failed", "gone"}, turn'[t].conv = turn[t].conv,
         ~turn'[t].creates,
         UNCHANGED <<conversations, messages, citations, stamp>>,
         \/ UNCHANGED executions
         \/ Stage(t) = "asked" /\ executions' = executions \cup {t}
  PROVE  Ledger!GiveUp(t)
<1>1. turn[t].conv # Nobody /\ turn[t] \in Turn
  BY DEF TypeOK
<1>2. Stage(t) \notin {"told", "given up"}
  BY <1>1 DEF Stage, Turn
<1>3. Stage(t)' = "given up"
  BY DEF Stage
<1>4. RestsOn(t)' = {}
  BY <1>3 DEF RestsOn
<1>5. Homes[t] # Nobody /\ StageOf[t] = Stage(t)
  BY <1>1 DEF Homes, StageOf
<1>6. Homes' = Homes
  BY SeenOf DEF Homes
<1> QED BY SeenOf, <1>2, <1>3, <1>4, <1>5, <1>6 DEF Ledger!GiveUp

\* A request that fails gives up.
LEMMA FailsGivesUp ==
  ASSUME TypeOK, NEW t \in Turns, Fails(t), turn[t].phase \notin {"idle", "done", "failed", "gone"}
  PROVE  Ledger!GiveUp(t)
<1>1. OnlyOf(t) /\ turn'[t] = Over(t, "failed", turn[t].answered)
  BY FailsType
<1>2. /\ turn'[t].phase = "failed" /\ turn'[t].conv = turn[t].conv /\ ~turn'[t].creates
  BY <1>1 DEF Over, NewTurn
<1> QED BY <1>1, <1>2, GivesUp DEF Fails, rows

\* So does a stream that is abandoned, and whose session still commits.
LEMMA EndsEarlyGivesUp ==
  ASSUME TypeOK, NEW t \in Turns, TurnOK(t), turn[t].stream,
         turn[t].phase \in {"working", "cited"},
         NEW phase \in {"failed", "gone"}, EndsEarly(t, phase)
  PROVE  Ledger!GiveUp(t)
<1>1. OnlyOf(t) /\ turn'[t] = Over(t, phase, FALSE)
  BY EndsEarlyType
<1>2. /\ turn'[t].phase = phase /\ turn'[t].conv = turn[t].conv /\ ~turn'[t].creates
  BY <1>1 DEF Over, NewTurn
<1>3. CASE turn[t].phase = "working"
  <2>1. Stage(t) = "asked"
    BY <1>3 DEF Stage
  <2> QED BY <1>1, <1>2, <1>3, <2>1, GivesUp DEF EndsEarly
<1>4. CASE turn[t].phase = "cited"
  <2>1. ~turn[t].ran
    BY <1>4 DEF TurnOK, OpenTransaction
  <2> QED BY <1>1, <1>2, <1>4, <2>1, GivesUp DEF EndsEarly
<1> QED BY <1>3, <1>4

\* A question is addressed when its conversation is looked up.
LEMMA SelectAddresses ==
  ASSUME TypeOK, NEW t \in Turns, TurnOK(t), NEW c \in Conversations, NEW stream \in BOOLEAN,
         SelectConversation(t, c, stream)
  PROVE  Ledger!Address(t, c)
<1>1. OnlyOf(t) /\ turn[t] \in Turn /\ turn \in [Turns -> Turn]
  BY SelectType DEF TypeOK
<1>2. /\ turn[t].phase = "idle" /\ turn'[t].phase = "selected"
      /\ turn'[t].conv = c /\ turn'[t].creates = (c \notin conversations)
  BY <1>1 DEF SelectConversation, Turn
<1>3. turn[t].conv = Nobody /\ ~turn[t].creates
  BY <1>2 DEF TurnOK, Unstarted, OpenTransaction
<1>4. Stage(t) = "new" /\ Stage(t)' = "new" /\ RestsOn(t) = {} /\ RestsOn(t)' = {}
  BY <1>2 DEF Stage, RestsOn
<1>5. StageOf' = StageOf /\ SourcesOf' = SourcesOf /\ StageOf[t] = "new"
  BY <1>1, <1>4, SeenOf DEF StageOf, SourcesOf
<1>6. Homes[t] = Nobody /\ t \notin Beginning
  BY <1>3 DEF Homes, Beginning
<1>7. Homes' = [Homes EXCEPT ![t] = c]
  BY <1>1, <1>2, SeenOf
<1>8. Beginning' = IF c \in conversations THEN Beginning ELSE Beginning \cup {t}
  <2>1. Beginning' = IF turn'[t].creates THEN Beginning \cup {t} ELSE Beginning \ {t}
    BY <1>1, SeenOf
  <2>2. Beginning \ {t} = Beginning
    BY <1>6
  <2> QED BY <1>2, <2>1, <2>2
<1>9. UNCHANGED <<conversations, messages, citations, executions, stamp>>
  BY DEF SelectConversation, rows
<1> QED BY <1>5, <1>6, <1>7, <1>8, <1>9 DEF Ledger!Address

\* Until a stream has its answer, and until a synchronous turn commits, the ledger
\* sees the same.
LEMMA WorkIsUnseen ==
  ASSUME TypeOK, NEW t \in Turns, OnlyOf(t), UNCHANGED rows,
         turn'[t].conv = turn[t].conv, turn'[t].creates = turn[t].creates,
         turn'[t].stream = turn[t].stream,
         \/ /\ turn[t].stream
            /\ turn[t].phase \in {"prepared", "working", "synthesized"}
            /\ turn'[t].phase \in {"prepared", "working", "synthesized"}
         \/ /\ ~turn[t].stream
            /\ turn[t].phase \in {"selected", "prepared", "working", "synthesized", "flushed"}
            /\ turn'[t].phase \in {"selected", "prepared", "working", "synthesized", "flushed"}
  PROVE  UNCHANGED Ledger!vars
<1>1. Stage(t) \in {"asked", "new"} /\ Stage(t)' = Stage(t)
  BY DEF Stage
<1>2. RestsOn(t) = {} /\ RestsOn(t)' = {}
  BY <1>1 DEF RestsOn
<1> QED BY <1>1, <1>2, Unseen

\* A stream asks when it commits its empty answer; a synchronous turn not yet.
LEMMA PrepareAsks ==
  ASSUME TypeOK, NEW t \in Turns, TurnOK(t), Prepare(t)
  PROVE  Ledger!GiveUp(t) \/ Ledger!Ask(t) \/ UNCHANGED Ledger!vars
<1>1. CASE Fails(t)
  BY <1>1, FailsGivesUp DEF Prepare
<1>2. CASE ~Fails(t)
  <2>1. OnlyOf(t) /\ turn[t] \in Turn /\ turn \in [Turns -> Turn]
    BY PrepareType DEF TypeOK
  <2>2. /\ turn'[t].phase = "prepared" /\ turn'[t].stream = turn[t].stream
        /\ turn'[t].conv = turn[t].conv /\ turn[t].phase = "selected"
        /\ turn'[t].creates = (turn[t].creates /\ ~turn[t].stream)
        /\ UNCHANGED <<citations, executions, stamp>>
    BY <2>1, <1>2 DEF Turn, Prepare
  <2>3. CASE ~turn[t].stream
    <3>1. UNCHANGED rows
      BY <1>2, <2>3 DEF Prepare, rows
    <3>2. turn'[t].creates = turn[t].creates
      BY <2>1, <2>2, <2>3 DEF Turn
    <3>3. UNCHANGED Ledger!vars
      BY <2>1, <2>2, <2>3, <3>1, <3>2, WorkIsUnseen
    <3> QED BY <3>3
  <2>4. CASE turn[t].stream
    <3>1. /\ conversations' = conversations \cup {turn[t].conv}
          /\ messages' = [messages EXCEPT ![t] = "processing"]
          /\ turn[t].creates # (turn[t].conv \in conversations)
      BY <1>2, <2>4 DEF Prepare
    <3>2. turn[t].conv # Nobody /\ turn[t].creates \in BOOLEAN
      BY <2>1, <2>2 DEF TypeOK, Turn
    <3>3. Stage(t) = "new" /\ Stage(t)' = "asked" /\ RestsOn(t) = {} /\ RestsOn(t)' = {}
      BY <2>2, <2>4 DEF Stage, RestsOn
    <3>4. /\ StageOf[t] = "new" /\ StageOf' = [StageOf EXCEPT ![t] = "asked"]
          /\ SourcesOf' = SourcesOf
      BY <2>1, <3>3, SeenOf DEF StageOf, SourcesOf
    <3>5. Homes' = Homes /\ Homes[t] = turn[t].conv
      BY <2>1, <2>2, SeenOf DEF Homes
    <3>6. Beginning' = Beginning \ {t} /\ (t \in Beginning <=> turn[t].creates)
      BY <2>1, <2>2, <2>4, SeenOf DEF Beginning
    <3>7. Ledger!Opens(t)
      BY <3>1, <3>2, <3>5, <3>6 DEF Ledger!Opens
    <3> QED BY <2>2, <3>1, <3>4, <3>5, <3>7 DEF Ledger!Ask
  <2> QED BY <2>3, <2>4
<1> QED BY <1>1, <1>2

\* The classification is not seen, unless it fails.
LEMMA ClassifyUnseen ==
  ASSUME TypeOK, NEW t \in Turns, NEW intent \in Intents, Classify(t, intent)
  PROVE  Ledger!GiveUp(t) \/ UNCHANGED Ledger!vars
<1>1. CASE Fails(t)
  BY <1>1, FailsGivesUp DEF Classify
<1>2. CASE ~Fails(t)
  <2>1. OnlyOf(t) /\ turn[t] \in Turn /\ turn \in [Turns -> Turn]
    BY ClassifyType DEF TypeOK
  <2>2. /\ turn'[t].phase = "working" /\ turn'[t].stream = turn[t].stream
        /\ turn'[t].conv = turn[t].conv /\ turn[t].phase = "prepared"
        /\ turn'[t].creates = turn[t].creates /\ UNCHANGED rows
    BY <2>1, <1>2 DEF Turn, Classify
  <2>3. turn[t].stream \in BOOLEAN
    BY <2>1 DEF Turn
  <2>4. UNCHANGED Ledger!vars
    BY <2>1, <2>2, <2>3, WorkIsUnseen
  <2> QED BY <2>4
<1> QED BY <1>1, <1>2

\* Nor are the agents.
LEMMA AgentsUnseen ==
  ASSUME TypeOK, NEW t \in Turns,
         \/ \E succeeds, some \in BOOLEAN : ExecuteQuery(t, succeeds, some)
         \/ FindEvidence(t)
         \/ \E a \in Agents, error \in BOOLEAN : AgentStops(t, a, error)
         \/ \E a \in Agents : SessionBreaks(t, a)
  PROVE  UNCHANGED Ledger!vars
<1>1. OnlyOf(t)
  BY ExecuteType, EvidenceType, AgentStopsType, BreaksType
<1>2. turn[t] \in Turn /\ turn \in [Turns -> Turn]
  BY DEF TypeOK
<1> DEFINE Works ==
             /\ turn[t].phase = "working" /\ turn'[t].phase = "working"
             /\ turn'[t].stream = turn[t].stream /\ turn'[t].conv = turn[t].conv
             /\ turn'[t].creates = turn[t].creates /\ UNCHANGED rows
<1>3. Works
  <2>1. ASSUME NEW succeeds \in BOOLEAN, NEW some \in BOOLEAN, ExecuteQuery(t, succeeds, some)
        PROVE  Works
    <3>1. turn[t].phase = "working" /\ UNCHANGED rows
      BY <2>1 DEF ExecuteQuery, AgentEnds
    <3>2. CASE HasMessage(t)
      <4> DEFINE left == turn[t].agents \ {"database"}
                 found == turn[t].sources \cup (IF succeeds THEN {"database"} ELSE {})
                 error == turn[t].error \/ ~succeeds
                 rows_ == succeeds /\ some
      <4>1. turn' = [turn EXCEPT ![t] = [turn[t] EXCEPT !.agents = left, !.ran = TRUE,
                       !.error = error, !.rows = rows_, !.sources = found]]
        BY <1>2, <2>1, <3>2 DEF ExecuteQuery
      <4> HIDE DEF left, found, error, rows_
      <4> QED BY <1>2, <3>1, <4>1 DEF Turn
    <3>3. CASE ~HasMessage(t)
      BY <1>2, <2>1, <3>1, <3>3 DEF Turn, ExecuteQuery
    <3> QED BY <3>2, <3>3
  <2>2. ASSUME FindEvidence(t) PROVE Works
    BY <1>2, <2>2 DEF Turn, FindEvidence, AgentEnds
  <2>3. ASSUME NEW a \in Agents, NEW error \in BOOLEAN, AgentStops(t, a, error) PROVE Works
    BY <1>2, <2>3 DEF Turn, AgentStops, AgentEnds
  <2>4. ASSUME NEW a \in Agents, SessionBreaks(t, a) PROVE Works
    BY <1>2, <2>4 DEF Turn, SessionBreaks, AgentEnds
  <2> QED BY <2>1, <2>2, <2>3, <2>4
<1> QED BY <1>1, <1>2, <1>3, WorkIsUnseen DEF Turn

\* Nor is the making of the answer.
LEMMA SynthesizeUnseen ==
  ASSUME TypeOK, NEW t \in Turns, NEW model \in Replies, Synthesize(t, model)
  PROVE  UNCHANGED Ledger!vars
<1>1. OnlyOf(t) /\ turn[t] \in Turn /\ turn \in [Turns -> Turn]
  BY SynthesizeType DEF TypeOK
<1>2. /\ turn'[t].phase = "synthesized" /\ turn'[t].stream = turn[t].stream
      /\ turn'[t].conv = turn[t].conv /\ turn[t].phase = "working"
      /\ turn'[t].creates = turn[t].creates /\ UNCHANGED rows
  BY <1>1 DEF Turn, Synthesize
<1> QED BY <1>1, <1>2, WorkIsUnseen DEF Turn

\* What a synchronous turn flushes is not seen before its commit, unless it fails,
\* nor is the response that precedes it.
LEMMA FlushUnseen ==
  ASSUME TypeOK, NEW t \in Turns, TurnOK(t), Flush(t) \/ Respond(t)
  PROVE  Ledger!GiveUp(t) \/ UNCHANGED Ledger!vars
<1>1. CASE Fails(t) /\ Flush(t)
  BY <1>1, FailsGivesUp DEF Flush
<1>2. CASE Flush(t) /\ ~Fails(t)
  <2>1. OnlyOf(t) /\ turn \in [Turns -> Turn]
    BY <1>2, FlushType DEF TypeOK
  <2>2. /\ turn'[t].phase = "flushed" /\ turn'[t].stream = turn[t].stream
        /\ turn'[t].conv = turn[t].conv /\ turn[t].phase = "synthesized"
        /\ turn'[t].creates = turn[t].creates /\ UNCHANGED rows /\ ~turn[t].stream
    <3>1. /\ turn'[t] = [Over(t, "flushed", FALSE) EXCEPT
                           !.creates = turn[t].creates, !.ran = turn[t].ran]
          /\ UNCHANGED rows /\ ~turn[t].stream /\ turn[t].phase = "synthesized"
      BY <2>1, <1>2 DEF Flush
    <3> QED BY <3>1 DEF Over, NewTurn
  <2> QED BY <2>1, <2>2, WorkIsUnseen
<1>3. CASE Respond(t)
  <2>1. OnlyOf(t) /\ turn[t] \in Turn /\ turn \in [Turns -> Turn]
    BY <1>3, RespondType DEF TypeOK
  <2>2. /\ turn'[t].phase = "flushed" /\ turn'[t].stream = turn[t].stream
        /\ turn'[t].conv = turn[t].conv /\ turn[t].phase = "flushed"
        /\ turn'[t].creates = turn[t].creates /\ UNCHANGED rows
    BY <2>1, <1>3 DEF Respond, Turn
  <2>3. ~turn[t].stream
    BY <2>2 DEF TurnOK, StreamCommits
  <2> QED BY <2>1, <2>2, <2>3, WorkIsUnseen
<1> QED BY <1>1, <1>2, <1>3

\* The ledger's begins and home of a turn that keeps its own.
LEMMA AddressStands ==
  ASSUME TypeOK, NEW t \in Turns, OnlyOf(t), turn'[t].conv = turn[t].conv,
         ~turn[t].creates, ~turn'[t].creates
  PROVE  Homes' = Homes /\ Beginning' = Beginning
BY SeenOf DEF Homes, Beginning

\* The commit of a synchronous turn publishes its answer with everything that
\* belongs to it, in a conversation that exists or that it is the only one to begin.
LEMMA CommitPublishes ==
  ASSUME TypeOK, NEW t \in Turns, TurnOK(t), OneInserts, Commit(t)
  PROVE  Ledger!Publish(t, turn[t].sources)
<1>1. OnlyOf(t) /\ turn[t] \in Turn /\ turn \in [Turns -> Turn]
  BY CommitType DEF TypeOK
<1>2. turn[t].phase = "flushed" /\ turn'[t] = Over(t, "done", TRUE)
  BY <1>1 DEF Commit
<1>3. ~turn[t].stream /\ turn[t].conv # Nobody /\ turn[t].conv \in Conversations
  BY <1>1, <1>2 DEF TurnOK, StreamCommits, TypeOK, Turn
<1>4. /\ turn'[t].phase = "done" /\ turn'[t].stream = turn[t].stream
      /\ turn'[t].conv = turn[t].conv /\ turn'[t].sources = turn[t].sources
      /\ ~turn'[t].creates
  BY <1>2 DEF Over, NewTurn
<1>5. Stage(t) = "new" /\ Stage(t)' = "told" /\ RestsOn(t)' = turn[t].sources
  BY <1>2, <1>3, <1>4 DEF Stage, RestsOn
<1>6. /\ StageOf[t] = "new" /\ StageOf' = [StageOf EXCEPT ![t] = "told"]
      /\ SourcesOf' = [SourcesOf EXCEPT ![t] = turn[t].sources]
  BY <1>1, <1>5, SeenOf DEF StageOf
<1>7. Homes' = Homes /\ Homes[t] = turn[t].conv
  BY <1>1, <1>4, SeenOf DEF Homes
<1>8. Beginning' = Beginning \ {t} /\ (t \in Beginning <=> turn[t].creates)
  BY <1>1, <1>4, SeenOf DEF Beginning
<1>9. turn[t].creates <=> turn[t].conv \notin conversations
  <2>1. CASE turn[t].creates
    BY <1>2, <2>1 DEF OneInserts, Inserting
  <2>2. CASE ~turn[t].creates
    BY <1>2, <1>3, <2>2 DEF TurnOK, OpenTransaction, Holds
  <2> QED BY <2>1, <2>2
<1>10. Ledger!Opens(t)
  <2>1. conversations' = conversations \cup {turn[t].conv}
    BY <1>9 DEF Commit
  <2> QED BY <1>3, <1>7, <1>8, <1>9, <2>1 DEF Ledger!Opens
<1>11. Ledger!Records(t, turn[t].sources)
  BY <1>2 DEF Ledger!Records, Commit, TurnOK, OpenTransaction
<1> QED BY <1>6, <1>7, <1>10, <1>11 DEF Ledger!Publish, Commit

\* The second commit of a stream answers, with the record of the query.
LEMMA WriteAnswers ==
  ASSUME TypeOK, NEW t \in Turns, TurnOK(t), WriteAnswer(t)
  PROVE  Ledger!GiveUp(t) \/ Ledger!Answer(t, turn[t].sources)
<1>1. CASE Fails(t)
  BY <1>1, FailsGivesUp DEF WriteAnswer
<1>2. CASE ~Fails(t)
  <2>1. OnlyOf(t) /\ turn \in [Turns -> Turn] /\ messages[t] \in MessageStatuses
    BY WriteAnswerType DEF TypeOK
  <2>2. /\ turn[t].phase = "synthesized" /\ turn[t].stream /\ HasMessage(t)
        /\ turn'[t] = Over(t, "completed", FALSE)
        /\ messages' = [messages EXCEPT ![t] = "completed"]
        /\ executions' = IF turn[t].ran THEN executions \cup {t} ELSE executions
        /\ UNCHANGED <<conversations, citations, stamp>>
    BY <1>2, <2>1 DEF WriteAnswer
  <2>3. messages[t] = "processing" /\ ~turn[t].creates
    BY <2>1, <2>2 DEF HasMessage, TurnOK, StreamCommits, OpenTransaction
  <2>4. /\ turn'[t].phase = "completed" /\ turn'[t].conv = turn[t].conv
        /\ turn'[t].sources = turn[t].sources /\ ~turn'[t].creates
    BY <2>2 DEF Over, NewTurn
  <2>5. Stage(t) = "asked" /\ Stage(t)' = "answered" /\ RestsOn(t)' = turn[t].sources
    BY <2>2, <2>4 DEF Stage, RestsOn
  <2>6. /\ StageOf[t] = "asked" /\ StageOf' = [StageOf EXCEPT ![t] = "answered"]
        /\ SourcesOf' = [SourcesOf EXCEPT ![t] = turn[t].sources]
    BY <2>1, <2>5, SeenOf DEF StageOf
  <2>7. Homes' = Homes /\ Beginning' = Beginning
    BY <2>1, <2>3, <2>4, AddressStands
  <2>8. Ledger!Records(t, turn[t].sources)
    BY <2>2 DEF Ledger!Records, TurnOK, OpenTransaction
  <2> QED BY <2>2, <2>3, <2>6, <2>7, <2>8 DEF Ledger!Answer
<1> QED BY <1>1, <1>2

\* The third dates the conversation, if it is still there.
LEMMA StampDates ==
  ASSUME TypeOK, NEW t \in Turns, TurnOK(t), StampConversation(t)
  PROVE  Ledger!GiveUp(t) \/ Ledger!Date(t)
<1>1. CASE Fails(t)
  BY <1>1, FailsGivesUp DEF StampConversation
<1>2. CASE ~Fails(t)
  <2>1. OnlyOf(t) /\ turn[t] \in Turn /\ turn \in [Turns -> Turn]
    BY StampType DEF TypeOK
  <2>2. /\ turn[t].phase = "completed" /\ turn[t].conv \in conversations
        /\ turn'[t] = [turn[t] EXCEPT !.phase = "stamped"]
        /\ stamp' = [stamp EXCEPT ![turn[t].conv] = t]
        /\ UNCHANGED <<conversations, messages, citations, executions>>
    BY <1>2, <2>1 DEF StampConversation
  <2>3. ~turn[t].creates
    BY <2>2 DEF TurnOK, OpenTransaction
  <2>4. /\ turn'[t].phase = "stamped" /\ turn'[t].conv = turn[t].conv
        /\ turn'[t].sources = turn[t].sources /\ ~turn'[t].creates
    BY <2>1, <2>2, <2>3 DEF Turn
  <2>5. Stage(t) = "answered" /\ Stage(t)' = "dated" /\ RestsOn(t)' = RestsOn(t)
    BY <2>2, <2>4 DEF Stage, RestsOn
  <2>6. /\ StageOf[t] = "answered" /\ StageOf' = [StageOf EXCEPT ![t] = "dated"]
        /\ SourcesOf' = SourcesOf
    BY <2>1, <2>5, SeenOf DEF StageOf, SourcesOf
  <2>7. Homes' = Homes /\ Beginning' = Beginning /\ Homes[t] = turn[t].conv
    BY <2>1, <2>3, <2>4, AddressStands DEF Homes
  <2> QED BY <2>2, <2>6, <2>7 DEF Ledger!Date
<1> QED BY <1>1, <1>2

\* The fourth cites, if the answer is still there.
LEMMA CiteCites ==
  ASSUME TypeOK, NEW t \in Turns, TurnOK(t), Cite(t)
  PROVE  Ledger!GiveUp(t) \/ Ledger!Cite(t)
<1>1. CASE Fails(t)
  BY <1>1, FailsGivesUp DEF Cite
<1>2. CASE ~Fails(t)
  <2>1. /\ OnlyOf(t) /\ turn[t] \in Turn /\ turn \in [Turns -> Turn]
        /\ messages[t] \in MessageStatuses
    BY CiteType DEF TypeOK
  <2>2. /\ turn[t].phase = "stamped" /\ (turn[t].sources = {} \/ HasMessage(t))
        /\ turn'[t] = [turn[t] EXCEPT !.phase = "cited"]
        /\ citations' = [citations EXCEPT ![t] = turn[t].sources]
        /\ UNCHANGED <<conversations, messages, executions, stamp>>
    BY <1>2, <2>1 DEF Cite
  <2>3. turn[t].stream /\ ~turn[t].creates /\ messages[t] \in {"none", "completed"}
    BY <2>1, <2>2 DEF TurnOK, SyncIsAtomic, StreamCommits, OpenTransaction, Turn
  <2>4. /\ turn'[t].phase = "cited" /\ turn'[t].conv = turn[t].conv
        /\ turn'[t].sources = turn[t].sources /\ ~turn'[t].creates
    BY <2>1, <2>2, <2>3 DEF Turn
  <2>5. /\ Stage(t) = "dated" /\ Stage(t)' = "cited"
        /\ RestsOn(t) = turn[t].sources /\ RestsOn(t)' = RestsOn(t)
    BY <2>2, <2>4 DEF Stage, RestsOn
  <2>6. /\ StageOf[t] = "dated" /\ StageOf' = [StageOf EXCEPT ![t] = "cited"]
        /\ SourcesOf' = SourcesOf /\ SourcesOf[t] = turn[t].sources
    BY <2>1, <2>5, SeenOf DEF StageOf, SourcesOf
  <2>7. Homes' = Homes /\ Beginning' = Beginning
    BY <2>1, <2>3, <2>4, AddressStands
  <2>8. messages[t] = "completed" \/ turn[t].sources = {}
    BY <2>1, <2>2, <2>3 DEF HasMessage
  <2> QED BY <2>2, <2>6, <2>7, <2>8 DEF Ledger!Cite
<1> QED BY <1>1, <1>2

\* The done event tells.
LEMMA SendDoneTells ==
  ASSUME TypeOK, NEW t \in Turns, TurnOK(t), SendDone(t)
  PROVE  Ledger!Tell(t)
<1>1. OnlyOf(t) /\ turn[t] \in Turn /\ turn \in [Turns -> Turn]
  BY SendDoneType DEF TypeOK
<1>2. turn[t].phase = "cited" /\ turn'[t] = Over(t, "done", TRUE) /\ UNCHANGED rows
  BY <1>1 DEF SendDone
<1>3. ~turn[t].creates
  BY <1>2 DEF TurnOK, OpenTransaction
<1>4. /\ turn'[t].phase = "done" /\ turn'[t].conv = turn[t].conv
      /\ turn'[t].sources = turn[t].sources /\ ~turn'[t].creates
  BY <1>2 DEF Over, NewTurn
<1>5. Stage(t) = "cited" /\ Stage(t)' = "told" /\ RestsOn(t)' = RestsOn(t)
  BY <1>2, <1>4 DEF Stage, RestsOn
<1>6. /\ StageOf[t] = "cited" /\ StageOf' = [StageOf EXCEPT ![t] = "told"]
      /\ SourcesOf' = SourcesOf
  BY <1>1, <1>5, SeenOf DEF StageOf, SourcesOf
<1>7. Homes' = Homes /\ Beginning' = Beginning
  BY <1>1, <1>3, <1>4, AddressStands
<1> QED BY <1>2, <1>6, <1>7 DEF Ledger!Tell, rows

\* Conversations come and go as in the ledger.
LEMMA ConversationsAlike ==
  ASSUME TypeOK, NEW c \in Conversations
  PROVE  /\ CreateConversation(c) => Ledger!Open(c)
         /\ DeleteConversation(c) => Ledger!Delete(c)
<1>1. \A t \in Turns : Homes[t] = turn[t].conv
  BY DEF Homes
<1>2. ASSUME UNCHANGED turn PROVE UNCHANGED <<Homes, Beginning, StageOf, SourcesOf>>
  BY <1>2 DEF Homes, Beginning, StageOf, SourcesOf, Stage, RestsOn
<1>3. ASSUME CreateConversation(c) PROVE Ledger!Open(c)
  BY <1>1, <1>2, <1>3 DEF CreateConversation, Ledger!Open
<1>4. ASSUME DeleteConversation(c) PROVE Ledger!Delete(c)
  BY <1>1, <1>2, <1>4 DEF DeleteConversation, Ledger!Delete
<1> QED BY <1>3, <1>4

\* The initial state is one of the ledger.
LEMMA InitLedger == Init => Ledger!Init
<1> SUFFICES ASSUME Init PROVE Ledger!Init
  OBVIOUS
<1>1. \A t \in Turns : turn[t] = NewTurn /\ NewTurn.phase = "idle" /\ NewTurn.conv = Nobody
                       /\ NewTurn.creates = FALSE
  BY DEF Init, NewTurn
<1>2. \A t \in Turns : Stage(t) = "new" /\ RestsOn(t) = {}
  BY <1>1 DEF Stage, RestsOn
<1> QED BY <1>1, <1>2 DEF Init, Ledger!Init, Homes, Beginning, StageOf, SourcesOf

\* A turn's own step is a step of the ledger, or one that it does not see.
LEMMA TurnStepLedger ==
  ASSUME IInv, NEW t \in Turns, TurnStep(t)
  PROVE  [Ledger!Next]_(Ledger!vars)
<1>1. TypeOK /\ OneInserts /\ TurnOK(t)
  BY Parts
<1>2. turn[t].sources \in SUBSET Agents
  BY <1>1 DEF TypeOK, Turn
<1>3. CASE Prepare(t)
  BY <1>1, <1>3, PrepareAsks DEF Ledger!Next
<1>4. ASSUME NEW hasDb \in BOOLEAN, NEW hasDoc \in BOOLEAN,
             NEW intent \in MayClassify(hasDb, hasDoc), Classify(t, intent)
      PROVE  [Ledger!Next]_(Ledger!vars)
  BY <1>1, <1>4, Inputs, ClassifyUnseen DEF Ledger!Next
<1>5. CASE \/ \E succeeds, some \in BOOLEAN : ExecuteQuery(t, succeeds, some)
           \/ FindEvidence(t)
           \/ \E a \in Agents, error \in BOOLEAN : AgentStops(t, a, error)
  <2>1. UNCHANGED Ledger!vars
    BY <1>1, <1>5, AgentsUnseen
  <2> QED BY <2>1
<1>6. ASSUME NEW model \in Replies, Synthesize(t, model) PROVE [Ledger!Next]_(Ledger!vars)
  <2>1. UNCHANGED Ledger!vars
    BY <1>1, <1>6, SynthesizeUnseen
  <2> QED BY <2>1
<1>7. CASE Flush(t) \/ Respond(t)
  BY <1>1, <1>7, FlushUnseen DEF Ledger!Next
<1>8. CASE Commit(t)
  BY <1>1, <1>2, <1>8, CommitPublishes DEF Ledger!Next
<1>9. CASE WriteAnswer(t)
  BY <1>1, <1>2, <1>9, WriteAnswers DEF Ledger!Next
<1>10. CASE StampConversation(t)
  BY <1>1, <1>10, StampDates DEF Ledger!Next
<1>11. CASE Cite(t)
  BY <1>1, <1>11, CiteCites DEF Ledger!Next
<1>12. CASE SendDone(t)
  BY <1>1, <1>12, SendDoneTells DEF Ledger!Next
<1> QED BY <1>3, <1>4, <1>5, <1>6, <1>7, <1>8, <1>9, <1>10, <1>11, <1>12 DEF TurnStep

\* Every step is a step of the ledger, or one that it does not see.
LEMMA NextLedger == IInv /\ [Next]_vars => [Ledger!Next]_(Ledger!vars)
<1> SUFFICES ASSUME IInv, [Next]_vars PROVE [Ledger!Next]_(Ledger!vars)
  OBVIOUS
<1>1. TypeOK /\ OneInserts /\ \A t \in Turns : TurnOK(t)
  BY Parts
<1>2. ASSUME NEW t \in Turns, NEW c \in Conversations, NEW stream \in BOOLEAN,
             SelectConversation(t, c, stream)
      PROVE  Ledger!Next
  BY <1>1, <1>2, SelectAddresses DEF Ledger!Next
<1>3. ASSUME NEW t \in Turns, NEW a \in Agents, SessionBreaks(t, a)
      PROVE  UNCHANGED Ledger!vars
  BY <1>1, <1>3, AgentsUnseen
<1>4. ASSUME NEW t \in Turns, TurnFails(t) PROVE Ledger!Next
  BY <1>1, <1>4, FailsGivesUp DEF Ledger!Next, TurnFails, Ended
<1>5. ASSUME NEW t \in Turns, StreamRaises(t) PROVE Ledger!Next
  BY <1>1, <1>5, EndsEarlyGivesUp DEF Ledger!Next, StreamRaises
<1>6. ASSUME NEW t \in Turns, Disconnect(t) PROVE Ledger!Next
  BY <1>1, <1>6, EndsEarlyGivesUp DEF Ledger!Next, Disconnect
<1>7. ASSUME NEW c \in Conversations, CreateConversation(c) \/ DeleteConversation(c)
      PROVE  Ledger!Next
  BY <1>1, <1>7, ConversationsAlike DEF Ledger!Next
<1>8. CASE UNCHANGED vars
  <2>1. UNCHANGED Ledger!vars
    BY <1>8 DEF vars, Ledger!vars, Homes, Beginning, StageOf, SourcesOf, Stage, RestsOn
  <2> QED BY <2>1
<1> QED BY <1>2, <1>3, <1>4, <1>5, <1>6, <1>7, <1>8, TurnStepLedger DEF Next

\* Streams with their commits, synchronous turns with their one transaction, their
\* failures, and deletions together behave as the ledger: an answer is stored in
\* order, with its record and its citations, before it is announced, and what is
\* deleted does not come back (api/routes/chat.py:189, :254; conversation_repository.py:25).
THEOREM ChatImplementsLedger == Spec => ImplementsLedger
BY InitLedger, NextLedger, ChatInvariant, PTL DEF Spec, ImplementsLedger, Ledger!Spec

-----------------------------------------------------------------------------
(* Why turns do not wait for each other for ever *)

\* Turn t cannot go on before u's transaction ends: its INSERT of the conversation
\* (Prepare) or its UPDATE of the conversation's time (StampLocked) waits for u's row.
WaitsFor(t, u) ==
  /\ u # t /\ turn[u].conv = turn[t].conv
  /\ \/ turn[t].phase = "selected" /\ turn[t].creates /\ Inserting(u)
     \/ /\ turn[t].phase = "completed" \/ (turn[t].phase = "synthesized" /\ ~turn[t].stream)
        /\ turn[u].phase = "flushed"

\* These are the waits that the guards of Prepare, Flush and StampConversation state.
LEMMA WaitsAreTheGuards ==
  ASSUME NEW t \in Turns
  PROVE  /\ turn[t].phase = "selected" =>
              ((\E u \in Turns : WaitsFor(t, u)) <=>
                 ~(turn[t].creates =>
                     \A u \in Turns \ {t} : ~(Inserting(u) /\ turn[u].conv = turn[t].conv)))
         /\ turn[t].phase = "completed" \/ (turn[t].phase = "synthesized" /\ ~turn[t].stream) =>
              ((\E u \in Turns : WaitsFor(t, u)) <=> StampLocked(t))
BY DEF WaitsFor, StampLocked

\* Nobody waits for one who waits.
WaitsAreShort ==
  \A t, u, v \in Turns : WaitsFor(t, u) => ~WaitsFor(u, v)

\* Turns that begin or update one conversation at once never wait in a circle, nor in a
\* chain: who inserts a conversation finds no other turn in it that has flushed
\* (conversation_repository.py:19, api/routes/chat.py:113).
THEOREM NoDeadlock == Spec => []WaitsAreShort
<1>1. IInv => WaitsAreShort
  <2> SUFFICES ASSUME IInv, NEW t \in Turns, NEW u \in Turns, NEW v \in Turns,
                      WaitsFor(t, u), WaitsFor(u, v)
               PROVE  FALSE
    BY DEF WaitsAreShort
  <2>1. \A x \in Turns : StreamCommits(x) /\ OpenTransaction(x)
    BY DEF IInv
  <2>2. Inserting(u) /\ turn[v].phase = "flushed"
    BY DEF WaitsFor, Inserting
  <2>3. v # u /\ turn[v].conv = turn[u].conv
    BY DEF WaitsFor
  <2>4. turn[u].conv \notin conversations /\ ~Inserting(v)
    BY <2>2, <2>3 DEF IInv, OneInserts
  <2>5. ~turn[v].stream /\ ~turn[v].creates
    BY <2>1, <2>2, <2>4 DEF StreamCommits, Inserting
  <2>6. turn[v].conv \in conversations
    BY <2>1, <2>2, <2>5 DEF OpenTransaction, Holds
  <2> QED BY <2>3, <2>4, <2>6
<1> QED BY <1>1, ChatInvariant, PTL
=============================================================================
