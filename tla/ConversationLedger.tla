--------------------------- MODULE ConversationLedger ---------------------------
(***************************************************************************)
(* What the chat side of the platform promises about a question that was   *)
(* asked in a conversation, with no agents, sessions, transactions or      *)
(* disconnects in sight.  Its answer is stored in one piece, or as a       *)
(* stream in a fixed order: the empty answer, the answer with the record   *)
(* of its query, the time of the conversation, the citations; only then is *)
(* it announced.  A question may be given up between any two of these.     *)
(* A deleted conversation takes all its answers along, and none comes back.*)
(* ChatTurn.tla implements this.                                           *)
(***************************************************************************)
CONSTANTS Turns,          \* questions
          Conversations,  \* ids of conversations
          Nobody,         \* no question, no conversation
          Sources,        \* what an answer may rest on
          Recorded        \* the sources that are recorded when they are used

VARIABLES conversations,  \* those that exist
          messages,       \* the answer of each question
          citations,      \* what is cited with it
          executions,     \* questions with a record of their query
          stamp,          \* the question that was the last to set a conversation's time
          home,           \* the conversation that a question is for
          begins,         \* questions that are to begin their conversation
          stage,          \* how much of a question is stored
          sources         \* what its stored answer rests on

vars == <<conversations, messages, citations, executions, stamp, home, begins, stage, sources>>

Stages == {"new", "asked", "answered", "dated", "cited", "told", "given up"}

-----------------------------------------------------------------------------
Init ==
  /\ conversations = {}
  /\ messages = [t \in Turns |-> "none"]
  /\ citations = [t \in Turns |-> {}]
  /\ executions = {}
  /\ stamp = [c \in Conversations |-> Nobody]
  /\ home = [t \in Turns |-> Nobody]
  /\ begins = {}
  /\ stage = [t \in Turns |-> "new"]
  /\ sources = [t \in Turns |-> {}]

Address(t, c) ==
  /\ stage[t] = "new" /\ home[t] = Nobody
  /\ home' = [home EXCEPT ![t] = c]
  /\ begins' = IF c \in conversations THEN begins ELSE begins \cup {t}
  /\ UNCHANGED <<conversations, messages, citations, executions, stamp, stage, sources>>

\* A question is stored in the conversation it was addressed to, not in one that was
\* deleted, or begun by another, since.
Opens(t) ==
  /\ home[t] # Nobody
  /\ t \in begins <=> home[t] \notin conversations
  /\ conversations' = conversations \cup {home[t]}
  /\ begins' = begins \ {t}

Ask(t) ==
  /\ stage[t] = "new"
  /\ Opens(t)
  /\ stage' = [stage EXCEPT ![t] = "asked"]
  /\ messages' = [messages EXCEPT ![t] = "processing"]
  /\ UNCHANGED <<citations, executions, stamp, home, sources>>

\* A record comes with the answer that rests on it; there may be one of a query that failed.
Records(t, S) ==
  /\ executions' \in {executions, executions \cup {t}}
  /\ S \cap Recorded # {} => t \in executions'

Answer(t, S) ==
  /\ stage[t] = "asked" /\ messages[t] = "processing"
  /\ stage' = [stage EXCEPT ![t] = "answered"]
  /\ messages' = [messages EXCEPT ![t] = "completed"]
  /\ sources' = [sources EXCEPT ![t] = S]
  /\ Records(t, S)
  /\ UNCHANGED <<conversations, citations, stamp, home, begins>>

Date(t) ==
  /\ stage[t] = "answered" /\ home[t] \in conversations
  /\ stage' = [stage EXCEPT ![t] = "dated"]
  /\ stamp' = [stamp EXCEPT ![home[t]] = t]
  /\ UNCHANGED <<conversations, messages, citations, executions, home, begins, sources>>

\* All citations, unless the answer was deleted.
Cite(t) ==
  /\ stage[t] = "dated"
  /\ messages[t] = "completed" \/ sources[t] = {}
  /\ stage' = [stage EXCEPT ![t] = "cited"]
  /\ citations' = [citations EXCEPT ![t] = sources[t]]
  /\ UNCHANGED <<conversations, messages, executions, stamp, home, begins, sources>>

Tell(t) ==
  /\ stage[t] = "cited"
  /\ stage' = [stage EXCEPT ![t] = "told"]
  /\ UNCHANGED <<conversations, messages, citations, executions, stamp, home, begins, sources>>

\* The answer in one piece.
Publish(t, S) ==
  /\ stage[t] = "new"
  /\ Opens(t)
  /\ stage' = [stage EXCEPT ![t] = "told"]
  /\ messages' = [messages EXCEPT ![t] = "completed"]
  /\ sources' = [sources EXCEPT ![t] = S]
  /\ citations' = [citations EXCEPT ![t] = S]
  /\ stamp' = [stamp EXCEPT ![home[t]] = t]
  /\ Records(t, S)
  /\ UNCHANGED home

\* What is stored stays, but an unanswered question may be marked as given up, and
\* may leave the record of its query.
GiveUp(t) ==
  /\ home[t] # Nobody /\ stage[t] \notin {"told", "given up"}
  /\ stage' = [stage EXCEPT ![t] = "given up"]
  /\ sources' = [sources EXCEPT ![t] = {}]
  /\ begins' = begins \ {t}
  /\ \/ UNCHANGED executions
     \/ stage[t] = "asked" /\ executions' = executions \cup {t}
  /\ \/ UNCHANGED messages
     \/ /\ messages[t] = "processing"
        /\ \E s \in {"failed", "cancelled"} : messages' = [messages EXCEPT ![t] = s]
  /\ UNCHANGED <<conversations, citations, stamp, home>>

Open(c) ==
  /\ c \notin conversations
  /\ \A t \in Turns : home[t] # c
  /\ conversations' = conversations \cup {c}
  /\ UNCHANGED <<messages, citations, executions, stamp, home, begins, stage, sources>>

Delete(c) ==
  /\ c \in conversations
  /\ conversations' = conversations \ {c}
  /\ messages' = [t \in Turns |-> IF home[t] = c THEN "none" ELSE messages[t]]
  /\ citations' = [t \in Turns |-> IF home[t] = c THEN {} ELSE citations[t]]
  /\ stamp' = [stamp EXCEPT ![c] = Nobody]
  /\ UNCHANGED <<executions, home, begins, stage, sources>>

Next ==
  \/ \E t \in Turns :
       \/ \E c \in Conversations : Address(t, c)
       \/ Ask(t) \/ Date(t) \/ Cite(t) \/ Tell(t) \/ GiveUp(t)
       \/ \E S \in SUBSET Sources : Answer(t, S) \/ Publish(t, S)
  \/ \E c \in Conversations : Open(c) \/ Delete(c)

Spec == Init /\ [][Next]_vars
=============================================================================
