# Verification of the Text-to-SQL and document-RAG platform

TLA+ modules, model-checking configurations and machine-checked proofs for the
backend of this repository (`src/backend`). Every definition is translated from
the Python source; `PROJECT.json` maps each of them to its lines.

## The system: an inventory

A FastAPI process (`uvicorn`, one process; the routes are plain functions, so
each request runs in a thread of a pool), one Celery worker, PostgreSQL
(metadata), Qdrant (vectors), Redis (refresh tokens, rate limits, the Celery
broker), a directory with uploaded bytes, an Ollama server, and the source
databases that users query. A request owns one SQLAlchemy session, which
`get_db` commits at the end or rolls back on an exception; Celery tasks and
scripts open their own.

| component | state it keeps | operations | interacts with | what makes it correct |
|---|---|---|---|---|
| document pipeline (`file_service`, `document_pipeline_service`, `workers/tasks`, `scripts/seed_admin`) | rows of `files` and `document_chunks`, bytes on disk, points in Qdrant, queued tasks | upload, dispatch, index (worker, seed script), reprocess, associate, delete | PostgreSQL, disk, Qdrant, the broker; chat reads it through retrieval | evidence comes only from live files; status, chunks, bytes and vectors agree |
| vector store and retrieval | the collection | upsert, delete, search with tenant and knowledge-base filters | Qdrant, `document_chunks` | a hit without a chunk row is no evidence |
| authentication (`auth_service`, `redis_service`) | refresh tokens, attempt counters, in Redis or, for a call that raises, in a dictionary | login, refresh, rate limit | Redis, `users`, `tenants` | a token is exchanged once and not after revocation; limits hit late and lift |
| tenant context | none | decode access token, re-read user and tenant | every route | every row that is read belongs to the caller's tenant |
| connections and schema synchronisation | `database_connections`, schemas, tables, columns | create, edit, test, synchronise, delete | the source database, for seconds, between a read and a write | healthy means: these settings were tested |
| permissions, row filters, schema resolution | roles, grants, column permissions | assign roles, grant, resolve the visible schema | chat | a user sees what the grants of one moment give and no more, through filters that mean what was stored |
| SQL generation, validation | none | prompt, parse, check, rewrite | the language model | only one bounded read-only SELECT over permitted columns passes |
| query execution | `query_executions` | run a plan, mask, truncate, record | the source database | sensitive columns are masked, results are bounded, runs are recorded |
| chat turn (`api/routes/chat`, `agents`) | conversations, messages, citations | classify, select sources, two agents in parallel, stream, persist | all of the above | every turn reaches a final state, with its citations |
| conversations, knowledge bases, roles, users | single rows | create, read, update, delete | - | tenant scoping |
| storage, encryption, adapters, LLM client, audit, configuration | - | pure I/O or cryptography | - | out of scope |

The hard behaviours: three stores written in one operation of which one is
transactional; tasks sent before the transaction that they depend on commits; row
locks held over slow work; checks whose answer is used several calls later (token
rotation, connection probes); exceptions that are swallowed or that roll back the
very status that reports them; fallbacks that split state over two stores; threads
that share a session. `PROJECT.json` lists them as hazards, each at its line, with
the properties that cover it, or the reason why none does.

## Plan

1. `FileCatalog`, `DocumentPipeline`, `DocumentPipelineProofs` - the part with
   the most stores and processes. **Done**: checked and proved.
2. `AuthService`, `AuthServiceProofs` - token rotation and rate limiting. **Done**:
   checked and proved.
3. `Connections`, `ConnectionsProofs` - edit, test and synchronise as long
   read-then-write operations. **Done**: checked and proved.
4. `ConversationLedger`, `ChatTurn`, `ChatTurnProofs` - the turn's commits, the stream's
   failures, the two agents, and the promise they implement; of the pipeline and the
   connections it uses only what they may return. **Done**: checked and proved.
5. `RowFilters`, `Permissions`, `SqlPlan`, `GovernedQuery`, `GovernedQueryProofs` - the
   grants as committed rows that administrators change, their resolution for a chat
   query as the several SELECTs that it is, row filters from their JSON to their SQL
   text, what the validator refuses and adds, masks, limits and truncation, and the
   choice of the connection. **Done**: checked and proved; the meaning of nested filters
   in `RowFiltersProofs`.
6. `Chunking`, `ChunkingProofs` - the cutting of texts. **Done**: proved.

What would come next: the creation and renaming of roles and users, the start-up script
over restarts, and the audit rows of a turn.

## Modules

| module | models | kind |
|---|---|---|
| `FileCatalog` | what the document side promises, without workers or stores | abstract specification |
| `DocumentPipeline` | the document pipeline over all its stores | detailed specification, implements `FileCatalog` |
| `DocumentPipelineProofs` | theorems about `DocumentPipeline` | proofs |
| `MCDocumentPipeline` | its small instances | model checking |
| `AuthService` | login, refresh, rate limiting | specification |
| `AuthServiceProofs` | theorems about `AuthService` | proofs |
| `MCAuthService` | its small instances | model checking |
| `Connections` | one database connection, its cached tables and the chat queries that use it | specification |
| `ConnectionsProofs` | theorems about `Connections` | proofs |
| `MCConnections` | its small instances | model checking |
| `ConversationLedger` | what the chat side promises about a question and its answer, without agents, sessions or transactions | abstract specification |
| `ChatTurn` | a chat turn, synchronous or streaming, and the deletion of conversations | detailed specification, implements `ConversationLedger` |
| `ChatTurnProofs` | theorems about `ChatTurn` | proofs |
| `MCChatTurn` | its small instances | model checking |
| `RowFilters` | the JSON of row filters: what is accepted, what is compiled, what it means | pure, with a reference definition |
| `RowFiltersProofs` | theorems about `RowFilters` | proofs |
| `Permissions` | grants, column rules, roles and memberships, the requests that change them, and what one snapshot of them shows; extends `RowFilters` | specification of a part |
| `SqlPlan` | what the validator refuses of a statement and adds to it; extends `Permissions` | pure |
| `GovernedQuery` | the database agent, from the choice of a connection to the masked result, while permissions change; extends `SqlPlan` | specification, composes the three above |
| `GovernedQueryProofs` | theorems about `GovernedQuery` | proofs |
| `MCGovernedQuery` | its small instance | model checking |
| `Chunking` | the cutting of a text into overlapping chunks | pure |
| `ChunkingProofs` | theorems about `Chunking` | proofs |

Operators called "... Mutant of X" in a comment are wrong variants of X, kept next to
it: each is a bug that some property must catch, and no action uses them.

### DocumentPipeline

| model | code |
|---|---|
| `upload[f]` | the transaction of the request (or seed script) that uploads `f` |
| `files`, `chunks` | committed rows only. Flushed but uncommitted writes live in the phase of the run that made them |
| `lock[f]` | the lock PostgreSQL keeps on the row from a run's first flushed UPDATE to the end of its transaction |
| `objects`, `vectors` | disk and Qdrant, which nothing rolls back |
| `tasks` | messages of the broker; Celery acknowledges before the task runs, so they are delivered at most once |
| `run[r]` | one execution of `process_file` by the worker or the seed script |
| `deletes[d]` | one DELETE request, in the order of `delete_file`: vectors, bytes, row |

All chunks of one run are one record `[file, run, kb]`: their ids are fresh UUIDs,
and the pipeline always inserts and deletes them together. Concurrency is cut where
another process can observe or interfere: at each external call and at each
statement that takes or waits for the row lock. Requests that only change the row
(`ReprocessFile`, `AssociateFile`) are one step. `RunFails` stands for an exception
or a crash at any point between two steps.

`VectorStoreService` also keeps an index in memory, in which it searches when Qdrant is
unreachable. Every request, task and script makes an object of its own, so that
nobody finds anything there that another one stored: without Qdrant a search finds
nothing, and a failing call changes nothing that others see (`SetVectors`).
`Hits` leaves the ranking and the number of hits open.

Not in this model: deletion of knowledge bases, the broker losing its
queue, text extraction, and ranking.

### AuthService

| model | code |
|---|---|
| `active` | accounts whose `users.status` and `tenants.status` are both `active`; read in one step |
| `redis`, `memory` | the keys `refresh_token:*` of Redis and of the process's dictionary |
| `attempts[u]` | the key `rate_limit:*` of Redis (its count, and whether it has an expiry) and of the dictionary; one rate-limit key per account |
| `login[l]`, `refresh[r]` | requests, with a phase per Redis call or database check |
| `happened` | history: kinds of faults that have occurred |

A Redis call is answered, is not executed, or is executed and its answer is lost; the last
two raise, and the code falls back to the dictionary for that call. `Crash` loses the
dictionary and the requests in flight; `RedisRestart` loses Redis, which runs without
persistence. Tokens are named by the request that issues them. The expiry of tokens (days)
and requests with malformed tokens (no effect) are left out.

### Connections

| model | code |
|---|---|
| `row` | the committed row of `database_connections`: its settings (host, credentials, ... as one version number), `is_active`, `status`, `schema_sync_status` |
| `tables` | the committed rows of `database_tables` of the connection; schemas and columns follow them |
| `req[x]` | one PUT, test, synchronisation or chat query; `seen` is the row as its session loaded it, `new` the tables a synchronisation inserts |
| `probed`, `merged`, `raced` | history: settings a test reached, settings whose introspection was committed, whether an edit overlapped another request |

Every operation selects the row, does something slow outside the database (resolving a host,
a probe, an introspection, the language model), and writes in the same transaction; the
model cuts there. The ORM writes a column only if its value differs from the one it loaded
(`Flushed`), and does not refresh a row it already holds. A synchronisation is cut twice
more: what it finds missing, and the INSERTs, which wait for an uncommitted row with the
same key and then break the unique key. All its tables are selected and inserted in one step
each. A query's second SELECT, in `execute_plan`, finds the row anew, because nothing holds
the object of the first one. Not modelled: the uniqueness of names, enabling tables, source
databases that change between introspections of the same settings, and the worker task,
which nothing dispatches.

### ChatTurn

| model | code |
|---|---|
| `conversations`, `messages`, `citations`, `executions`, `stamp` | committed rows of `conversations`, of the assistant's `messages` (one per turn; the user's is inserted with it), of `message_citations` and `query_executions`, and `last_message_at` as the turn that wrote it |
| `turn[t]` | one POST /chat or /chat/stream with its session: `creates`, `ran` are uncommitted rows, `broken` a session that needs a rollback, `agents` the nodes that have not finished, the rest what `AgentState` holds |
| `Prepare` | the conversation, if new, and both messages; a stream commits here, a synchronous turn does not |
| `ExecuteQuery`, `FindEvidence`, `AgentStops`, `SessionBreaks` | the ways in which an agent node ends |
| `Synthesize` | the model's answer, or its failure, and `final_response_node` |
| `Flush`, `Respond`, `Commit` | the end of a synchronous turn and of its transaction |
| `WriteAnswer`, `StampConversation`, `Cite`, `SendDone` | the three commits of a stream and its last event |

Concurrency is cut at every commit, at every statement that waits for another transaction's
row or fails because of one (an INSERT with the same new id, the UPDATE of a conversation's
time, the deletion of a conversation that an open transaction refers to), and at the end of
each agent: in hybrid mode the two run in threads with one session. `CommitsFirst` stands
for the version of FastAPI, which `requirements.txt` leaves open: before 0.118 `get_db` ends
before the response is sent, so that a stream runs with a closed session and every stream
fails when it reloads its conversation; since then it ends afterwards, so that a synchronous
answer is sent before it is committed. Answers are told apart by what they rest on; the
refusal of a plan counts as having found nothing. The mapping at the end of the module turns
a phase of a turn into how much of it is stored in the ledger (`Stage`): a stream goes
through all stages, a synchronous turn from `new` to `told` at once. What the database agent
does inside, and the choice of the connection, is `GovernedQuery`. Not modelled: the parts
in which an answer is streamed, rows of the audit log, the tenant and user of a
conversation.

### RowFilters, Permissions, SqlPlan and GovernedQuery

| model | code |
|---|---|
| `Nodes`, `Clauses` | JSON objects of row filters, with their entries in the order of the keys, which the compiler depends on; a comparison is the set of rows that it selects |
| `Accepts`, `Compile`, `Means` | `validate_row_filter_dsl`; `RowFilterCompiler.compile` with the SQL text that comes of it; the reference: all entries and all tests hold |
| `db` | the committed rows of `table_permissions`, `column_permissions`, `user_roles`, `roles`, as far as one user is concerned |
| `Administer` | the routes that create, edit and delete grants, replace the column rules of a grant, assign roles and delete roles; each is one transaction |
| `ViewsOf(t, d)` | what `resolve_effective_table_permission` makes of rows that stand still; several views where the order of rows decides a mask |
| `Statement` | what sqlglot tells the validator: the kind, the tables and common table expressions, how each use of a column is qualified, the limit, and whether all tables are in the FROM of one SELECT (`flat`) |
| `schema`, `keys`, `views` | `ResolvedSchema.tables`, by bare names, and the order of its keys; history: what was resolved of each table |
| `Permitted`, `PlanFor` | `validate_and_rewrite`: its refusals; the filters, the limit and what is planned |
| `Route`, `OpenConnection` | `select_best_connection`, and the checks at the start of `resolve_schema` |
| `ReadDirectGrant`, `ReadRoles`, `ReadRoleGrants`, `ReadRules` | the SELECTs of the resolution of one table, between which other transactions commit (the isolation is READ COMMITTED) |
| `Generate`, `Execute`, `FetchRow`, `FetchEnd` | the model's statement and its validation, the query, the loop over its rows, the end |
| `during`, `overlaps` | history: the rows committed while the table was resolved, and the number of requests that changed them |

The statement is any of the constant `Statements`, whatever the prompt was; the foreign
keys that the resolution adds to the prompt are left out. The validator knows a table by its
bare name, and so does the model: a `Reference` is the name in the statement and the table
that the source reads there, which may be another one, because the schema before the name is
ignored (`sql_validator_service.py:267-273`), and `schema` is a dictionary by names, in which
a table takes the place of another one of its name (`schema_resolution_service.py:130`).
`Unambiguous` says which references mean the table that their name gives; the properties
about filters and masks speak of those, and fail without it (below). An `exp.And`
or `exp.Or` is built without `exp.Paren`, so its text has no parentheses: `RowsOf` reads it
as the source does, AND before OR.

Properties state what the code keeps, which is at places less than the plan documents say:

* Groups in groups lose the parentheses that `plan/07:25` asks for. `FiltersNeverWiden`
  therefore speaks of filters in plain form (`PlainFilters`): one entry per object, and no
  disjunction directly inside a conjunction. Others may select rows that the stored filter
  does not mean.
* Several grants: the code requires the filters of all of them, the plan one
  (see Findings). `RowsAreFiltered` says what both ways have to keep: a row satisfies the
  filter of some grant that shows the table.
* Bare names: a statement may mean another table than the one whose permission was looked
  up, if two schemas of the source have tables of one name, or if a common table expression
  has the name of a table. The model has both cases. Without the line of `Unambiguous` about
  tables of one name, `RowsAreFiltered` and `SensitiveIsMasked` are violated; without
  the one about common table expressions, `RowsAreFiltered` is.
* The fallback of the router may choose a connection of another tenant, which the resolution
  then refuses (`OpenConnection`); `QueriesStayInTenant` relies on that alone.
* A node with several entries or tests is accepted and compiled in part; the form
  that the compiler's comment names (`row_filter_compiler.py:75`) is rejected when it
  is used, which ends the query.
* A column without a rule is readable, though `plan/04:26` asks for an explicit grant; a
  tenant administrator without a grant sees everything unmasked, though `plan/04:33`
  gives no automatic access. `SensitiveIsMasked` leaves administrators out.
* Several masks for a column: the first by the order of rows.
* Filters go into the WHERE of the outermost SELECT only, hence `flat` in `RowsAreFiltered`.
* Columns that are qualified by a table's alias, unqualified in a join, or named by `*`
  are not attributed to a table, nor are outputs under another name masked. `Owners`
  and `key = name` in `SensitiveIsMasked` say so.
* The LIMIT that the validator adds equals the row limit of the loop, so that
  `is_truncated` never tells of rows cut by it. `more` in `answer` says that there are such
  rows, and `ShortAnswersAreWhole` claims nothing of answers that are as long as the limit.
* `ResolvesAMoment` allows one overlapping request, and not the deletion of a grant
  between its SELECT and that of its rules: with two requests, or with that deletion,
  the merged view is one that no moment gave.

### Chunking

Words are numbered, a chunk is the set of its words' numbers. The parsers that
extract the text are libraries.

## Runs

| run | instance | shows |
|---|---|---|
| `pipeline_safety` | 2 files of two tenants (one blank), 3 knowledge bases, 2 indexings, 2 deletions, Qdrant failures and crashes | types, `EvidenceIsLive`, `CompletedHasChunks`, `ChunksStayInTenant`, `RowHasObject`, the inductive invariant, and that the pipeline implements `FileCatalog` |
| `pipeline_progress` | 1 file, 2 knowledge bases, 3 indexings, 2 deletions, crashes and lost dispatches | `OneVectorGeneration`; under fairness the row lock is released and deletions complete |
| `upload_is_processed` | 1 file, no fault | **violated**: the worker never commits |
| `completed_is_searchable` | 1 file, no fault | **violated**: a second indexing replaces the vectors and rolls its chunks back |
| `auth_sessions` | 1 account, 2 logins, 2 refreshes, a limit of 1 attempt, all faults | tokens are usable exactly until revoked; limits are earned and lift |
| `rotation_is_atomic` | 1 login, 2 refreshes, no fault | **violated**: check and revocation are two calls |
| `connections` | 2 edits, 1 test, 2 synchronisations, 1 query, 3 tables | a status is truthful unless an edit overlapped; the cache consists of whole introspections; no synchronisation breaks a unique key; waiting ones end |
| `healthy_was_tested` | 1 edit, 1 test, 2 synchronisations, 1 query | **violated**: an overlapping test or synchronisation undoes the reset of an edit |
| `catalog_is_current` | the same | **violated**: tables that vanished stay cached |
| `chat_turn` | 2 turns, 1 conversation, all faults, `get_db` ending last | announced answers are durable, whole and traced; what was found reaches the answer; chat implements `ConversationLedger`; turns end |
| `stream_ends` | the same, only disconnects and streams that raise | **violated**: either leaves its message in processing |
| `governed_query` | 1 user, 2 roles, 5 tables (2 that share a sensitive column, 2 of one name, 1 of another tenant), 9 filters, at most 3 grants, 2 requests of administrators, 9 statements, 5 connection ids, 2 rows | routing prefers the selection; nothing of another tenant is shown or queried; filters are not widened on their way to SQL; what is shown was granted, and with one overlapping request views are of one moment; what a plan means unambiguously is readable and filtered, attributed sensitive outputs are masked, short answers are whole |

**Bounds.** Interference in the pipeline is per file: two runs of one file give the
worker and the seed script, three a repetition; two deletions give the request that
finds the row gone; two knowledge bases of one tenant let a file move under a run that
has loaded it; the second file has a blank text and another tenant, with a knowledge
base to be confused with. Symmetry is used on run and deletion
identifiers only, which are interchangeable, and only in the run without liveness.
In `auth_sessions` two refreshes can spend the same token or form a chain, two
logins are two sessions of one account, and with a limit of one the second
attempt is already one too many. In `connections` the settings alternate between two
databases that share one table, so that synchronisations collide on some keys only;
two edits overlap each other, and the second moves the connection back to a
database that was tested before. In `chat_turn` two turns of any kind meet in one conversation,
which neither, one or both of them create and which can be deleted and created again under them;
a second conversation would only separate them. Model answers and agents range over all
their outcomes. In `governed_query` two requests are the least with which the merged view
can be of no moment, so that both sides of `overlaps <= 1` occur; they start from rows in
which two roles disagree about a column, or a direct grant stands beside a role's, and
may create a third grant. The filters have every kind of entry and three levels; the
statements have every kind of qualification, a common table expression with a table's
name, tables of one name alone and joined, and limits below and above the maximum; the
connections are one that is usable, one with two tables of one name, one that is not
synchronised, one of another tenant and one that is gone. With two rows and a
byte limit of one the loop ends by the byte limit at the first and at the last row, or
by the end of the rows, with and without rows beyond the LIMIT; its row limit is never
passed, because no plan has a larger LIMIT. `MCDocumentPipeline` evaluates the properties of
`Chunking` for texts of up to 12 words and overlaps below and above the chunk size. The
theorems have no such bounds.

**Fairness.** A worker, the seed script and a DELETE request take their next step unless
they crash (weak fairness of `RunStep`, `DeleteStep`): they are sequential code
without waits except for the row lock, whose holder is itself such a process. An
idle worker takes a waiting task. In `AuthService` a login that is being served
goes on, and Redis ends a window that was given an expiry. In `Connections` a
synchronisation goes on (introspection has time-outs; if it fails, the request ends too)
except while it waits for another one's rows. In `ChatTurn` a request that is being
served goes on (the calls of agents and model have time-outs) unless it waits for another
turn's row; a deletion need never happen, and a disconnect or an exception ends the
turn as well. `GovernedQuery` has safety
properties only and assumes none. No fairness is assumed of
clients, faults, or administrators.

## Proofs

`DocumentPipelineProofs` proves for any files, knowledge bases, runs, deletions and
faults, assuming only `ConstantsOK` (the null values are not ordinary ones):

* `TypeCorrect`, `Invariant` (`[]IInv`), `EvidenceLive`, `TenantsSeparate`,
  `OneGeneration`, `CompletedBacked`, `RowsBacked`;
* `PipelineImplementsCatalog`: initial states map to initial states and every
  step to a `FileCatalog` step or a stutter, under the mapping at the end of `DocumentPipeline`;
* `DeletionsHold`: of a file whose deletion has ended nothing comes back;
* `LocksEnd`, the safety that `LockReleased` rests on: the holder of a row lock has at most
  three steps left, each of its steps lowers that number, and no step of anybody else
  changes it or moves the lock. What remains for fairness is that the holder takes them;
* `AbandonedStay`: a pending file that came through the API, or whose seed run has
  ended, is pending until it is deleted, though `plan/11:34` asks of the reprocess route to
  "enqueue an idempotent reprocessing workflow". It needs that the seed script indexes
  only what it uploaded, each file once (`SeedsOnce`).

None of the safety properties is inductive. `EvidenceIsLive`, for one, needs that a chunk
row's run has committed and its file's row exists (`IndexIsSound`); the commit of a
run keeps this only because the row it was locking cannot have been deleted, which
is `LockDiscipline`. `OneVectorGeneration` needs that a run between its delete and
its upsert finds no point of its file (`ClearedMeansNoVector`), again because of
the lock. `ChunksStayInTenant` needs that the knowledge base a run loaded before it waited
was already of the file's tenant (`RowsAreSound`). `RowHasObject` needs that an
open upload has its bytes and that deletions only reach committed files
(`UploadHasBytes`). `IInv` is their conjunction, also checked by TLC; each part has one
lemma (`NextLock`, `NextRows`, `NextIndex`, `NextVectors`, `NextBytes`,
`NextCompleted`) with one step per action that touches it.

`AuthServiceProofs` proves for any accounts, logins, refreshes, limit and faults, assuming
`AuthConstants` (finitely many logins, logins are not refreshes, a positive limit):
`TypeCorrect`, `SpentForGood`, `SessionsAreIndependent`, `NobodyLimitedEarly`,
`AuthInvariant` (`[]IInv`), and `StoresForget`, which holds under outages too: once a token
was given to a client, each of the two stores can only lose it. `SpentStaysSpent` needs that
refreshes hold only tokens that were issued (`RequestsKnow`), because a token is stored
once, when it is issued; and that the dictionary is empty until an outage
(`OutagesFillMemory`). `LimitIsEarned` needs a bound on each counter by a set of logins
(`CountersAreEarned`): the Redis counter by those that arrived, the dictionary's by those
that are past counting, and what a thread has read from it likewise; the thread that writes
its reading plus one joins the second set in that same step, so the lost updates of the
dictionary can only count too little.

`ConnectionsProofs` proves for any requests, tables and databases, assuming
`ConnectionConstants` (finitely many edits, requests of different kinds are different):
`TypeCorrect`, `CatalogWhole`, `OnlyEditsRace`, `ConnectionInvariant` (`[]IInv`), and
`KeysHold` for `KeysAreUnique`: what a synchronisation has inserted is never cached or
inserted by another one when it commits, so the wait in `InsertNew` is all that the unique
keys need. The status of a synchronisation may be `failed` in the types; that no step stores
it is so in the code and is claimed by no property (see Findings). That the
settings stay within their type needs the count of finished edits (`EditsCounted`).
`CatalogIsWhole` needs that what a synchronisation selected is still exactly what the cache
lacks when it commits (`SelectionHolds`): the cache only grows while the row exists, and the
commit fails when it does not. `HealthyUnlessRaced` needs that, until an edit overlaps
something, every request in flight holds the current settings, an edit the whole current
row, and a query settings somebody synchronised (`LoadedIsCurrent`).

`ChatTurnProofs` proves for any turns, conversations and faults and both values of
`CommitsFirst`, assuming only `ChatConstants`: `ChatInvariant` (`[]IInv`), `ChatTypes`,
`DoneIsSafe`, `TurnsStayWhole`, `QueriesTraced`, `MessagesAreHeld`, `StampsHold`,
`AnswersRestOnData`, `NoDeadlock`, the action property `AnswersAreKept`, and the refinement
`ChatImplementsLedger`. `DoneIsDurable` needs how far the commits of a stream have come at
each phase (`StreamCommits`), and that those of a synchronous turn come at once
(`SyncIsAtomic`). `QueriesAreTraced` needs that an open transaction that names the query as
a source has its record (`OpenTransaction`), which holds because only the agent that flushed
the record appends the source. `MessagesHaveConversation` needs, for the commit of a
synchronous turn, that nobody deleted its conversation since it referred to it, and for one
that inserts its conversation that nobody else inserts it (`OneInserts`).
`AnswersAreGrounded` needs that only agents of the turn's intent find anything
(`AgentsKeepIntent`), because a greeting is answered with a fixed sentence. The parts that
speak of one turn (`TurnOK`) have one lemma per action; a step of another turn leaves them
alone (`OthersOK`), and what relates turns is disturbed only by `Prepare`, `Commit` and
`StampConversation` (`QuietStep` is for all other steps). In the refinement, `Publish` asks
that the ledger's question begins its conversation exactly if the conversation does not
exist, and that an answer from the database is recorded: `OneInserts` and `OpenTransaction`
give that for the commit of a synchronous turn. A turn that fails or disconnects is
`GiveUp`. `NoDeadlock` says that a turn never waits for one that waits (`WaitsAreTheGuards`
ties this to the guards): a turn whose row others wait for in `Flush` or `StampConversation`
is past its own waits, and one whose INSERT others wait for has the conversation to itself.
It is the safety that `TurnsEnd` rests on.

`GovernedQueryProofs` proves for any user, roles, tables, filters, statements, connections,
limits, and any number of requests of administrators, assuming `FilterConstants`,
`PermissionConstants`, `PlanConstants` and `QueryConstants` (types of the constants, rows
that satisfy the keys of the tables at the start, null values that are not ordinary ones):
`InvariantHolds` (`[]IInv`), `TypesHold`, `RoutingHolds`, `TenantHolds`, `FiltersHold`,
`MasksHold`, `TruncationHolds`, `StoredFiltersHold`, `MeaningHolds`, and the action properties
`GrantsHold`, `MomentHolds` and `DirectGrantHolds`. `ResolvesAMoment` needs to know, after
each SELECT, that there was a moment at which all SELECTs so far would have read what they
read and those to come would read what is there now (`MomentOK`); a request that commits
moves that moment or uses up the one overlap allowed, and which of the two is a case for
each SELECT after which it may come. It rests on the keys (`Consistent` in `HistoryOK`): a
grant that is read and still exists by its id may have been edited, but belongs to the same
subject and table. `StandingDirectGrantRules` needs that the grants as read are the user's
own, all of them, at some moment, or that at some moment there was none; `ReadsWereGranted`,
for any number of overlapping requests, that they are otherwise all the grants of one moment
to the roles of one, perhaps another, moment (both in `ReadersOK`). `OnlyMasksAreOpen` says
of rows that stand still that the order in which they are returned decides at most which of
several masks a column gets. `SensitiveIsMasked` needs that the resolved schema masks
sensitive columns (`SchemaOK`), that the plan was validated against this schema and that it
does not change afterwards (`PlanOK`), and that a later table's mask replaces an earlier
one's but never by none. For it and for `RowsAreFiltered`, `ViewFound` says that the entry
of the dictionary that the validator looked up is the view of the table that is meant: the
entry is the view of some resolved table of that name (`SchemaOK`), all resolved tables are
the connection's (`ConnectionOK`), and an unambiguous name has only one there.
`QueriesStayInTenant` is `ConnectionOK` and that only resolved tables are shown.
`ShortAnswersAreWhole` needs that rows fetched and rows left stay within the plan's limit,
and are as many as the row limit if there are more (`FetchOK`).

`RowFiltersProofs` proves, for any set of JSON objects, entries of any length, any depth and
any rows, assuming only `FilterConstants`: `CompileNeverWidens`, the text of a plain filter
selects no row that the filter does not mean; and `CompileIsExact`, it selects exactly those
if no object inside is empty (an empty object compiles to nothing and is left out, which
narrows an `or`). With the first, `StoredFiltersHold` follows for every filter that is ever
stored, and with `RowsAreFiltered` `MeaningHolds`: from the JSON to the rows of the result.
The compiler recurs on the depth of a filter and runs over the entries of a group, so both
need induction. The library's induction takes a predicate as a parameter; here it is stated
for a set of numbers instead (`InductionUpTo`, from the well-foundedness of `<` on the
naturals), and the existence of the recursive functions is proved with it
(`RecursionExists`). The argument for one group: a text is a disjunction of conjunctions,
joining with `or` appends and joining with `and` binds the last term to the first; a plain
conjunction has one term, so nothing binds across a boundary.

`ChunkingProofs` proves, for all numbers of words, chunk sizes above zero and overlaps,
that no word is lost (`NoWordIsLost`), that neighbours share the overlap
(`OverlapIsShared`), that only the end of a text is repeated in a chunk of its own
(`RepetitionEndsTheText`), and that only a text without words has no chunk
(`OnlyBlankTextsHaveNoChunks`), which is how `DocumentPipeline` uses `Blank`.

Some properties are stated in the modules of their proofs and are not in a run:
`DeletedForGood`, `LocksMoveOn`, `PendingForGood`, `StoresOnlyForget`, `RowsAreMeant`,
`WaitsAreShort` and `AnswersStay` (the last one, in `ChatTurn`, follows in the runs from the
refinement).

Only model-checked: the liveness properties (`LockReleased`, `DeleteCompletes`,
`LimitLifts`, `SyncEnds`, `TurnsEnd`), which are out of the proof system's reach.

## Findings

1. The worker closes its session without a commit (`workers/tasks.py:19`): an
   uploaded file never leaves `pending`, and its vectors have no chunk rows.
2. The start-up script's upload also queues a task; when the worker takes it, the
   completed file loses its searchable vectors (`document_pipeline_service.py:72`).
3. Rotation of refresh tokens is not atomic (`auth_service.py:112`, `:139`).
4. A test or synchronisation that overlaps an edit declares untested settings healthy
   (`connection_service.py:147`, `schema_sync_service.py:158`).
5. Synchronisation never removes vanished tables (`schema_sync_service.py:71`).
6. A stream that raises, or whose client goes away, leaves its message in `processing`
   (`api/routes/chat.py:220`).

The code also differs from the documents where no run has a property against either of them.
The properties named here hold of what the code does and of what the documents ask for; only
the inductive invariants follow the code step by step and would change with it:

* A failed synchronisation is to be marked failed (`plan/06:25`); the status is flushed and
  then rolled back with the request (`schema_sync_service.py:62`). The types allow
  `failed`.
* A failed or cancelled answer is to be stored as such (`plan/16:28`, `plan/18:28`). In no
  case does the code do it: finding 6; a synchronous turn that fails is rolled back; and if
  the model fails during a stream, the turn is stored as completed, with the text
  of the exception as the answer, and the data found is dropped (`agents/graph.py:131`),
  though the repository's README (line 263) promises structured data. The types and the
  ledger's `GiveUp` allow `failed` and `cancelled`.
* A turn that is rolled back takes the record of its executed query along.
* The fallback of the router is to look among the active connections of the tenant
  (comments at `connection_router_service.py:48` and `:82`); its query has no tenant
  filter (`:83-88`). `RoutingPrefersSelection` says nothing of the fallback, and
  `QueriesStayInTenant` holds in either case.
* One of the filters of several role grants is to suffice (`plan/04:24`, `plan/07:25`); the
  validator requires all (`sql_validator_service.py:318`). `RowsAreFiltered` follows from
  either.
* Ambiguous objects are to be rejected (`plan/09:32`), and every object resolved
  (`plan/07:35`); tables are told apart by their bare names only.
* Reaching the row limit is to be reported (`plan/10:30`, `:34`); rows cut by the LIMIT that
  the validator adds are not, and the branch of the loop for it (`query_execution_service.py:144`)
  is never reached. `ShortAnswersAreWhole` allows `truncated` with as many rows as the limit.
* Reprocessing is to enqueue a workflow (`plan/11:34`); see `AbandonedStay`.

## Not modelled

Encryption, source-database adapters and introspection queries, text extraction, the browser
client, probes and logs, and one-off scripts: pure I/O, cryptography or wording. Of the
language-model client only the outcomes of a call are modelled, of models and migrations the
constraints that the modules rely on, of configuration nothing but the acknowledgement mode
of Celery. The check of the access token is a guard of every route without state of its own.
Listing, creating and renaming of single rows (roles, users, knowledge bases) has no
behaviour that interleaves with anything modelled here. `PROJECT.json` gives the reason for
each component.
