---------------------------- MODULE GovernedQuery ----------------------------
(***************************************************************************)
(* The database agent of a chat turn (agents/nodes/database_agent_node.py):*)
(* it routes the message to a connection, resolves what the user may see   *)
(* of its tables, lets the language model write SQL, validates it, and     *)
(* fetches a bounded, masked result; while administrators change the       *)
(* permissions.                                                            *)
(*                                                                         *)
(* The session reads committed rows, one SELECT at a time: the resolution  *)
(* of one table takes up to four of them, and other transactions commit in *)
(* between.  Everything after the resolution uses the resolved schema.     *)
(***************************************************************************)
EXTENDS SqlPlan

CONSTANTS Connections,  \* ids of connections
          Stored,       \* those that have a row
          Own,          \* those of the tenant
          Active,       \* is_active
          Ready,        \* status and schema_sync_status are healthy
          TablesOf,     \* the enabled tables of a connection, in any schema of it
          Selections,   \* what the user may have selected
          Mentions,     \* what a message may mention: the connections of whose tables it
                        \* has a word (words), or a looser one (leave)
          RowBytes,     \* sizes of rows
          MaxBytes      \* MAX_PAYLOAD_BYTES

ASSUME QueryConstants ==
  /\ Stored \subseteq Connections /\ Own \subseteq Stored
  /\ Active \subseteq Stored /\ Ready \subseteq Stored
  /\ TablesOf \in [Connections -> SUBSET Tables]
  /\ Selections \subseteq Seq(Connections)
  /\ \A s \in Selections : s # <<>>
  /\ Mentions \subseteq [words: SUBSET Stored, leave: SUBSET Stored]
  /\ RowBytes \subseteq Nat /\ MaxBytes \in Nat
  /\ Absent \notin Connections

VARIABLES phase,      \* where the agent is; in a resolution, its next SELECT
          asked,      \* the selection and what the message mentions
          conn,       \* the connection routed to
          resolved,   \* its tables that are resolved
          schema,     \* what is known of them, by their names
          keys,       \* the names in schema, in the order of the dictionary
          views,      \* history: what was resolved of each table
          table,      \* the table being resolved
          seenRoles,  \* the user's roles as read
          readers,    \* the grants as read
          plan,       \* the validated plan
          answer,     \* what is fetched
          during,     \* history: the rows committed while table was resolved
          overlaps    \* history: the requests committed meanwhile

tableVars == <<schema, keys, views>>
queryVars == <<phase, asked, conn, resolved, tableVars, table, seenRoles, readers, plan, answer,
               during, overlaps>>
vars == <<permissionVars, queryVars>>

-----------------------------------------------------------------------------
Phases == {"idle", "routed", "resolving", "roles", "grants", "rules", "planned",
           "fetching", "answered"}

Question == [selection: Selections, said: Mentions]
Unasked == [selection |-> <<>>, said |-> {}]

\* The masked output columns, the rows and bytes collected, the rows that the
\* cursor still has, is_truncated; more: the statement has rows beyond the LIMIT that
\* the validator put on it.
Answer == [outputs: SUBSET [use: Use, mask: Column], rows: 0 .. MaxRows,
           bytes: Nat, left: 0 .. MaxRows, truncated: BOOLEAN, more: BOOLEAN]
NoAnswer == [outputs |-> {}, rows |-> 0, bytes |-> 0, left |-> 0, truncated |-> FALSE,
             more |-> FALSE]

ElementsOf(seq) == {seq[i] : i \in DOMAIN seq}

NothingKnown == [n \in TableNames |-> Hidden]
Unresolved == [t \in Tables |-> Hidden]

\* What an idle agent has: all but the permissions are per request.
Cleared ==
  /\ phase' = "idle" /\ asked' = Unasked /\ conn' = Absent /\ resolved' = {}
  /\ schema' = NothingKnown /\ keys' = <<>> /\ views' = Unresolved
  /\ table' = Absent /\ seenRoles' = {} /\ readers' = {}
  /\ plan' = Absent /\ answer' = NoAnswer /\ during' = {} /\ overlaps' = 0

\* The agent ends: with its answer, with nothing to do, or with error_message set.
Ends == Cleared /\ UNCHANGED permissionVars

Init ==
  /\ InitPermissions
  /\ phase = "idle" /\ asked = Unasked /\ conn = Absent /\ resolved = {}
  /\ schema = NothingKnown /\ keys = <<>> /\ views = Unresolved
  /\ table = Absent /\ seenRoles = {} /\ readers = {}
  /\ plan = Absent /\ answer = NoAnswer /\ during = {} /\ overlaps = 0

-----------------------------------------------------------------------------
\* The model is asked for one of the rows; without an answer it is the first id.
Options(selection, rows) == {selection[1]} \cup rows

\* Mutant of Routes: the words are looked up among all active connections at once.
RoutesAtOnce(selection, said) ==
  LET hits == Active \cap (said.words \cup said.leave)
  IN IF ElementsOf(selection) \cap Stored = {} THEN {selection[1]}
     ELSE IF hits # {} THEN hits
     ELSE IF Len(selection) = 1 THEN {selection[1]}
     ELSE Options(selection, ElementsOf(selection) \cap Stored)

\* select_best_connection: by words among the selected connections, then among all
\* active ones of any tenant, where "leave" counts as a word of any table with it in
\* its name; then the only id, or the language model.
Routes(selection, said) ==
  LET rows == ElementsOf(selection) \cap Stored
      hits == rows \cap said.words
      others == Active \cap (said.words \cup said.leave)
  IN IF rows = {} THEN {selection[1]}
     ELSE IF hits # {} THEN hits
     ELSE IF others # {} THEN others
     ELSE IF Len(selection) = 1 THEN {selection[1]}
     ELSE Options(selection, rows)

Route(selection, said) ==
  /\ phase = "idle"
  /\ phase' = "routed"
  /\ asked' = [selection |-> selection, said |-> said]
  /\ conn' \in Routes(selection, said)
  /\ UNCHANGED <<permissionVars, resolved, tableVars, table, seenRoles, readers, plan, answer,
                 during, overlaps>>

\* Mutant of OpenConnection: the connection is looked up without the tenant.
OpenAnyConnection ==
  /\ phase = "routed"
  /\ IF conn \in Active \cap Ready
     THEN /\ phase' = "resolving"
          /\ asked' = Unasked
          /\ UNCHANGED <<permissionVars, conn, resolved, tableVars, table, seenRoles, readers,
                         plan, answer, during, overlaps>>
     ELSE Ends

\* resolve_schema: the connection is the tenant's, active and healthy, or it raises.
OpenConnection ==
  /\ phase = "routed"
  /\ IF conn \in Own \cap Active \cap Ready
     THEN /\ phase' = "resolving"
          /\ asked' = Unasked
          /\ UNCHANGED <<permissionVars, conn, resolved, tableVars, table, seenRoles, readers,
                         plan, answer, during, overlaps>>
     ELSE Ends

\* A table is resolved; an unreadable one is not in the schema, a readable one takes
\* the place of another with its name.
Resolved(t, view) ==
  /\ phase' = "resolving"
  /\ resolved' = resolved \cup {t}
  /\ views' = [views EXCEPT ![t] = view]
  /\ IF view.read
     THEN /\ schema' = [schema EXCEPT ![NameOf[t]] = view]
          /\ keys' = IF schema[NameOf[t]].read THEN keys ELSE Append(keys, NameOf[t])
     ELSE UNCHANGED <<schema, keys>>
  /\ table' = Absent /\ seenRoles' = {} /\ readers' = {} /\ during' = {} /\ overlaps' = 0
  /\ UNCHANGED <<permissionVars, asked, conn, plan, answer>>

\* Mutant of ReadDirectGrant: a grant that denies counts as none.
ReadDirectGrantIfRead(t) ==
  LET gs == {g \in Direct(db, t) : g.read} IN
  /\ phase = "resolving"
  /\ t \in TablesOf[conn] \ resolved
  /\ phase' = IF gs = {} THEN "roles" ELSE "rules"
  /\ table' = t
  /\ readers' = gs
  /\ during' = {db}
  /\ UNCHANGED <<permissionVars, asked, conn, resolved, tableVars, seenRoles, plan, answer,
                 overlaps>>

\* get_direct_user_grant: the sole authority if there is one.
ReadDirectGrant(t) ==
  LET gs == Direct(db, t) IN
  /\ phase = "resolving"
  /\ t \in TablesOf[conn] \ resolved
  /\ IF \E g \in gs : ~g.read THEN Resolved(t, Hidden)
     ELSE /\ phase' = IF gs = {} THEN "roles" ELSE "rules"
          /\ table' = t
          /\ readers' = gs
          /\ during' = {db}
          /\ UNCHANGED <<permissionVars, asked, conn, resolved, tableVars, seenRoles, plan,
                         answer, overlaps>>

\* get_user_roles
ReadRoles ==
  /\ phase = "roles"
  /\ phase' = "grants"
  /\ seenRoles' = db.members
  /\ UNCHANGED <<permissionVars, asked, conn, resolved, tableVars, table, readers, plan, answer,
                 during, overlaps>>

\* get_role_grants_for_user: those that read.
RoleReaders(d, roles, t) == {g \in d.grants : g.subject \in roles /\ g.table = t /\ g.read}

\* The roles' grants; without a grant that reads, the administrator's access.
ReadRoleGrants ==
  LET gs == RoleReaders(db, seenRoles, table) IN
  /\ phase = "grants"
  /\ IF gs = {} THEN Resolved(table, WithoutGrant(table))
     ELSE /\ phase' = "rules"
          /\ readers' = gs
          /\ UNCHANGED <<permissionVars, asked, conn, resolved, tableVars, table, seenRoles,
                         plan, answer, during, overlaps>>

\* Mutant of ReadRules: the rules of all grants on the table are merged.
ReadRulesOfTable ==
  /\ phase = "rules"
  /\ IF \E n \in FiltersOf(readers) : Compile(n) = Rejected THEN Ends
     ELSE \E view \in Views(table, readers,
                            RulesOf(db, {g \in db.grants : g.table = table})) :
            Resolved(table, view)

\* Mutant of ReadRules: the session reads the grants anew with their rules.
ReadRulesRefreshed ==
  LET gs == {g \in db.grants : \E h \in readers : h.id = g.id} IN
  /\ phase = "rules"
  /\ IF \E n \in FiltersOf(gs) : Compile(n) = Rejected THEN Ends
     ELSE \E view \in Views(table, gs, RulesOf(db, gs)) : Resolved(table, view)

\* _resolve_column_rules, and the filters are compiled: what the compiler rejects
\* ends the query.
ReadRules ==
  /\ phase = "rules"
  /\ IF \E n \in FiltersOf(readers) : Compile(n) = Rejected THEN Ends
     ELSE \E view \in Views(table, readers, RulesOf(db, readers)) : Resolved(table, view)

-----------------------------------------------------------------------------
\* The language model writes a statement for the tables in the schema, and the
\* validator plans or refuses it.  An empty schema, or a model that cannot, ends.
Generate(s) ==
  /\ phase = "resolving"
  /\ TablesOf[conn] \subseteq resolved
  /\ IF s \in Candidates(schema) /\ Permitted(s, schema)
     THEN /\ phase' = "planned"
          /\ plan' = PlanFor(s, schema)
          /\ UNCHANGED <<permissionVars, asked, conn, resolved, tableVars, table, seenRoles,
                         readers, answer, during, overlaps>>
     ELSE Ends

\* The mask of an output column: masks are collected by bare name over the schema in
\* its order, and a later one replaces an earlier one.
MaskOf(key) ==
  LET masking == {i \in DOMAIN keys :
                    /\ key \in DOMAIN schema[keys[i]].columns
                    /\ schema[keys[i]].columns[key] # NoMask}
  IN IF masking = {} THEN NoMask
     ELSE schema[keys[CHOOSE i \in masking : \A j \in masking : j <= i]].columns[key]

\* execute_plan runs the statement: the source has some rows for it, at most as many
\* as its LIMIT.  It fails if the connection was deactivated, or at the source.
Execute(n, more) ==
  /\ phase = "planned"
  /\ n <= plan.limit
  /\ more => n = plan.limit /\ Injected(plan.statement.limit)
  /\ phase' = "fetching"
  /\ answer' = [NoAnswer EXCEPT
       !.outputs = {[use |-> u, mask |-> MaskOf(u.key)]
                      : u \in {v \in plan.statement.uses : v.key # Absent}},
       !.left = n, !.more = more]
  /\ UNCHANGED <<permissionVars, asked, conn, resolved, tableVars, table, seenRoles, readers,
                 plan, during, overlaps>>

\* The loop stops, or goes on.
Fetched(stops) ==
  /\ phase' = IF stops THEN "answered" ELSE "fetching"
  /\ UNCHANGED <<permissionVars, asked, conn, resolved, tableVars, table, seenRoles, readers,
                 plan, during, overlaps>>

\* Mutant of FetchRow: the byte limit ends the loop without is_truncated.
FetchRowQuietly(size) ==
  /\ phase = "fetching" /\ answer.left > 0
  /\ IF answer.rows >= MaxRows
     THEN answer' = [answer EXCEPT !.truncated = TRUE] /\ Fetched(TRUE)
     ELSE /\ answer' = [answer EXCEPT !.rows = @ + 1, !.bytes = @ + size, !.left = @ - 1]
          /\ Fetched(answer.bytes + size > MaxBytes)

\* A row beyond the row limit is dropped; a row that passes the byte limit is kept
\* and is the last.
FetchRow(size) ==
  /\ phase = "fetching" /\ answer.left > 0
  /\ IF answer.rows >= MaxRows
     THEN answer' = [answer EXCEPT !.truncated = TRUE] /\ Fetched(TRUE)
     ELSE /\ answer' = [answer EXCEPT !.rows = @ + 1, !.bytes = @ + size, !.left = @ - 1,
                                      !.truncated = answer.bytes + size > MaxBytes]
          /\ Fetched(answer.bytes + size > MaxBytes)

FetchEnd ==
  /\ phase = "fetching" /\ answer.left = 0
  /\ Fetched(TRUE)
  /\ UNCHANGED answer

\* The agent returns, or one of its calls raises.
Return == phase = "answered" /\ Ends
Raise == phase \in Phases \ {"idle", "answered"} /\ Ends

\* An administrator's request commits while the agent is at work, or not.
Meanwhile ==
  /\ Administer
  /\ during' = IF during = {} THEN {} ELSE during \cup {db'}
  /\ overlaps' = IF during = {} THEN 0 ELSE overlaps + 1
  /\ UNCHANGED <<phase, asked, conn, resolved, tableVars, table, seenRoles, readers, plan,
                 answer>>

Step ==
  \/ \E s \in Selections : \E m \in Mentions : Route(s, m)
  \/ OpenConnection
  \/ \E t \in Tables : ReadDirectGrant(t)
  \/ ReadRoles \/ ReadRoleGrants \/ ReadRules
  \/ \E s \in Statements : Generate(s)
  \/ \E n \in 0 .. MaxRows : \E more \in BOOLEAN : Execute(n, more)
  \/ \E b \in RowBytes : FetchRow(b)
  \/ FetchEnd \/ Return \/ Raise

Next == Step \/ Meanwhile

Spec == Init /\ [][Next]_vars

-----------------------------------------------------------------------------
TypeOK ==
  /\ db \in Database /\ admin \in BOOLEAN /\ edits \in 0 .. MaxEdits
  /\ phase \in Phases
  /\ asked \in Question \cup {Unasked}
  /\ conn \in Connections \cup {Absent}
  /\ resolved \subseteq Tables
  /\ schema \in Schema
  /\ keys \in Seq(TableNames)
  /\ views \in [Tables -> Shown]
  /\ table \in Tables \cup {Absent}
  /\ seenRoles \subseteq Roles
  /\ readers \subseteq Grant
  /\ plan \in Plan \cup {Absent}
  /\ answer \in Answer
  /\ during \subseteq Database
  /\ overlaps \in 0 .. MaxEdits

\* The agent leaves the user's selection only if the message has no word of a selected
\* connection: those are looked at before all others, of which some may have a looser
\* word (connection_router_service.py:60, :82).
RoutingPrefersSelection ==
  phase = "routed" =>
    LET hits == ElementsOf(asked.selection) \cap Stored \cap asked.said.words
    IN hits # {} => conn \in hits

\* The router may choose another tenant's connection, because its fallback looks at
\* all active ones though its comments speak of the tenant's
\* (connection_router_service.py:48, :82).  Still nothing but tables of a connection of
\* the user's own tenant is ever shown or queried (schema_resolution_service.py:36).
QueriesStayInTenant ==
  /\ \A t \in Tables : views[t].read => conn \in Own /\ t \in TablesOf[conn]
  /\ phase \in {"planned", "fetching", "answered"} => conn \in Own

\* The SELECTs of a table's resolution do not read one snapshot.  With at most one
\* request committed among them the view is still one that the committed rows gave
\* at some moment, unless the request deleted a grant that was read before its
\* rules were (permission_service.py:127).
ResolvesAMoment ==
  [][\A t \in Tables :
       /\ t \in resolved' \ resolved
       /\ overlaps <= 1
       /\ {g.id : g \in readers} \subseteq {g.id : g \in db.grants}
       => \E d \in during \cup {db} : views'[t] \in ViewsOf(t, d)]_vars

\* Whatever else commits meanwhile, a grant to the user that stands throughout the
\* resolution of its table decides alone whether the user reads it, and which
\* filters apply (permission_service.py:109).
StandingDirectGrantRules ==
  [][\A t \in resolved' \ resolved, g \in db.grants :
       (\A d \in during \cup {db} : g \in Direct(d, t)) =>
         /\ views'[t].read = g.read
         /\ g.read => views'[t].filters = FiltersOf({g})]_vars

\* However many requests commit meanwhile, nobody reads a table that nobody granted: but
\* for an administrator without a grant, what is shown of it comes from the user's own
\* grant, or from all grants that read of the roles the user had, as one moment had
\* them, under the rules that they have now (permission_service.py:109, :122).
ReadsWereGranted ==
  [][\A t \in resolved' \ resolved :
       views'[t].read =>
         \/ admin /\ views'[t] = Open(t)
         \/ \E d, e \in during \cup {db} :
              \E gs \in {Direct(d, t), RoleReaders(d, e.members, t)} :
                /\ gs # {} /\ \A g \in gs : g.read
                /\ views'[t] \in Views(t, gs, RulesOf(db, gs))]_vars

\* A reference of the plan that says which table it means, although the validator has
\* only its bare name: the source reads a table of the connection under its own name,
\* which no other table of the connection and no common table expression has.
Unambiguous(r) ==
  /\ r.table \in TablesOf[conn] /\ r.name = NameOf[r.table]
  /\ r.name \notin plan.statement.ctes
  /\ \A t \in TablesOf[conn] : NameOf[t] = r.name => t = r.table

\* A statement that runs reads only tables that the user reads, as far as bare names
\* tell tables apart; and if it is one SELECT, each row that its WHERE passes satisfies
\* the filter of some grant that shows the table, in joins too
\* (sql_validator_service.py:267, :313).
RowsAreFiltered ==
  phase \in {"planned", "fetching", "answered"} =>
    \A r \in plan.statement.tables : Unambiguous(r) =>
      /\ views[r.table].read
      /\ plan.statement.flat /\ views[r.table].filters # {} =>
           plan.rows \subseteq UNION {RowsOf(Compile(n)) : n \in views[r.table].filters}

\* The output of a sensitive column under its own name is masked, if the validator
\* could attribute the column to its table: whichever grants and rules showed it, and
\* whatever other tables have a column of its name (query_execution_service.py:116).
\* Administrators without a grant see it unmasked.
SensitiveIsMasked ==
  phase \in {"fetching", "answered"} /\ ~admin =>
    \A o \in answer.outputs :
      /\ Unambiguous(o.use.of) /\ o.use.of.name \in Owners(plan.statement, o.use)
      /\ o.use.name \notin plan.statement.aliases
      /\ o.use.key = o.use.name
      /\ o.use.name \in Sensitive[o.use.of.table]
      => o.mask # NoMask

\* What is fetched is not cut in secret: an answer that is not marked as truncated and
\* has fewer rows than the row limit is the whole result of the statement as the model
\* wrote it.  One with as many rows as the limit may have been cut by the LIMIT that the
\* validator put on it, which nothing tells (query_execution_service.py:122).
ShortAnswersAreWhole ==
  phase = "answered" =>
    /\ answer.left > 0 => answer.truncated
    /\ answer.truncated => answer.bytes > MaxBytes \/ answer.rows = MaxRows
    /\ ~answer.truncated /\ answer.rows < MaxRows => answer.left = 0 /\ ~answer.more
    /\ answer.rows <= plan.limit

-----------------------------------------------------------------------------
(* The inductive invariant. *)

Resolving == {"roles", "grants", "rules"}
Planned == {"planned", "fetching", "answered"}

HistoryOK ==
  /\ Consistent(db) /\ \A d \in during : Consistent(d)
  /\ overlaps <= edits
  /\ phase \notin Resolving => during = {} /\ overlaps = 0
  /\ phase \in Resolving => table \in TablesOf[conn] \ resolved /\ db \in during
  /\ phase \in Resolving /\ overlaps = 0 => during = {db}

\* The grants as read are the user's own or, if there was a moment without one, the
\* roles', each time all of them at some moment.
ReadersOK ==
  /\ phase \in {"roles", "grants"} => \E d \in during : Direct(d, table) = {}
  /\ phase = "grants" => \E d \in during : seenRoles = d.members
  /\ phase = "rules" =>
       \E d, e \in during : readers \in {Direct(d, table), RoleReaders(d, e.members, table)}
  /\ phase = "rules" =>
       /\ readers # {} /\ \A g \in readers : g.read
       /\ \E d \in during : Direct(d, table) = {} \/ Direct(d, table) = readers

\* With at most one request meanwhile there is a moment at which all SELECTs would
\* have read what those up to now read and those to come will.
MomentOK ==
  /\ phase = "grants" /\ overlaps = 0 => seenRoles = db.members
  /\ phase = "roles" /\ overlaps <= 1 =>
       \E d \in during :
         /\ Direct(d, table) = {} /\ d.members = db.members
         /\ RoleReaders(d, d.members, table) = RoleReaders(db, d.members, table)
         /\ RulesOf(d, RoleReaders(d, d.members, table))
              = RulesOf(db, RoleReaders(d, d.members, table))
  /\ phase = "grants" /\ overlaps <= 1 =>
       \E d \in during :
         /\ Direct(d, table) = {}
         /\ RoleReaders(d, d.members, table) = RoleReaders(db, seenRoles, table)
         /\ RulesOf(d, RoleReaders(d, d.members, table))
              = RulesOf(db, RoleReaders(d, d.members, table))
  /\ phase = "rules" /\ overlaps <= 1 =>
       \E d \in during :
         /\ Readers(d, table) = readers
         /\ {g.id : g \in readers} \subseteq {g.id : g \in db.grants}
              => RulesOf(d, readers) = RulesOf(db, readers)

\* Whatever the router chose, only the tenant's connections are opened.
ConnectionOK ==
  /\ phase \in {"idle", "routed"} => resolved = {}
  /\ phase \notin {"idle", "routed"} =>
       conn \in Own \cap Active \cap Ready /\ resolved \subseteq TablesOf[conn]

\* The schema has, under each of its keys, the view of a resolved table of that name.
SchemaOK ==
  /\ \A t \in Tables : views[t].read =>
       /\ t \in resolved
       /\ ~admin => \A c \in Sensitive[t] \cap DOMAIN views[t].columns :
                      views[t].columns[c] # NoMask
  /\ \A n \in Visible(schema) :
       /\ n \in ElementsOf(keys)
       /\ \E t \in resolved : NameOf[t] = n /\ views[t] = schema[n]

PlanOK ==
  phase \in Planned =>
    /\ plan \in Plan
    /\ Permitted(plan.statement, schema)
    /\ plan = PlanFor(plan.statement, schema)

FetchOK ==
  /\ phase \in {"fetching", "answered"} =>
       /\ answer.rows + answer.left <= plan.limit
       /\ answer.more => answer.rows + answer.left = MaxRows
  /\ phase = "fetching" => answer.bytes <= MaxBytes /\ ~answer.truncated

IInv ==
  /\ TypeOK /\ HistoryOK /\ ReadersOK /\ MomentOK /\ ConnectionOK /\ SchemaOK
  /\ PlanOK /\ FetchOK
  /\ RoutingPrefersSelection /\ SensitiveIsMasked /\ ShortAnswersAreWhole
=============================================================================
