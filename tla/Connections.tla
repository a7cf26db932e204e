----------------------------- MODULE Connections -----------------------------
(***************************************************************************)
(* One row of database_connections with its cached tables: create, edit,   *)
(* test, synchronise, delete, and the chat queries that use it.            *)
(* backend/services/connection_service.py, schema_sync_service.py, and the *)
(* gates of schema_resolution_service.py and query_execution_service.py.   *)
(*                                                                         *)
(* Testing, introspecting and generating SQL take seconds and happen       *)
(* between the SELECT of the row and its UPDATE, in one transaction at     *)
(* READ COMMITTED.  The ORM keeps the row as it was first selected (seen)  *)
(* and writes the columns whose value differs from that.                   *)
(***************************************************************************)
EXTENDS Naturals, FiniteSets

CONSTANTS Edits,    \* PUT /database-connections/{id}; bounds their number
          Tests,    \* POST .../test
          Syncs,    \* POST .../sync-schema
          Queries,  \* chat turns whose database agent chose this connection
          Tables,   \* names of tables
          Source    \* the tables that introspection finds with each settings

\* Every edit makes new settings (host, credentials, ...), numbered in order.
Settings == 0 .. Cardinality(Edits)

ASSUME ConnectionConstants ==
  /\ IsFiniteSet(Edits)
  /\ Source \in [Settings -> SUBSET Tables]
  /\ Edits \cap Tests = {} /\ Edits \cap Syncs = {} /\ Edits \cap Queries = {}
  /\ Tests \cap Syncs = {} /\ Tests \cap Queries = {} /\ Syncs \cap Queries = {}

Requests == Edits \cup Tests \cup Syncs \cup Queries

VARIABLES row,       \* the committed row
          tables,    \* the committed rows of database_tables of this connection
          req,       \* requests; seen is the row as their session loaded it
          probed,    \* history: settings that a test reached
          merged,    \* history: settings whose synchronisation was committed
          raced      \* history: an edit overlapped another request of the row

vars == <<row, tables, req, probed, merged, raced>>

-----------------------------------------------------------------------------
Row == [exists: BOOLEAN, settings: Settings, active: BOOLEAN,
        status: {"pending", "healthy", "failed"}, sync: {"pending", "healthy", "failed"}]

NoRow == [exists |-> FALSE, settings |-> 0, active |-> FALSE,
          status |-> "pending", sync |-> "pending"]

\* new is what a synchronisation inserts: tables it did not find in the cache.
Request == [phase: {"idle", "loaded", "selected", "inserted", "done", "failed"},
            seen: Row, new: SUBSET Tables]

InFlight(x) == req[x].phase \in {"loaded", "selected", "inserted"}

Found(s) == Source[req[s].seen.settings]

\* The value of a column after a flush that sets it to new.
Flushed(column, x, new) == IF new = req[x].seen[column] THEN row[column] ELSE new

\* The request is over and its session closed.
Ends(x, phase) ==
  req' = [req EXCEPT ![x] = [phase |-> phase, seen |-> NoRow, new |-> {}]]

\* An edit and anything else of the row were in flight together.
Overlaps(x) ==
  raced' = (raced \/ \E y \in Requests \ {x} :
                       InFlight(y) /\ (x \in Edits \/ y \in Edits))

-----------------------------------------------------------------------------
Init ==
  /\ row = NoRow
  /\ tables = {}
  /\ req = [x \in Requests |-> [phase |-> "idle", seen |-> NoRow, new |-> {}]]
  /\ probed = {}
  /\ merged = {}
  /\ raced = FALSE

\* create_connection; an id is never used again, so no request knows the new row.
Create ==
  /\ ~row.exists
  /\ \A x \in Requests : req[x].phase = "idle"
  /\ row' = [NoRow EXCEPT !.exists = TRUE, !.active = TRUE]
  /\ UNCHANGED <<tables, req, probed, merged, raced>>

\* Mutant of Load: chat does not ask whether the schema was synchronised.
LoadUnsynchronised(x) ==
  /\ req[x].phase = "idle"
  /\ row.exists
  /\ x \in Syncs \cup Queries => row.active
  /\ x \in Queries => row.status = "healthy"
  /\ req' = [req EXCEPT ![x].phase = "loaded", ![x].seen = row]
  /\ UNCHANGED <<row, tables, probed, merged, raced>>

\* The SELECT every operation starts with; synchronisation wants it active, and
\* chat wants it active, tested and synchronised.
Load(x) ==
  /\ req[x].phase = "idle"
  /\ row.exists
  /\ x \in Syncs \cup Queries => row.active
  /\ x \in Queries => row.status = "healthy" /\ row.sync = "healthy"
  /\ req' = [req EXCEPT ![x].phase = "loaded", ![x].seen = row]
  /\ UNCHANGED <<row, tables, probed, merged, raced>>

\* Mutant of WriteEdit: schema_sync_status is not reset.
WriteEditKeepsSync(e, active) ==
  /\ req[e].phase = "loaded"
  /\ Overlaps(e)
  /\ IF row.exists
     THEN /\ row' = [row EXCEPT !.settings = @ + 1,
                                !.active = Flushed("active", e, active),
                                !.status = Flushed("status", e, "pending")]
          /\ Ends(e, "done")
     ELSE UNCHANGED row /\ Ends(e, "failed")
  /\ UNCHANGED <<tables, probed, merged>>

\* update_connection: new settings, is_active as asked, both statuses pending.
WriteEdit(e, active) ==
  /\ req[e].phase = "loaded"
  /\ Overlaps(e)
  /\ IF row.exists
     THEN /\ row' = [row EXCEPT !.settings = @ + 1,
                                !.active = Flushed("active", e, active),
                                !.status = Flushed("status", e, "pending"),
                                !.sync = Flushed("sync", e, "pending")]
          /\ Ends(e, "done")
     ELSE UNCHANGED row /\ Ends(e, "failed")
  /\ UNCHANGED <<tables, probed, merged>>

\* test_connection after its probe; a row that is gone is not an error.
WriteTest(t, success) ==
  /\ req[t].phase = "loaded"
  /\ Overlaps(t)
  /\ IF row.exists
     THEN row' = [row EXCEPT
            !.status = Flushed("status", t, IF success THEN "healthy" ELSE "failed")]
     ELSE UNCHANGED row
  /\ probed' = IF success THEN probed \cup {req[t].seen.settings} ELSE probed
  /\ Ends(t, "done")
  /\ UNCHANGED <<tables, merged>>

-----------------------------------------------------------------------------
\* sync_schema after a successful introspection: which tables are not cached?
SelectCached(s) ==
  /\ req[s].phase = "loaded"
  /\ req' = [req EXCEPT ![s].phase = "selected", ![s].new = Found(s) \ tables]
  /\ UNCHANGED <<row, tables, probed, merged, raced>>

\* Mutant of InsertNew: it waits for what others have selected, as if the missing
\* rows were reserved in no fixed order.
InsertNewReserved(s) ==
  /\ req[s].phase = "selected"
  /\ \A o \in Syncs \ {s} :
       req[o].phase \in {"selected", "inserted"} => req[o].new \cap req[s].new = {}
  /\ IF row.exists /\ req[s].new \cap tables = {}
     THEN req' = [req EXCEPT ![s].phase = "inserted"]
     ELSE Ends(s, "failed")
  /\ UNCHANGED <<row, tables, probed, merged, raced>>

\* Mutant of InsertNew: an uncommitted row with the same key does not stop it.
InsertNewAtOnce(s) ==
  /\ req[s].phase = "selected"
  /\ IF row.exists /\ req[s].new \cap tables = {}
     THEN req' = [req EXCEPT ![s].phase = "inserted"]
     ELSE Ends(s, "failed")
  /\ UNCHANGED <<row, tables, probed, merged, raced>>

\* The INSERTs wait for an uncommitted row with the same key, and break a unique
\* or foreign key if it was committed, or the connection deleted, meanwhile.
InsertNew(s) ==
  /\ req[s].phase = "selected"
  /\ \A o \in Syncs \ {s} :
       req[o].phase = "inserted" => req[o].new \cap req[s].new = {}
  /\ IF row.exists /\ req[s].new \cap tables = {}
     THEN req' = [req EXCEPT ![s].phase = "inserted"]
     ELSE Ends(s, "failed")
  /\ UNCHANGED <<row, tables, probed, merged, raced>>

\* Mutant of CommitSync: the cached tables survive a row that is gone.
CommitSyncUnchecked(s) ==
  /\ req[s].phase = "inserted"
  /\ Overlaps(s)
  /\ row' = [row EXCEPT !.status = Flushed("status", s, "healthy"),
                        !.sync = Flushed("sync", s, "healthy")]
  /\ tables' = tables \cup req[s].new
  /\ merged' = merged \cup {req[s].seen.settings}
  /\ Ends(s, "done")
  /\ UNCHANGED probed

\* The row is marked healthy and the transaction commits; the UPDATE of a row
\* that is gone raises.
CommitSync(s) ==
  /\ req[s].phase = "inserted"
  /\ Overlaps(s)
  /\ IF row.exists
     THEN /\ row' = [row EXCEPT !.status = Flushed("status", s, "healthy"),
                                !.sync = Flushed("sync", s, "healthy")]
          /\ tables' = tables \cup req[s].new
          /\ merged' = merged \cup {req[s].seen.settings}
          /\ Ends(s, "done")
     ELSE UNCHANGED <<row, tables, merged>> /\ Ends(s, "failed")
  /\ UNCHANGED probed

\* Introspection fails, or any exception or crash later: all is rolled back, with
\* it the schema_sync_status = "failed" that the handler of the exception flushed.
SyncFails(s) ==
  /\ InFlight(s)
  /\ Ends(s, "failed")
  /\ UNCHANGED <<row, tables, probed, merged, raced>>

\* delete_connection: the DELETE cascades, and waits for transactions that have
\* inserted tables, since those hold the row by its foreign key.
Delete ==
  /\ row.exists
  /\ \A s \in Syncs : req[s].phase = "inserted" => req[s].new = {}
  /\ row' = NoRow
  /\ tables' = {}
  /\ merged' = {}
  /\ UNCHANGED <<req, probed, raced>>

\* execute_plan selects the row again; only its existence and is_active count.
\* seen becomes what the query runs with.
ExecuteQuery(q) ==
  /\ req[q].phase = "loaded"
  /\ Overlaps(q)
  /\ req' = [req EXCEPT
       ![q].phase = IF row.exists /\ row.active THEN "done" ELSE "failed",
       ![q].seen = IF row.exists /\ row.active THEN row ELSE @]
  /\ UNCHANGED <<row, tables, probed, merged>>

SyncStep(s) ==
  \/ SelectCached(s)
  \/ InsertNew(s)
  \/ CommitSync(s)

Next ==
  \/ Create
  \/ Delete
  \/ \E x \in Requests : Load(x)
  \/ \E e \in Edits, active \in BOOLEAN : WriteEdit(e, active)
  \/ \E t \in Tests, success \in BOOLEAN : WriteTest(t, success)
  \/ \E s \in Syncs : SyncStep(s) \/ SyncFails(s)
  \/ \E q \in Queries : ExecuteQuery(q)

Spec == Init /\ [][Next]_vars

\* A synchronisation that runs goes on (or fails); it waits only for another one.
FairSpec == Spec /\ \A s \in Syncs : WF_vars(SyncStep(s))

-----------------------------------------------------------------------------
(* Properties *)

\* Every variable has its type (models/database_connection.py).
TypeOK ==
  /\ row \in Row
  /\ tables \subseteq Tables
  /\ req \in [Requests -> Request]
  /\ probed \subseteq Settings
  /\ merged \subseteq Settings
  /\ raced \in BOOLEAN

\* The current settings were reached by a test or a synchronisation, and those
\* of a synchronised connection by a synchronisation.
Earned ==
  /\ row.status = "healthy" => row.settings \in probed \cup merged
  /\ row.sync = "healthy" => row.settings \in merged

\* As long as no edit has overlapped another request, healthy speaks of the
\* current settings, and no query runs with settings that nobody synchronised,
\* however tests, synchronisations, queries and a deletion interleave.
HealthyUnlessRaced ==
  ~raced => /\ Earned
            /\ \A q \in Queries : req[q].phase = "done" =>
                 req[q].seen.settings \in merged \/ ~row.exists

\* The cache is the union of whole introspections: a synchronisation is merged
\* completely or not at all, and nothing is left of a deleted connection.
CatalogIsWhole == tables = UNION {Source[v] : v \in merged}

\* What a synchronisation is about to commit is neither in the cache nor in what another
\* one is about to commit.
InsertsNewTables(s) ==
  req[s].phase = "inserted" =>
    /\ row.exists => req[s].new \cap tables = {}
    /\ \A o \in Syncs \ {s} : req[o].phase = "inserted" => req[s].new \cap req[o].new = {}

\* Any number of synchronisations may have selected the same missing tables: of those that
\* overlap, at most one inserts at a time, and its commit adds no table twice
\* (schema_sync_service.py:90).
KeysAreUnique == \A s \in Syncs : InsertsNewTables(s)

\* What makes the two inductive: edits are counted by their requests; what a
\* running synchronisation has selected is still what the cache lacks; and
\* without a race the settings that a request loaded are the current ones, which
\* for a query somebody synchronised, and an edit writes over what it loaded.
EditsCounted == row.settings <= Cardinality({e \in Edits : req[e].phase = "done"})

SelectionHolds ==
  row.exists => \A s \in Syncs : req[s].phase \in {"selected", "inserted"} =>
                  req[s].new \subseteq Found(s) /\ Found(s) \subseteq tables \cup req[s].new

LoadedIsCurrent ==
  ~raced /\ row.exists =>
    /\ \A x \in Requests : InFlight(x) => req[x].seen.settings = row.settings
    /\ \A e \in Edits : InFlight(e) => req[e].seen = row
    /\ \A q \in Queries : InFlight(q) => req[q].seen.settings \in merged

IInv ==
  /\ TypeOK
  /\ EditsCounted
  /\ SelectionHolds
  /\ LoadedIsCurrent
  /\ CatalogIsWhole
  /\ HealthyUnlessRaced

\* A synchronisation ends, though it may wait for the rows of another one.
SyncEnds == \A s \in Syncs : req[s].phase = "loaded" ~> ~InFlight(s)

\* plan/05: an edit requires "a new successful test and sync before chat can
\* use the connection".
HealthyWasTested == Earned

\* plan/06: a synchronisation removes "disappeared tables/columns/schemas", so
\* the cache of a synchronised connection is what its source holds.
CatalogIsCurrent == ~raced /\ row.sync = "healthy" => tables = Source[row.settings]
=============================================================================
