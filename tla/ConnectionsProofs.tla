--------------------------- MODULE ConnectionsProofs ---------------------------
(***************************************************************************)
(* Theorems about Connections, for any number of edits, tests,             *)
(* synchronisations and queries and any databases behind the settings.     *)
(***************************************************************************)
EXTENDS Connections, TLAPS, FiniteSetTheorems

-----------------------------------------------------------------------------
(* Lemmas about the helpers *)

\* The settings of the first create exist.
LEMMA FirstSettings == Cardinality(Edits) \in Nat /\ 0 \in Settings
<1>1. Cardinality(Edits) \in Nat
  BY FS_CardinalityType, ConnectionConstants
<1>2. QED
  BY <1>1 DEF Settings

\* A flush of one of the two statuses writes that value or leaves the column.
LEMMA FlushedStatus ==
  ASSUME NEW x, NEW new
  PROVE  /\ Flushed("status", x, new) \in {row.status, new}
         /\ Flushed("sync", x, new) \in {row.sync, new}
BY DEF Flushed

\* The same for is_active.
LEMMA FlushedActive ==
  ASSUME TypeOK, NEW x, NEW new \in BOOLEAN
  PROVE  Flushed("active", x, new) \in BOOLEAN
BY DEF Flushed, TypeOK, Row

\* A request that ends is no longer in flight, and the others are untouched.
LEMMA EndedRequest ==
  ASSUME TypeOK, NEW x \in Requests, NEW phase \in {"done", "failed"}, Ends(x, phase)
  PROVE  /\ req' \in [Requests -> Request]
         /\ req'[x] = [phase |-> phase, seen |-> NoRow, new |-> {}]
         /\ \A y \in Requests \ {x} : req'[y] = req[y]
<1>1. [phase |-> phase, seen |-> NoRow, new |-> {}] \in Request
  BY FirstSettings DEF Request, NoRow, Row
<1>2. QED
  BY <1>1 DEF Ends, TypeOK

\* Only an edit that ends as done changes the number of such edits.
LEMMA EditedUnchanged ==
  ASSUME \A e \in Edits : req'[e].phase = "done" <=> req[e].phase = "done"
  PROVE  {e \in Edits : req[e].phase = "done"}'
           = {e \in Edits : req[e].phase = "done"}
OBVIOUS

-----------------------------------------------------------------------------
(* Types, with the count of the edits that bounds the settings *)

\* The initial state is well typed and no edit is done.
LEMMA InitType == Init => TypeOK /\ EditsCounted
<1> SUFFICES ASSUME Init PROVE TypeOK /\ EditsCounted
  OBVIOUS
<1>1. NoRow \in Row
  BY FirstSettings DEF NoRow, Row
<1>2. TypeOK
  BY <1>1 DEF Init, TypeOK, Request
<1>3. {e \in Edits : req[e].phase = "done"} = {}
  BY DEF Init, Requests
<1>4. Cardinality({e \in Edits : req[e].phase = "done"}) = 0
  BY <1>3, FS_EmptySet
<1>5. row.settings = 0
  BY DEF Init, NoRow
<1>6. QED
  BY <1>2, <1>4, <1>5 DEF EditsCounted

\* A done edit adds one to the count and one to the settings.
LEMMA EditType ==
  ASSUME TypeOK, EditsCounted, NEW e \in Edits, NEW active \in BOOLEAN,
         WriteEdit(e, active)
  PROVE  TypeOK' /\ EditsCounted'
<1> DEFINE D == {d \in Edits : req[d].phase = "done"}
<1>1. e \in Requests /\ req[e].phase = "loaded"
  BY DEF Requests, WriteEdit
<1>2. raced' \in BOOLEAN
  BY DEF WriteEdit, Overlaps, TypeOK
<1>3. IsFiniteSet(D) /\ Cardinality(D) \in Nat /\ e \notin D
  BY <1>1, FS_Subset, FS_CardinalityType, ConnectionConstants
<1>4. CASE row.exists
  <2>1. Ends(e, "done")
    BY <1>4 DEF WriteEdit
  <2>2. /\ req' \in [Requests -> Request]
        /\ req'[e].phase = "done"
        /\ \A y \in Requests \ {e} : req'[y] = req[y]
    BY <2>1, <1>1, EndedRequest
  <2>3. \A d \in Edits : req'[d].phase = "done" <=> d = e \/ req[d].phase = "done"
    BY <2>2 DEF Requests
  <2>4. D' = D \cup {e}
    BY <2>3
  <2>5. Cardinality(D') = Cardinality(D) + 1
    BY <1>3, <2>4, FS_AddElement
  <2>6. Cardinality(D') <= Cardinality(Edits)
    BY FS_Subset, ConnectionConstants
  <2>7. row.settings + 1 \in Settings /\ row.settings + 1 <= Cardinality(D')
    BY <1>3, <2>5, <2>6, FirstSettings DEF TypeOK, EditsCounted, Row, Settings
  <2>8. row' \in Row /\ row'.settings = row.settings + 1
    <3>1. /\ Flushed("active", e, active) \in BOOLEAN
          /\ Flushed("status", e, "pending") \in {"pending", "healthy", "failed"}
          /\ Flushed("sync", e, "pending") \in {"pending", "healthy", "failed"}
      BY FlushedStatus, FlushedActive DEF TypeOK, Row
    <3>2. row' = [row EXCEPT !.settings = @ + 1,
                             !.active = Flushed("active", e, active),
                             !.status = Flushed("status", e, "pending"),
                             !.sync = Flushed("sync", e, "pending")]
      BY <1>4 DEF WriteEdit
    <3>3. QED
      BY <2>7, <3>1, <3>2 DEF TypeOK, Row
  <2>9. QED
    BY <2>2, <2>7, <2>8, <1>2 DEF TypeOK, EditsCounted, WriteEdit
<1>5. CASE ~row.exists
  <2>1. Ends(e, "failed") /\ row' = row
    BY <1>5 DEF WriteEdit
  <2>2. /\ req' \in [Requests -> Request]
        /\ req'[e].phase = "failed"
        /\ \A y \in Requests \ {e} : req'[y] = req[y]
    BY <2>1, <1>1, EndedRequest
  <2>3. D' = D
    BY <2>2, <1>1, EditedUnchanged DEF Requests
  <2>4. QED
    BY <2>1, <2>2, <2>3, <1>2 DEF TypeOK, EditsCounted, WriteEdit
<1>6. QED
  BY <1>4, <1>5

\* A request that moves without being an edit that is done keeps the types and
\* the count.
LEMMA MovedRequest ==
  ASSUME TypeOK, EditsCounted, NEW x \in Requests, NEW r \in Request,
         req' = [req EXCEPT ![x] = r],
         x \in Edits => r.phase # "done" /\ req[x].phase # "done",
         row' = row \/ row'.settings = row.settings \/ row'.settings = 0
  PROVE  req' \in [Requests -> Request] /\ EditsCounted'
<1>1. \A e \in Edits : req'[e].phase = "done" <=> req[e].phase = "done"
  BY DEF Requests, TypeOK
<1>2. Cardinality({e \in Edits : req[e].phase = "done"}) \in Nat
  BY FS_Subset, FS_CardinalityType, ConnectionConstants
<1>3. {e \in Edits : req[e].phase = "done"}'
        = {e \in Edits : req[e].phase = "done"}
  BY <1>1, EditedUnchanged
<1>4. row.settings \in Nat /\ row'.settings \in Nat /\ row'.settings <= row.settings
  BY FirstSettings DEF TypeOK, Row, Settings
<1>5. Cardinality({e \in Edits : req[e].phase = "done"})'
        = Cardinality({e \in Edits : req[e].phase = "done"})
  BY <1>3
<1>6. EditsCounted'
  BY <1>2, <1>4, <1>5 DEF EditsCounted
<1>7. r \in Request
  OBVIOUS
<1>8. QED
  BY <1>6, <1>7 DEF TypeOK

\* A write of both statuses keeps the row well typed.
LEMMA StatusesType ==
  ASSUME TypeOK, NEW st \in {"pending", "healthy", "failed"},
         NEW sy \in {"pending", "healthy", "failed"}
  PROVE  /\ [row EXCEPT !.status = st] \in Row
         /\ [row EXCEPT !.status = st].settings = row.settings
         /\ [row EXCEPT !.status = st, !.sync = sy] \in Row
         /\ [row EXCEPT !.status = st, !.sync = sy].settings = row.settings
BY DEF TypeOK, Row

\* Every step keeps the types and the count.
LEMMA NextType == TypeOK /\ EditsCounted /\ [Next]_vars => TypeOK' /\ EditsCounted'
<1> SUFFICES ASSUME TypeOK, EditsCounted, [Next]_vars PROVE TypeOK' /\ EditsCounted'
  OBVIOUS
<1>1. CASE Create
  <2>1. row' \in Row /\ row'.settings = 0
    BY <1>1, FirstSettings DEF Create, NoRow, Row
  <2>2. {e \in Edits : req[e].phase = "done"} = {}
    BY <1>1 DEF Create, Requests
  <2>3. EditsCounted'
    BY <1>1, <2>1, <2>2, FS_EmptySet, SMTT(20) DEF Create, EditsCounted
  <2>4. QED
    BY <1>1, <2>1, <2>3 DEF Create, TypeOK
<1>2. CASE Delete
  <2>1. NoRow \in Row /\ row'.settings = 0
    BY <1>2, FirstSettings DEF Delete, NoRow, Row
  <2>2. Cardinality({e \in Edits : req[e].phase = "done"}) \in Nat
    BY FS_Subset, FS_CardinalityType, ConnectionConstants
  <2>3. EditsCounted'
    BY <1>2, <2>1, <2>2 DEF Delete, EditsCounted
  <2>4. QED
    BY <1>2, <2>1, <2>3 DEF Delete, TypeOK
<1>3. ASSUME NEW x \in Requests, Load(x) PROVE TypeOK' /\ EditsCounted'
  <2> DEFINE r == [req[x] EXCEPT !.phase = "loaded", !.seen = row]
  <2>1. r \in Request /\ r.phase = "loaded"
    BY DEF TypeOK, Request
  <2>2. req' = [req EXCEPT ![x] = r] /\ row' = row
    BY <1>3 DEF Load, TypeOK
  <2>3. req' \in [Requests -> Request] /\ EditsCounted'
    BY <1>3, <2>1, <2>2, MovedRequest DEF Load
  <2>4. QED
    BY <1>3, <2>3 DEF Load, TypeOK
<1>4. ASSUME NEW e \in Edits, NEW active \in BOOLEAN, WriteEdit(e, active)
      PROVE  TypeOK' /\ EditsCounted'
  BY <1>4, EditType
<1>5. ASSUME NEW t \in Tests, NEW success \in BOOLEAN, WriteTest(t, success)
      PROVE  TypeOK' /\ EditsCounted'
  <2> DEFINE st == Flushed("status", t, IF success THEN "healthy" ELSE "failed")
  <2>1. st \in {"pending", "healthy", "failed"}
    BY FlushedStatus DEF TypeOK, Row
  <2>2. row' = [row EXCEPT !.status = st] \/ row' = row
    BY <1>5 DEF WriteTest
  <2>3. row' \in Row /\ row'.settings = row.settings
    BY <2>1, <2>2, StatusesType DEF TypeOK
  <2>4. req[t].seen.settings \in Settings
    BY DEF TypeOK, Requests, Request, Row
  <2>5. [phase |-> "done", seen |-> NoRow, new |-> {}] \in Request
    BY FirstSettings DEF Request, NoRow, Row
  <2>6. req' \in [Requests -> Request] /\ EditsCounted'
    BY <1>5, <2>3, <2>5, MovedRequest, ConnectionConstants DEF WriteTest, Ends, Requests
  <2>7. QED
    BY <1>5, <2>3, <2>4, <2>6 DEF WriteTest, Overlaps, TypeOK
<1>6. ASSUME NEW s \in Syncs, SelectCached(s) PROVE TypeOK' /\ EditsCounted'
  <2> DEFINE r == [req[s] EXCEPT !.phase = "selected", !.new = Found(s) \ tables]
  <2>1. s \in Requests /\ Found(s) \subseteq Tables
    BY ConnectionConstants DEF Requests, Found, TypeOK, Request, Row
  <2>2. r \in Request
    BY <2>1 DEF TypeOK, Request
  <2>3. req' = [req EXCEPT ![s] = r] /\ row' = row
    BY <1>6, <2>1 DEF SelectCached, TypeOK
  <2>4. req' \in [Requests -> Request] /\ EditsCounted'
    BY <2>1, <2>2, <2>3, MovedRequest, ConnectionConstants
  <2>5. QED
    BY <1>6, <2>4 DEF SelectCached, TypeOK
<1>7. ASSUME NEW s \in Syncs, InsertNew(s) PROVE TypeOK' /\ EditsCounted'
  <2>1. s \in Requests /\ s \notin Edits
    BY ConnectionConstants DEF Requests
  <2>2. /\ [req[s] EXCEPT !.phase = "inserted"] \in Request
        /\ [phase |-> "failed", seen |-> NoRow, new |-> {}] \in Request
    BY <2>1, FirstSettings DEF TypeOK, Request, NoRow, Row
  <2>3. /\ row' = row
        /\ \/ req' = [req EXCEPT ![s] = [req[s] EXCEPT !.phase = "inserted"]]
           \/ req' = [req EXCEPT ![s] = [phase |-> "failed", seen |-> NoRow, new |-> {}]]
    BY <1>7, <2>1 DEF InsertNew, Ends, TypeOK
  <2>4. req' \in [Requests -> Request] /\ EditsCounted'
    BY <2>1, <2>2, <2>3, MovedRequest
  <2>5. QED
    BY <1>7, <2>4 DEF InsertNew, TypeOK
<1>8. ASSUME NEW s \in Syncs, CommitSync(s) PROVE TypeOK' /\ EditsCounted'
  <2>1. s \in Requests /\ s \notin Edits
    BY ConnectionConstants DEF Requests
  <2>2. /\ Flushed("status", s, "healthy") \in {"pending", "healthy", "failed"}
        /\ Flushed("sync", s, "healthy") \in {"pending", "healthy", "failed"}
    BY FlushedStatus DEF TypeOK, Row
  <2>3. \/ row' = [row EXCEPT !.status = Flushed("status", s, "healthy"),
                             !.sync = Flushed("sync", s, "healthy")]
        \/ row' = row
    BY <1>8 DEF CommitSync
  <2>4. row' \in Row /\ row'.settings = row.settings
    BY <2>2, <2>3, StatusesType DEF TypeOK
  <2>5. req[s].new \subseteq Tables /\ req[s].seen.settings \in Settings
    BY <2>1 DEF TypeOK, Request, Row
  <2>6. /\ [phase |-> "done", seen |-> NoRow, new |-> {}] \in Request
        /\ [phase |-> "failed", seen |-> NoRow, new |-> {}] \in Request
    BY FirstSettings DEF Request, NoRow, Row
  <2>7. req' \in [Requests -> Request] /\ EditsCounted'
    BY <1>8, <2>1, <2>4, <2>6, MovedRequest DEF CommitSync, Ends
  <2>8. QED
    BY <1>8, <2>4, <2>5, <2>7 DEF CommitSync, Overlaps, TypeOK
<1>9. ASSUME NEW s \in Syncs, SyncFails(s) PROVE TypeOK' /\ EditsCounted'
  <2>1. s \in Requests /\ s \notin Edits
    BY ConnectionConstants DEF Requests
  <2>2. [phase |-> "failed", seen |-> NoRow, new |-> {}] \in Request
    BY FirstSettings DEF Request, NoRow, Row
  <2>3. req' \in [Requests -> Request] /\ EditsCounted'
    BY <1>9, <2>1, <2>2, MovedRequest DEF SyncFails, Ends
  <2>4. QED
    BY <1>9, <2>3 DEF SyncFails, TypeOK
<1>10. ASSUME NEW q \in Queries, ExecuteQuery(q) PROVE TypeOK' /\ EditsCounted'
  <2> DEFINE r == [req[q] EXCEPT
                    !.phase = IF row.exists /\ row.active THEN "done" ELSE "failed",
                    !.seen = IF row.exists /\ row.active THEN row ELSE @]
  <2>1. q \in Requests /\ q \notin Edits
    BY ConnectionConstants DEF Requests
  <2>2. r \in Request
    BY <2>1 DEF TypeOK, Request
  <2>3. req' = [req EXCEPT ![q] = r] /\ row' = row
    BY <1>10, <2>1 DEF ExecuteQuery, TypeOK
  <2>4. req' \in [Requests -> Request] /\ EditsCounted'
    BY <2>1, <2>2, <2>3, MovedRequest
  <2>5. QED
    BY <1>10, <2>4 DEF ExecuteQuery, Overlaps, TypeOK
<1>11. CASE UNCHANGED vars
  BY <1>11 DEF vars, TypeOK, EditsCounted
<1>12. QED
  BY <1>1, <1>2, <1>3, <1>4, <1>5, <1>6, <1>7, <1>8, <1>9, <1>10, <1>11
     DEF Next, SyncStep

\* Every variable keeps its type (models/database_connection.py).
THEOREM TypeCorrect == Spec => []TypeOK
<1>1. Init => TypeOK /\ EditsCounted
  BY InitType
<1>2. TypeOK /\ EditsCounted /\ [Next]_vars => TypeOK' /\ EditsCounted'
  BY NextType
<1>3. QED
  BY <1>1, <1>2, PTL DEF Spec

-----------------------------------------------------------------------------
(* The cache is whole *)

\* A step that leaves the cache, the existence of the row and every running
\* synchronisation alone keeps what that synchronisation has selected valid.
LEMMA SelectionFrame ==
  ASSUME SelectionHolds, CatalogIsWhole,
         row'.exists => row.exists,
         tables' = tables, merged' = merged,
         \A s \in Syncs : req'[s] = req[s] \/ req'[s].phase \notin {"selected", "inserted"}
  PROVE  SelectionHolds' /\ CatalogIsWhole'
<1>1. CatalogIsWhole'
  BY DEF CatalogIsWhole
<1>2. ASSUME row'.exists, NEW s \in Syncs, req'[s].phase \in {"selected", "inserted"}
      PROVE  (req[s].new \subseteq Found(s) /\ Found(s) \subseteq tables \cup req[s].new)'
  <2>1. req'[s] = req[s]
    BY <1>2
  <2>2. req[s].new \subseteq Found(s) /\ Found(s) \subseteq tables \cup req[s].new
    BY <1>2, <2>1 DEF SelectionHolds
  <2>3. Found(s)' = Found(s)
    BY <2>1 DEF Found
  <2>4. QED
    BY <2>1, <2>2, <2>3
<1>3. QED
  BY <1>1, <1>2 DEF SelectionHolds

\* The cache is whole at the start.
LEMMA InitSelection == Init => SelectionHolds /\ CatalogIsWhole
BY DEF Init, NoRow, SelectionHolds, CatalogIsWhole

\* The commit of a synchronisation adds exactly what it introspected.
LEMMA CommitSelection ==
  ASSUME TypeOK, SelectionHolds, CatalogIsWhole, NEW s \in Syncs, CommitSync(s)
  PROVE  SelectionHolds' /\ CatalogIsWhole'
<1>1. s \in Requests
  BY DEF Requests
<1>2. CASE row.exists
  <2>1. /\ tables' = tables \cup req[s].new
        /\ merged' = merged \cup {req[s].seen.settings}
        /\ Ends(s, "done")
    BY <1>2 DEF CommitSync
  <2>2. req[s].new \subseteq Found(s) /\ Found(s) \subseteq tables \cup req[s].new
    BY <1>2 DEF CommitSync, SelectionHolds
  <2>3. tables' = tables \cup Source[req[s].seen.settings]
    BY <2>1, <2>2 DEF Found
  <2>4. CatalogIsWhole'
    BY <2>1, <2>3 DEF CatalogIsWhole
  <2>5. ASSUME NEW o \in Syncs, req'[o].phase \in {"selected", "inserted"}
        PROVE  (req[o].new \subseteq Found(o) /\ Found(o) \subseteq tables \cup req[o].new)'
    <3>1. o # s /\ req'[o] = req[o]
      BY <2>1, <2>5, <1>1, EndedRequest DEF Requests
    <3>2. req[o].new \subseteq Found(o) /\ Found(o) \subseteq tables \cup req[o].new
      BY <1>2, <2>5, <3>1 DEF SelectionHolds
    <3>3. Found(o)' = Found(o)
      BY <3>1 DEF Found
    <3>4. QED
      BY <2>1, <3>1, <3>2, <3>3
  <2>6. QED
    BY <2>4, <2>5 DEF SelectionHolds
<1>3. CASE ~row.exists
  <2>1. /\ UNCHANGED <<row, tables, merged>>
        /\ Ends(s, "failed")
    BY <1>3 DEF CommitSync
  <2>2. QED
    BY <1>1, <2>1, EndedRequest, SelectionFrame DEF Requests
<1>4. QED
  BY <1>2, <1>3

\* Every step keeps the cache whole.
LEMMA NextSelection ==
  TypeOK /\ SelectionHolds /\ CatalogIsWhole /\ [Next]_vars
    => SelectionHolds' /\ CatalogIsWhole'
<1> SUFFICES ASSUME TypeOK, SelectionHolds, CatalogIsWhole, [Next]_vars
             PROVE  SelectionHolds' /\ CatalogIsWhole'
  OBVIOUS
<1> USE DEF Requests
<1>1. CASE Create
  BY <1>1 DEF Create, SelectionHolds, CatalogIsWhole
<1>2. CASE Delete
  BY <1>2 DEF Delete, NoRow, SelectionHolds, CatalogIsWhole
<1>3. ASSUME NEW x \in Requests, Load(x) PROVE SelectionHolds' /\ CatalogIsWhole'
  BY <1>3, SelectionFrame DEF Load, TypeOK
<1>4. ASSUME NEW e \in Edits, NEW active \in BOOLEAN, WriteEdit(e, active)
      PROVE  SelectionHolds' /\ CatalogIsWhole'
  <2>1. Ends(e, "done") \/ Ends(e, "failed")
    BY <1>4 DEF WriteEdit
  <2>2. row'.exists = row.exists
    BY <1>4 DEF WriteEdit, TypeOK, Row
  <2>3. \A s \in Syncs : req'[s] = req[s]
    BY <2>1, EndedRequest, ConnectionConstants
  <2>4. QED
    BY <1>4, <2>2, <2>3, SelectionFrame DEF WriteEdit
<1>5. ASSUME NEW t \in Tests, NEW success \in BOOLEAN, WriteTest(t, success)
      PROVE  SelectionHolds' /\ CatalogIsWhole'
  <2>1. row'.exists = row.exists
    BY <1>5 DEF WriteTest, TypeOK, Row
  <2>2. \A s \in Syncs : req'[s] = req[s]
    BY <1>5, EndedRequest, ConnectionConstants DEF WriteTest
  <2>3. QED
    BY <1>5, <2>1, <2>2, SelectionFrame DEF WriteTest
<1>6. ASSUME NEW s \in Syncs, SelectCached(s) PROVE SelectionHolds' /\ CatalogIsWhole'
  <2>1. CatalogIsWhole'
    BY <1>6 DEF SelectCached, CatalogIsWhole
  <2>2. ASSUME row'.exists, NEW o \in Syncs, req'[o].phase \in {"selected", "inserted"}
        PROVE  (req[o].new \subseteq Found(o) /\ Found(o) \subseteq tables \cup req[o].new)'
    <3>1. CASE o = s
      BY <1>6, <3>1 DEF SelectCached, Found, TypeOK, Request
    <3>2. CASE o # s
      <4>1. req'[o] = req[o] /\ row' = row /\ tables' = tables
        BY <1>6, <3>2 DEF SelectCached, TypeOK
      <4>2. req[o].new \subseteq Found(o) /\ Found(o) \subseteq tables \cup req[o].new
        BY <2>2, <4>1 DEF SelectionHolds
      <4>3. Found(o)' = Found(o)
        BY <4>1 DEF Found
      <4>4. QED
        BY <4>1, <4>2, <4>3
    <3>3. QED
      BY <3>1, <3>2
  <2>3. QED
    BY <2>1, <2>2 DEF SelectionHolds
<1>7. ASSUME NEW s \in Syncs, InsertNew(s) PROVE SelectionHolds' /\ CatalogIsWhole'
  <2>1. UNCHANGED <<row, tables, merged>>
    BY <1>7 DEF InsertNew
  <2>2. CASE Ends(s, "failed")
    BY <2>1, <2>2, EndedRequest, SelectionFrame
  <2>3. CASE req' = [req EXCEPT ![s].phase = "inserted"]
    <3>1. CatalogIsWhole'
      BY <2>1 DEF CatalogIsWhole
    <3>2. ASSUME row'.exists, NEW o \in Syncs, req'[o].phase \in {"selected", "inserted"}
          PROVE  (req[o].new \subseteq Found(o) /\ Found(o) \subseteq tables \cup req[o].new)'
      <4>1. req'[o].new = req[o].new /\ req'[o].seen = req[o].seen
        BY <2>3 DEF TypeOK, Request
      <4>2. req[o].phase \in {"selected", "inserted"}
        BY <1>7, <2>3, <3>2 DEF InsertNew, TypeOK
      <4>3. req[o].new \subseteq Found(o) /\ Found(o) \subseteq tables \cup req[o].new
        BY <2>1, <3>2, <4>2 DEF SelectionHolds
      <4>4. QED
        BY <2>1, <4>1, <4>3 DEF Found
    <3>3. QED
      BY <3>1, <3>2 DEF SelectionHolds
  <2>4. QED
    BY <1>7, <2>2, <2>3 DEF InsertNew
<1>8. ASSUME NEW s \in Syncs, CommitSync(s) PROVE SelectionHolds' /\ CatalogIsWhole'
  BY <1>8, CommitSelection
<1>9. ASSUME NEW s \in Syncs, SyncFails(s) PROVE SelectionHolds' /\ CatalogIsWhole'
  BY <1>9, EndedRequest, SelectionFrame DEF SyncFails
<1>10. ASSUME NEW q \in Queries, ExecuteQuery(q) PROVE SelectionHolds' /\ CatalogIsWhole'
  <2>1. \A s \in Syncs : req'[s] = req[s]
    BY <1>10, ConnectionConstants DEF ExecuteQuery, TypeOK
  <2>2. QED
    BY <1>10, <2>1, SelectionFrame DEF ExecuteQuery
<1>11. CASE UNCHANGED vars
  BY <1>11, SelectionFrame DEF vars
<1>12. QED
  BY <1>1, <1>2, <1>3, <1>4, <1>5, <1>6, <1>7, <1>8, <1>9, <1>10, <1>11
     DEF Next, SyncStep

\* CatalogIsWhole holds in every reachable state: no interleaving of
\* synchronisations, edits and a deletion leaves a part of an introspection.
THEOREM CatalogWhole == Spec => []CatalogIsWhole
<1> DEFINE I == TypeOK /\ EditsCounted /\ SelectionHolds /\ CatalogIsWhole
<1>1. Init => I
  BY InitType, InitSelection
<1>2. I /\ [Next]_vars => I'
  BY NextType, NextSelection
<1>3. I => CatalogIsWhole
  OBVIOUS
<1>4. QED
  BY <1>1, <1>2, <1>3, PTL DEF Spec

-----------------------------------------------------------------------------
(* Healthy settings were tested or synchronised, unless an edit raced *)

\* A step that leaves the row and the histories alone, puts no request in flight
\* and touches no query keeps the knowledge of every request.
LEMMA HealthyFrame ==
  ASSUME LoadedIsCurrent, HealthyUnlessRaced,
         UNCHANGED <<row, probed, merged, raced>>,
         \A x \in Requests : InFlight(x)' => InFlight(x) /\ req'[x].seen = req[x].seen,
         \A q \in Queries : req'[q] = req[q]
  PROVE  LoadedIsCurrent' /\ HealthyUnlessRaced'
<1>1. LoadedIsCurrent'
  BY DEF LoadedIsCurrent, Requests
<1>2. HealthyUnlessRaced'
  BY DEF HealthyUnlessRaced, Earned
<1>3. QED
  BY <1>1, <1>2

\* At the start nothing is healthy and nothing in flight.
LEMMA InitHealthy == Init => LoadedIsCurrent /\ HealthyUnlessRaced
BY DEF Init, NoRow, LoadedIsCurrent, HealthyUnlessRaced, Earned, InFlight, Requests

\* The end of an edit, a test or a synchronisation that did not race: no other
\* edit is in flight, nor, when an edit ends, any other request.
LEMMA NoRace ==
  ASSUME TypeOK, NEW x \in Requests, Overlaps(x), ~raced'
  PROVE  /\ ~raced
         /\ \A y \in Requests \ {x} : x \in Edits \/ y \in Edits => ~InFlight(y)
BY DEF Overlaps

\* An edit that did not race resets both statuses.
LEMMA EditHealthy ==
  ASSUME TypeOK, LoadedIsCurrent, HealthyUnlessRaced,
         NEW e \in Edits, NEW active \in BOOLEAN, WriteEdit(e, active)
  PROVE  LoadedIsCurrent' /\ HealthyUnlessRaced'
<1> SUFFICES ASSUME ~raced'
             PROVE  LoadedIsCurrent' /\ HealthyUnlessRaced'
  BY DEF LoadedIsCurrent, HealthyUnlessRaced
<1>1. e \in Requests /\ (Ends(e, "done") \/ Ends(e, "failed"))
  BY DEF WriteEdit, Requests
<1>2. ~raced /\ \A y \in Requests \ {e} : ~InFlight(y)
  BY <1>1, NoRace DEF WriteEdit
<1>3. \A y \in Requests : ~InFlight(y)'
  BY <1>1, <1>2, EndedRequest DEF InFlight
<1>4. LoadedIsCurrent'
  BY <1>3 DEF LoadedIsCurrent, Requests
<1>5. \A q \in Queries : req'[q] = req[q]
  BY <1>1, EndedRequest, ConnectionConstants DEF Requests
<1>6. row'.exists = row.exists /\ merged' = merged /\ probed' = probed
  BY DEF WriteEdit, TypeOK, Row
<1>7. Earned'
  <2>1. CASE row.exists
    <3>1. req[e].seen = row
      BY <1>1, <1>2, <2>1 DEF LoadedIsCurrent, InFlight, WriteEdit
    <3>2. Flushed("status", e, "pending") = "pending" /\ Flushed("sync", e, "pending") = "pending"
      BY <3>1 DEF Flushed
    <3>3. row' = [row EXCEPT !.settings = @ + 1,
                             !.active = Flushed("active", e, active),
                             !.status = "pending", !.sync = "pending"]
      BY <2>1, <3>2 DEF WriteEdit
    <3>4. row'.status = "pending" /\ row'.sync = "pending"
      BY <3>3 DEF TypeOK, Row
    <3>5. QED
      BY <3>4 DEF Earned
  <2>2. CASE ~row.exists
    BY <1>2, <2>2 DEF WriteEdit, Earned, HealthyUnlessRaced
  <2>3. QED
    BY <2>1, <2>2
<1>8. QED
  BY <1>2, <1>4, <1>5, <1>6, <1>7 DEF HealthyUnlessRaced

\* A test or a synchronisation that ends with the row's settings unchanged keeps
\* the knowledge of the others.
LEMMA EndedHealthy ==
  ASSUME TypeOK, LoadedIsCurrent, HealthyUnlessRaced, ~raced',
         NEW x \in Tests \cup Syncs, Overlaps(x), Ends(x, "done") \/ Ends(x, "failed"),
         row'.exists = row.exists, row'.settings = row.settings,
         merged \subseteq merged', Earned'
  PROVE  LoadedIsCurrent' /\ HealthyUnlessRaced'
<1>1. x \in Requests /\ x \notin Edits /\ x \notin Queries
  BY ConnectionConstants DEF Requests
<1>2. ~raced /\ \A y \in Edits : ~InFlight(y)
  BY <1>1, NoRace DEF Requests
<1>3. /\ \A y \in Requests \ {x} : req'[y] = req[y]
      /\ ~InFlight(x)'
  BY <1>1, EndedRequest DEF InFlight
<1>4. \A q \in Queries : req'[q] = req[q]
  BY <1>1, <1>3 DEF Requests
<1>5. ASSUME NEW y \in Requests, InFlight(y)'
      PROVE  InFlight(y) /\ req'[y] = req[y] /\ y \notin Edits
  BY <1>2, <1>3, <1>5 DEF InFlight
<1>6. LoadedIsCurrent'
  BY <1>2, <1>5 DEF LoadedIsCurrent, Requests
<1>7. HealthyUnlessRaced'
  BY <1>2, <1>4 DEF HealthyUnlessRaced
<1>8. QED
  BY <1>6, <1>7

\* A test that did not race speaks of the current settings.
LEMMA TestHealthy ==
  ASSUME TypeOK, LoadedIsCurrent, HealthyUnlessRaced,
         NEW t \in Tests, NEW success \in BOOLEAN, WriteTest(t, success)
  PROVE  LoadedIsCurrent' /\ HealthyUnlessRaced'
<1> SUFFICES ASSUME ~raced'
             PROVE  LoadedIsCurrent' /\ HealthyUnlessRaced'
  BY DEF LoadedIsCurrent, HealthyUnlessRaced
<1> DEFINE new == IF success THEN "healthy" ELSE "failed"
<1>1. t \in Requests /\ ~raced
  BY NoRace DEF WriteTest, Requests
<1>2. Earned
  BY <1>1 DEF HealthyUnlessRaced
<1>3. /\ row'.exists = row.exists /\ row'.settings = row.settings
      /\ row'.sync = row.sync /\ merged' = merged /\ probed \subseteq probed'
  BY DEF WriteTest, TypeOK, Row
<1>4. row'.status = row.status \/ (row.exists /\ row'.status = new)
  <2>1. CASE row.exists
    <3>1. row' = [row EXCEPT !.status = Flushed("status", t, new)]
      BY <2>1 DEF WriteTest
    <3>2. row'.status = Flushed("status", t, new)
      BY <3>1 DEF TypeOK, Row
    <3>3. QED
      BY <2>1, <3>2, FlushedStatus
  <2>2. CASE ~row.exists
    BY <2>2 DEF WriteTest
  <2>3. QED
    BY <2>1, <2>2
<1>5. row'.status = "healthy" => row'.settings \in probed' \cup merged'
  <2>1. CASE row'.status = row.status
    BY <1>2, <1>3, <2>1 DEF Earned
  <2>2. CASE row.exists /\ row'.status = new /\ success
    <3>1. req[t].seen.settings = row.settings
      BY <1>1, <2>2 DEF LoadedIsCurrent, InFlight, WriteTest
    <3>2. QED
      BY <1>3, <2>2, <3>1 DEF WriteTest
  <2>3. CASE row'.status = new /\ ~success
    BY <2>3
  <2>4. QED
    BY <1>4, <2>1, <2>2, <2>3
<1>6. Earned'
  BY <1>2, <1>3, <1>5 DEF Earned
<1>7. QED
  BY <1>3, <1>6, EndedHealthy DEF WriteTest

\* A synchronisation that did not race speaks of the current settings.
LEMMA CommitHealthy ==
  ASSUME TypeOK, LoadedIsCurrent, HealthyUnlessRaced, NEW s \in Syncs, CommitSync(s)
  PROVE  LoadedIsCurrent' /\ HealthyUnlessRaced'
<1> SUFFICES ASSUME ~raced'
             PROVE  LoadedIsCurrent' /\ HealthyUnlessRaced'
  BY DEF LoadedIsCurrent, HealthyUnlessRaced
<1>1. s \in Requests /\ ~raced
  BY NoRace DEF CommitSync, Requests
<1>2. row'.exists = row.exists /\ row'.settings = row.settings /\ merged \subseteq merged'
  BY DEF CommitSync, TypeOK, Row
<1>3. Earned'
  <2>1. CASE row.exists
    <3>1. req[s].seen.settings = row.settings
      BY <1>1, <2>1 DEF LoadedIsCurrent, InFlight, CommitSync
    <3>2. row'.settings \in merged'
      BY <1>2, <2>1, <3>1 DEF CommitSync
    <3>3. QED
      BY <3>2 DEF Earned
  <2>2. CASE ~row.exists
    BY <1>1, <2>2 DEF CommitSync, Earned, HealthyUnlessRaced
  <2>3. QED
    BY <2>1, <2>2
<1>4. QED
  BY <1>2, <1>3, EndedHealthy DEF CommitSync

\* A query that did not race runs with settings that somebody synchronised.
LEMMA QueryHealthy ==
  ASSUME TypeOK, LoadedIsCurrent, HealthyUnlessRaced, NEW q \in Queries, ExecuteQuery(q)
  PROVE  LoadedIsCurrent' /\ HealthyUnlessRaced'
<1> SUFFICES ASSUME ~raced'
             PROVE  LoadedIsCurrent' /\ HealthyUnlessRaced'
  BY DEF LoadedIsCurrent, HealthyUnlessRaced
<1>1. q \in Requests /\ ~raced
  BY NoRace DEF ExecuteQuery, Requests
<1>2. /\ req'[q].phase \in {"done", "failed"}
      /\ req'[q].phase = "done" => row.exists /\ req'[q].seen = row
      /\ \A y \in Requests \ {q} : req'[y] = req[y]
  BY <1>1 DEF ExecuteQuery, TypeOK, Request
<1>3. row.exists => row.settings \in merged
  BY <1>1 DEF LoadedIsCurrent, InFlight, ExecuteQuery
<1>4. row' = row /\ merged' = merged /\ probed' = probed
  BY DEF ExecuteQuery
<1>5. ASSUME NEW y \in Requests, InFlight(y)'
      PROVE  InFlight(y) /\ req'[y] = req[y]
  BY <1>2, <1>5 DEF InFlight
<1>6. LoadedIsCurrent'
  BY <1>1, <1>4, <1>5 DEF LoadedIsCurrent, Requests
<1>7. ASSUME NEW p \in Queries, req'[p].phase = "done"
      PROVE  req'[p].seen.settings \in merged' \/ ~row'.exists
  BY <1>1, <1>2, <1>3, <1>4, <1>7 DEF HealthyUnlessRaced, Requests
<1>8. HealthyUnlessRaced'
  BY <1>1, <1>4, <1>7 DEF HealthyUnlessRaced, Earned
<1>9. QED
  BY <1>6, <1>8

\* Every step keeps the knowledge of the requests.
LEMMA NextHealthy ==
  TypeOK /\ LoadedIsCurrent /\ HealthyUnlessRaced /\ [Next]_vars
    => LoadedIsCurrent' /\ HealthyUnlessRaced'
<1> SUFFICES ASSUME TypeOK, LoadedIsCurrent, HealthyUnlessRaced, [Next]_vars
             PROVE  LoadedIsCurrent' /\ HealthyUnlessRaced'
  OBVIOUS
<1>1. CASE Create
  BY <1>1 DEF Create, NoRow, LoadedIsCurrent, HealthyUnlessRaced, Earned, InFlight,
              Requests
<1>2. CASE Delete
  BY <1>2 DEF Delete, NoRow, LoadedIsCurrent, HealthyUnlessRaced, Earned
<1>3. ASSUME NEW x \in Requests, Load(x) PROVE LoadedIsCurrent' /\ HealthyUnlessRaced'
  <2>1. /\ UNCHANGED <<row, probed, merged, raced>>
        /\ req'[x].seen = row /\ req'[x].phase = "loaded"
        /\ \A y \in Requests \ {x} : req'[y] = req[y]
    BY <1>3 DEF Load, TypeOK, Request
  <2>2. ~raced /\ x \in Queries => row.settings \in merged
    BY <1>3 DEF Load, HealthyUnlessRaced, Earned
  <2>3. LoadedIsCurrent'
    BY <2>1, <2>2 DEF LoadedIsCurrent, InFlight, Requests
  <2>4. HealthyUnlessRaced'
    BY <2>1 DEF HealthyUnlessRaced, Earned, Requests
  <2>5. QED
    BY <2>3, <2>4
<1>4. ASSUME NEW e \in Edits, NEW active \in BOOLEAN, WriteEdit(e, active)
      PROVE  LoadedIsCurrent' /\ HealthyUnlessRaced'
  BY <1>4, EditHealthy
<1>5. ASSUME NEW t \in Tests, NEW success \in BOOLEAN, WriteTest(t, success)
      PROVE  LoadedIsCurrent' /\ HealthyUnlessRaced'
  BY <1>5, TestHealthy
<1>6. ASSUME NEW s \in Syncs, SelectCached(s) PROVE LoadedIsCurrent' /\ HealthyUnlessRaced'
  BY <1>6, HealthyFrame, ConnectionConstants
     DEF SelectCached, InFlight, TypeOK, Request, Requests
<1>7. ASSUME NEW s \in Syncs, InsertNew(s) PROVE LoadedIsCurrent' /\ HealthyUnlessRaced'
  <2>1. s \in Requests /\ s \notin Queries
    BY ConnectionConstants DEF Requests
  <2>2. CASE Ends(s, "failed")
    BY <1>7, <2>1, <2>2, EndedRequest, HealthyFrame DEF InsertNew, InFlight, Requests
  <2>3. CASE req' = [req EXCEPT ![s].phase = "inserted"]
    BY <1>7, <2>1, <2>3, HealthyFrame DEF InsertNew, InFlight, TypeOK, Request, Requests
  <2>4. QED
    BY <1>7, <2>2, <2>3 DEF InsertNew
<1>8. ASSUME NEW s \in Syncs, CommitSync(s) PROVE LoadedIsCurrent' /\ HealthyUnlessRaced'
  BY <1>8, CommitHealthy
<1>9. ASSUME NEW s \in Syncs, SyncFails(s) PROVE LoadedIsCurrent' /\ HealthyUnlessRaced'
  BY <1>9, EndedRequest, HealthyFrame, ConnectionConstants
     DEF SyncFails, InFlight, Requests
<1>10. ASSUME NEW q \in Queries, ExecuteQuery(q)
       PROVE  LoadedIsCurrent' /\ HealthyUnlessRaced'
  BY <1>10, QueryHealthy
<1>11. CASE UNCHANGED vars
  BY <1>11, HealthyFrame DEF vars, InFlight
<1>12. QED
  BY <1>1, <1>2, <1>3, <1>4, <1>5, <1>6, <1>7, <1>8, <1>9, <1>10, <1>11
     DEF Next, SyncStep

\* IInv holds in every reachable state.
THEOREM ConnectionInvariant == Spec => []IInv
<1>1. Init => IInv
  BY InitType, InitSelection, InitHealthy DEF IInv
<1>2. IInv /\ [Next]_vars => IInv'
  BY NextType, NextSelection, NextHealthy DEF IInv
<1>3. QED
  BY <1>1, <1>2, PTL DEF Spec

\* HealthyUnlessRaced holds in every reachable state: only an edit that overlaps
\* another request makes a status speak of settings that nobody tested.
THEOREM OnlyEditsRace == Spec => []HealthyUnlessRaced
<1>1. IInv => HealthyUnlessRaced
  BY DEF IInv
<1>2. QED
  BY <1>1, ConnectionInvariant, PTL

-----------------------------------------------------------------------------
(* The unique key of the cached tables *)

\* A step that ends synchronisations at most, and neither adds tables nor a row, leaves
\* no two in each other's way.
LEMMA KeysFrame ==
  ASSUME KeysAreUnique, row'.exists => row.exists, tables' \subseteq tables,
         \A s \in Syncs : req'[s].phase = "inserted" => req'[s] = req[s]
  PROVE  KeysAreUnique'
BY DEF KeysAreUnique, InsertsNewTables

\* No interleaving of synchronisations breaks a unique key when one commits
\* (schema_sync_service.py:71-152).
THEOREM KeysHold == Spec => []KeysAreUnique
<1>1. Init => KeysAreUnique
  BY DEF Init, KeysAreUnique, InsertsNewTables, Requests
<1>2. TypeOK /\ KeysAreUnique /\ [Next]_vars => KeysAreUnique'
  <2> SUFFICES ASSUME TypeOK, KeysAreUnique, [Next]_vars PROVE KeysAreUnique'
    OBVIOUS
  <2> USE DEF Requests
  <2>1. CASE Create
    BY <2>1 DEF Create, KeysAreUnique, InsertsNewTables
  <2>2. CASE Delete
    BY <2>2, KeysFrame DEF Delete, NoRow
  <2>3. ASSUME NEW x \in Requests, Load(x) PROVE KeysAreUnique'
    BY <2>3, KeysFrame DEF Load, TypeOK
  <2>4. ASSUME NEW e \in Edits, NEW active \in BOOLEAN, WriteEdit(e, active)
        PROVE  KeysAreUnique'
    <3>1. Ends(e, "done") \/ Ends(e, "failed")
      BY <2>4 DEF WriteEdit
    <3>2. row'.exists = row.exists
      BY <2>4 DEF WriteEdit, TypeOK, Row
    <3>3. \A s \in Syncs : req'[s] = req[s]
      BY <3>1, EndedRequest, ConnectionConstants
    <3>4. QED
      BY <2>4, <3>2, <3>3, KeysFrame DEF WriteEdit
  <2>5. ASSUME NEW t \in Tests, NEW success \in BOOLEAN, WriteTest(t, success)
        PROVE  KeysAreUnique'
    <3>1. row'.exists = row.exists
      BY <2>5 DEF WriteTest, TypeOK, Row
    <3>2. \A s \in Syncs : req'[s] = req[s]
      BY <2>5, EndedRequest, ConnectionConstants DEF WriteTest
    <3>3. QED
      BY <2>5, <3>1, <3>2, KeysFrame DEF WriteTest
  <2>6. ASSUME NEW s \in Syncs, SelectCached(s) PROVE KeysAreUnique'
    <3>1. req'[s].phase = "selected" /\ \A o \in Syncs \ {s} : req'[o] = req[o]
      BY <2>6 DEF SelectCached, TypeOK, Request
    <3>2. QED
      BY <2>6, <3>1, KeysFrame DEF SelectCached
  <2>7. ASSUME NEW s \in Syncs, InsertNew(s) PROVE KeysAreUnique'
    <3>1. UNCHANGED <<row, tables>>
      BY <2>7 DEF InsertNew
    <3>2. CASE Ends(s, "failed")
      BY <3>1, <3>2, EndedRequest, KeysFrame
    <3>3. CASE req' = [req EXCEPT ![s].phase = "inserted"] /\ req[s].new \cap tables = {}
      <4>1. /\ req'[s].new = req[s].new
            /\ \A o \in Syncs \ {s} : req'[o] = req[o]
        BY <3>3 DEF TypeOK, Request
      <4>2. \A o \in Syncs \ {s} : req[o].phase = "inserted" => req[o].new \cap req[s].new = {}
        BY <2>7 DEF InsertNew
      <4>3. InsertsNewTables(s)'
        BY <3>1, <3>3, <4>1, <4>2 DEF InsertsNewTables
      <4>4. ASSUME NEW o \in Syncs \ {s} PROVE InsertsNewTables(o)'
        BY <3>1, <4>1, <4>2 DEF KeysAreUnique, InsertsNewTables
      <4>5. QED
        BY <4>3, <4>4 DEF KeysAreUnique
    <3>4. QED
      BY <2>7, <3>2, <3>3 DEF InsertNew
  <2>8. ASSUME NEW s \in Syncs, CommitSync(s) PROVE KeysAreUnique'
    <3>1. Ends(s, "done") \/ Ends(s, "failed")
      BY <2>8 DEF CommitSync
    <3>2. req'[s].phase # "inserted" /\ \A o \in Syncs \ {s} : req'[o] = req[o]
      BY <3>1, EndedRequest
    <3>3. row'.exists = row.exists
      BY <2>8 DEF CommitSync, TypeOK, Row
    <3>4. req[s].phase = "inserted" /\ tables' \in {tables, tables \cup req[s].new}
      BY <2>8 DEF CommitSync
    <3>5. ASSUME NEW o \in Syncs PROVE InsertsNewTables(o)'
      BY <3>2, <3>3, <3>4 DEF KeysAreUnique, InsertsNewTables
    <3>6. QED
      BY <3>5 DEF KeysAreUnique
  <2>9. ASSUME NEW s \in Syncs, SyncFails(s) PROVE KeysAreUnique'
    BY <2>9, EndedRequest, KeysFrame DEF SyncFails
  <2>10. ASSUME NEW q \in Queries, ExecuteQuery(q) PROVE KeysAreUnique'
    <3>1. \A s \in Syncs : req'[s] = req[s]
      BY <2>10, ConnectionConstants DEF ExecuteQuery, TypeOK
    <3>2. QED
      BY <2>10, <3>1, KeysFrame DEF ExecuteQuery
  <2>11. CASE UNCHANGED vars
    BY <2>11, KeysFrame DEF vars
  <2>12. QED
    BY <2>1, <2>2, <2>3, <2>4, <2>5, <2>6, <2>7, <2>8, <2>9, <2>10, <2>11
       DEF Next, SyncStep
<1>3. QED
  BY <1>1, <1>2, TypeCorrect, PTL DEF Spec
=============================================================================
