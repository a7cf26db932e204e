---------------------------- MODULE Permissions ----------------------------
(***************************************************************************)
(* The permissions of one user on the tables of the tenant's connections:  *)
(* the committed rows of table_permissions, column_permissions, user_roles *)
(* and roles, and the requests with which administrators change them       *)
(* (api/routes/permissions.py, roles.py and users.py over                  *)
(* permission_repository.py and role_repository.py).  Each is one          *)
(* transaction; what a chat query makes of the rows is in GovernedQuery.   *)
(*                                                                         *)
(* Left out because nothing in chat reads them: can_insert, can_update,    *)
(* can_delete, can_filter, can_aggregate, names of roles.                  *)
(***************************************************************************)
EXTENDS RowFilters

CONSTANTS User,       \* the user who asks
          Roles,
          Tables,     \* the enabled tables of all connections
          Names,      \* names of columns
          Columns,    \* Columns[t] are the cached columns of t
          Sensitive,  \* Sensitive[t] are those with is_sensitive
          Masks,      \* what a rule may put in mask_type
          NoMask,
          Redact,     \* the mask of a sensitive column that has no other
          Seeds,      \* committed rows before the first step
          Offers,     \* the grants that administrators ask for
          Verdicts,   \* the column rules that administrators ask for
          MaxGrants,  \* bound: grants ever created
          MaxEdits    \* bound: requests of administrators

Grant == [id: 1 .. MaxGrants, subject: {User} \cup Roles, table: Tables,
          read: BOOLEAN, filter: Nodes]
Verdict == [read: BOOLEAN, mask: Masks \cup {NoMask}]
Rule == [grant: 1 .. MaxGrants, column: Names, verdict: Verdict]

\* issued counts the ids given to grants, which are never used again.
Database == [grants: SUBSET Grant, rules: SUBSET Rule, members: SUBSET Roles,
             roles: SUBSET Roles, issued: 0 .. MaxGrants]

\* Keys of the tables: a grant's id, one grant per subject and table, one rule per
\* grant and column; rules and memberships refer to rows that exist.
Consistent(d) ==
  /\ \A g \in d.grants : g.id <= d.issued /\ (g.subject = User \/ g.subject \in d.roles)
  /\ \A g, h \in d.grants :
       g.id = h.id \/ (g.subject = h.subject /\ g.table = h.table) => g = h
  /\ \A r \in d.rules : \E g \in d.grants : g.id = r.grant /\ r.column \in Columns[g.table]
  /\ \A r, s \in d.rules : r.grant = s.grant /\ r.column = s.column => r = s
  /\ d.members \subseteq d.roles

ASSUME PermissionConstants ==
  /\ User \notin Roles
  /\ Columns \in [Tables -> SUBSET Names]
  /\ Sensitive \in [Tables -> SUBSET Names]
  /\ Redact \in Masks /\ NoMask \notin Masks
  /\ MaxGrants \in Nat /\ MaxEdits \in Nat
  /\ Seeds \subseteq Database
  /\ \A d \in Seeds : Consistent(d) /\ \A g \in d.grants : Accepts(g.filter)
  /\ Offers \subseteq [subject: {User} \cup Roles, table: Tables, read: BOOLEAN, filter: Nodes]
  /\ Verdicts \subseteq Verdict

VARIABLES db,     \* the committed rows
          admin,  \* users.is_tenant_admin, which no request changes
          edits   \* history: how many requests of administrators were committed

permissionVars == <<db, admin, edits>>

-----------------------------------------------------------------------------
\* A request of an administrator commits new rows.
Commits(rows) ==
  /\ edits < MaxEdits
  /\ edits' = edits + 1
  /\ db' = rows
  /\ UNCHANGED admin

\* Mutant of CreateGrant: no unique index (migration 0002).
CreateGrantAgain(o) ==
  /\ db.issued < MaxGrants
  /\ Accepts(o.filter)
  /\ o.subject \in {User} \cup db.roles
  /\ Commits([db EXCEPT !.issued = @ + 1,
                        !.grants = @ \cup {[id |-> db.issued + 1, subject |-> o.subject,
                          table |-> o.table, read |-> o.read, filter |-> o.filter]}])

\* POST /permissions/table: an accepted filter, an existing subject, and no grant
\* yet for this subject and table.
CreateGrant(o) ==
  /\ db.issued < MaxGrants
  /\ Accepts(o.filter)
  /\ o.subject \in {User} \cup db.roles
  /\ ~ \E g \in db.grants : g.subject = o.subject /\ g.table = o.table
  /\ Commits([db EXCEPT !.issued = @ + 1,
                        !.grants = @ \cup {[id |-> db.issued + 1, subject |-> o.subject,
                          table |-> o.table, read |-> o.read, filter |-> o.filter]}])

\* PUT /permissions/table/{id}: everything but the subject and the table.
UpdateGrant(g, o) ==
  /\ g \in db.grants
  /\ Accepts(o.filter)
  /\ Commits([db EXCEPT !.grants =
                (@ \ {g}) \cup {[g EXCEPT !.read = o.read, !.filter = o.filter]}])

\* The rows without some grants, whose rules the foreign key deletes.
Without(d, gone) ==
  [d EXCEPT !.grants = @ \ gone, !.rules = {r \in @ : ~ \E g \in gone : g.id = r.grant}]

\* DELETE /permissions/table/{id}
DeleteGrant(g) ==
  /\ g \in db.grants
  /\ Commits(Without(db, {g}))

\* PUT /permissions/table/{id}/columns: delete and insert in one transaction.
ReplaceRules(g, verdicts) ==
  /\ g \in db.grants
  /\ DOMAIN verdicts \subseteq Columns[g.table]
  /\ Commits([db EXCEPT !.rules =
                {r \in @ : r.grant # g.id}
                  \cup {[grant |-> g.id, column |-> c, verdict |-> verdicts[c]]
                          : c \in DOMAIN verdicts}])

\* PUT /users/{id}/roles
AssignRoles(roles) ==
  /\ roles \subseteq db.roles
  /\ Commits([db EXCEPT !.members = roles])

\* DELETE /roles/{id}: memberships and grants go with it.
DeleteRole(r) ==
  /\ r \in db.roles
  /\ LET rest == Without(db, {g \in db.grants : g.subject = r})
     IN Commits([rest EXCEPT !.roles = @ \ {r}, !.members = @ \ {r}])

Administer ==
  \/ \E o \in Offers : CreateGrant(o) \/ \E g \in db.grants : UpdateGrant(g, o)
  \/ \E g \in db.grants :
       \/ DeleteGrant(g)
       \/ \E cs \in SUBSET Columns[g.table] : \E v \in [cs -> Verdicts] : ReplaceRules(g, v)
  \/ \E roles \in SUBSET db.roles : AssignRoles(roles)
  \/ \E r \in db.roles : DeleteRole(r)

InitPermissions ==
  /\ db \in Seeds
  /\ admin \in BOOLEAN
  /\ edits = 0

-----------------------------------------------------------------------------
(* What the rows give the user on table t, as resolve_effective_table_permission *)
(* decides it, for rows d that stand still.                                      *)

Direct(d, t) == {g \in d.grants : g.subject = User /\ g.table = t}

\* One grant to the user is the sole authority; without one, all role grants count.
Authority(d, t) ==
  IF Direct(d, t) # {} THEN Direct(d, t)
  ELSE {g \in d.grants : g.subject \in d.members /\ g.table = t}

Readers(d, t) == {g \in Authority(d, t) : g.read}

RulesOf(d, gs) == {r \in d.rules : \E g \in gs : g.id = r.grant}

\* No rule on a column leaves it readable; else some rule must read it.
Readable(rules, c) ==
  (\E r \in rules : r.column = c) => \E r \in rules : r.column = c /\ r.verdict.read

\* The masks a column may get: the first that a rule states, in an order the
\* SELECT leaves open; else a sensitive column is redacted.
MasksFor(t, rules, c) ==
  LET stated == {r.verdict.mask : r \in {s \in rules : s.column = c}} \ {NoMask}
  IN IF stated # {} THEN stated
     ELSE IF c \in Sensitive[t] THEN {Redact} ELSE {NoMask}

Column == Masks \cup {NoMask}

\* A table as the schema resolution sees it: its filters, and its readable columns
\* with their masks.
Shown == [read: BOOLEAN, filters: SUBSET Nodes,
          columns: UNION {[names -> Column] : names \in SUBSET Names}]

Hidden == [read |-> FALSE, filters |-> {}, columns |-> [c \in {} |-> NoMask]]

\* Without any grant a tenant administrator sees all columns, unmasked.
Open(t) == [read |-> TRUE, filters |-> {}, columns |-> [c \in Columns[t] |-> NoMask]]

WithoutGrant(t) == IF admin THEN Open(t) ELSE Hidden

FiltersOf(gs) == {n \in {g.filter : g \in gs} : ~Empty(n)}

\* What grants gs with these rules may show of t.
Views(t, gs, rules) ==
  LET names == {c \in Columns[t] : Readable(rules, c)}
  IN {[read |-> TRUE, filters |-> FiltersOf(gs), columns |-> masks]
        : masks \in {m \in [names -> Column] : \A c \in names : m[c] \in MasksFor(t, rules, c)}}

\* What the rows d may show of t.
ViewsOf(t, d) ==
  LET gs == Readers(d, t)
  IN IF gs # {} THEN Views(t, gs, RulesOf(d, gs))
     ELSE {IF Direct(d, t) # {} THEN Hidden ELSE WithoutGrant(t)}

\* The text compiled from a stored filter in plain form selects no row which the
\* filter does not mean, however deep its groups are nested and whatever is left out
\* of them (permission_service.py:48, row_filter_compiler.py:43).
FiltersNeverWiden ==
  \A g \in db.grants :
    g.filter \in PlainFilters =>
      RowsOf(Compile(g.filter)) \subseteq Means[MaxDepth][g.filter]
=============================================================================
