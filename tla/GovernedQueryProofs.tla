------------------------- MODULE GovernedQueryProofs -------------------------
(* GovernedQuery keeps its invariant, for any number of tables, roles, grants *)
(* and requests, and with it what the runs check of one small instance.       *)
EXTENDS GovernedQuery, RowFiltersProofs

-----------------------------------------------------------------------------
(* What a request of an administrator may make of the rows d: it creates a    *)
(* grant, updates one, removes some with a role or without, replaces the      *)
(* rules of one, or assigns roles.                                            *)

Created(d, e, n) ==
  /\ n \in Grant /\ n.id = d.issued + 1 /\ d.issued < MaxGrants
  /\ n.subject \in {User} \cup d.roles
  /\ \A g \in d.grants : ~(g.subject = n.subject /\ g.table = n.table)
  /\ e = [grants |-> d.grants \cup {n}, rules |-> d.rules, members |-> d.members,
          roles |-> d.roles, issued |-> d.issued + 1]

Updated(d, e, g, h) ==
  /\ g \in d.grants /\ h \in Grant
  /\ h.id = g.id /\ h.subject = g.subject /\ h.table = g.table
  /\ e = [grants |-> (d.grants \ {g}) \cup {h}, rules |-> d.rules, members |-> d.members,
          roles |-> d.roles, issued |-> d.issued]

Removed(d, e, gone, left) ==
  /\ gone \subseteq d.grants /\ left \subseteq d.roles
  /\ \A g \in d.grants : g.subject \in d.roles \ left => g \in gone
  /\ e = [grants |-> d.grants \ gone,
          rules |-> {r \in d.rules : ~ \E g \in gone : g.id = r.grant},
          members |-> d.members \cap left, roles |-> left, issued |-> d.issued]

Ruled(d, e, g, new) ==
  /\ g \in d.grants
  /\ new \subseteq Rule
  /\ \A r \in new : r.grant = g.id /\ r.column \in Columns[g.table]
  /\ \A r, s \in new : r.column = s.column => r = s
  /\ e = [grants |-> d.grants, rules |-> {r \in d.rules : r.grant # g.id} \cup new,
          members |-> d.members, roles |-> d.roles, issued |-> d.issued]

Assigned(d, e, members) ==
  /\ members \subseteq d.roles
  /\ e = [grants |-> d.grants, rules |-> d.rules, members |-> members, roles |-> d.roles,
          issued |-> d.issued]

Requested(d, e) ==
  \/ \E n : Created(d, e, n)
  \/ \E g, h : Updated(d, e, g, h)
  \/ \E gone, left : Removed(d, e, gone, left)
  \/ \E g, new : Ruled(d, e, g, new)
  \/ \E members : Assigned(d, e, members)

\* The rows are a record of these fields (models/table_permission.py and others).
LEMMA RowsAreRecord ==
  ASSUME NEW d \in Database
  PROVE  /\ d.grants \subseteq Grant /\ d.rules \subseteq Rule
         /\ d.members \subseteq Roles /\ d.roles \subseteq Roles /\ d.issued \in 0 .. MaxGrants
         /\ d = [grants |-> d.grants, rules |-> d.rules, members |-> d.members,
                 roles |-> d.roles, issued |-> d.issued]
BY DEF Database

\* Every request of the routes is one of these (api/routes/permissions.py, roles.py
\* and users.py).
LEMMA RequestsChangeRows ==
  ASSUME TypeOK, Consistent(db), Administer
  PROVE  Requested(db, db') /\ admin' = admin /\ edits' \in 0 .. MaxEdits
<1>0. /\ db \in Database /\ edits \in 0 .. MaxEdits /\ MaxEdits \in Nat /\ MaxGrants \in Nat
      /\ Offers \subseteq [subject: {User} \cup Roles, table: Tables, read: BOOLEAN, filter: Nodes]
      /\ Verdicts \subseteq Verdict
      /\ Columns \in [Tables -> SUBSET Names]
  BY PermissionConstants DEF TypeOK
<1>1. /\ db.grants \subseteq Grant /\ db.rules \subseteq Rule
      /\ db.members \subseteq Roles /\ db.roles \subseteq Roles /\ db.issued \in 0 .. MaxGrants
      /\ db = [grants |-> db.grants, rules |-> db.rules, members |-> db.members,
               roles |-> db.roles, issued |-> db.issued]
  BY <1>0, RowsAreRecord
<1>2. ASSUME NEW rows, Commits(rows)
      PROVE  db' = rows /\ admin' = admin /\ edits' \in 0 .. MaxEdits
  BY <1>0, <1>2 DEF Commits
<1>3. CASE \E o \in Offers : CreateGrant(o)
  <2>1. PICK o \in Offers : CreateGrant(o)
    BY <1>3
  <2> DEFINE n == [id |-> db.issued + 1, subject |-> o.subject, table |-> o.table,
                   read |-> o.read, filter |-> o.filter]
             e == [db EXCEPT !.issued = @ + 1, !.grants = @ \cup {n}]
  <2>2. Commits(e) /\ db.issued < MaxGrants /\ o.subject \in {User} \cup db.roles
    BY <2>1 DEF CreateGrant
  <2>3. n \in Grant
    BY <1>0, <1>1, <2>2 DEF Grant
  <2>4. \A g \in db.grants : ~(g.subject = o.subject /\ g.table = o.table)
    BY <2>1 DEF CreateGrant
  <2>5. e = [grants |-> db.grants \cup {n}, rules |-> db.rules, members |-> db.members,
             roles |-> db.roles, issued |-> db.issued + 1]
    <3> DEFINE x == db.issued + 1
               y == db.grants \cup {n}
               f == [grants |-> db.grants, rules |-> db.rules, members |-> db.members,
                     roles |-> db.roles, issued |-> x]
    <3>1. e = [[db EXCEPT !.issued = x] EXCEPT !.grants = y]
      OBVIOUS
    <3> HIDE DEF n, x, y, e
    <3>2. [db EXCEPT !.issued = x] = f
      BY <1>1
    <3>3. [f EXCEPT !.grants = y] = [grants |-> y, rules |-> db.rules, members |-> db.members,
                                     roles |-> db.roles, issued |-> x]
      OBVIOUS
    <3> HIDE DEF f
    <3> QED BY <3>1, <3>2, <3>3 DEF x, y
  <2>6. Created(db, e, n)
    BY <2>2, <2>3, <2>4, <2>5 DEF Created
  <2> HIDE DEF n, e
  <2> QED BY <2>2, <2>6, <1>2 DEF Requested
<1>4. CASE \E o \in Offers : \E g \in db.grants : UpdateGrant(g, o)
  <2>1. PICK o \in Offers, g \in db.grants : UpdateGrant(g, o)
    BY <1>4
  <2> DEFINE h == [g EXCEPT !.read = o.read, !.filter = o.filter]
             e == [db EXCEPT !.grants = (@ \ {g}) \cup {h}]
  <2>2. Commits(e)
    BY <2>1 DEF UpdateGrant
  <2>3. h \in Grant /\ h.id = g.id /\ h.subject = g.subject /\ h.table = g.table
    BY <1>0, <1>1 DEF Grant
  <2>4. e = [grants |-> (db.grants \ {g}) \cup {h}, rules |-> db.rules,
             members |-> db.members, roles |-> db.roles, issued |-> db.issued]
    BY <1>1
  <2>5. Updated(db, e, g, h)
    BY <2>3, <2>4 DEF Updated
  <2> HIDE DEF h, e
  <2> QED BY <2>2, <2>5, <1>2 DEF Requested
<1>5. CASE \E g \in db.grants : DeleteGrant(g)
  <2>1. PICK g \in db.grants : DeleteGrant(g)
    BY <1>5
  <2> DEFINE e == Without(db, {g})
  <2>2. Commits(e)
    BY <2>1 DEF DeleteGrant
  <2>3. e = [grants |-> db.grants \ {g}, rules |-> {r \in db.rules : ~ \E x \in {g} : x.id = r.grant},
             members |-> db.members \cap db.roles, roles |-> db.roles, issued |-> db.issued]
    <3>1. db.members \cap db.roles = db.members
      BY DEF Consistent
    <3> DEFINE x == db.grants \ {g}
               y == {r \in db.rules : ~ \E z \in {g} : z.id = r.grant}
    <3>2. e = [[db EXCEPT !.grants = x] EXCEPT !.rules = y]
      BY DEF Without
    <3> HIDE DEF x, y, e
    <3>3. e = [grants |-> x, rules |-> y, members |-> db.members, roles |-> db.roles,
               issued |-> db.issued]
      BY <1>1, <3>2
    <3> QED BY <3>1, <3>3 DEF x, y
  <2>4. Removed(db, e, {g}, db.roles)
    BY <2>3 DEF Removed
  <2> HIDE DEF e
  <2> QED BY <2>2, <2>4, <1>2 DEF Requested
<1>6. CASE \E g \in db.grants : \E cs \in SUBSET Columns[g.table] :
             \E v \in [cs -> Verdicts] : ReplaceRules(g, v)
  <2>1. PICK g \in db.grants : \E cs \in SUBSET Columns[g.table] :
               \E v \in [cs -> Verdicts] : ReplaceRules(g, v)
    BY <1>6
  <2>0. PICK cs \in SUBSET Columns[g.table] : \E v \in [cs -> Verdicts] : ReplaceRules(g, v)
    BY <2>1
  <2>2. PICK v \in [cs -> Verdicts] : ReplaceRules(g, v)
    BY <2>0
  <2> DEFINE new == {[grant |-> g.id, column |-> c, verdict |-> v[c]] : c \in DOMAIN v}
             e == [db EXCEPT !.rules = {r \in @ : r.grant # g.id} \cup new]
  <2>3. Commits(e)
    BY <2>2 DEF ReplaceRules
  <2>4. g.id \in 1 .. MaxGrants /\ g.table \in Tables
    BY <1>1 DEF Grant
  <2>5. \A c \in DOMAIN v : c \in Columns[g.table] /\ c \in Names /\ v[c] \in Verdict
    BY <1>0, <2>4
  <2>6. new \subseteq Rule
    BY <2>4, <2>5 DEF Rule
  <2>7. \A r \in new : r.grant = g.id /\ r.column \in Columns[g.table]
    BY <2>5
  <2>8. \A r, s \in new : r.column = s.column => r = s
    OBVIOUS
  <2>9. e = [grants |-> db.grants, rules |-> {r \in db.rules : r.grant # g.id} \cup new,
             members |-> db.members, roles |-> db.roles, issued |-> db.issued]
    <3> DEFINE x == {r \in db.rules : r.grant # g.id} \cup new
    <3>1. e = [db EXCEPT !.rules = x]
      OBVIOUS
    <3> HIDE DEF new, x, e
    <3> QED BY <3>1, <1>1 DEF x
  <2>10. Ruled(db, e, g, new)
    BY <2>6, <2>7, <2>8, <2>9 DEF Ruled
  <2> HIDE DEF e, new
  <2> QED BY <2>3, <2>10, <1>2 DEF Requested
<1>7. CASE \E roles \in SUBSET db.roles : AssignRoles(roles)
  <2>1. PICK roles \in SUBSET db.roles : AssignRoles(roles)
    BY <1>7
  <2> DEFINE e == [db EXCEPT !.members = roles]
  <2>2. Commits(e)
    BY <2>1 DEF AssignRoles
  <2>3. e = [grants |-> db.grants, rules |-> db.rules, members |-> roles, roles |-> db.roles,
             issued |-> db.issued]
    BY <1>1
  <2>4. Assigned(db, e, roles)
    BY <2>3 DEF Assigned
  <2> HIDE DEF e
  <2> QED BY <2>2, <2>4, <1>2 DEF Requested
<1>8. CASE \E r \in db.roles : DeleteRole(r)
  <2>1. PICK r \in db.roles : DeleteRole(r)
    BY <1>8
  <2> DEFINE gone == {g \in db.grants : g.subject = r}
             left == db.roles \ {r}
             rest == Without(db, gone)
             e == [rest EXCEPT !.roles = @ \ {r}, !.members = @ \ {r}]
  <2>2. Commits(e)
    BY <2>1 DEF DeleteRole
  <2>3. rest = [grants |-> db.grants \ gone,
                rules |-> {x \in db.rules : ~ \E g \in gone : g.id = x.grant},
                members |-> db.members, roles |-> db.roles, issued |-> db.issued]
    <3> DEFINE x == db.grants \ gone
               y == {z \in db.rules : ~ \E g \in gone : g.id = z.grant}
    <3>1. rest = [[db EXCEPT !.grants = x] EXCEPT !.rules = y]
      BY DEF Without
    <3> HIDE DEF gone, x, y, rest
    <3> QED BY <1>1, <3>1 DEF x, y
  <2>4. db.members \ {r} = db.members \cap left
    BY DEF Consistent
  <2>5. e = [grants |-> db.grants \ gone,
             rules |-> {x \in db.rules : ~ \E g \in gone : g.id = x.grant},
             members |-> db.members \cap left, roles |-> left, issued |-> db.issued]
    <3> DEFINE x == db.grants \ gone
               y == {z \in db.rules : ~ \E g \in gone : g.id = z.grant}
               m == db.members \ {r}
    <3>1. rest.roles = db.roles /\ rest.members = db.members
      BY <2>3
    <3>2. e = [[rest EXCEPT !.roles = left] EXCEPT !.members = m]
      BY <3>1
    <3>3. rest = [grants |-> x, rules |-> y, members |-> db.members, roles |-> db.roles,
                  issued |-> db.issued]
      BY <2>3
    <3>4. m = db.members \cap left
      BY <2>4
    <3> HIDE DEF gone, rest, x, y, m, left, e
    <3>5. e = [grants |-> x, rules |-> y, members |-> m, roles |-> left, issued |-> db.issued]
      BY <3>2, <3>3
    <3> QED BY <3>4, <3>5 DEF x, y
  <2>6. Removed(db, e, gone, left)
    <3>1. gone \subseteq db.grants /\ left \subseteq db.roles
          /\ \A g \in db.grants : g.subject \in db.roles \ left => g \in gone
      OBVIOUS
    <3> HIDE DEF gone, rest, left, e
    <3> QED BY <2>5, <3>1 DEF Removed
  <2> HIDE DEF gone, left, rest, e
  <2> QED BY <2>2, <2>6, <1>2 DEF Requested
<1> QED BY <1>3, <1>4, <1>5, <1>6, <1>7, <1>8 DEF Administer

\* Requests keep the keys of the tables (migration 0002 and models/).
LEMMA RequestsKeepRows ==
  ASSUME NEW d \in Database, Consistent(d), NEW e, Requested(d, e)
  PROVE  e \in Database /\ Consistent(e)
<1>0. MaxGrants \in Nat
  BY PermissionConstants
<1>1. /\ d.grants \subseteq Grant /\ d.rules \subseteq Rule
      /\ d.members \subseteq Roles /\ d.roles \subseteq Roles /\ d.issued \in 0 .. MaxGrants
  BY RowsAreRecord
<1>2. /\ \A g \in d.grants : g.id <= d.issued /\ (g.subject = User \/ g.subject \in d.roles)
      /\ \A g, h \in d.grants :
           g.id = h.id \/ (g.subject = h.subject /\ g.table = h.table) => g = h
      /\ \A r \in d.rules : \E g \in d.grants : g.id = r.grant /\ r.column \in Columns[g.table]
      /\ \A r, s \in d.rules : r.grant = s.grant /\ r.column = s.column => r = s
      /\ d.members \subseteq d.roles
  BY DEF Consistent
<1>3. \A g \in d.grants : g.id \in 1 .. MaxGrants
  BY <1>1 DEF Grant
<1>4. ASSUME /\ e.grants \subseteq Grant /\ e.rules \subseteq Rule
             /\ e.members \subseteq e.roles /\ e.roles \subseteq Roles
             /\ e.issued \in 0 .. MaxGrants,
             e = [grants |-> e.grants, rules |-> e.rules, members |-> e.members,
                  roles |-> e.roles, issued |-> e.issued],
             \A g \in e.grants : g.id <= e.issued /\ (g.subject = User \/ g.subject \in e.roles),
             \A g, h \in e.grants :
               g.id = h.id \/ (g.subject = h.subject /\ g.table = h.table) => g = h,
             \A r \in e.rules : \E g \in e.grants : g.id = r.grant /\ r.column \in Columns[g.table],
             \A r, s \in e.rules : r.grant = s.grant /\ r.column = s.column => r = s
      PROVE  e \in Database /\ Consistent(e)
  BY <1>4 DEF Database, Consistent
<1>5. CASE \E n : Created(d, e, n)
  <2>1. PICK n : Created(d, e, n)
    BY <1>5
  <2>2. /\ n \in Grant /\ n.id = d.issued + 1 /\ d.issued < MaxGrants
        /\ n.subject \in {User} \cup d.roles
        /\ \A g \in d.grants : ~(g.subject = n.subject /\ g.table = n.table)
        /\ e = [grants |-> d.grants \cup {n}, rules |-> d.rules, members |-> d.members,
                roles |-> d.roles, issued |-> d.issued + 1]
    BY <2>1 DEF Created
  <2>3. /\ e.grants = d.grants \cup {n} /\ e.rules = d.rules /\ e.members = d.members
        /\ e.roles = d.roles /\ e.issued = d.issued + 1
    BY <2>2
  <2>4. \A g \in e.grants : g.id <= e.issued /\ (g.subject = User \/ g.subject \in e.roles)
    BY <1>1, <1>2, <1>3, <2>2, <2>3
  <2>5. \A g \in d.grants : g.id # n.id
    BY <1>1, <1>2, <1>3, <2>2
  <2>6. \A g, h \in e.grants :
          g.id = h.id \/ (g.subject = h.subject /\ g.table = h.table) => g = h
    BY <1>2, <2>2, <2>3, <2>5
  <2>7. \A r \in e.rules : \E g \in e.grants : g.id = r.grant /\ r.column \in Columns[g.table]
    BY <1>2, <2>3
  <2> QED BY <1>0, <1>1, <1>2, <1>4, <2>2, <2>3, <2>4, <2>6, <2>7
<1>6. CASE \E g, h : Updated(d, e, g, h)
  <2>1. PICK g, h : Updated(d, e, g, h)
    BY <1>6
  <2>2. /\ g \in d.grants /\ h \in Grant
        /\ h.id = g.id /\ h.subject = g.subject /\ h.table = g.table
        /\ e = [grants |-> (d.grants \ {g}) \cup {h}, rules |-> d.rules, members |-> d.members,
                roles |-> d.roles, issued |-> d.issued]
    BY <2>1 DEF Updated
  <2>3. /\ e.grants = (d.grants \ {g}) \cup {h} /\ e.rules = d.rules /\ e.members = d.members
        /\ e.roles = d.roles /\ e.issued = d.issued
    BY <2>2
  <2>4. \A x \in e.grants : x.id <= e.issued /\ (x.subject = User \/ x.subject \in e.roles)
    BY <1>2, <2>2, <2>3
  <2>5. \A x, y \in e.grants :
          x.id = y.id \/ (x.subject = y.subject /\ x.table = y.table) => x = y
    BY <1>2, <2>2, <2>3
  <2>6. ASSUME NEW r \in e.rules
        PROVE  \E x \in e.grants : x.id = r.grant /\ r.column \in Columns[x.table]
    <3>1. PICK x \in d.grants : x.id = r.grant /\ r.column \in Columns[x.table]
      BY <1>2, <2>3
    <3>2. CASE x = g
      BY <2>2, <2>3, <3>1, <3>2
    <3>3. CASE x # g
      BY <2>3, <3>1, <3>3
    <3> QED BY <3>2, <3>3
  <2> QED BY <1>1, <1>2, <1>4, <2>2, <2>3, <2>4, <2>5, <2>6
<1>7. CASE \E gone, left : Removed(d, e, gone, left)
  <2>1. PICK gone, left : Removed(d, e, gone, left)
    BY <1>7
  <2>2. /\ gone \subseteq d.grants /\ left \subseteq d.roles
        /\ \A g \in d.grants : g.subject \in d.roles \ left => g \in gone
        /\ e = [grants |-> d.grants \ gone,
                rules |-> {r \in d.rules : ~ \E g \in gone : g.id = r.grant},
                members |-> d.members \cap left, roles |-> left, issued |-> d.issued]
    BY <2>1 DEF Removed
  <2>3. /\ e.grants = d.grants \ gone /\ e.rules \subseteq d.rules
        /\ \A r \in e.rules : ~ \E g \in gone : g.id = r.grant
        /\ e.members = d.members \cap left /\ e.roles = left /\ e.issued = d.issued
    BY <2>2
  <2>4. \A g \in e.grants : g.id <= e.issued /\ (g.subject = User \/ g.subject \in e.roles)
    BY <1>2, <2>2, <2>3
  <2>5. \A g, h \in e.grants :
          g.id = h.id \/ (g.subject = h.subject /\ g.table = h.table) => g = h
    BY <1>2, <2>3
  <2>6. \A r \in e.rules : \E g \in e.grants : g.id = r.grant /\ r.column \in Columns[g.table]
    BY <1>2, <2>3
  <2>7. \A r, s \in e.rules : r.grant = s.grant /\ r.column = s.column => r = s
    BY <1>2, <2>3
  <2>8. e = [grants |-> e.grants, rules |-> e.rules, members |-> e.members,
             roles |-> e.roles, issued |-> e.issued]
    <3> DEFINE x == d.grants \ gone
               y == {r \in d.rules : ~ \E g \in gone : g.id = r.grant}
               m == d.members \cap left
    <3>1. e = [grants |-> x, rules |-> y, members |-> m, roles |-> left, issued |-> d.issued]
      BY <2>2
    <3> HIDE DEF x, y, m
    <3> QED BY <3>1
  <2> QED BY <1>1, <1>4, <2>2, <2>3, <2>4, <2>5, <2>6, <2>7, <2>8
<1>8. CASE \E g, new : Ruled(d, e, g, new)
  <2>1. PICK g, new : Ruled(d, e, g, new)
    BY <1>8
  <2>2. /\ g \in d.grants /\ new \subseteq Rule
        /\ \A r \in new : r.grant = g.id /\ r.column \in Columns[g.table]
        /\ \A r, s \in new : r.column = s.column => r = s
        /\ e = [grants |-> d.grants, rules |-> {r \in d.rules : r.grant # g.id} \cup new,
                members |-> d.members, roles |-> d.roles, issued |-> d.issued]
    BY <2>1 DEF Ruled
  <2>3. /\ e.grants = d.grants /\ e.rules = {r \in d.rules : r.grant # g.id} \cup new
        /\ e.members = d.members /\ e.roles = d.roles /\ e.issued = d.issued
    BY <2>2
  <2>4. \A r \in e.rules : \E x \in e.grants : x.id = r.grant /\ r.column \in Columns[x.table]
    BY <1>2, <2>2, <2>3
  <2>5. \A r, s \in e.rules : r.grant = s.grant /\ r.column = s.column => r = s
    BY <1>2, <2>2, <2>3
  <2>6. e.rules \subseteq Rule
    BY <1>1, <2>2, <2>3
  <2>7. e = [grants |-> e.grants, rules |-> e.rules, members |-> e.members,
             roles |-> e.roles, issued |-> e.issued]
    <3> DEFINE y == {r \in d.rules : r.grant # g.id} \cup new
    <3>1. e = [grants |-> d.grants, rules |-> y, members |-> d.members, roles |-> d.roles,
               issued |-> d.issued]
      BY <2>2
    <3> HIDE DEF y
    <3> QED BY <3>1
  <2>8. \A x \in e.grants : x.id <= e.issued /\ (x.subject = User \/ x.subject \in e.roles)
    BY <1>2, <2>3
  <2> QED BY <1>1, <1>2, <1>4, <2>3, <2>4, <2>5, <2>6, <2>7, <2>8
<1>9. CASE \E members : Assigned(d, e, members)
  <2>1. PICK members : Assigned(d, e, members)
    BY <1>9
  <2>2. /\ members \subseteq d.roles
        /\ e = [grants |-> d.grants, rules |-> d.rules, members |-> members, roles |-> d.roles,
                issued |-> d.issued]
    BY <2>1 DEF Assigned
  <2>3. /\ e.grants = d.grants /\ e.rules = d.rules /\ e.members = members
        /\ e.roles = d.roles /\ e.issued = d.issued
    BY <2>2
  <2> QED BY <1>1, <1>2, <1>4, <2>2, <2>3
<1> QED BY <1>5, <1>6, <1>7, <1>8, <1>9 DEF Requested

-----------------------------------------------------------------------------
(* What a request may change for a resolution that has begun. *)

\* A request may give the user a grant of his own only by creating it, and then
\* leaves what the roles give (permission_repository.py:86).
LEMMA RolesOrDirect ==
  ASSUME NEW d \in Database, Consistent(d), NEW e, Requested(d, e), NEW t, Direct(d, t) = {}
  PROVE  \/ Direct(e, t) = {}
         \/ /\ e.members = d.members
            /\ RoleReaders(e, d.members, t) = RoleReaders(d, d.members, t)
            /\ e.rules = d.rules
<1>0. User \notin Roles /\ d.members \subseteq Roles
  BY PermissionConstants, RowsAreRecord
<1>1. \A g \in d.grants : ~(g.subject = User /\ g.table = t)
  BY DEF Direct
<1>2. CASE \E n : Created(d, e, n)
  <2>1. PICK n : Created(d, e, n)
    BY <1>2
  <2>2. /\ e.grants = d.grants \cup {n} /\ e.rules = d.rules /\ e.members = d.members
    BY <2>1 DEF Created
  <2>3. CASE n.subject = User
    BY <1>0, <2>2, <2>3 DEF RoleReaders
  <2>4. CASE n.subject # User
    BY <1>1, <2>2, <2>4 DEF Direct
  <2> QED BY <2>3, <2>4
<1>3. CASE \E g, h : Updated(d, e, g, h)
  BY <1>1, <1>3 DEF Updated, Direct
<1>4. CASE \E gone, left : Removed(d, e, gone, left)
  <2>1. e.grants \subseteq d.grants
    BY <1>4 DEF Removed
  <2> QED BY <1>1, <2>1 DEF Direct
<1>5. CASE \E g, new : Ruled(d, e, g, new)
  <2>1. e.grants = d.grants
    BY <1>5 DEF Ruled
  <2> QED BY <1>1, <2>1 DEF Direct
<1>6. CASE \E members : Assigned(d, e, members)
  BY <1>1, <1>6 DEF Assigned, Direct
<1> QED BY <1>2, <1>3, <1>4, <1>5, <1>6 DEF Requested

\* So there is a moment, before the request or after it, at which the roles, their
\* grants and the rules of these would have been read as they are from now on.
LEMMA RequestBeforeRoles ==
  ASSUME NEW d \in Database, Consistent(d), NEW e, Requested(d, e), NEW t, Direct(d, t) = {}
  PROVE  \E m \in {d, e} :
           /\ Direct(m, t) = {} /\ m.members = e.members
           /\ RoleReaders(m, m.members, t) = RoleReaders(e, m.members, t)
           /\ RulesOf(m, RoleReaders(m, m.members, t)) = RulesOf(e, RoleReaders(m, m.members, t))
<1>1. CASE Direct(e, t) = {}
  BY <1>1
<1>2. CASE /\ e.members = d.members
           /\ RoleReaders(e, d.members, t) = RoleReaders(d, d.members, t)
           /\ e.rules = d.rules
  BY <1>2 DEF RulesOf
<1> QED BY <1>1, <1>2, RolesOrDirect

\* Likewise when the roles were read already.
LEMMA RequestBeforeGrants ==
  ASSUME NEW d \in Database, Consistent(d), NEW e, Requested(d, e), NEW t, Direct(d, t) = {}
  PROVE  \E m \in {d, e} :
           /\ Direct(m, t) = {}
           /\ RoleReaders(m, m.members, t) = RoleReaders(e, d.members, t)
           /\ RulesOf(m, RoleReaders(m, m.members, t)) = RulesOf(e, RoleReaders(m, m.members, t))
<1>1. CASE \E members : Assigned(d, e, members)
  <2>1. e.grants = d.grants /\ e.rules = d.rules
    BY <1>1 DEF Assigned
  <2> QED BY <2>1 DEF RoleReaders, RulesOf
<1>2. CASE Direct(e, t) # {}
  <2>1. /\ e.members = d.members
        /\ RoleReaders(e, d.members, t) = RoleReaders(d, d.members, t)
        /\ e.rules = d.rules
    BY <1>2, RolesOrDirect
  <2> QED BY <2>1 DEF RulesOf
<1>3. CASE Direct(e, t) = {} /\ e.members = d.members
  BY <1>3
<1>4. CASE Direct(e, t) = {} /\ \E gone, left : Removed(d, e, gone, left)
  <2>1. PICK gone, left : Removed(d, e, gone, left)
    BY <1>4
  <2>2. /\ \A g \in d.grants : g.subject \in d.roles \ left => g \in gone
        /\ e.grants = d.grants \ gone /\ e.members = d.members \cap left
    BY <2>1 DEF Removed
  <2>3. d.members \subseteq d.roles
    BY DEF Consistent
  <2>4. RoleReaders(e, e.members, t) = RoleReaders(e, d.members, t)
    BY <2>2, <2>3 DEF RoleReaders
  <2> QED BY <1>4, <2>4
<1>5. (\E n : Created(d, e, n)) => e.members = d.members
  BY DEF Created
<1>6. (\E g, h : Updated(d, e, g, h)) => e.members = d.members
  BY DEF Updated
<1>7. (\E g, new : Ruled(d, e, g, new)) => e.members = d.members
  BY DEF Ruled
<1> QED BY <1>1, <1>2, <1>3, <1>4, <1>5, <1>6, <1>7 DEF Requested

Ids(gs) == {g.id : g \in gs}

\* Likewise when the grants were read, and none of them is deleted.
LEMMA RequestBeforeRules ==
  ASSUME NEW d \in Database, Consistent(d), NEW e, Requested(d, e), NEW t
  PROVE  \E m \in {d, e} :
           /\ Readers(m, t) = Readers(d, t)
           /\ Ids(Readers(d, t)) \subseteq Ids(e.grants)
                => RulesOf(m, Readers(d, t)) = RulesOf(e, Readers(d, t))
<1>1. CASE e.rules = d.rules
  BY <1>1 DEF RulesOf
<1>2. CASE \E g, new : Ruled(d, e, g, new)
  <2>1. e.grants = d.grants /\ e.members = d.members
    BY <1>2 DEF Ruled
  <2>2. Readers(e, t) = Readers(d, t)
    BY <2>1 DEF Readers, Authority, Direct
  <2> QED BY <2>2
<1>3. CASE \E gone, left : Removed(d, e, gone, left)
  <2>1. PICK gone, left : Removed(d, e, gone, left)
    BY <1>3
  <2>2. /\ gone \subseteq d.grants /\ e.grants = d.grants \ gone
        /\ e.rules = {r \in d.rules : ~ \E g \in gone : g.id = r.grant}
    BY <2>1 DEF Removed
  <2>3. Readers(d, t) \subseteq d.grants
    BY DEF Readers, Authority, Direct
  <2>4. \A g, h \in d.grants : g.id = h.id => g = h
    BY DEF Consistent
  <2>5. ASSUME Ids(Readers(d, t)) \subseteq Ids(e.grants)
        PROVE  \A g \in Readers(d, t) : g \notin gone
    <3>1. ASSUME NEW g \in Readers(d, t)
          PROVE  g \notin gone
      <4>1. g.id \in Ids(e.grants)
        BY <2>5 DEF Ids
      <4>2. PICK h \in e.grants : h.id = g.id
        BY <4>1 DEF Ids
      <4> QED BY <2>2, <2>3, <2>4, <4>2
    <3> QED BY <3>1
  <2>6. ASSUME Ids(Readers(d, t)) \subseteq Ids(e.grants)
        PROVE  RulesOf(d, Readers(d, t)) = RulesOf(e, Readers(d, t))
    BY <2>2, <2>3, <2>4, <2>5, <2>6 DEF RulesOf
  <2> QED BY <2>6
<1>4. (\E n : Created(d, e, n)) => e.rules = d.rules
  BY DEF Created
<1>5. (\E g, h : Updated(d, e, g, h)) => e.rules = d.rules
  BY DEF Updated
<1>6. (\E members : Assigned(d, e, members)) => e.rules = d.rules
  BY DEF Assigned
<1> QED BY <1>1, <1>2, <1>3, <1>4, <1>5, <1>6 DEF Requested

-----------------------------------------------------------------------------
(* The views of a table. *)

ViewOK(t, view) ==
  /\ view \in Shown
  /\ view.read /\ ~admin => \A c \in Sensitive[t] \cap DOMAIN view.columns :
                               view.columns[c] # NoMask

\* No grant shows a sensitive column without a mask (permission_service.py:205).
LEMMA ViewsMask ==
  ASSUME NEW t \in Tables, NEW gs \in SUBSET Grant, NEW rules, NEW view \in Views(t, gs, rules)
  PROVE  ViewOK(t, view) /\ view.read /\ view.filters = FiltersOf(gs)
<1> DEFINE names == {c \in Columns[t] : Readable(rules, c)}
<1>1. PICK m \in [names -> Column] :
        /\ \A c \in names : m[c] \in MasksFor(t, rules, c)
        /\ view = [read |-> TRUE, filters |-> FiltersOf(gs), columns |-> m]
  BY DEF Views
<1>2. names \in SUBSET Names
  BY PermissionConstants
<1>3. FiltersOf(gs) \subseteq Nodes
  BY DEF FiltersOf, Grant
<1> HIDE DEF names
<1>4. DOMAIN m = names
  OBVIOUS
<1>5. m \in UNION {[ns -> Column] : ns \in SUBSET Names}
  BY <1>2
<1>6. view \in Shown
  BY <1>1, <1>3, <1>5 DEF Shown
<1>7. ASSUME NEW c \in Sensitive[t], c \in names
      PROVE  m[c] # NoMask
  <2>1. m[c] \in MasksFor(t, rules, c)
    BY <1>1, <1>7
  <2>2. Redact # NoMask
    BY PermissionConstants
  <2> DEFINE stated == {r.verdict.mask : r \in {s \in rules : s.column = c}} \ {NoMask}
  <2>3. NoMask \notin stated
    OBVIOUS
  <2>4. m[c] \in IF stated # {} THEN stated ELSE {Redact}
    BY <2>1 DEF MasksFor
  <2> HIDE DEF stated
  <2> QED BY <2>2, <2>3, <2>4
<1>8. view.read /\ view.filters = FiltersOf(gs) /\ view.columns = m
  BY <1>1
<1> QED BY <1>4, <1>6, <1>7, <1>8 DEF ViewOK

\* What an unreadable table puts into the schema.
LEMMA HiddenIsOK ==
  ASSUME NEW t PROVE ViewOK(t, Hidden) /\ Hidden.read = FALSE
<1> DEFINE none == [c \in {} |-> NoMask]
<1>1. none \in [{} -> Column]
  OBVIOUS
<1>2. none \in UNION {[ns -> Column] : ns \in SUBSET Names}
  BY <1>1
<1> HIDE DEF none
<1>3. Hidden = [read |-> FALSE, filters |-> {}, columns |-> none]
  BY DEF Hidden, none
<1> QED BY <1>2, <1>3 DEF ViewOK, Shown

\* Only administrators see a table without a grant (permission_service.py:135).
LEMMA WithoutGrantIsOK ==
  ASSUME NEW t \in Tables PROVE ViewOK(t, WithoutGrant(t))
<1>1. CASE admin
  <2> DEFINE all == [c \in Columns[t] |-> NoMask]
  <2>1. Columns[t] \in SUBSET Names
    BY PermissionConstants
  <2>2. all \in [Columns[t] -> Column]
    BY DEF Column
  <2>3. all \in UNION {[ns -> Column] : ns \in SUBSET Names}
    BY <2>1, <2>2
  <2>4. WithoutGrant(t) = [read |-> TRUE, filters |-> {}, columns |-> all]
    BY <1>1 DEF WithoutGrant, Open
  <2> HIDE DEF all
  <2> QED BY <1>1, <2>3, <2>4 DEF ViewOK, Shown
<1>2. CASE ~admin
  BY <1>2, HiddenIsOK DEF WithoutGrant
<1> QED BY <1>1, <1>2

-----------------------------------------------------------------------------
(* The steps keep the invariant. *)

\* The initial states.
LEMMA InitHolds == Init => IInv
<1> SUFFICES ASSUME Init PROVE IInv
  OBVIOUS
<1>1. /\ NothingKnown \in Schema /\ \A n \in TableNames : NothingKnown[n].read = FALSE
      /\ Unresolved \in [Tables -> Shown] /\ \A t \in Tables : Unresolved[t].read = FALSE
  BY HiddenIsOK DEF NothingKnown, Unresolved, Schema, ViewOK
<1>2. NoAnswer \in Answer
  BY PlanConstants DEF NoAnswer, Answer
<1>3. db \in Database /\ Consistent(db) /\ admin \in BOOLEAN /\ edits = 0
  BY PermissionConstants DEF Init, InitPermissions
<1>4. TypeOK
  BY <1>1, <1>2, <1>3, PermissionConstants DEF Init, TypeOK, Phases
<1>5. HistoryOK /\ ReadersOK /\ MomentOK
  BY <1>3 DEF Init, HistoryOK, ReadersOK, MomentOK, Resolving
<1>6. SchemaOK /\ ConnectionOK
  BY <1>1 DEF Init, SchemaOK, Visible, ConnectionOK
<1>7. PlanOK /\ FetchOK /\ RoutingPrefersSelection /\ SensitiveIsMasked /\ ShortAnswersAreWhole
  BY DEF Init, PlanOK, FetchOK, RoutingPrefersSelection, SensitiveIsMasked, ShortAnswersAreWhole, Planned
<1> QED BY <1>4, <1>5, <1>6, <1>7 DEF IInv

\* An ending agent clears the request and leaves the rows.
LEMMA EndsKeep ==
  ASSUME IInv, Ends PROVE IInv'
<1>1. /\ NothingKnown \in Schema /\ \A n \in TableNames : NothingKnown[n].read = FALSE
      /\ Unresolved \in [Tables -> Shown] /\ \A t \in Tables : Unresolved[t].read = FALSE
  BY HiddenIsOK DEF NothingKnown, Unresolved, Schema, ViewOK
<1>2. NoAnswer \in Answer
  BY PlanConstants DEF NoAnswer, Answer
<1>3. /\ db' = db /\ admin' = admin /\ edits' = edits
      /\ db \in Database /\ Consistent(db) /\ admin \in BOOLEAN /\ edits \in 0 .. MaxEdits
  BY DEF Ends, permissionVars, IInv, TypeOK, HistoryOK
<1>0. Cleared
  BY DEF Ends
<1>4. TypeOK'
  BY <1>0, <1>1, <1>2, <1>3, PermissionConstants DEF Cleared, TypeOK, Phases
<1>5. HistoryOK' /\ ReadersOK' /\ MomentOK'
  BY <1>0, <1>3, PermissionConstants DEF Cleared, HistoryOK, ReadersOK, MomentOK, Resolving
<1>6. SchemaOK' /\ ConnectionOK'
  BY <1>0, <1>1 DEF Cleared, SchemaOK, Visible, ConnectionOK
<1>7. /\ PlanOK' /\ FetchOK' /\ RoutingPrefersSelection' /\ SensitiveIsMasked'
      /\ ShortAnswersAreWhole'
  BY <1>0 DEF Cleared, PlanOK, FetchOK, RoutingPrefersSelection, SensitiveIsMasked,
              ShortAnswersAreWhole, Planned
<1> QED BY <1>4, <1>5, <1>6, <1>7 DEF IInv

\* Routing stores the question and a connection it allows.
LEMMA RouteKeeps ==
  ASSUME IInv, NEW s \in Selections, NEW m \in Mentions, Route(s, m)
  PROVE  IInv'
<1>1. /\ s \in Seq(Connections) /\ s # <<>>
      /\ m.words \subseteq Stored /\ m.leave \subseteq Stored
      /\ Stored \subseteq Connections /\ Active \subseteq Connections
  BY QueryConstants
<1>2. s[1] \in ElementsOf(s) /\ ElementsOf(s) \subseteq Connections
  BY <1>1 DEF ElementsOf
<1>3. conn' \in Routes(s, m) /\ asked' = [selection |-> s, said |-> m] /\ phase' = "routed"
  BY DEF Route
<1>4. Routes(s, m) \subseteq Connections
  BY <1>1, <1>2 DEF Routes, Options
<1>5. asked' \in Question
  BY <1>3 DEF Question
<1>6. TypeOK'
  BY <1>3, <1>4, <1>5 DEF Route, permissionVars, tableVars, IInv, TypeOK, Phases
<1>7. RoutingPrefersSelection'
  <2>1. asked'.selection = s /\ asked'.said = m
    BY <1>3
  <2>2. CASE ElementsOf(s) \cap Stored \cap m.words # {}
    BY <1>3, <2>1, <2>2 DEF Routes, RoutingPrefersSelection
  <2>3. CASE ElementsOf(s) \cap Stored \cap m.words = {}
    BY <2>1, <2>3 DEF RoutingPrefersSelection
  <2> QED BY <2>2, <2>3
<1>8. HistoryOK' /\ ReadersOK' /\ MomentOK'
  BY DEF Route, permissionVars, IInv, HistoryOK, ReadersOK, MomentOK, Resolving
<1>9. /\ SchemaOK' /\ ConnectionOK' /\ PlanOK' /\ FetchOK' /\ SensitiveIsMasked'
      /\ ShortAnswersAreWhole'
  BY DEF Route, permissionVars, tableVars, IInv, SchemaOK, Visible, ConnectionOK, PlanOK,
         FetchOK, SensitiveIsMasked, ShortAnswersAreWhole, Planned
<1> QED BY <1>6, <1>7, <1>8, <1>9 DEF IInv

\* The gate passes the request on or ends it.
LEMMA OpenConnectionKeeps ==
  ASSUME IInv, OpenConnection PROVE IInv'
<1>1. CASE Ends
  BY <1>1, EndsKeep
<1>2. CASE /\ phase = "routed" /\ phase' = "resolving" /\ asked' = Unasked
           /\ conn \in Own \cap Active \cap Ready
           /\ UNCHANGED <<permissionVars, conn, resolved, tableVars, table, seenRoles, readers,
                          plan, answer, during, overlaps>>
  <2>1. TypeOK'
    BY <1>2 DEF permissionVars, tableVars, IInv, TypeOK, Phases
  <2>2. HistoryOK' /\ ReadersOK' /\ MomentOK'
    BY <1>2 DEF permissionVars, IInv, HistoryOK, ReadersOK, MomentOK, Resolving
  <2>3. /\ SchemaOK' /\ ConnectionOK' /\ PlanOK' /\ FetchOK' /\ RoutingPrefersSelection'
        /\ SensitiveIsMasked' /\ ShortAnswersAreWhole'
    BY <1>2 DEF permissionVars, tableVars, IInv, SchemaOK, Visible, ConnectionOK, PlanOK,
                FetchOK, RoutingPrefersSelection, SensitiveIsMasked, ShortAnswersAreWhole,
                Planned
  <2> QED BY <2>1, <2>2, <2>3 DEF IInv
<1> QED BY <1>1, <1>2 DEF OpenConnection

\* A resolution adds a view to the schema, perhaps in the place of another of its name,
\* and nothing is left of its SELECTs (schema_resolution_service.py:130).
LEMMA ResolvedKeeps ==
  ASSUME IInv, phase \in {"resolving"} \cup Resolving, NEW t \in TablesOf[conn] \ resolved,
         NEW view, ViewOK(t, view), Resolved(t, view)
  PROVE  IInv'
<1>0. /\ conn \in Own \cap Active \cap Ready /\ resolved \subseteq TablesOf[conn]
      /\ t \in Tables /\ NameOf[t] \in TableNames
  BY QueryConstants, PlanConstants DEF IInv, ConnectionOK, Resolving
<1>1. /\ resolved \subseteq Tables /\ schema \in [TableNames -> Shown]
      /\ keys \in Seq(TableNames) /\ views \in [Tables -> Shown]
      /\ resolved' = resolved \cup {t} /\ views' = [views EXCEPT ![t] = view]
      /\ view \in Shown
  BY DEF IInv, TypeOK, Schema, Resolved, ViewOK
<1>2. /\ phase' = "resolving" /\ table' = Absent /\ seenRoles' = {} /\ readers' = {}
      /\ during' = {} /\ overlaps' = 0 /\ db' = db /\ admin' = admin /\ edits' = edits
      /\ asked' = asked /\ conn' = conn /\ plan' = plan /\ answer' = answer
  BY DEF Resolved, permissionVars
<1>3. ASSUME view.read, schema' = [schema EXCEPT ![NameOf[t]] = view],
             keys' = IF schema[NameOf[t]].read THEN keys ELSE Append(keys, NameOf[t])
      PROVE  /\ schema' \in Schema /\ keys' \in Seq(TableNames)
             /\ \A n \in Visible(schema') :
                  /\ n \in ElementsOf(keys')
                  /\ \E s \in resolved' : NameOf[s] = n /\ views'[s] = schema'[n]
  <2>1. schema' \in Schema /\ keys' \in Seq(TableNames)
    BY <1>0, <1>1, <1>3 DEF Schema
  <2>2. ElementsOf(keys) \subseteq ElementsOf(keys') /\ NameOf[t] \in ElementsOf(keys')
    <3>1. CASE schema[NameOf[t]].read
      BY <1>0, <1>3, <3>1 DEF IInv, SchemaOK, Visible
    <3>2. CASE ~schema[NameOf[t]].read
      <4>1. keys' = Append(keys, NameOf[t])
        BY <1>3, <3>2
      <4>2. /\ DOMAIN keys' = DOMAIN keys \cup {Len(keys) + 1}
            /\ \A i \in DOMAIN keys : keys'[i] = keys[i]
            /\ keys'[Len(keys) + 1] = NameOf[t]
        BY <1>1, <4>1
      <4> QED BY <4>2 DEF ElementsOf
    <3> QED BY <3>1, <3>2
  <2>3. ASSUME NEW n \in Visible(schema')
        PROVE  n \in ElementsOf(keys') /\ \E s \in resolved' : NameOf[s] = n /\ views'[s] = schema'[n]
    <3>1. n \in TableNames /\ schema'[n].read
      BY DEF Visible
    <3>2. CASE n = NameOf[t]
      BY <1>0, <1>1, <1>3, <2>2, <3>2
    <3>3. CASE n # NameOf[t]
      <4>1. schema'[n] = schema[n] /\ n \in Visible(schema)
        BY <1>1, <1>3, <3>1, <3>3 DEF Visible
      <4>2. PICK s \in resolved : NameOf[s] = n /\ views[s] = schema[n]
        BY <4>1 DEF IInv, SchemaOK
      <4>3. n \in ElementsOf(keys) /\ s # t
        BY <3>3, <4>1, <4>2 DEF IInv, SchemaOK
      <4> QED BY <1>1, <2>2, <4>1, <4>2, <4>3
    <3> QED BY <3>2, <3>3
  <2> QED BY <2>1, <2>3
<1>4. ASSUME schema' = schema, keys' = keys
      PROVE  /\ schema' \in Schema /\ keys' \in Seq(TableNames)
             /\ \A n \in Visible(schema') :
                  /\ n \in ElementsOf(keys')
                  /\ \E s \in resolved' : NameOf[s] = n /\ views'[s] = schema'[n]
  <2>1. ASSUME NEW n \in Visible(schema')
        PROVE  n \in ElementsOf(keys') /\ \E s \in resolved' : NameOf[s] = n /\ views'[s] = schema'[n]
    <3>1. PICK s \in resolved : NameOf[s] = n /\ views[s] = schema[n]
      BY <1>4, <2>1 DEF IInv, SchemaOK
    <3>2. n \in ElementsOf(keys)
      BY <1>4, <2>1 DEF IInv, SchemaOK
    <3> QED BY <1>1, <1>4, <3>1, <3>2
  <2> QED BY <1>1, <1>4, <2>1 DEF Schema
<1>5. /\ schema' \in Schema /\ keys' \in Seq(TableNames)
      /\ \A n \in Visible(schema') :
           n \in ElementsOf(keys') /\ \E s \in resolved' : NameOf[s] = n /\ views'[s] = schema'[n]
  BY <1>3, <1>4, Zenon DEF Resolved, tableVars
<1>6. TypeOK'
  BY <1>0, <1>1, <1>2, <1>5, PermissionConstants DEF IInv, TypeOK, Phases
<1>7. HistoryOK' /\ ReadersOK' /\ MomentOK'
  BY <1>2 DEF IInv, TypeOK, HistoryOK, ReadersOK, MomentOK, Resolving
<1>8. SchemaOK'
  <2>1. ASSUME NEW s \in Tables, views'[s].read
        PROVE  /\ s \in resolved'
               /\ ~admin' => \A c \in Sensitive[s] \cap DOMAIN views'[s].columns :
                               views'[s].columns[c] # NoMask
    <3>1. CASE s = t
      BY <1>1, <1>2, <2>1, <3>1 DEF ViewOK
    <3>2. CASE s # t
      <4>1. views'[s] = views[s]
        BY <1>1, <3>2
      <4> QED BY <1>1, <1>2, <2>1, <4>1 DEF IInv, SchemaOK
    <3> QED BY <3>1, <3>2
  <2> QED BY <1>5, <2>1 DEF SchemaOK
<1>9. ConnectionOK'
  BY <1>0, <1>1, <1>2 DEF ConnectionOK
<1>10. /\ PlanOK' /\ FetchOK' /\ RoutingPrefersSelection' /\ SensitiveIsMasked'
       /\ ShortAnswersAreWhole'
  BY <1>2 DEF PlanOK, FetchOK, RoutingPrefersSelection, SensitiveIsMasked,
              ShortAnswersAreWhole, Planned
<1> QED BY <1>6, <1>7, <1>8, <1>9, <1>10 DEF IInv

\* The table under resolution is one of the connection (schema_resolution_service.py:54).
LEMMA TableOfConnection ==
  ASSUME IInv, phase \in Resolving PROVE table \in Tables
BY QueryConstants DEF IInv, HistoryOK, ConnectionOK, Resolving

\* The first SELECT opens the history with the rows it reads.
LEMMA ReadDirectGrantKeeps ==
  ASSUME IInv, NEW t \in Tables, ReadDirectGrant(t) PROVE IInv'
<1>0. phase = "resolving" /\ t \in TablesOf[conn] \ resolved
  BY DEF ReadDirectGrant
<1>1. CASE Resolved(t, Hidden)
  BY <1>0, <1>1, HiddenIsOK, ResolvedKeeps
<1> DEFINE gs == Direct(db, t)
<1>2. CASE /\ ~ \E g \in gs : ~g.read
           /\ phase' = IF gs = {} THEN "roles" ELSE "rules"
           /\ table' = t /\ readers' = gs /\ during' = {db}
           /\ UNCHANGED <<permissionVars, asked, conn, resolved, tableVars, seenRoles, plan, answer,
                          overlaps>>
  <2>1. /\ db' = db /\ admin' = admin /\ edits' = edits /\ asked' = asked /\ conn' = conn
        /\ resolved' = resolved /\ schema' = schema /\ keys' = keys /\ views' = views
        /\ seenRoles' = seenRoles /\ plan' = plan /\ answer' = answer /\ overlaps' = overlaps
    BY <1>2 DEF permissionVars, tableVars
  <2>2. phase = "resolving" /\ overlaps = 0 /\ db \in Database /\ Consistent(db)
    BY DEF ReadDirectGrant, IInv, TypeOK, HistoryOK, Resolving
  <2>3. gs \subseteq Grant
    BY <2>2, RowsAreRecord DEF Direct
  <2> HIDE DEF gs
  <2>4. phase' = "roles" \/ phase' = "rules"
    BY <1>2
  <2>5. TypeOK'
    BY <1>2, <2>1, <2>2, <2>3, <2>4 DEF IInv, TypeOK, Phases
  <2>6. HistoryOK'
    BY <1>0, <1>2, <2>1, <2>2, <2>4 DEF IInv, HistoryOK, Resolving
  <2>7. ReadersOK'
    <3>1. gs = Direct(db', table')
      BY <1>2, <2>1 DEF gs
    <3> QED BY <1>2, <2>1, <2>4, <3>1 DEF ReadersOK
  <2>8. MomentOK'
    <3>1. CASE gs = {}
      <4>1. phase' = "roles" /\ Direct(db', table') = {}
        BY <1>2, <2>1, <3>1 DEF gs
      <4> QED BY <1>2, <2>1, <4>1 DEF MomentOK
    <3>2. CASE gs # {}
      <4>1. phase' = "rules"
        BY <1>2, <3>2
      <4>2. Readers(db', table') = readers'
        BY <1>2, <2>1, <3>2 DEF Readers, Authority, gs
      <4> QED BY <1>2, <2>1, <4>1, <4>2 DEF MomentOK
    <3> QED BY <3>1, <3>2
  <2>9. /\ SchemaOK' /\ ConnectionOK' /\ PlanOK' /\ FetchOK' /\ RoutingPrefersSelection'
        /\ SensitiveIsMasked' /\ ShortAnswersAreWhole'
    BY <1>0, <2>1, <2>4 DEF IInv, SchemaOK, Visible, ConnectionOK, PlanOK, FetchOK,
                            RoutingPrefersSelection, SensitiveIsMasked, ShortAnswersAreWhole,
                            Planned
  <2> QED BY <2>5, <2>6, <2>7, <2>8, <2>9 DEF IInv
<1> QED BY <1>1, <1>2 DEF ReadDirectGrant

\* The second SELECT reads the roles of the moment.
LEMMA ReadRolesKeeps ==
  ASSUME IInv, ReadRoles PROVE IInv'
<1>1. /\ phase = "roles" /\ phase' = "grants" /\ seenRoles' = db.members
      /\ db' = db /\ admin' = admin /\ edits' = edits /\ asked' = asked /\ conn' = conn
      /\ resolved' = resolved /\ schema' = schema /\ keys' = keys /\ views' = views
      /\ table' = table /\ readers' = readers /\ plan' = plan /\ answer' = answer
      /\ during' = during /\ overlaps' = overlaps
  BY DEF ReadRoles, permissionVars, tableVars
<1>2. db \in Database /\ db.members \subseteq Roles
  BY RowsAreRecord DEF IInv, TypeOK
<1>3. TypeOK'
  BY <1>1, <1>2 DEF IInv, TypeOK, Phases
<1>4. HistoryOK' /\ ReadersOK'
  BY <1>1 DEF IInv, HistoryOK, ReadersOK, Resolving
<1>5. MomentOK'
  <2>1. overlaps <= 1 =>
          \E d \in during :
            /\ Direct(d, table) = {} /\ d.members = db.members
            /\ RoleReaders(d, d.members, table) = RoleReaders(db, d.members, table)
            /\ RulesOf(d, RoleReaders(d, d.members, table))
                 = RulesOf(db, RoleReaders(d, d.members, table))
    BY <1>1 DEF IInv, MomentOK
  <2>2. overlaps' <= 1 =>
          \E d \in during' :
            /\ Direct(d, table') = {}
            /\ RoleReaders(d, d.members, table') = RoleReaders(db', seenRoles', table')
            /\ RulesOf(d, RoleReaders(d, d.members, table'))
                 = RulesOf(db', RoleReaders(d, d.members, table'))
    BY <1>1, <2>1
  <2> QED BY <1>1, <2>2 DEF MomentOK
<1>6. /\ SchemaOK' /\ ConnectionOK' /\ PlanOK' /\ FetchOK' /\ RoutingPrefersSelection'
      /\ SensitiveIsMasked' /\ ShortAnswersAreWhole'
  BY <1>1 DEF IInv, SchemaOK, Visible, ConnectionOK, PlanOK, FetchOK,
              RoutingPrefersSelection, SensitiveIsMasked, ShortAnswersAreWhole, Planned
<1> QED BY <1>3, <1>4, <1>5, <1>6 DEF IInv

\* If the user had no grant of his own, the roles' that read are his.
LEMMA RoleReadersAreReaders ==
  ASSUME NEW d, NEW t, Direct(d, t) = {}
  PROVE  Readers(d, t) = RoleReaders(d, d.members, t)
BY DEF Readers, Authority, RoleReaders

\* The third SELECT reads the grants of these roles, or settles the table.
LEMMA ReadRoleGrantsKeeps ==
  ASSUME IInv, ReadRoleGrants PROVE IInv'
<1> DEFINE gs == RoleReaders(db, seenRoles, table)
<1>1. phase = "grants" /\ table \in TablesOf[conn] \ resolved /\ db \in Database
  BY DEF ReadRoleGrants, IInv, TypeOK, HistoryOK, Resolving
<1>2. CASE Resolved(table, WithoutGrant(table))
  <2>1. table \in Tables
    BY <1>1, TableOfConnection DEF Resolving
  <2> QED BY <1>1, <1>2, <2>1, WithoutGrantIsOK, ResolvedKeeps DEF Resolving
<1>3. CASE /\ gs # {} /\ phase' = "rules" /\ readers' = gs
           /\ UNCHANGED <<permissionVars, asked, conn, resolved, tableVars, table, seenRoles, plan,
                          answer, during, overlaps>>
  <2>1. /\ db' = db /\ admin' = admin /\ edits' = edits /\ asked' = asked /\ conn' = conn
        /\ resolved' = resolved /\ schema' = schema /\ keys' = keys /\ views' = views
        /\ table' = table /\ seenRoles' = seenRoles
        /\ plan' = plan /\ answer' = answer /\ during' = during /\ overlaps' = overlaps
    BY <1>3 DEF permissionVars, tableVars
  <2>2. gs \subseteq Grant /\ \A g \in gs : g.read
    BY <1>1, RowsAreRecord DEF RoleReaders
  <2>3. \E d \in during : Direct(d, table) = {}
    BY <1>1 DEF IInv, ReadersOK
  <2>4. overlaps <= 1 =>
          \E d \in during : Readers(d, table) = gs /\ RulesOf(d, gs) = RulesOf(db, gs)
    <3>1. overlaps <= 1 =>
            \E d \in during :
              /\ Direct(d, table) = {}
              /\ RoleReaders(d, d.members, table) = gs
              /\ RulesOf(d, RoleReaders(d, d.members, table))
                   = RulesOf(db, RoleReaders(d, d.members, table))
      BY <1>1 DEF IInv, MomentOK
    <3> HIDE DEF gs
    <3> QED BY <3>1, RoleReadersAreReaders
  <2> HIDE DEF gs
  <2>5. TypeOK'
    BY <1>3, <2>1, <2>2 DEF IInv, TypeOK, Phases
  <2>6. HistoryOK'
    BY <1>1, <1>3, <2>1 DEF IInv, HistoryOK, Resolving
  <2>7. ReadersOK'
    <3>1. \E e \in during : gs = RoleReaders(db, e.members, table)
      BY <1>1 DEF IInv, ReadersOK, gs
    <3>2. db \in during
      BY <1>1 DEF IInv, HistoryOK, Resolving
    <3> QED BY <1>3, <2>1, <2>2, <2>3, <3>1, <3>2 DEF ReadersOK
  <2>8. MomentOK'
    BY <1>3, <2>1, <2>4 DEF MomentOK
  <2>9. /\ SchemaOK' /\ ConnectionOK' /\ PlanOK' /\ FetchOK' /\ RoutingPrefersSelection'
        /\ SensitiveIsMasked' /\ ShortAnswersAreWhole'
    BY <1>1, <1>3, <2>1 DEF IInv, SchemaOK, Visible, ConnectionOK, PlanOK, FetchOK,
                            RoutingPrefersSelection, SensitiveIsMasked, ShortAnswersAreWhole,
                            Planned
  <2> QED BY <2>5, <2>6, <2>7, <2>8, <2>9 DEF IInv
<1> QED BY <1>2, <1>3 DEF ReadRoleGrants

\* The last SELECT settles the table with the grants as read, or ends.
LEMMA ReadRulesKeeps ==
  ASSUME IInv, ReadRules PROVE IInv'
<1>1. /\ phase = "rules" /\ table \in TablesOf[conn] \ resolved /\ readers \in SUBSET Grant
      /\ table \in Tables
  BY TableOfConnection DEF ReadRules, IInv, TypeOK, HistoryOK, Resolving
<1>2. CASE Ends
  BY <1>2, EndsKeep
<1>3. CASE \E view \in Views(table, readers, RulesOf(db, readers)) : Resolved(table, view)
  <2>1. PICK view \in Views(table, readers, RulesOf(db, readers)) : Resolved(table, view)
    BY <1>3
  <2>2. ViewOK(table, view)
    BY <1>1, ViewsMask
  <2> QED BY <1>1, <2>1, <2>2, ResolvedKeeps DEF Resolving
<1> QED BY <1>2, <1>3 DEF ReadRules

\* A plan is made for a permitted statement only.
LEMMA GenerateKeeps ==
  ASSUME IInv, NEW s \in Statements, Generate(s) PROVE IInv'
<1>1. CASE Ends
  BY <1>1, EndsKeep
<1>2. CASE /\ Permitted(s, schema) /\ phase' = "planned" /\ plan' = PlanFor(s, schema)
           /\ UNCHANGED <<permissionVars, asked, conn, resolved, tableVars, table, seenRoles,
                          readers, answer, during, overlaps>>
  <2>1. /\ db' = db /\ admin' = admin /\ edits' = edits /\ asked' = asked /\ conn' = conn
        /\ resolved' = resolved /\ schema' = schema /\ keys' = keys /\ views' = views
        /\ table' = table /\ seenRoles' = seenRoles
        /\ readers' = readers /\ answer' = answer /\ during' = during /\ overlaps' = overlaps
    BY <1>2 DEF permissionVars, tableVars
  <2>2. schema \in [TableNames -> Shown] /\ s \in Statement /\ MaxRows \in Nat
    BY PlanConstants DEF IInv, TypeOK, Schema
  <2>3. Clamp(s.limit) \in 0 .. MaxRows
    BY <2>2 DEF Clamp, Injected
  <2>4. FiltersFor(s, schema) \subseteq Nodes
    <3>1. \A n \in TableNames : schema[n].filters \subseteq Nodes
      BY <2>2 DEF Shown
    <3>2. Referenced(s) \subseteq TableNames
      BY <2>2 DEF Referenced, Statement, Reference
    <3> QED BY <3>1, <3>2 DEF FiltersFor
  <2>5. (IF s.flat THEN Selected(FiltersFor(s, schema)) ELSE Rows) \subseteq Rows
    BY DEF Selected
  <2>6. PlanFor(s, schema) \in Plan
    <3> DEFINE f == FiltersFor(s, schema)
               r == IF s.flat THEN Selected(f) ELSE Rows
               n == Clamp(s.limit)
    <3>1. f \in SUBSET Nodes /\ r \in SUBSET Rows /\ n \in 0 .. MaxRows
      BY <2>3, <2>4, <2>5
    <3>2. PlanFor(s, schema) = [statement |-> s, filters |-> f, rows |-> r, limit |-> n]
      BY DEF PlanFor
    <3> HIDE DEF f, r, n
    <3> QED BY <3>1, <3>2 DEF Plan
  <2>7. PlanFor(s, schema).statement = s
    BY DEF PlanFor
  <2>8. PlanOK'
    BY <1>2, <2>1, <2>6, <2>7 DEF PlanOK
  <2>9. TypeOK'
    BY <1>2, <2>1, <2>6 DEF IInv, TypeOK, Phases
  <2>10. HistoryOK' /\ ReadersOK' /\ MomentOK'
    BY <1>2, <2>1 DEF Generate, IInv, HistoryOK, ReadersOK, MomentOK, Resolving
  <2>11. /\ SchemaOK' /\ ConnectionOK' /\ FetchOK' /\ RoutingPrefersSelection'
         /\ SensitiveIsMasked' /\ ShortAnswersAreWhole'
    BY <1>2, <2>1 DEF Generate, IInv, SchemaOK, Visible, ConnectionOK, FetchOK,
                      RoutingPrefersSelection, SensitiveIsMasked, ShortAnswersAreWhole
  <2> QED BY <2>8, <2>9, <2>10, <2>11 DEF IInv
<1> QED BY <1>1, <1>2 DEF Generate

\* A nonempty set of positions has a last one.
LEMMA LastPosition ==
  ASSUME NEW n \in Nat, NEW P \in SUBSET (1 .. n), P # {}
  PROVE  \E i \in P : \A j \in P : j <= i
<1> DEFINE T == {n - i : i \in P}
<1>1. T \subseteq Nat /\ T # {}
  <2>1. \A i \in P : i \in Int /\ 1 <= i /\ i <= n
    OBVIOUS
  <2>2. \A i \in P : n - i \in Nat
    BY <2>1
  <2>3. \A i \in P : n - i \in T
    OBVIOUS
  <2>4. T \subseteq Nat
    BY <2>2
  <2> HIDE DEF T
  <2> QED BY <2>3, <2>4
<1>2. \E x \in T : \A y \in T : ~(<<y, x>> \in OpToRel(<, Nat))
  <2> HIDE DEF T
  <2> QED BY <1>1, NatLessThanWellFounded, WFMin
<1>3. PICK x \in T : \A y \in T : ~(<<y, x>> \in OpToRel(<, Nat))
  BY <1>2
<1>4. \A y \in T : ~(y < x)
  BY <1>1, <1>3 DEF OpToRel
<1>5. PICK i \in P : x = n - i
  OBVIOUS
<1>6. ASSUME NEW j \in P PROVE j <= i
  <2>1. ~(n - j < n - i)
    BY <1>4, <1>5
  <2>2. i \in 1 .. n /\ j \in 1 .. n
    OBVIOUS
  <2> HIDE DEF T
  <2> QED BY <2>1, <2>2
<1> QED BY <1>6

\* The mask of an output is the one that some key of the schema states for a column of its name.
LEMMA MaskFound ==
  ASSUME keys \in Seq(TableNames), NEW key
  PROVE  \/ /\ MaskOf(key) = NoMask
            /\ \A i \in DOMAIN keys : key \in DOMAIN schema[keys[i]].columns =>
                                            schema[keys[i]].columns[key] = NoMask
         \/ /\ MaskOf(key) # NoMask
            /\ \E i \in DOMAIN keys : /\ key \in DOMAIN schema[keys[i]].columns
                                          /\ MaskOf(key) = schema[keys[i]].columns[key]
<1> DEFINE masking == {i \in DOMAIN keys :
                         /\ key \in DOMAIN schema[keys[i]].columns
                         /\ schema[keys[i]].columns[key] # NoMask}
           last == CHOOSE i \in masking : \A j \in masking : j <= i
<1>1. MaskOf(key) = IF masking = {} THEN NoMask ELSE schema[keys[last]].columns[key]
  BY DEF MaskOf
<1>2. CASE masking = {}
  BY <1>1, <1>2
<1>3. CASE masking # {}
  <2>1. masking \in SUBSET (1 .. Len(keys)) /\ Len(keys) \in Nat
    OBVIOUS
  <2>2. \E i \in masking : \A j \in masking : j <= i
    <3> HIDE DEF masking
    <3> QED BY <1>3, <2>1, LastPosition
  <2>3. last \in masking
    <3> HIDE DEF masking
    <3> QED BY <2>2
  <2>4. /\ last \in DOMAIN keys /\ key \in DOMAIN schema[keys[last]].columns
        /\ schema[keys[last]].columns[key] # NoMask
    BY <2>3
  <2> HIDE DEF masking, last
  <2> QED BY <1>1, <1>3, <2>4
<1> QED BY <1>2, <1>3

\* What the validator took the name for is the view of the table that is meant
\* (sql_validator_service.py:267, schema_resolution_service.py:130).
LEMMA ViewFound ==
  ASSUME IInv, phase \in Planned, NEW r \in plan.statement.tables, Unambiguous(r)
  PROVE  /\ r.table \in Tables /\ r.name \in Referenced(plan.statement)
         /\ r.name \in Visible(schema) /\ views[r.table] = schema[r.name]
<1>1. r.name \in Referenced(plan.statement)
  BY DEF Unambiguous, Referenced
<1>2. r.name \in Visible(schema)
  BY <1>1 DEF IInv, PlanOK, Permitted
<1>3. PICK s \in resolved : NameOf[s] = r.name /\ views[s] = schema[r.name]
  BY <1>2 DEF IInv, SchemaOK
<1>4. conn \in Own /\ resolved \subseteq TablesOf[conn]
  BY DEF IInv, ConnectionOK, Planned
<1>5. s = r.table
  BY <1>3, <1>4 DEF Unambiguous
<1>6. r.table \in Tables
  BY <1>3, <1>5 DEF IInv, TypeOK
<1> QED BY <1>1, <1>2, <1>3, <1>5, <1>6

\* The source has at most as many rows as the plan's limit, and the outputs of
\* sensitive columns get a mask.
LEMMA ExecuteKeeps ==
  ASSUME IInv, NEW n \in 0 .. MaxRows, NEW more \in BOOLEAN, Execute(n, more)
  PROVE  IInv'
<1> DEFINE uses == {v \in plan.statement.uses : v.key # Absent}
           outs == {[use |-> u, mask |-> MaskOf(u.key)] : u \in uses}
<1>1. /\ phase = "planned" /\ phase' = "fetching" /\ n <= plan.limit
      /\ db' = db /\ admin' = admin /\ edits' = edits /\ asked' = asked /\ conn' = conn
      /\ resolved' = resolved /\ schema' = schema /\ keys' = keys /\ views' = views
      /\ table' = table /\ seenRoles' = seenRoles
      /\ readers' = readers /\ plan' = plan /\ during' = during /\ overlaps' = overlaps
      /\ more => n = plan.limit /\ Injected(plan.statement.limit)
  BY DEF Execute, permissionVars, tableVars
<1>2. answer' = [outputs |-> outs, rows |-> 0, bytes |-> 0, left |-> n, truncated |-> FALSE,
                 more |-> more]
  <2>1. answer' = [NoAnswer EXCEPT !.outputs = outs, !.left = n, !.more = more]
    BY DEF Execute
  <2> DEFINE none == {}
             no == FALSE
             start == [outputs |-> none, rows |-> 0, bytes |-> 0, left |-> 0,
                       truncated |-> no, more |-> no]
             found == [outputs |-> outs, rows |-> 0, bytes |-> 0, left |-> 0,
                       truncated |-> no, more |-> no]
             full == [outputs |-> outs, rows |-> 0, bytes |-> 0, left |-> n,
                      truncated |-> no, more |-> no]
  <2>2. answer' = [[[start EXCEPT !.outputs = outs] EXCEPT !.left = n] EXCEPT !.more = more]
    BY <2>1 DEF NoAnswer
  <2> HIDE DEF outs, none, no
  <2>3. [start EXCEPT !.outputs = outs] = found
    OBVIOUS
  <2>4. [found EXCEPT !.left = n] = full
    OBVIOUS
  <2>5. [full EXCEPT !.more = more]
          = [outputs |-> outs, rows |-> 0, bytes |-> 0, left |-> n, truncated |-> no,
             more |-> more]
    OBVIOUS
  <2> HIDE DEF start, found, full
  <2> QED BY <2>2, <2>3, <2>4, <2>5 DEF no
<1>3. /\ keys \in Seq(TableNames) /\ schema \in [TableNames -> Shown]
      /\ plan \in Plan /\ plan.statement \in Statements /\ plan.statement \in Statement
      /\ Permitted(plan.statement, schema) /\ plan.limit \in 0 .. MaxRows
      /\ \A u \in plan.statement.uses : u.of \in plan.statement.tables
  BY <1>1, PlanConstants DEF IInv, TypeOK, Schema, PlanOK, Planned, Plan
<1>4. plan.statement.uses \subseteq Use
  BY <1>3 DEF Statement
<1>5. ASSUME NEW key PROVE MaskOf(key) \in Column
  <2>1. \A k \in TableNames : \A c \in DOMAIN schema[k].columns : schema[k].columns[c] \in Column
    BY <1>3 DEF Shown
  <2>2. \A i \in DOMAIN keys : keys[i] \in TableNames
    BY <1>3
  <2>3. NoMask \in Column
    BY DEF Column
  <2> QED BY <1>3, <2>1, <2>2, <2>3, MaskFound
<1>6. outs \in SUBSET [use: Use, mask: Column]
  BY <1>4, <1>5
<1>7. answer' \in Answer
  <2> HIDE DEF outs
  <2> QED BY <1>2, <1>6, PlanConstants DEF Answer
<1>8. TypeOK'
  BY <1>1, <1>7 DEF IInv, TypeOK, Phases
<1>9. HistoryOK' /\ ReadersOK' /\ MomentOK'
  BY <1>1 DEF IInv, HistoryOK, ReadersOK, MomentOK, Resolving
<1>10. SchemaOK' /\ ConnectionOK' /\ RoutingPrefersSelection' /\ ShortAnswersAreWhole'
  BY <1>1 DEF IInv, SchemaOK, Visible, ConnectionOK, RoutingPrefersSelection,
              ShortAnswersAreWhole
<1>11. PlanOK'
  BY <1>1 DEF IInv, PlanOK, Planned
<1>12. FetchOK'
  <2> HIDE DEF outs
  <2>1. /\ answer'.rows = 0 /\ answer'.bytes = 0 /\ answer'.left = n
        /\ answer'.truncated = FALSE /\ answer'.more = more
    BY <1>2
  <2>2. more => n = MaxRows
    <3>1. plan = PlanFor(plan.statement, schema)
      BY <1>1 DEF IInv, PlanOK, Planned
    <3>2. plan.limit = Clamp(plan.statement.limit)
      <4> DEFINE p == PlanFor(plan.statement, schema)
      <4>1. p.limit = Clamp(plan.statement.limit)
        BY DEF PlanFor
      <4> HIDE DEF p
      <4>2. plan = p
        BY <3>1 DEF p
      <4> QED BY <4>1, <4>2
    <3> QED BY <1>1, <3>2 DEF Clamp
  <2> QED BY <1>1, <1>3, <2>1, <2>2, PlanConstants, QueryConstants DEF FetchOK
<1>13. SensitiveIsMasked'
  <2>1. SUFFICES ASSUME ~admin, NEW u \in uses, Unambiguous(u.of),
                        u.of.name \in Owners(plan.statement, u),
                        u.name \notin plan.statement.aliases, u.key = u.name,
                        u.name \in Sensitive[u.of.table]
                 PROVE  MaskOf(u.key) # NoMask
    <3>1. answer'.outputs = outs
      <4> HIDE DEF outs
      <4> QED BY <1>2
    <3>2. \A o \in outs : o.use \in uses /\ o.mask = MaskOf(o.use.key)
      OBVIOUS
    <3> HIDE DEF outs, uses
    <3> QED BY <1>1, <3>1, <3>2 DEF SensitiveIsMasked, Unambiguous
  <2>2. u \in plan.statement.uses /\ u.of \in plan.statement.tables
    BY <1>3
  <2>3. /\ u.of.table \in Tables /\ u.of.name \in Visible(schema)
        /\ views[u.of.table] = schema[u.of.name]
    BY <1>1, <2>1, <2>2, ViewFound DEF Planned
  <2>4. u.name \in DOMAIN schema[u.of.name].columns
    BY <1>3, <2>1, <2>2, <2>3 DEF Permitted
  <2>5. schema[u.of.name].columns[u.name] # NoMask
    BY <2>1, <2>3, <2>4 DEF IInv, SchemaOK, Visible
  <2>6. PICK i \in DOMAIN keys : keys[i] = u.of.name
    BY <2>3 DEF IInv, SchemaOK, ElementsOf
  <2> QED BY <1>3, <2>1, <2>4, <2>5, <2>6, MaskFound
<1> QED BY <1>8, <1>9, <1>10, <1>11, <1>12, <1>13 DEF IInv

\* The fetch loop changes nothing but the answer.
LEMMA FetchedKeeps ==
  ASSUME IInv, NEW stops \in BOOLEAN, phase = "fetching", Fetched(stops), answer' \in Answer,
         answer'.outputs = answer.outputs, answer'.rows + answer'.left <= plan.limit,
         answer'.more => answer'.rows + answer'.left = MaxRows,
         ~stops => answer'.bytes <= MaxBytes /\ ~answer'.truncated,
         stops => /\ answer'.left > 0 => answer'.truncated
                  /\ answer'.truncated => answer'.bytes > MaxBytes
  PROVE  IInv'
<1>1. /\ phase' = IF stops THEN "answered" ELSE "fetching"
      /\ db' = db /\ admin' = admin /\ edits' = edits /\ asked' = asked /\ conn' = conn
      /\ resolved' = resolved /\ schema' = schema /\ keys' = keys /\ views' = views
      /\ table' = table /\ seenRoles' = seenRoles
      /\ readers' = readers /\ plan' = plan /\ during' = during /\ overlaps' = overlaps
  BY DEF Fetched, permissionVars, tableVars
<1>2. phase' \in {"answered", "fetching"}
  BY <1>1
<1>3. TypeOK'
  BY <1>1, <1>2 DEF IInv, TypeOK, Phases
<1>4. HistoryOK' /\ ReadersOK' /\ MomentOK'
  BY <1>1, <1>2 DEF IInv, HistoryOK, ReadersOK, MomentOK, Resolving
<1>5. SchemaOK' /\ ConnectionOK' /\ RoutingPrefersSelection'
  BY <1>1, <1>2 DEF IInv, SchemaOK, Visible, ConnectionOK, RoutingPrefersSelection
<1>6. PlanOK'
  BY <1>1, <1>2 DEF IInv, PlanOK, Planned
<1>7. SensitiveIsMasked'
  BY <1>1, <1>2 DEF IInv, SensitiveIsMasked, Unambiguous
<1>8. FetchOK' /\ ShortAnswersAreWhole'
  <2>1. plan \in Plan
    BY DEF IInv, PlanOK, Planned
  <2>2. /\ plan.limit \in Nat /\ answer'.rows \in Nat /\ answer'.left \in Nat
        /\ answer'.bytes \in Nat /\ MaxBytes \in Nat /\ answer'.truncated \in BOOLEAN
        /\ MaxRows \in Nat
    BY <2>1, PlanConstants, QueryConstants DEF Plan, Answer
  <2>3. stops => FetchOK' /\ ShortAnswersAreWhole'
    <3>1. SUFFICES ASSUME stops PROVE FetchOK' /\ ShortAnswersAreWhole'
      OBVIOUS
    <3>2. phase' = "answered"
      BY <1>1, <3>1
    <3>3. answer'.rows <= plan.limit
      BY <2>2
    <3>4. ~answer'.truncated /\ answer'.rows < MaxRows => answer'.left = 0 /\ ~answer'.more
      BY <2>2, <3>1
    <3> QED BY <1>1, <3>1, <3>2, <3>3, <3>4 DEF FetchOK, ShortAnswersAreWhole
  <2>4. ~stops => FetchOK' /\ ShortAnswersAreWhole'
    BY <1>1 DEF FetchOK, ShortAnswersAreWhole
  <2> QED BY <2>3, <2>4
<1> QED BY <1>3, <1>4, <1>5, <1>6, <1>7, <1>8 DEF IInv

\* Fetching a row keeps the sum of fetched and remaining rows, or reports the cut.
LEMMA FetchRowKeeps ==
  ASSUME IInv, NEW size \in RowBytes, FetchRow(size) PROVE IInv'
<1>1. /\ phase = "fetching" /\ answer.left > 0 /\ answer \in Answer /\ size \in Nat
      /\ answer.rows \in Nat /\ answer.left \in Nat /\ answer.bytes \in Nat
      /\ answer.rows <= MaxRows /\ answer.left <= MaxRows
      /\ answer.rows + answer.left <= plan.limit /\ answer.bytes <= MaxBytes
      /\ ~answer.truncated /\ plan.limit <= MaxRows /\ plan.limit \in Nat
      /\ answer.more => answer.rows + answer.left = MaxRows
      /\ MaxRows \in Nat /\ MaxBytes \in Nat
  BY PlanConstants, QueryConstants
     DEF FetchRow, IInv, TypeOK, FetchOK, PlanOK, Planned, Plan, Answer
<1>2. answer.rows < MaxRows /\ ~(answer.rows >= MaxRows)
  BY <1>1
<1> DEFINE full == answer.bytes + size > MaxBytes
<1>3. /\ answer' = [answer EXCEPT !.rows = @ + 1, !.bytes = @ + size, !.left = @ - 1,
                                  !.truncated = full]
      /\ Fetched(full)
  BY <1>2, Zenon DEF FetchRow
<1>4. full \in BOOLEAN
  OBVIOUS
<1>5. /\ answer.rows + 1 \in 0 .. MaxRows /\ answer.bytes + size \in Nat
      /\ answer.left - 1 \in 0 .. MaxRows
  BY <1>1, <1>2
<1>6. /\ answer' \in Answer /\ answer'.outputs = answer.outputs
      /\ answer'.rows = answer.rows + 1 /\ answer'.bytes = answer.bytes + size
      /\ answer'.left = answer.left - 1 /\ answer'.truncated = full
      /\ answer'.more = answer.more
  <2> DEFINE r == answer.rows + 1
             b == answer.bytes + size
             l == answer.left - 1
             o == answer.outputs
             v == answer.more
  <2>1. answer = [outputs |-> o, rows |-> answer.rows, bytes |-> answer.bytes,
                  left |-> answer.left, truncated |-> answer.truncated, more |-> answer.more]
    BY <1>1 DEF Answer
  <2>2. answer' = [[[[answer EXCEPT !.rows = r] EXCEPT !.bytes = b] EXCEPT !.left = l]
                     EXCEPT !.truncated = full]
    BY <1>3
  <2>3. o \in SUBSET [use: Use, mask: Column] /\ v \in BOOLEAN
    BY <1>1 DEF Answer
  <2>4. r \in 0 .. MaxRows /\ b \in Nat /\ l \in 0 .. MaxRows
    BY <1>5
  <2> HIDE DEF r, b, l, o, v, full
  <2>5. answer' = [outputs |-> o, rows |-> r, bytes |-> b, left |-> l, truncated |-> full,
                   more |-> v]
    <3> DEFINE x == answer.rows
               y == answer.bytes
               z == answer.left
               w == answer.truncated
               a1 == [outputs |-> o, rows |-> r, bytes |-> y, left |-> z, truncated |-> w,
                      more |-> v]
               a2 == [outputs |-> o, rows |-> r, bytes |-> b, left |-> z, truncated |-> w,
                      more |-> v]
               a3 == [outputs |-> o, rows |-> r, bytes |-> b, left |-> l, truncated |-> w,
                      more |-> v]
               a4 == [outputs |-> o, rows |-> r, bytes |-> b, left |-> l, truncated |-> full,
                      more |-> v]
    <3>1. answer = [outputs |-> o, rows |-> x, bytes |-> y, left |-> z, truncated |-> w,
                    more |-> v]
      BY <2>1 DEF v
    <3> HIDE DEF x, y, z, w
    <3>2. [answer EXCEPT !.rows = r] = a1
      BY <3>1
    <3>3. [a1 EXCEPT !.bytes = b] = a2
      OBVIOUS
    <3>4. [a2 EXCEPT !.left = l] = a3
      OBVIOUS
    <3>5. [a3 EXCEPT !.truncated = full] = a4
      OBVIOUS
    <3> HIDE DEF a1, a2, a3
    <3> QED BY <2>2, <3>2, <3>3, <3>4, <3>5
  <2>6. answer' \in Answer
    BY <1>4, <2>3, <2>4, <2>5 DEF Answer
  <2>7. /\ answer'.outputs = o /\ answer'.rows = r /\ answer'.bytes = b
        /\ answer'.left = l /\ answer'.truncated = full /\ answer'.more = v
    BY <2>5
  <2> QED BY <2>6, <2>7 DEF r, b, l, o, v
<1>7. /\ answer'.rows + answer'.left <= plan.limit
      /\ answer'.more => answer'.rows + answer'.left = MaxRows
  BY <1>1, <1>6
<1>8. ~full => answer'.bytes <= MaxBytes /\ ~answer'.truncated
  <2>1. ~full => answer.bytes + size <= MaxBytes
    BY <1>1
  <2>2. answer'.bytes = answer.bytes + size /\ answer'.truncated = full
    BY <1>6
  <2> HIDE DEF full
  <2> QED BY <2>1, <2>2, Zenon
<1>9. full => /\ answer'.left > 0 => answer'.truncated
              /\ answer'.truncated => answer'.bytes > MaxBytes
  BY <1>6
<1> HIDE DEF full
<1> QED BY <1>1, <1>3, <1>4, <1>6, <1>7, <1>8, <1>9, FetchedKeeps

\* An exhausted cursor ends the loop.
LEMMA FetchEndKeeps ==
  ASSUME IInv, FetchEnd PROVE IInv'
<1>1. phase = "fetching" /\ answer.left = 0 /\ Fetched(TRUE) /\ answer' = answer
  BY DEF FetchEnd
<1>2. /\ answer \in Answer /\ answer.rows + answer.left <= plan.limit
      /\ answer.bytes <= MaxBytes /\ answer.truncated = FALSE
      /\ answer.more => answer.rows + answer.left = MaxRows
      /\ answer.bytes \in Nat /\ MaxBytes \in Nat
  BY <1>1, QueryConstants DEF IInv, TypeOK, FetchOK, Answer
<1>3. /\ answer'.left > 0 => answer'.truncated
      /\ answer'.truncated => answer'.bytes > MaxBytes
  BY <1>1, <1>2
<1> QED BY <1>1, <1>2, <1>3, FetchedKeeps

\* A request of an administrator changes the rows under a resolution; whatever it
\* does, there is still a moment that explains what was read.
LEMMA MeanwhileKeeps ==
  ASSUME IInv, Meanwhile PROVE IInv'
<1>1. /\ phase' = phase /\ asked' = asked /\ conn' = conn /\ resolved' = resolved
      /\ schema' = schema /\ keys' = keys /\ views' = views /\ table' = table
      /\ seenRoles' = seenRoles /\ readers' = readers /\ plan' = plan /\ answer' = answer
      /\ during' = (IF during = {} THEN {} ELSE during \cup {db'})
      /\ overlaps' = (IF during = {} THEN 0 ELSE overlaps + 1)
  BY DEF Meanwhile, tableVars
<1>2. /\ TypeOK /\ Consistent(db) /\ db \in Database /\ during \subseteq Database
      /\ overlaps <= edits /\ overlaps \in Nat /\ edits \in Nat
  BY PermissionConstants DEF IInv, TypeOK, HistoryOK
<1>3. Requested(db, db') /\ admin' = admin /\ edits' \in 0 .. MaxEdits
  BY <1>2, RequestsChangeRows DEF Meanwhile
<1>4. edits' = edits + 1
  BY DEF Meanwhile, Administer, CreateGrant, UpdateGrant, DeleteGrant, ReplaceRules,
         AssignRoles, DeleteRole, Commits
<1>5. db' \in Database /\ Consistent(db')
  BY <1>2, <1>3, RequestsKeepRows
<1>6. overlaps' \in 0 .. MaxEdits /\ overlaps' <= edits'
  <2>1. overlaps' = 0 \/ overlaps' = overlaps + 1
    BY <1>1
  <2> QED BY <1>2, <1>3, <1>4, <2>1, PermissionConstants
<1>7. during' \subseteq Database
  BY <1>1, <1>2, <1>5
<1>8. TypeOK'
  BY <1>1, <1>2, <1>3, <1>5, <1>6, <1>7 DEF TypeOK
<1>9. HistoryOK'
  BY <1>1, <1>2, <1>5, <1>6 DEF IInv, HistoryOK
<1>10. ReadersOK'
  BY <1>1 DEF IInv, ReadersOK
<1>11. MomentOK'
  <2>1. CASE phase \notin Resolving
    BY <1>1, <2>1 DEF MomentOK, Resolving
  <2>2. CASE phase \in Resolving
    <3>1. db \in during /\ during' = during \cup {db'} /\ overlaps' = overlaps + 1
      BY <1>1, <2>2 DEF IInv, HistoryOK
    <3>2. overlaps' # 0
      BY <1>2, <3>1
    <3>3. overlaps' <= 1 => overlaps = 0 /\ during = {db}
      BY <1>2, <2>2, <3>1 DEF IInv, HistoryOK
    <3>4. ASSUME phase = "roles", overlaps' <= 1
          PROVE  \E d \in during' :
                   /\ Direct(d, table) = {} /\ d.members = db'.members
                   /\ RoleReaders(d, d.members, table) = RoleReaders(db', d.members, table)
                   /\ RulesOf(d, RoleReaders(d, d.members, table))
                        = RulesOf(db', RoleReaders(d, d.members, table))
      <4>1. Direct(db, table) = {}
        BY <3>3, <3>4 DEF IInv, ReadersOK
      <4> QED BY <1>2, <1>3, <3>1, <4>1, RequestBeforeRoles
    <3>5. ASSUME phase = "grants", overlaps' <= 1
          PROVE  \E d \in during' :
                   /\ Direct(d, table) = {}
                   /\ RoleReaders(d, d.members, table) = RoleReaders(db', seenRoles, table)
                   /\ RulesOf(d, RoleReaders(d, d.members, table))
                        = RulesOf(db', RoleReaders(d, d.members, table))
      <4>1. Direct(db, table) = {} /\ seenRoles = db.members
        BY <3>3, <3>5 DEF IInv, ReadersOK, MomentOK
      <4> QED BY <1>2, <1>3, <3>1, <4>1, RequestBeforeGrants
    <3>6. ASSUME phase = "rules", overlaps' <= 1
          PROVE  \E d \in during' :
                   /\ Readers(d, table) = readers
                   /\ {g.id : g \in readers} \subseteq {g.id : g \in db'.grants}
                        => RulesOf(d, readers) = RulesOf(db', readers)
      <4>1. Readers(db, table) = readers
        BY <1>2, <3>3, <3>6 DEF IInv, MomentOK
      <4> QED BY <1>2, <1>3, <3>1, <4>1, RequestBeforeRules DEF Ids
    <3> QED BY <1>1, <3>2, <3>4, <3>5, <3>6 DEF MomentOK
  <2> QED BY <2>1, <2>2
<1>12. SchemaOK' /\ ConnectionOK'
  BY <1>1, <1>3 DEF IInv, SchemaOK, Visible, ConnectionOK
<1>13. PlanOK' /\ FetchOK' /\ RoutingPrefersSelection' /\ ShortAnswersAreWhole'
  BY <1>1 DEF IInv, PlanOK, FetchOK, RoutingPrefersSelection, ShortAnswersAreWhole
<1>14. SensitiveIsMasked'
  BY <1>1, <1>3 DEF IInv, SensitiveIsMasked, Unambiguous
<1> QED BY <1>8, <1>9, <1>10, <1>11, <1>12, <1>13, <1>14 DEF IInv

\* Stuttering.
LEMMA UnchangedKeeps ==
  ASSUME IInv, UNCHANGED vars PROVE IInv'
<1>1. /\ db' = db /\ admin' = admin /\ edits' = edits /\ phase' = phase /\ asked' = asked
      /\ conn' = conn /\ resolved' = resolved /\ schema' = schema /\ keys' = keys
      /\ views' = views /\ table' = table /\ seenRoles' = seenRoles /\ readers' = readers
      /\ plan' = plan /\ answer' = answer /\ during' = during /\ overlaps' = overlaps
  BY DEF vars, permissionVars, tableVars, queryVars
<1>2. TypeOK'
  BY <1>1 DEF IInv, TypeOK
<1>3. HistoryOK' /\ ReadersOK'
  BY <1>1 DEF IInv, HistoryOK, ReadersOK
<1>4. MomentOK'
  BY <1>1 DEF IInv, MomentOK
<1>5. /\ SchemaOK' /\ ConnectionOK' /\ PlanOK' /\ FetchOK' /\ RoutingPrefersSelection'
      /\ SensitiveIsMasked' /\ ShortAnswersAreWhole'
  BY <1>1 DEF IInv, SchemaOK, Visible, ConnectionOK, PlanOK, FetchOK,
              RoutingPrefersSelection, SensitiveIsMasked, Unambiguous, ShortAnswersAreWhole
<1> QED BY <1>2, <1>3, <1>4, <1>5 DEF IInv

\* All steps.
LEMMA NextKeeps ==
  ASSUME IInv, [Next]_vars PROVE IInv'
<1>1. ASSUME NEW s \in Selections, NEW m \in Mentions, Route(s, m) PROVE IInv'
  BY <1>1, RouteKeeps
<1>2. CASE OpenConnection
  BY <1>2, OpenConnectionKeeps
<1>3. ASSUME NEW t \in Tables, ReadDirectGrant(t) PROVE IInv'
  BY <1>3, ReadDirectGrantKeeps
<1>4. CASE ReadRoles
  BY <1>4, ReadRolesKeeps
<1>5. CASE ReadRoleGrants
  BY <1>5, ReadRoleGrantsKeeps
<1>6. CASE ReadRules
  BY <1>6, ReadRulesKeeps
<1>7. ASSUME NEW s \in Statements, Generate(s) PROVE IInv'
  BY <1>7, GenerateKeeps
<1>8. ASSUME NEW n \in 0 .. MaxRows, NEW more \in BOOLEAN, Execute(n, more) PROVE IInv'
  BY <1>8, ExecuteKeeps
<1>9. ASSUME NEW b \in RowBytes, FetchRow(b) PROVE IInv'
  BY <1>9, FetchRowKeeps
<1>10. CASE FetchEnd
  BY <1>10, FetchEndKeeps
<1>11. CASE Return \/ Raise
  BY <1>11, EndsKeep DEF Return, Raise
<1>12. CASE Meanwhile
  BY <1>12, MeanwhileKeeps
<1>13. CASE UNCHANGED vars
  BY <1>13, UnchangedKeeps
<1> QED BY <1>1, <1>2, <1>3, <1>4, <1>5, <1>6, <1>7, <1>8, <1>9, <1>10, <1>11, <1>12, <1>13
        DEF Next, Step

\* The invariant holds: the agent's state, its plan and its answer fit together
\* whatever the administrators do meanwhile (agents/nodes/database_agent_node.py:15).
THEOREM InvariantHolds == Spec => []IInv
<1>1. Init => IInv
  BY InitHolds
<1>2. IInv /\ [Next]_vars => IInv'
  BY NextKeeps
<1> QED BY <1>1, <1>2, PTL DEF Spec

\* Every variable keeps its type (agents/state.py:17).
THEOREM TypesHold == Spec => []TypeOK
<1>1. IInv => TypeOK
  BY DEF IInv
<1> QED BY <1>1, InvariantHolds, PTL

\* The routing never leaves a selected connection that the message names
\* (connection_router_service.py:85).
THEOREM RoutingHolds == Spec => []RoutingPrefersSelection
<1>1. IInv => RoutingPrefersSelection
  BY DEF IInv
<1> QED BY <1>1, InvariantHolds, PTL

\* A plan that says unambiguously which tables it means names only tables that are
\* read, and each row that passes satisfies the filter of a grant that shows them
\* (sql_validator_service.py:267, :313).
THEOREM FiltersHold == Spec => []RowsAreFiltered
<1>1. IInv => RowsAreFiltered
  <2>1. SUFFICES ASSUME IInv, phase \in Planned,
                        NEW r \in plan.statement.tables, Unambiguous(r)
                 PROVE  /\ views[r.table].read
                        /\ plan.statement.flat /\ views[r.table].filters # {} =>
                             plan.rows \subseteq
                               UNION {RowsOf(Compile(n)) : n \in views[r.table].filters}
    BY DEF RowsAreFiltered, Planned
  <2>2. /\ Permitted(plan.statement, schema)
        /\ plan = PlanFor(plan.statement, schema)
    BY <2>1 DEF IInv, PlanOK
  <2>3. /\ r.name \in Referenced(plan.statement) /\ r.name \in Visible(schema)
        /\ views[r.table] = schema[r.name]
    BY <2>1, ViewFound
  <2>4. views[r.table].read
    BY <2>3 DEF Visible
  <2>5. ASSUME plan.statement.flat, NEW n \in views[r.table].filters
        PROVE  plan.rows \subseteq RowsOf(Compile(n))
    <3>1. n \in FiltersFor(plan.statement, schema)
      BY <2>3, <2>5 DEF FiltersFor
    <3>2. plan.rows = Selected(FiltersFor(plan.statement, schema))
      <4> DEFINE p == PlanFor(plan.statement, schema)
      <4>1. p.rows = Selected(FiltersFor(plan.statement, schema))
        BY <2>5 DEF PlanFor
      <4> HIDE DEF p
      <4>2. plan = p
        BY <2>2 DEF p
      <4> QED BY <4>1, <4>2
    <3> QED BY <3>1, <3>2 DEF Selected
  <2> QED BY <2>4, <2>5
<1> QED BY <1>1, InvariantHolds, PTL

\* The filters of all grants that administrators store, in any order of requests,
\* are compiled to texts that select no row too many, if they are in plain form
\* (permission_service.py:48, row_filter_compiler.py:43).
THEOREM StoredFiltersHold == Spec => []FiltersNeverWiden
<1>1. TypeOK => FiltersNeverWiden
  <2>1. SUFFICES ASSUME TypeOK, NEW g \in db.grants, g.filter \in PlainFilters
                 PROVE  RowsOf(Compile(g.filter)) \subseteq Means[MaxDepth][g.filter]
    BY DEF FiltersNeverWiden
  <2>2. g.filter \in Nodes
    <3>1. db \in Database
      BY <2>1 DEF TypeOK
    <3>2. db.grants \subseteq Grant
      BY <3>1, RowsAreRecord
    <3> QED BY <2>1, <3>2 DEF Grant
  <2> QED BY <2>1, <2>2, CompileNeverWidens
<1> QED BY <1>1, TypesHold, PTL

\* From the filters as administrators wrote them to the rows that a statement may
\* read: if the filters that a table is shown with are plain, one SELECT on it reads
\* only rows that one of them means (permission_service.py:109,
\* row_filter_compiler.py:43, sql_validator_service.py:313).
RowsAreMeant ==
  phase \in Planned /\ plan.statement.flat =>
    \A r \in plan.statement.tables :
      /\ Unambiguous(r)
      /\ views[r.table].filters # {} /\ views[r.table].filters \subseteq PlainFilters
      => plan.rows \subseteq UNION {Means[MaxDepth][n] : n \in views[r.table].filters}

\* What the filters mean holds of every plan (sql_validator_service.py:313).
THEOREM MeaningHolds == Spec => []RowsAreMeant
<1>1. IInv /\ RowsAreFiltered => RowsAreMeant
  <2> SUFFICES ASSUME IInv, RowsAreFiltered, phase \in Planned, plan.statement.flat,
                      NEW r \in plan.statement.tables, Unambiguous(r),
                      views[r.table].filters # {},
                      views[r.table].filters \subseteq PlainFilters
               PROVE  plan.rows \subseteq UNION {Means[MaxDepth][n] : n \in views[r.table].filters}
    BY DEF RowsAreMeant
  <2>1. plan.rows \subseteq UNION {RowsOf(Compile(n)) : n \in views[r.table].filters}
    BY DEF RowsAreFiltered, Planned
  <2>2. views[r.table].filters \subseteq Nodes
    <3>1. r.table \in Tables
      BY ViewFound
    <3>2. views[r.table] \in Shown
      BY <3>1 DEF IInv, TypeOK
    <3> QED BY <3>2 DEF Shown
  <2>3. \A n \in views[r.table].filters : RowsOf(Compile(n)) \subseteq Means[MaxDepth][n]
    BY <2>2, CompileNeverWidens
  <2> QED BY <2>1, <2>3
<1> QED BY <1>1, InvariantHolds, FiltersHold, PTL

\* Whatever connection the router chose, what is shown and what runs belongs to the
\* tenant (schema_resolution_service.py:36).
THEOREM TenantHolds == Spec => []QueriesStayInTenant
<1>1. IInv => QueriesStayInTenant
  BY DEF IInv, ConnectionOK, SchemaOK, QueriesStayInTenant
<1> QED BY <1>1, InvariantHolds, PTL

\* No grant, rule or neighbouring table takes the mask from a sensitive column
\* (query_execution_service.py:116).
THEOREM MasksHold == Spec => []SensitiveIsMasked
<1>1. IInv => SensitiveIsMasked
  BY DEF IInv
<1> QED BY <1>1, InvariantHolds, PTL

\* An answer with fewer rows than the row limit that is not marked as truncated has all
\* rows of the statement as it was written; nothing is said of longer ones, which the
\* validator's LIMIT may have cut (query_execution_service.py:122).
THEOREM TruncationHolds == Spec => []ShortAnswersAreWhole
<1>1. IInv => ShortAnswersAreWhole
  BY DEF IInv
<1> QED BY <1>1, InvariantHolds, PTL

-----------------------------------------------------------------------------
(* What a table's resolution gives. *)

\* A table is resolved in one of three ways (permission_service.py:109, 135, 164).
LEMMA WaysToResolve ==
  ASSUME IInv, [Next]_vars, NEW t \in resolved' \ resolved
  PROVE  \/ /\ t \in Tables /\ views'[t] = Hidden
            /\ \E g \in Direct(db, t) : ~g.read
         \/ /\ t = table /\ phase = "grants" /\ views'[t] = WithoutGrant(t)
            /\ RoleReaders(db, seenRoles, t) = {}
         \/ /\ t = table /\ phase = "rules"
            /\ views'[t] \in Views(t, readers, RulesOf(db, readers))
<1>1. resolved' # resolved /\ resolved' # {}
  OBVIOUS
<1>2. views \in [Tables -> Shown]
  BY DEF IInv, TypeOK
<1>3. ASSUME NEW s \in Tables, NEW view, Resolved(s, view)
      PROVE  t = s /\ views'[t] = view
  BY <1>2, <1>3 DEF Resolved
<1>4. ~Ends
  BY <1>1 DEF Ends, Cleared
<1>5. PICK s \in Tables : ReadDirectGrant(s) \/ ReadRoleGrants \/ ReadRules
  <2>1. ~ \E s \in Selections : \E m \in Mentions : Route(s, m)
    BY <1>1 DEF Route
  <2>2. ~OpenConnection /\ ~ReadRoles /\ ~FetchEnd /\ ~Return /\ ~Raise
    BY <1>1, <1>4 DEF OpenConnection, ReadRoles, FetchEnd, Fetched, Return, Raise
  <2>3. ~ \E s \in Statements : Generate(s)
    BY <1>1, <1>4 DEF Generate
  <2>4. ~ \E n \in 0 .. MaxRows : \E more \in BOOLEAN : Execute(n, more)
    BY <1>1 DEF Execute
  <2>5. ~ \E b \in RowBytes : FetchRow(b)
    BY <1>1 DEF FetchRow, Fetched
  <2>6. ~Meanwhile
    BY <1>1 DEF Meanwhile
  <2>7. ~UNCHANGED vars
    BY <1>1 DEF vars, queryVars
  <2>8. ReadRoleGrants \/ ReadRules => table \in Tables
    BY TableOfConnection DEF ReadRoleGrants, ReadRules, Resolving
  <2> QED BY <2>1, <2>2, <2>3, <2>4, <2>5, <2>6, <2>7, <2>8 DEF Next, Step
<1>6. CASE ReadDirectGrant(s)
  <2>1. Resolved(s, Hidden) /\ \E g \in Direct(db, s) : ~g.read
    BY <1>1, <1>6 DEF ReadDirectGrant
  <2> QED BY <1>3, <2>1
<1>7. CASE ReadRoleGrants
  <2>1. /\ phase = "grants" /\ table \in Tables
        /\ RoleReaders(db, seenRoles, table) = {} /\ Resolved(table, WithoutGrant(table))
    BY <1>1, <1>7, TableOfConnection DEF ReadRoleGrants, Resolving
  <2> QED BY <1>3, <2>1
<1>8. CASE ReadRules
  <2>1. phase = "rules" /\ table \in Tables
    BY <1>8, TableOfConnection DEF ReadRules, Resolving
  <2>2. PICK view \in Views(table, readers, RulesOf(db, readers)) : Resolved(table, view)
    BY <1>4, <1>8 DEF ReadRules
  <2> QED BY <1>3, <2>1, <2>2
<1> QED BY <1>5, <1>6, <1>7, <1>8

\* One grant of his own at most.
LEMMA DirectIsOne ==
  ASSUME NEW d, Consistent(d), NEW t, NEW g \in Direct(d, t)
  PROVE  Direct(d, t) = {g}
BY DEF Consistent, Direct

\* A standing grant of the user's own is the sole authority
\* (permission_service.py:109).
THEOREM DirectGrantHolds == Spec => StandingDirectGrantRules
<1> DEFINE A == \A t \in resolved' \ resolved, g \in db.grants :
                  (\A d \in during \cup {db} : g \in Direct(d, t)) =>
                    /\ views'[t].read = g.read
                    /\ g.read => views'[t].filters = FiltersOf({g})
<1>1. IInv /\ [Next]_vars => A
  <2>1. SUFFICES ASSUME IInv, [Next]_vars,
                        NEW t \in resolved' \ resolved,
                        NEW g \in db.grants, \A d \in during \cup {db} : g \in Direct(d, t)
                 PROVE  /\ views'[t].read = g.read
                        /\ g.read => views'[t].filters = FiltersOf({g})
    OBVIOUS
  <2>2. /\ db \in Database /\ Consistent(db) /\ db.grants \subseteq Grant
        /\ \A d \in during : Consistent(d)
    BY <2>1, RowsAreRecord DEF IInv, TypeOK, HistoryOK
  <2>3. g.read \in BOOLEAN
    BY <2>1, <2>2 DEF Grant
  <2>4. CASE views'[t] = Hidden /\ \E h \in Direct(db, t) : ~h.read
    <3>1. Direct(db, t) = {g}
      BY <2>1, <2>2, DirectIsOne
    <3>2. g.read = FALSE
      BY <2>3, <2>4, <3>1
    <3> QED BY <2>4, <3>2, HiddenIsOK
  <2>5. CASE t = table /\ phase = "grants"
    <3>1. \E d \in during : Direct(d, t) = {}
      BY <2>1, <2>5 DEF IInv, ReadersOK
    <3> QED BY <2>1, <3>1
  <2>6. CASE /\ t = table /\ phase = "rules"
             /\ views'[t] \in Views(t, readers, RulesOf(db, readers))
    <3>1. PICK d \in during : Direct(d, t) = {} \/ Direct(d, t) = readers
      BY <2>1, <2>6 DEF IInv, ReadersOK
    <3>2. g \in Direct(d, t) /\ Consistent(d)
      BY <2>1, <2>2
    <3>3. readers = {g}
      BY <3>1, <3>2, DirectIsOne
    <3>4. \A h \in readers : h.read
      BY <2>1, <2>6 DEF IInv, ReadersOK
    <3>5. g.read = TRUE
      BY <2>3, <3>3, <3>4
    <3>6. readers \in SUBSET Grant /\ t \in Tables
      BY <2>1, <2>6, TableOfConnection DEF IInv, TypeOK, Resolving
    <3>7. ViewOK(t, views'[t]) /\ views'[t].read /\ views'[t].filters = FiltersOf(readers)
      BY <2>6, <3>6, ViewsMask
    <3>8. views'[t].read \in BOOLEAN
      BY <3>7 DEF ViewOK, Shown
    <3>9. views'[t].read = TRUE
      BY <3>7, <3>8
    <3> QED BY <3>3, <3>5, <3>7, <3>9
  <2> QED BY <2>1, <2>4, <2>5, <2>6, WaysToResolve
<1> QED BY <1>1, InvariantHolds, PTL DEF Spec, StandingDirectGrantRules

\* With at most one request meanwhile a table's view is one that the committed rows
\* gave at some moment (permission_service.py:127).
THEOREM MomentHolds == Spec => ResolvesAMoment
<1> DEFINE A == \A t \in Tables :
                  /\ t \in resolved' \ resolved
                  /\ overlaps <= 1
                  /\ {g.id : g \in readers} \subseteq {g.id : g \in db.grants}
                  => \E d \in during \cup {db} : views'[t] \in ViewsOf(t, d)
<1>1. IInv /\ [Next]_vars => A
  <2>1. SUFFICES ASSUME IInv, [Next]_vars, NEW t \in Tables,
                        t \in resolved' \ resolved, overlaps <= 1,
                        {g.id : g \in readers} \subseteq {g.id : g \in db.grants}
                 PROVE  \E d \in during \cup {db} : views'[t] \in ViewsOf(t, d)
    OBVIOUS
  <2>2. Consistent(db)
    BY <2>1 DEF IInv, HistoryOK
  <2>3. CASE views'[t] = Hidden /\ \E h \in Direct(db, t) : ~h.read
    <3>1. PICK h \in Direct(db, t) : ~h.read
      BY <2>3
    <3>2. Direct(db, t) = {h}
      BY <2>2, <3>1, DirectIsOne
    <3>3. Readers(db, t) = {}
      BY <3>1, <3>2 DEF Readers, Authority
    <3> QED BY <2>3, <3>2, <3>3 DEF ViewsOf
  <2>4. CASE /\ t = table /\ phase = "grants" /\ views'[t] = WithoutGrant(t)
             /\ RoleReaders(db, seenRoles, t) = {}
    <3>1. PICK d \in during : /\ Direct(d, t) = {}
                              /\ RoleReaders(d, d.members, t) = RoleReaders(db, seenRoles, t)
      BY <2>1, <2>4 DEF IInv, MomentOK
    <3>2. Readers(d, t) = {}
      BY <2>4, <3>1, RoleReadersAreReaders
    <3>3. ViewsOf(t, d) = {WithoutGrant(t)}
      BY <3>1, <3>2 DEF ViewsOf
    <3> QED BY <2>4, <3>3
  <2>5. CASE /\ t = table /\ phase = "rules"
             /\ views'[t] \in Views(t, readers, RulesOf(db, readers))
    <3>1. PICK d \in during : Readers(d, t) = readers /\ RulesOf(d, readers) = RulesOf(db, readers)
      BY <2>1, <2>5 DEF IInv, MomentOK
    <3>2. readers # {}
      BY <2>1, <2>5 DEF IInv, ReadersOK
    <3>3. ViewsOf(t, d) = Views(t, readers, RulesOf(db, readers))
      BY <3>1, <3>2 DEF ViewsOf
    <3> QED BY <2>5, <3>3
  <2> QED BY <2>1, <2>3, <2>4, <2>5, WaysToResolve
<1> QED BY <1>1, InvariantHolds, PTL DEF Spec, ResolvesAMoment

\* However many requests commit meanwhile, what is shown of a table was granted, by
\* all grants of one moment (permission_service.py:109, :122).
THEOREM GrantsHold == Spec => ReadsWereGranted
<1> DEFINE A == \A t \in resolved' \ resolved :
                  views'[t].read =>
                    \/ admin /\ views'[t] = Open(t)
                    \/ \E d, e \in during \cup {db} :
                         \E gs \in {Direct(d, t), RoleReaders(d, e.members, t)} :
                           /\ gs # {} /\ \A g \in gs : g.read
                           /\ views'[t] \in Views(t, gs, RulesOf(db, gs))
<1>1. IInv /\ [Next]_vars => A
  <2>1. SUFFICES ASSUME IInv, [Next]_vars,
                        NEW t \in resolved' \ resolved,
                        views'[t].read
                 PROVE  \/ admin /\ views'[t] = Open(t)
                        \/ \E d, e \in during \cup {db} :
                             \E gs \in {Direct(d, t), RoleReaders(d, e.members, t)} :
                               /\ gs # {} /\ \A g \in gs : g.read
                               /\ views'[t] \in Views(t, gs, RulesOf(db, gs))
    OBVIOUS
  <2>2. CASE views'[t] = Hidden
    BY <2>1, <2>2, HiddenIsOK
  <2>3. CASE views'[t] = WithoutGrant(t)
    BY <2>2, <2>3 DEF WithoutGrant
  <2>4. CASE /\ t = table /\ phase = "rules"
             /\ views'[t] \in Views(t, readers, RulesOf(db, readers))
    <3>1. /\ readers # {} /\ \A g \in readers : g.read
          /\ \E d, e \in during : readers \in {Direct(d, t), RoleReaders(d, e.members, t)}
      BY <2>1, <2>4 DEF IInv, ReadersOK
    <3> QED BY <2>4, <3>1
  <2> QED BY <2>1, <2>2, <2>3, <2>4, WaysToResolve
<1> QED BY <1>1, InvariantHolds, PTL DEF Spec, ReadsWereGranted

\* The rules of the readers of t state at most one mask for column c.
OneMask(d, t, c) ==
  \A r, s \in RulesOf(d, Readers(d, t)) :
    /\ r.column = c /\ s.column = c
    /\ r.verdict.mask # NoMask /\ s.verdict.mask # NoMask
    => r.verdict.mask = s.verdict.mask

\* Committed rows d leave nothing open but masks: the order in which the SELECTs return
\* them never decides whether a table is read, which filters apply or which columns are
\* seen, and a mask only if rules disagree about it (permission_service.py:216).
THEOREM OnlyMasksAreOpen ==
  ASSUME NEW d, NEW t, NEW v \in ViewsOf(t, d), NEW w \in ViewsOf(t, d)
  PROVE  /\ v.read = w.read /\ v.filters = w.filters
         /\ DOMAIN v.columns = DOMAIN w.columns
         /\ \A c \in DOMAIN v.columns : OneMask(d, t, c) => v.columns[c] = w.columns[c]
<1> DEFINE gs == Readers(d, t)
           rules == RulesOf(d, gs)
           names == {c \in Columns[t] : Readable(rules, c)}
<1>1. CASE gs = {}
  BY <1>1 DEF ViewsOf
<1>2. CASE gs # {}
  <2>1. v \in Views(t, gs, rules) /\ w \in Views(t, gs, rules)
    BY <1>2 DEF ViewsOf
  <2>2. PICK m \in [names -> Column] :
          /\ \A c \in names : m[c] \in MasksFor(t, rules, c)
          /\ v = [read |-> TRUE, filters |-> FiltersOf(gs), columns |-> m]
    BY <2>1 DEF Views
  <2>3. PICK n \in [names -> Column] :
          /\ \A c \in names : n[c] \in MasksFor(t, rules, c)
          /\ w = [read |-> TRUE, filters |-> FiltersOf(gs), columns |-> n]
    BY <2>1 DEF Views
  <2>4. ASSUME NEW c \in names, OneMask(d, t, c) PROVE m[c] = n[c]
    <3>1. m[c] \in MasksFor(t, rules, c) /\ n[c] \in MasksFor(t, rules, c)
      BY <2>2, <2>3
    <3>2. \A r, s \in rules : r.column = c /\ s.column = c /\ r.verdict.mask # NoMask
                              /\ s.verdict.mask # NoMask => r.verdict.mask = s.verdict.mask
      BY <2>4 DEF OneMask
    <3> HIDE DEF rules
    <3> QED BY <3>1, <3>2 DEF MasksFor
  <2> HIDE DEF names, rules, gs
  <2>5. /\ v.read = TRUE /\ w.read = TRUE /\ v.filters = w.filters
        /\ v.columns = m /\ w.columns = n /\ DOMAIN m = names /\ DOMAIN n = names
    BY <2>2, <2>3
  <2> QED BY <2>4, <2>5
<1> QED BY <1>1, <1>2
=============================================================================
