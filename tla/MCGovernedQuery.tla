--------------------------- MODULE MCGovernedQuery ---------------------------
(* A small instance of GovernedQuery: a connection with two tables that share *)
(* a sensitive column; one with two tables of one name, in two schemas; one   *)
(* that is not synchronised, one of another tenant, and one that is gone.     *)
(* Filters: on a test, a conjunction, a disjunction with an empty item,       *)
(* groups in groups, one that loses its parentheses, a form that the          *)
(* compiler rejects.                                                          *)
EXTENDS GovernedQuery

CONSTANTS u, r1, r2, t1, t2, t3, t4, t5, n1, n2, n3, n5, x,
          a, b, redact, hash, c1, c2, c3, c4, c5,
          all, odd, low, both, either, loose, deep, knot, inverse

MCRows == 1 .. 4

Entry(key, items, tests) == <<[key |-> key, items |-> items, tests |-> tests]>>
On(rows) == [allowed |-> TRUE, compiles |-> TRUE, rows |-> rows]

MCClauses ==
  [n \in Nodes |->
     CASE n = all     -> <<>>
       [] n = odd     -> Entry("column", <<>>, <<On({1, 3})>>)
       [] n = low     -> Entry("column", <<>>, <<On({1, 2})>>)
       [] n = both    -> Entry("and", <<odd, low>>, <<>>)
       [] n = either  -> Entry("or", <<odd, low>>, <<>>)
       [] n = loose   -> Entry("or", <<odd, all>>, <<>>)
       [] n = deep    -> Entry("or", <<both, loose, either>>, <<>>)
       [] n = knot    -> Entry("and", <<either, low>>, <<>>)
       [] n = inverse -> Entry("operator", <<>>, <<On({1, 3})>>)]

MCColumns == [t \in Tables |-> IF t = t1 THEN {a, b} ELSE {a}]
MCSensitive == [t \in Tables |-> IF t = t4 THEN {} ELSE {a}]

MCNameOf == [t \in Tables |-> CASE t = t1 -> n1 [] t = t2 -> n2 [] t = t5 -> n5 [] OTHER -> n3]

G(id, subject, table_, read, filter) ==
  [id |-> id, subject |-> subject, table |-> table_, read |-> read, filter |-> filter]
R(grant, column, read, mask) ==
  [grant |-> grant, column |-> column, verdict |-> [read |-> read, mask |-> mask]]

\* A member of two roles, one of which hides a column that the other masks; a user
\* with a grant next to a role's; one with grants on two tables of one name.
MCSeeds ==
  {[grants |-> {G(1, r1, t1, TRUE, both), G(2, r2, t1, TRUE, low)},
    rules |-> {R(1, a, FALSE, NoMask), R(2, a, TRUE, hash)}, members |-> {r1, r2},
    roles |-> {r1, r2}, issued |-> 2],
   [grants |-> {G(1, u, t1, TRUE, either), G(2, r1, t1, TRUE, knot)},
    rules |-> {R(1, a, FALSE, NoMask)}, members |-> {r1}, roles |-> {r1}, issued |-> 2],
   [grants |-> {G(1, u, t3, TRUE, odd), G(2, r1, t4, TRUE, low)},
    rules |-> {R(1, a, TRUE, hash)}, members |-> {r1}, roles |-> {r1}, issued |-> 3]}

MCOffers ==
  {[subject |-> u, table |-> t1, read |-> FALSE, filter |-> all],
   [subject |-> u, table |-> t1, read |-> TRUE, filter |-> inverse],
   [subject |-> r1, table |-> t1, read |-> TRUE, filter |-> deep],
   [subject |-> r2, table |-> t2, read |-> TRUE, filter |-> loose]}

MCVerdicts == {[read |-> FALSE, mask |-> NoMask], [read |-> TRUE, mask |-> hash]}

At(n, t) == [name |-> n, table |-> t]
Uses(ref, qualifier, name, key) ==
  [of |-> ref, qualifier |-> qualifier, star |-> FALSE, name |-> name, key |-> key]
S(tables, uses, limit) ==
  [kind |-> "select", system |-> FALSE, flat |-> TRUE, tables |-> tables, ctes |-> {},
   uses |-> uses, aliases |-> {}, limit |-> limit]

\* The last three: a table under the name of a common table expression, of which the
\* validator does not know; and tables of one name, one by one and joined.
MCStatements ==
  LET first == At(n1, t1)
      second == At(n2, t2)
      plain == Uses(first, Absent, a, a)
  IN {[S({first}, {plain, Uses(first, Absent, a, b)}, Absent) EXCEPT !.aliases = {b}],
      S({first, second}, {Uses(second, n2, a, a), Uses(first, Absent, b, b)}, 9),
      [S({first}, {Uses(first, x, a, a), [Uses(first, Absent, b, b) EXCEPT !.star = TRUE]}, 1)
         EXCEPT !.kind = "union", !.flat = FALSE],
      [S({At(n1, Absent)}, {}, Absent) EXCEPT !.ctes = {n1}],
      [S({first}, {}, Absent) EXCEPT !.kind = "modifying"],
      [S({first}, {}, Absent) EXCEPT !.system = TRUE],
      [S({first, second}, {plain}, 1) EXCEPT !.ctes = {n1}],
      S({At(n3, t3)}, {Uses(At(n3, t3), Absent, a, a)}, 1),
      S({At(n3, t3), At(n3, t4)}, {Uses(At(n3, t4), n3, a, a)}, 1)}

MCTablesOf == [c \in Connections |-> CASE c = c1 -> {t1, t2} [] c = c5 -> {t3, t4}
                                        [] c = c3 -> {t5} [] OTHER -> {}]
MCSelections == {<<c1>>, <<c2>>, <<c4>>, <<c2, c1>>, <<c5>>}

Said(words, leave) == [words |-> words, leave |-> leave]
MCMentions == {Said({}, {}), Said({c1}, {c3}), Said({}, {c1, c3}), Said({c3}, {}),
               Said({c1, c2, c3}, {})}
=============================================================================
