----------------------------- MODULE RowFilters -----------------------------
(***************************************************************************)
(* The JSON language of row filters: what the routes accept when a grant   *)
(* is stored (validate_row_filter_dsl in services/permission_service.py)   *)
(* and what chat makes of it (services/row_filter_compiler.py).            *)
(*                                                                         *)
(* Objects are nodes; a node lists its entries in the order of its keys,   *)
(* because the compiler depends on it.  A comparison is the set of rows    *)
(* that SQL selects with it.                                               *)
(***************************************************************************)
EXTENDS SequencesExt

CONSTANTS Nodes,        \* the JSON objects that occur in filters
          Clauses,      \* the entries of each node
          Rows,         \* rows of the source, as far as filters tell them apart
          MaxDepth      \* max_depth of validate_row_filter_dsl

\* {"status": {"eq": "active", ...}}: allowed, the validator knows the operator;
\* compiles, the compiler knows the operator and the value; rows it selects.
Test == [allowed: BOOLEAN, compiles: BOOLEAN, rows: SUBSET Rows]

\* An entry of a node, by its key: a group; a column with its tests; an operator
\* used as key, {"eq": {"column": ...}}, with its one test; anything else.
Clause == [key: {"and", "or", "column", "operator", "malformed"},
           items: Seq(Nodes), tests: Seq(Test)]

ASSUME FilterConstants ==
  /\ Clauses \in [Nodes -> Seq(Clause)]
  /\ MaxDepth \in Nat

Items(c) == {c.items[i] : i \in DOMAIN c.items}
Tests(c) == {c.tests[i] : i \in DOMAIN c.tests}
ClausesOf(n) == {Clauses[n][i] : i \in DOMAIN Clauses[n]}

Empty(n) == Clauses[n] = <<>>

-----------------------------------------------------------------------------
\* _validate_node, with d more levels to go.
Valid[d \in 0 .. MaxDepth] ==
  LET below == Valid[d - 1]
  IN {n \in Nodes :
        d > 0 /\ \A c \in ClausesOf(n) :
          \/ c.key \in {"and", "or"} /\ Items(c) \subseteq below
          \/ c.key = "column" /\ \A t \in Tests(c) : t.allowed
          \/ c.key = "operator"}

\* validate_row_filter_dsl
Acceptable == {n \in Nodes : Empty(n)} \cup Valid[MaxDepth]
Accepts(n) == n \in Acceptable

-----------------------------------------------------------------------------
\* What the compiler answers: None, ValueError, or an expression.  Its text has no
\* parentheses, so the source reads it as a disjunction of conjunctions: the rows
\* that each of them selects, from left to right.
Condition == [as: {"none", "rejected", "text"}, terms: Seq(SUBSET Rows)]
Unrestricted == [as |-> "none", terms |-> <<Rows>>]
Rejected == [as |-> "rejected", terms |-> <<>>]
Text(terms) == [as |-> "text", terms |-> terms]

RowsOf(condition) == UNION {condition.terms[i] : i \in DOMAIN condition.terms}

\* _compile_op, with resolve_value
CompileTest(t) == IF t.compiles THEN Text(<<t.rows>>) ELSE Rejected

\* The text "x key y": AND binds the last term of x to the first of y.
Joined(key, x, y) ==
  IF key = "or" THEN x \o y
  ELSE Front(x) \o <<Last(x) \cap Head(y)>> \o Tail(y)

\* What a group makes of its items so far and of the next one: an item that compiles
\* to None is left out, and one that is a group itself gets no parentheses (exp.And
\* and exp.Or are built directly).
Combined(key, x, y) ==
  IF Rejected \in {x, y} THEN Rejected
  ELSE IF x = Unrestricted THEN y
  ELSE IF y = Unrestricted THEN x
  ELSE Text(Joined(key, x.terms, y.terms))

\* The first k items of a group, given the results of all nodes.
Partial(c, results) ==
  LET partial[k \in 0 .. Len(c.items)] ==
        IF k = 0 THEN Unrestricted
        ELSE Combined(c.key, partial[k - 1], results[c.items[k]])
  IN partial

\* Mutant of Group: every group is compiled to a disjunction.
GroupAsOr(c, results) ==
  IF c.items = <<>> THEN Rejected
  ELSE Partial([c EXCEPT !.key = "or"], results)[Len(c.items)]

\* A group must have items; if they all compile to None, so does it.
Group(c, results) ==
  IF c.items = <<>> THEN Rejected ELSE Partial(c, results)[Len(c.items)]

\* The loop over the entries returns at the first one, except that it skips a
\* column without tests (the code also skips a value that is no object, which Accepts
\* keeps from being stored); the inner key "column" of {"eq": {"column": ...}} is
\* taken for an operator, which no compiler knows.
Decisive(n) == {i \in DOMAIN Clauses[n] :
                  Clauses[n][i].key # "column" \/ Clauses[n][i].tests # <<>>}

\* A node that has entries, given the results of the nodes below it.
CompileNode(n, below) ==
  IF Decisive(n) = {} THEN Rejected
  ELSE LET c == Clauses[n][Min(Decisive(n))]
       IN IF c.key \in {"and", "or"} THEN Group(c, below)
          ELSE IF c.key = "column" THEN CompileTest(c.tests[1])
          ELSE Rejected

\* RowFilterCompiler.compile, for nodes of at most d levels.
Compiled[d \in 0 .. MaxDepth] ==
  [n \in Nodes |->
     IF Empty(n) THEN Unrestricted
     ELSE IF d = 0 THEN Rejected
     ELSE CompileNode(n, Compiled[d - 1])]

Compile(n) == Compiled[MaxDepth][n]

-----------------------------------------------------------------------------
\* Reference: an object means all of its entries, an entry all of its tests, and
\* the empty object means every row.
MeansOf(n, below) ==
  {r \in Rows : \A c \in ClausesOf(n) :
     CASE c.key = "and" -> \A m \in Items(c) : r \in below[m]
       [] c.key = "or"  -> \E m \in Items(c) : r \in below[m]
       [] OTHER         -> \A t \in Tests(c) : r \in t.rows}

NoRows == [m \in Nodes |-> {}]

Means[d \in 0 .. MaxDepth] ==
  [n \in Nodes |-> MeansOf(n, IF d = 0 THEN NoRows ELSE Means[d - 1])]

\* One entry and one test in each node, all the way down, the form that the
\* documentation and the tests use; and no disjunction directly inside a
\* conjunction, whose text would lose it (plan/07:25 wants full parentheses).
Simple(n) == Len(Clauses[n]) <= 1 /\ \A c \in ClausesOf(n) : Len(c.tests) <= 1

Disjunctive(n) == \E c \in ClausesOf(n) : c.key = "or"

PlainOver(n, below) ==
  /\ Simple(n)
  /\ \A c \in ClausesOf(n) : \A m \in Items(c) :
       m \in below /\ (c.key = "and" => ~Disjunctive(m))

Plain[d \in 0 .. MaxDepth] ==
  LET below == IF d = 0 THEN Nodes ELSE Plain[d - 1]
  IN {n \in Nodes : PlainOver(n, below)}

PlainFilters == Plain[MaxDepth]
=============================================================================
