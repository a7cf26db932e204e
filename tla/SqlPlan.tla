------------------------------ MODULE SqlPlan ------------------------------
(***************************************************************************)
(* What the validator makes of a SQL statement (validate_and_rewrite in    *)
(* services/sql_validator_service.py): the statement is refused, or its    *)
(* plan carries the row filters of the tables it names and a row limit.    *)
(*                                                                         *)
(* A statement is what sqlglot tells the validator about it.  A schema     *)
(* gives each name of a table the view that the user has of it: the        *)
(* validator knows tables by their bare names, whatever schema of the      *)
(* source a statement puts before them.                                    *)
(***************************************************************************)
EXTENDS Permissions

CONSTANTS Statements,  \* what the language model may answer
          TableNames,  \* bare names: of tables, aliases and common table expressions
          NameOf,      \* the name of each table, which tables of two schemas may share
          Absent,      \* no LIMIT; no output; no table
          MaxRows      \* MAX_ROW_LIMIT and MAX_RETURNED_ROWS

\* unreadable: no text, comments, no single statement that parses; modifying: a
\* statement of _DISALLOWED_CLASS_NAMES, or one that contains it.
Kinds == {"select", "with", "union", "explain", "modifying", "other", "unreadable"}
ReadOnly == {"select", "with", "union", "explain"}

\* A table expression: its bare name, and the table that the source reads there: none
\* for a common table expression, or a table that is not in the cache.
Reference == [name: TableNames, table: Tables \cup {Absent}]

\* A use of a column: of which table, what stands before it, or that the statement only
\* says * (star), and the name of the output column that has its value.
Use == [of: Reference, qualifier: TableNames \cup {Absent}, star: BOOLEAN, name: Names,
        key: Names \cup {Absent}]

\* system: it names a system schema or a blocked function; flat: all of its tables
\* are in the FROM of its one SELECT; ctes: the names that are, but for their case,
\* those of its common table expressions.
Statement == [kind: Kinds, system: BOOLEAN, flat: BOOLEAN, tables: SUBSET Reference,
              ctes: SUBSET TableNames, uses: SUBSET Use, aliases: SUBSET Names,
              limit: Nat \cup {Absent}]

ASSUME PlanConstants ==
  /\ Absent \notin Tables /\ Absent \notin TableNames
  /\ Absent \notin Names /\ Absent \notin Nat
  /\ NameOf \in [Tables -> TableNames]
  /\ Statements \subseteq Statement
  /\ \A s \in Statements : \A u \in s.uses : u.of \in s.tables
  /\ MaxRows \in Nat \ {0}

\* ResolvedSchema.tables
Schema == [TableNames -> Shown]

Visible(schema) == {n \in TableNames : schema[n].read}

\* generate_candidate: whatever the model writes, but nothing for an empty schema.
Candidates(schema) == IF Visible(schema) = {} THEN {} ELSE Statements

\* What counts as a table is a name; one that a common table expression has, too, does
\* not, even where the statement means the table.
Referenced(s) == {r.name : r \in s.tables} \ s.ctes

\* The names under which the column check looks a use up: what stands before it, be it
\* a table's name or an alias; else the only table, if there is one.  * is not expanded.
Owners(s, u) ==
  IF u.star THEN {}
  ELSE IF u.qualifier # Absent THEN {u.qualifier}
  ELSE {n \in TableNames : Referenced(s) = {n}}

\* Mutant of Permitted: a known column is enough, readable or not.
PermittedIfKnown(s, schema) ==
  /\ s.kind \in ReadOnly /\ ~s.system
  /\ Referenced(s) # {} /\ Referenced(s) \subseteq Visible(schema)

\* The checks, in any order: each failure refuses the statement.
Permitted(s, schema) ==
  /\ s.kind \in ReadOnly /\ ~s.system
  /\ Referenced(s) # {} /\ Referenced(s) \subseteq Visible(schema)
  /\ \A u \in s.uses :
       u.name \in s.aliases
         \/ \A n \in Owners(s, u) \cap Visible(schema) : u.name \in DOMAIN schema[n].columns

\* Mutant of FiltersFor: only the filters of one table.
FiltersForOne(s, schema) ==
  IF Referenced(s) = {} THEN {} ELSE schema[CHOOSE n \in Referenced(s) : TRUE].filters

\* The filters added to the WHERE of the outermost SELECT.
FiltersFor(s, schema) == UNION {schema[n].filters : n \in Referenced(s)}

\* The rows that pass the WHERE; filters that compile to None add nothing to it.
Selected(filters) == {r \in Rows : \A n \in filters : r \in RowsOf(Compile(n))}

\* The validator puts its own LIMIT on a statement without one, or with a larger one.
Injected(limit) == limit \notin 0 .. MaxRows

Clamp(limit) == IF Injected(limit) THEN MaxRows ELSE limit

\* ValidatedQueryPlan; rows are those that it may read of the tables it names: the
\* WHERE reaches no table of a subquery or of another part of a union.
Plan == [statement: Statements, filters: SUBSET Nodes, rows: SUBSET Rows, limit: 0 .. MaxRows]

PlanFor(s, schema) ==
  [statement |-> s, filters |-> FiltersFor(s, schema),
   rows |-> IF s.flat THEN Selected(FiltersFor(s, schema)) ELSE Rows,
   limit |-> Clamp(s.limit)]
=============================================================================
