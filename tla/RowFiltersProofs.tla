--------------------------- MODULE RowFiltersProofs ---------------------------
(* What chat compiles a row filter to, for filters of any size and depth.      *)
(* Definitions of the model recur on a depth or on a position; the induction   *)
(* behind them is proved first, for a set of numbers in place of a predicate,  *)
(* because the library's induction theorems take an operator.                  *)
EXTENDS RowFilters, TLAPS, WellFoundedInduction, SequenceTheorems

-----------------------------------------------------------------------------
(* Induction and recursion. *)

\* A set of naturals has a least element (the order of levels and positions of
\* row_filter_compiler.py is that of numbers).
LEMMA LeastNatural ==
  ASSUME NEW T, T \subseteq Nat, T # {}
  PROVE  \E n \in T : \A m \in T : n <= m
<1>1. PICK n \in T : \A m \in T : ~ (<<m, n>> \in OpToRel(<, Nat))
  BY NatLessThanWellFounded, WFMin
<1>2. \A m \in T : <<m, n>> \in Nat \X Nat /\ <<m, n>>[1] = m /\ <<m, n>>[2] = n
  OBVIOUS
<1>3. \A m \in T : ~ (m < n)
  BY <1>1, <1>2 DEF OpToRel
<1> QED BY <1>3

\* Induction over 0 .. N, for a set.
LEMMA InductionUpTo ==
  ASSUME NEW N \in Nat, NEW T, 0 \in T, \A n \in 0 .. (N - 1) : n \in T => n + 1 \in T
  PROVE  0 .. N \subseteq T
<1> DEFINE left == (0 .. N) \ T
<1> SUFFICES ASSUME left # {} PROVE FALSE
  OBVIOUS
<1>0. left \subseteq Nat
  OBVIOUS
<1> HIDE DEF left
<1>1. PICK n \in left : \A m \in left : n <= m
  BY <1>0, LeastNatural
<1>2. n # 0 /\ n \in 0 .. N /\ n \notin T
  BY <1>1 DEF left
<1>3. n - 1 \in 0 .. (N - 1) /\ n - 1 \in T
  <2>1. n - 1 \in 0 .. (N - 1) /\ n - 1 \in 0 .. N /\ ~ (n <= n - 1)
    BY <1>2
  <2> QED BY <1>1, <2>1 DEF left
<1> QED BY <1>2, <1>3

Recursion(N, S, base, step) == N \in Nat /\ base \in S /\ step \in [1 .. N -> [S -> S]]

Solution(f, N, S, base, step) ==
  /\ f \in [0 .. N -> S]
  /\ \A d \in 0 .. N : f[d] = IF d = 0 THEN base ELSE step[d][f[d - 1]]

\* A function defined by recursion on 0 .. N exists.
LEMMA RecursionExists ==
  ASSUME NEW N, NEW S, NEW base, NEW step, Recursion(N, S, base, step)
  PROVE  \E f : Solution(f, N, S, base, step)
<1> USE DEF Recursion
<1> DEFINE Upto(n) == \E f \in [0 .. n -> S] :
                        \A d \in 0 .. n : f[d] = IF d = 0 THEN base ELSE step[d][f[d - 1]]
           Good == {n \in 0 .. N : Upto(n)}
<1>1. 0 \in Good
  <2> DEFINE f == [d \in 0 .. 0 |-> base]
  <2>1. f \in [0 .. 0 -> S] /\ \A d \in 0 .. 0 : d = 0 /\ f[d] = base
    OBVIOUS
  <2> HIDE DEF f
  <2>2. Upto(0)
    BY <2>1
  <2> HIDE DEF Upto
  <2> QED BY <2>2
<1>2. ASSUME NEW n \in 0 .. (N - 1), n \in Good PROVE n + 1 \in Good
  <2>1. PICK f \in [0 .. n -> S] :
          \A d \in 0 .. n : f[d] = IF d = 0 THEN base ELSE step[d][f[d - 1]]
    BY <1>2
  <2> DEFINE h == [d \in 0 .. (n + 1) |-> IF d = n + 1 THEN step[n + 1][f[n]] ELSE f[d]]
  <2>2. h \in [0 .. (n + 1) -> S]
    <3>1. n + 1 \in 1 .. N /\ f[n] \in S
      OBVIOUS
    <3>2. step[n + 1][f[n]] \in S
      BY <3>1
    <3> QED BY <3>2
  <2>3. ASSUME NEW d \in 0 .. (n + 1)
        PROVE  h[d] = IF d = 0 THEN base ELSE step[d][h[d - 1]]
    <3>1. CASE d = n + 1
      <4>1. n \in 0 .. (n + 1) /\ n # n + 1 /\ d # 0 /\ d - 1 = n
        BY <3>1
      <4>2. h[n] = f[n]
        BY <4>1
      <4>3. h[d] = step[n + 1][f[n]]
        BY <3>1
      <4> QED BY <3>1, <4>1, <4>2, <4>3
    <3>2. CASE d # n + 1
      <4>1. d \in 0 .. n
        BY <3>2
      <4>2. h[d] = f[d]
        BY <3>2
      <4>3. d # 0 => d - 1 \in 0 .. n /\ h[d - 1] = f[d - 1]
        BY <4>1
      <4> QED BY <2>1, <4>1, <4>2, <4>3
    <3> QED BY <3>1, <3>2
  <2> HIDE DEF h
  <2>4. Upto(n + 1)
    BY <2>2, <2>3
  <2> HIDE DEF Upto
  <2> QED BY <2>4
<1> HIDE DEF Upto
<1>3. N \in Good
  <2>1. 0 \in Good /\ \A n \in 0 .. (N - 1) : n \in Good => n + 1 \in Good
    BY <1>1, <1>2
  <2> HIDE DEF Good
  <2>2. 0 .. N \subseteq Good
    BY <2>1, InductionUpTo
  <2> QED BY <2>2
<1>4. Upto(N)
  BY <1>3
<1> QED BY <1>4 DEF Upto, Solution

-----------------------------------------------------------------------------
(* The text of a group. *)

Results == {Rejected, Unrestricted} \cup {Text(ts) : ts \in Seq(SUBSET Rows) \ {<<>>}}

\* The rows of the three kinds of answers of the compiler (row_filter_compiler.py:43).
LEMMA RowsOfResults ==
  /\ Rejected # Unrestricted
  /\ \A ts : Text(ts) # Rejected /\ Text(ts) # Unrestricted /\ Text(ts).terms = ts
             /\ RowsOf(Text(ts)) = UNION {ts[i] : i \in DOMAIN ts}
  /\ RowsOf(Rejected) = {}
  /\ RowsOf(Unrestricted) = Rows
  /\ \A x \in Results : RowsOf(x) \subseteq Rows
<1>1. Rejected # Unrestricted
  BY DEF Rejected, Unrestricted
<1>2. \A ts : Text(ts) # Rejected /\ Text(ts) # Unrestricted /\ Text(ts).terms = ts
  BY DEF Rejected, Unrestricted, Text
<1>3. \A ts : RowsOf(Text(ts)) = UNION {ts[i] : i \in DOMAIN ts}
  BY <1>2 DEF RowsOf
<1>4. RowsOf(Rejected) = {}
  <2>1. Rejected.terms = <<>>
    BY DEF Rejected
  <2> QED BY <2>1 DEF RowsOf
<1>5. RowsOf(Unrestricted) = Rows
  <2>1. Unrestricted.terms = <<Rows>>
    BY DEF Unrestricted
  <2> QED BY <2>1 DEF RowsOf
<1>6. ASSUME NEW ts \in Seq(SUBSET Rows) PROVE RowsOf(Text(ts)) \subseteq Rows
  BY <1>3
<1> HIDE DEF Rejected, Unrestricted, Text, RowsOf
<1>7. \A x \in Results : RowsOf(x) \subseteq Rows
  BY <1>4, <1>5, <1>6 DEF Results
<1> QED BY <1>1, <1>2, <1>3, <1>4, <1>5, <1>7

\* Two texts one after the other.
LEMMA Concatenated ==
  ASSUME NEW S, NEW x \in Seq(S), NEW y \in Seq(S)
  PROVE  /\ x \o y \in Seq(S)
         /\ x # <<>> \/ y # <<>> => x \o y # <<>>
<1>1. x \o y \in Seq(S) /\ Len(x \o y) = Len(x) + Len(y)
  BY ConcatProperties
<1>2. /\ Len(x) \in Nat /\ Len(y) \in Nat
      /\ x # <<>> => Len(x) # 0
      /\ y # <<>> => Len(y) # 0
  OBVIOUS
<1>3. Len(<<>>) = 0
  OBVIOUS
<1> QED BY <1>1, <1>2, <1>3

\* A text of one term selects the rows of that term.
LEMMA RowsOfOneTerm == \A c : RowsOf(Text(<<c>>)) = c
<1> TAKE c
<1> DEFINE t == <<c>>
<1>1. DOMAIN t = {1} /\ t[1] = c
  OBVIOUS
<1> HIDE DEF t
<1>2. UNION {t[i] : i \in DOMAIN t} = c
  BY <1>1
<1>3. RowsOf(Text(t)) = UNION {t[i] : i \in DOMAIN t}
  BY RowsOfResults
<1> QED BY <1>2, <1>3 DEF t

\* Joining texts gives a text.
LEMMA JoinedType ==
  ASSUME NEW x \in Seq(SUBSET Rows) \ {<<>>}, NEW y \in Seq(SUBSET Rows) \ {<<>>}, NEW key
  PROVE  Joined(key, x, y) \in Seq(SUBSET Rows) \ {<<>>}
<1> DEFINE W == SUBSET Rows
           front == Front(x)
           middle == <<Last(x) \cap Head(y)>>
           rest == Tail(y)
<1>1. Len(x) \in Nat \ {0} /\ Len(y) \in Nat \ {0}
  OBVIOUS
<1>2. front \in Seq(W)
  BY <1>1 DEF Front
<1>3. middle \in Seq(W) /\ middle # <<>>
  <2>1. Last(x) \cap Head(y) \in SUBSET Rows
    BY <1>1 DEF Last
  <2> QED BY <2>1
<1>4. rest \in Seq(W) /\ x \in Seq(W) /\ y \in Seq(W) /\ x # <<>> /\ y # <<>>
  OBVIOUS
<1> HIDE DEF W, front, middle, rest
<1>5. x \o y \in Seq(W) /\ x \o y # <<>>
  BY <1>4, Concatenated
<1>6. front \o middle \in Seq(W) /\ front \o middle # <<>>
  BY <1>2, <1>3, Concatenated
<1>7. (front \o middle) \o rest \in Seq(W) /\ (front \o middle) \o rest # <<>>
  BY <1>4, <1>6, Concatenated
<1> QED BY <1>5, <1>7 DEF Joined, W, front, middle, rest

\* OR of two texts selects what either selects.
LEMMA JoinedByOr ==
  ASSUME NEW x \in Seq(SUBSET Rows), NEW y \in Seq(SUBSET Rows)
  PROVE  RowsOf(Text(Joined("or", x, y))) = RowsOf(Text(x)) \cup RowsOf(Text(y))
<1> DEFINE z == x \o y
<1>1. Joined("or", x, y) = z
  BY DEF Joined
<1>2. /\ DOMAIN x = 1 .. Len(x) /\ DOMAIN y = 1 .. Len(y) /\ DOMAIN z = 1 .. (Len(x) + Len(y))
      /\ Len(x) \in Nat /\ Len(y) \in Nat
      /\ \A i \in DOMAIN x : z[i] = x[i]
      /\ \A i \in DOMAIN y : z[Len(x) + i] = y[i]
      /\ \A i \in DOMAIN z : i \in DOMAIN x \/ i - Len(x) \in DOMAIN y
      /\ \A i \in DOMAIN y : Len(x) + i \in DOMAIN z
      /\ \A i \in DOMAIN x : i \in DOMAIN z
  OBVIOUS
<1> HIDE DEF z
<1>3. UNION {z[i] : i \in DOMAIN z} \subseteq
        (UNION {x[i] : i \in DOMAIN x}) \cup (UNION {y[i] : i \in DOMAIN y})
  <2>1. ASSUME NEW r, NEW i \in DOMAIN z, r \in z[i]
        PROVE  r \in (UNION {x[j] : j \in DOMAIN x}) \cup (UNION {y[j] : j \in DOMAIN y})
    <3>1. CASE i \in DOMAIN x
      BY <1>2, <2>1, <3>1
    <3>2. CASE i - Len(x) \in DOMAIN y
      <4>1. Len(x) + (i - Len(x)) = i
        BY <1>2
      <4>2. r \in y[i - Len(x)]
        BY <1>2, <2>1, <3>2, <4>1
      <4> QED BY <3>2, <4>2
    <3> QED BY <1>2, <3>1, <3>2
  <2> QED BY <2>1
<1>4. UNION {x[i] : i \in DOMAIN x} \subseteq UNION {z[i] : i \in DOMAIN z}
  BY <1>2
<1>5. UNION {y[i] : i \in DOMAIN y} \subseteq UNION {z[i] : i \in DOMAIN z}
  BY <1>2
<1> QED BY <1>1, <1>3, <1>4, <1>5, RowsOfResults

Single(x) == x = Rejected \/ x = Unrestricted \/ \E rows \in SUBSET Rows : x = Text(<<rows>>)

\* AND of two texts of one term each has one term.
LEMMA JoinedByAnd ==
  ASSUME NEW a, NEW b
  PROVE  Joined("and", <<a>>, <<b>>) = <<a \cap b>>
<1>1. Front(<<a>>) = <<>>
  BY DEF Front
<1>2. Last(<<a>>) = a /\ Head(<<b>>) = b /\ Tail(<<b>>) = <<>>
  BY DEF Last
<1>3. <<>> \o <<a \cap b>> \o <<>> = <<a \cap b>>
  OBVIOUS
<1> QED BY <1>1, <1>2, <1>3 DEF Joined

\* What a group makes of two answers (row_filter_compiler.py:54 and :67).
LEMMA CombinedType ==
  ASSUME NEW x \in Results, NEW y \in Results, NEW key
  PROVE  Combined(key, x, y) \in Results
<1>1. CASE x = Rejected \/ y = Rejected \/ x = Unrestricted \/ y = Unrestricted
  BY <1>1 DEF Combined, Results
<1>2. CASE x \notin {Rejected, Unrestricted} /\ y \notin {Rejected, Unrestricted}
  <2>1. PICK s \in Seq(SUBSET Rows) \ {<<>>} : x = Text(s)
    BY <1>2 DEF Results
  <2>2. PICK t \in Seq(SUBSET Rows) \ {<<>>} : y = Text(t)
    BY <1>2 DEF Results
  <2>3. Joined(key, s, t) \in Seq(SUBSET Rows) \ {<<>>}
    BY JoinedType
  <2>4. Combined(key, x, y) = Text(Joined(key, s, t))
    BY <1>2, <2>1, <2>2, RowsOfResults DEF Combined
  <2> QED BY <2>3, <2>4 DEF Results
<1> QED BY <1>1, <1>2

\* A disjunction selects no row that neither part selects; one that leaves out
\* neither part selects what either does.
LEMMA CombinedByOr ==
  ASSUME NEW x \in Results, NEW y \in Results
  PROVE  /\ RowsOf(Combined("or", x, y)) \subseteq RowsOf(x) \cup RowsOf(y)
         /\ Combined("or", x, y) # Rejected => x # Rejected /\ y # Rejected
         /\ x # Unrestricted /\ y # Unrestricted /\ Combined("or", x, y) # Rejected =>
              /\ Combined("or", x, y) # Unrestricted
              /\ RowsOf(Combined("or", x, y)) = RowsOf(x) \cup RowsOf(y)
<1>1. CASE x = Rejected \/ y = Rejected \/ x = Unrestricted \/ y = Unrestricted
  BY <1>1, RowsOfResults DEF Combined
<1>2. CASE x \notin {Rejected, Unrestricted} /\ y \notin {Rejected, Unrestricted}
  <2>1. PICK s \in Seq(SUBSET Rows) \ {<<>>} : x = Text(s)
    BY <1>2 DEF Results
  <2>2. PICK t \in Seq(SUBSET Rows) \ {<<>>} : y = Text(t)
    BY <1>2 DEF Results
  <2>3. Combined("or", x, y) = Text(Joined("or", s, t))
    BY <1>2, <2>1, <2>2, RowsOfResults DEF Combined
  <2>4. RowsOf(Text(Joined("or", s, t))) = RowsOf(x) \cup RowsOf(y)
    BY <2>1, <2>2, JoinedByOr
  <2> QED BY <1>2, <2>3, <2>4, RowsOfResults
<1> QED BY <1>1, <1>2

\* A conjunction of parts of one term each selects what both select.
LEMMA CombinedByAnd ==
  ASSUME NEW x \in Results, NEW y \in Results, Single(x), Single(y)
  PROVE  /\ Single(Combined("and", x, y))
         /\ RowsOf(Combined("and", x, y)) \subseteq RowsOf(x) \cap RowsOf(y)
         /\ Combined("and", x, y) # Rejected =>
              /\ x # Rejected /\ y # Rejected
              /\ RowsOf(Combined("and", x, y)) = RowsOf(x) \cap RowsOf(y)
         /\ x # Unrestricted \/ y # Unrestricted => Combined("and", x, y) # Unrestricted
<1>0. RowsOf(x) \subseteq Rows /\ RowsOf(y) \subseteq Rows
  BY RowsOfResults
<1>1. CASE x = Rejected \/ y = Rejected \/ x = Unrestricted \/ y = Unrestricted
  BY <1>0, <1>1, RowsOfResults DEF Combined, Single
<1>2. CASE x \notin {Rejected, Unrestricted} /\ y \notin {Rejected, Unrestricted}
  <2>1. PICK a \in SUBSET Rows : x = Text(<<a>>)
    BY <1>2 DEF Single
  <2>2. PICK b \in SUBSET Rows : y = Text(<<b>>)
    BY <1>2 DEF Single
  <2>3. Combined("and", x, y) = Text(<<a \cap b>>)
    <3>1. x.terms = <<a>> /\ y.terms = <<b>>
      BY <2>1, <2>2, RowsOfResults
    <3>2. Combined("and", x, y) = Text(Joined("and", x.terms, y.terms))
      BY <1>2 DEF Combined
    <3>3. Joined("and", <<a>>, <<b>>) = <<a \cap b>>
      BY JoinedByAnd
    <3> QED BY <3>1, <3>2, <3>3
  <2>4. \A c : RowsOf(Text(<<c>>)) = c
    BY RowsOfOneTerm
  <2>5. Single(Text(<<a \cap b>>))
    BY DEF Single
  <2> QED BY <1>2, <2>1, <2>2, <2>3, <2>4, <2>5, RowsOfResults
<1> QED BY <1>1, <1>2

\* The answers for the prefixes of a group's items exist and obey their definition.
LEMMA PartialDef ==
  ASSUME NEW c \in Clause, NEW results \in [Nodes -> Results]
  PROVE  /\ Partial(c, results) \in [0 .. Len(c.items) -> Results]
         /\ \A k \in 0 .. Len(c.items) :
              Partial(c, results)[k] =
                IF k = 0 THEN Unrestricted
                ELSE Combined(c.key, Partial(c, results)[k - 1], results[c.items[k]])
<1> DEFINE N == Len(c.items)
           step == [k \in 1 .. N |-> [x \in Results |-> Combined(c.key, x, results[c.items[k]])]]
           P(f) == f = [k \in 0 .. N |-> IF k = 0 THEN Unrestricted
                                         ELSE Combined(c.key, f[k - 1], results[c.items[k]])]
<1>0. c.items \in Seq(Nodes)
  BY DEF Clause
<1>1. N \in Nat /\ \A k \in 1 .. N : c.items[k] \in Nodes /\ results[c.items[k]] \in Results
  BY <1>0
<1>2. Unrestricted \in Results
  BY DEF Results
<1>3. step \in [1 .. N -> [Results -> Results]]
  BY <1>1, CombinedType
<1> HIDE DEF N
<1>4. PICK f \in [0 .. N -> Results] :
        \A k \in 0 .. N : f[k] = IF k = 0 THEN Unrestricted ELSE step[k][f[k - 1]]
  <2>1. Recursion(N, Results, Unrestricted, step)
    BY <1>1, <1>2, <1>3 DEF Recursion
  <2> HIDE DEF step
  <2>2. \E f : Solution(f, N, Results, Unrestricted, step)
    BY <2>1, RecursionExists
  <2> QED BY <2>2 DEF Solution
<1>5. \A k \in 1 .. N : step[k][f[k - 1]] = Combined(c.key, f[k - 1], results[c.items[k]])
  <2>1. \A k \in 1 .. N : k - 1 \in 0 .. N
    BY <1>1
  <2>2. \A k \in 1 .. N : f[k - 1] \in Results
    BY <2>1
  <2> QED BY <2>2
<1>6. P(f)
  <2>1. \A k \in 0 .. N : k # 0 => k \in 1 .. N
    BY <1>1
  <2> HIDE DEF step
  <2> QED BY <1>4, <1>5, <2>1
<1>7. Partial(c, results) = CHOOSE g : P(g)
  BY DEF Partial, N
<1>8. P(Partial(c, results))
  <2> HIDE DEF P
  <2> QED BY <1>6, <1>7
<1> DEFINE g == Partial(c, results)
<1> HIDE DEF g
<1>9. \A k \in 0 .. N : g[k] = IF k = 0 THEN Unrestricted
                                ELSE Combined(c.key, g[k - 1], results[c.items[k]])
  BY <1>8 DEF g
<1>10. DOMAIN g = 0 .. N /\ g = [k \in 0 .. N |-> g[k]]
  BY <1>8 DEF g
<1>11. \A k \in 0 .. N : g[k] \in Results
  <2> DEFINE T == {k \in 0 .. N : g[k] \in Results}
  <2>1. 0 \in T
    BY <1>1, <1>2, <1>9
  <2>2. ASSUME NEW k \in 0 .. (N - 1), k \in T PROVE k + 1 \in T
    <3>1. k + 1 \in 1 .. N /\ k + 1 \in 0 .. N /\ (k + 1) - 1 = k /\ k + 1 # 0
      BY <1>1
    <3>2. g[k + 1] = Combined(c.key, g[k], results[c.items[k + 1]])
      BY <1>9, <3>1
    <3>3. g[k] \in Results /\ results[c.items[k + 1]] \in Results
      BY <1>1, <2>2, <3>1
    <3> QED BY <3>1, <3>2, <3>3, CombinedType
  <2> HIDE DEF T
  <2>3. 0 .. N \subseteq T
    BY <1>1, <2>1, <2>2, InductionUpTo
  <2> QED BY <2>3 DEF T
<1>12. g \in [0 .. N -> Results]
  BY <1>10, <1>11
<1> QED BY <1>9, <1>12 DEF g, N

\* A group of results is a result.
LEMMA GroupType ==
  ASSUME NEW c \in Clause, NEW results \in [Nodes -> Results]
  PROVE  Group(c, results) \in Results
<1>1. Len(c.items) \in 0 .. Len(c.items)
  <2>1. c.items \in Seq(Nodes)
    BY DEF Clause
  <2> QED BY <2>1
<1>2. Partial(c, results)[Len(c.items)] \in Results
  BY <1>1, PartialDef
<1> QED BY <1>2 DEF Group, Results

\* A disjunction of any length selects no row that none of its items selects; if
\* no item compiles to None, it selects what any of them does, or is rejected
\* (row_filter_compiler.py:63).
LEMMA GroupByOr ==
  ASSUME NEW c \in Clause, c.key = "or", NEW results \in [Nodes -> Results]
  PROVE  /\ RowsOf(Group(c, results)) \subseteq UNION {RowsOf(results[m]) : m \in Items(c)}
         /\ Group(c, results) # Rejected =>
              /\ \A m \in Items(c) : results[m] # Rejected
              /\ (\A m \in Items(c) : results[m] # Unrestricted) =>
                   /\ Group(c, results) # Unrestricted
                   /\ RowsOf(Group(c, results)) = UNION {RowsOf(results[m]) : m \in Items(c)}
<1> DEFINE N == Len(c.items)
           p == Partial(c, results)
           Some(k) == UNION {RowsOf(results[c.items[i]]) : i \in 1 .. k}
           Whole == \A m \in Items(c) : results[m] # Unrestricted
           Holds(k) ==
             /\ RowsOf(p[k]) \subseteq Some(k)
             /\ p[k] # Rejected =>
                  /\ \A i \in 1 .. k : results[c.items[i]] # Rejected
                  /\ Whole => p[k] # Unrestricted /\ RowsOf(p[k]) = Some(k)
           T == {k \in 0 .. N : k = 0 \/ Holds(k)}
<1>1. /\ N \in Nat /\ DOMAIN c.items = 1 .. N
      /\ \A i \in 1 .. N : c.items[i] \in Nodes /\ results[c.items[i]] \in Results
                           /\ c.items[i] \in Items(c)
      /\ \A m \in Items(c) : \E i \in 1 .. N : m = c.items[i]
  <2>1. c.items \in Seq(Nodes)
    BY DEF Clause
  <2> QED BY <2>1 DEF Items
<1>2. /\ \A k \in 0 .. N : p[k] \in Results
      /\ p[0] = Unrestricted
      /\ \A k \in 1 .. N : p[k] = Combined("or", p[k - 1], results[c.items[k]])
  <2> HIDE DEF p
  <2>1. p \in [0 .. N -> Results]
    BY PartialDef DEF p
  <2>2. \A k \in 0 .. N : p[k] = IF k = 0 THEN Unrestricted
                                  ELSE Combined("or", p[k - 1], results[c.items[k]])
    BY PartialDef DEF p
  <2> HIDE DEF N
  <2>3. 0 \in 0 .. N /\ \A k \in 1 .. N : k \in 0 .. N /\ k # 0
    BY <1>1
  <2>4. \A k \in 0 .. N : p[k] \in Results
    BY <2>1 DEF N
  <2>5. p[0] = Unrestricted
    BY <2>2, <2>3 DEF N
  <2>6. \A k \in 1 .. N : p[k] = Combined("or", p[k - 1], results[c.items[k]])
    BY <2>2, <2>3 DEF N
  <2> QED BY <2>4, <2>5, <2>6
<1> HIDE DEF N, p
<1>3. ASSUME NEW k \in 0 .. (N - 1), k \in T PROVE k + 1 \in T
  <2> DEFINE x == p[k]
             y == results[c.items[k + 1]]
  <2>1. k + 1 \in 1 .. N /\ k + 1 \in 0 .. N /\ (k + 1) - 1 = k /\ k \in 0 .. N
        /\ 1 .. (k + 1) = (1 .. k) \cup {k + 1}
    BY <1>1
  <2>2. p[k + 1] = Combined("or", x, y) /\ x \in Results /\ y \in Results
    BY <1>1, <1>2, <2>1
  <2>3. Some(k + 1) = Some(k) \cup RowsOf(y)
    BY <2>1
  <2>4. Whole => y # Unrestricted
    BY <1>1, <2>1
  <2>5. CASE k = 0
    <3>1. Combined("or", x, y) = y
      BY <1>2, <2>5, RowsOfResults DEF Combined
    <3>2. Some(k) = {} /\ 1 .. (k + 1) = {k + 1}
      BY <2>5
    <3>3. Some(k + 1) = RowsOf(y)
      BY <2>3, <3>2
    <3> HIDE DEF x, y, Some, Whole
    <3>4. \A i \in 1 .. (k + 1) : results[c.items[i]] = y
      BY <3>2 DEF y
    <3>5. Holds(k + 1)
      BY <2>2, <2>4, <3>1, <3>3, <3>4
    <3> QED BY <2>1, <3>5
  <2>6. CASE k # 0
    <3>1. Holds(k)
      BY <1>3, <2>6
    <3> HIDE DEF y, Some, Whole
    <3>2. \A i \in 1 .. (k + 1) : i \in 1 .. k \/ results[c.items[i]] = y
      BY <2>1 DEF y
    <3>3. RowsOf(p[k + 1]) \subseteq Some(k + 1)
      BY <2>2, <2>3, <3>1, CombinedByOr
    <3>4. ASSUME p[k + 1] # Rejected
          PROVE  /\ \A i \in 1 .. (k + 1) : results[c.items[i]] # Rejected
                 /\ Whole => p[k + 1] # Unrestricted /\ RowsOf(p[k + 1]) = Some(k + 1)
      <4>1. x # Rejected /\ y # Rejected
        BY <2>2, <3>4, CombinedByOr
      <4>2. \A i \in 1 .. (k + 1) : results[c.items[i]] # Rejected
        BY <3>1, <3>2, <4>1
      <4>3. ASSUME Whole PROVE p[k + 1] # Unrestricted /\ RowsOf(p[k + 1]) = Some(k + 1)
        <5>1. x # Unrestricted /\ y # Unrestricted /\ RowsOf(x) = Some(k)
          BY <2>4, <3>1, <4>1, <4>3
        <5> QED BY <2>2, <2>3, <3>4, <5>1, CombinedByOr
      <4> QED BY <4>2, <4>3
    <3> QED BY <2>1, <3>3, <3>4
  <2> QED BY <2>5, <2>6
<1>4. 0 .. N \subseteq T
  <2>1. 0 \in T
    BY <1>1
  <2> HIDE DEF T
  <2> QED BY <1>1, <1>3, <2>1, InductionUpTo
<1>5. CASE c.items = <<>>
  <2>1. Group(c, results) = Rejected
    BY <1>5 DEF Group
  <2> QED BY <2>1, RowsOfResults
<1>6. CASE c.items # <<>>
  <2>1. N \in 0 .. N /\ N # 0
    <3>1. c.items \in Seq(Nodes)
      BY DEF Clause
    <3> QED BY <1>1, <1>6, <3>1, EmptySeq DEF N
  <2>2. Holds(N)
    BY <1>4, <2>1
  <2>3. Group(c, results) = p[N]
    BY <1>6 DEF Group, p, N
  <2>4. Some(N) = UNION {RowsOf(results[m]) : m \in Items(c)}
    BY <1>1
  <2> HIDE DEF Some, Whole
  <2>5. p[N] # Rejected => \A m \in Items(c) : results[m] # Rejected
    BY <1>1, <2>2
  <2> QED BY <2>2, <2>3, <2>4, <2>5 DEF Whole
<1> QED BY <1>5, <1>6

\* A conjunction of items of one term each has one term, and selects no row that
\* one of them leaves out; if it is not rejected, it selects just what all of them
\* do (row_filter_compiler.py:50).
LEMMA GroupByAnd ==
  ASSUME NEW c \in Clause, c.key = "and", NEW results \in [Nodes -> Results],
         \A m \in Items(c) : Single(results[m])
  PROVE  /\ Single(Group(c, results))
         /\ \A m \in Items(c) : RowsOf(Group(c, results)) \subseteq RowsOf(results[m])
         /\ Group(c, results) # Rejected =>
              /\ \A m \in Items(c) : results[m] # Rejected
              /\ RowsOf(Group(c, results)) = {r \in Rows : \A m \in Items(c) : r \in RowsOf(results[m])}
              /\ (\A m \in Items(c) : results[m] # Unrestricted) => Group(c, results) # Unrestricted
<1> DEFINE N == Len(c.items)
           p == Partial(c, results)
           All(k) == {r \in Rows : \A i \in 1 .. k : r \in RowsOf(results[c.items[i]])}
           Whole == \A m \in Items(c) : results[m] # Unrestricted
           Holds(k) ==
             /\ Single(p[k])
             /\ RowsOf(p[k]) \subseteq All(k)
             /\ p[k] # Rejected =>
                  /\ \A i \in 1 .. k : results[c.items[i]] # Rejected
                  /\ RowsOf(p[k]) = All(k)
                  /\ Whole /\ k # 0 => p[k] # Unrestricted
           T == {k \in 0 .. N : Holds(k)}
<1>1. /\ N \in Nat /\ DOMAIN c.items = 1 .. N
      /\ \A i \in 1 .. N : c.items[i] \in Nodes /\ results[c.items[i]] \in Results
                           /\ c.items[i] \in Items(c)
      /\ \A m \in Items(c) : \E i \in 1 .. N : m = c.items[i]
  <2>1. c.items \in Seq(Nodes)
    BY DEF Clause
  <2> QED BY <2>1 DEF Items
<1>2. /\ \A k \in 0 .. N : p[k] \in Results
      /\ p[0] = Unrestricted
      /\ \A k \in 1 .. N : p[k] = Combined("and", p[k - 1], results[c.items[k]])
  <2> HIDE DEF p
  <2>1. p \in [0 .. N -> Results]
    BY PartialDef DEF p
  <2>2. \A k \in 0 .. N : p[k] = IF k = 0 THEN Unrestricted
                                  ELSE Combined("and", p[k - 1], results[c.items[k]])
    BY PartialDef DEF p
  <2> HIDE DEF N
  <2>3. 0 \in 0 .. N /\ \A k \in 1 .. N : k \in 0 .. N /\ k # 0
    BY <1>1
  <2>4. \A k \in 0 .. N : p[k] \in Results
    BY <2>1 DEF N
  <2>5. p[0] = Unrestricted
    BY <2>2, <2>3 DEF N
  <2>6. \A k \in 1 .. N : p[k] = Combined("and", p[k - 1], results[c.items[k]])
    BY <2>2, <2>3 DEF N
  <2> QED BY <2>4, <2>5, <2>6
<1> HIDE DEF N, p
<1>3. 0 \in T
  <2>1. All(0) = Rows
    OBVIOUS
  <2> HIDE DEF All, Whole
  <2> QED BY <1>1, <1>2, <2>1, RowsOfResults DEF Single
<1>4. ASSUME NEW k \in 0 .. (N - 1), k \in T PROVE k + 1 \in T
  <2> DEFINE x == p[k]
             y == results[c.items[k + 1]]
  <2>1. k + 1 \in 1 .. N /\ k + 1 \in 0 .. N /\ (k + 1) - 1 = k /\ k \in 0 .. N
        /\ 1 .. (k + 1) = (1 .. k) \cup {k + 1}
    BY <1>1
  <2>2. p[k + 1] = Combined("and", x, y) /\ x \in Results /\ y \in Results /\ Single(y)
    BY <1>1, <1>2, <2>1
  <2>3. All(k + 1) = All(k) \cap RowsOf(y)
    BY <2>1
  <2>4. Whole => y # Unrestricted
    BY <1>1, <2>1
  <2>5. Holds(k)
    BY <1>4
  <2> HIDE DEF y, All, Whole
  <2>6. \A i \in 1 .. (k + 1) : i \in 1 .. k \/ results[c.items[i]] = y
    BY <2>1 DEF y
  <2>7. Single(p[k + 1]) /\ RowsOf(p[k + 1]) \subseteq All(k + 1)
    BY <2>2, <2>3, <2>5, CombinedByAnd
  <2>8. ASSUME p[k + 1] # Rejected
        PROVE  /\ \A i \in 1 .. (k + 1) : results[c.items[i]] # Rejected
               /\ RowsOf(p[k + 1]) = All(k + 1)
               /\ Whole => p[k + 1] # Unrestricted
    <3>1. x # Rejected /\ y # Rejected /\ RowsOf(p[k + 1]) = RowsOf(x) \cap RowsOf(y)
      BY <2>2, <2>5, <2>8, CombinedByAnd
    <3>2. \A i \in 1 .. (k + 1) : results[c.items[i]] # Rejected
      BY <2>5, <2>6, <3>1
    <3>3. RowsOf(p[k + 1]) = All(k + 1)
      BY <2>3, <2>5, <3>1
    <3>4. Whole => p[k + 1] # Unrestricted
      BY <2>2, <2>4, <2>5, CombinedByAnd
    <3> QED BY <3>2, <3>3, <3>4
  <2> QED BY <2>1, <2>7, <2>8
<1>5. 0 .. N \subseteq T
  <2> HIDE DEF T
  <2> QED BY <1>1, <1>3, <1>4, InductionUpTo
<1>6. CASE c.items = <<>>
  <2>1. Group(c, results) = Rejected
    BY <1>6 DEF Group
  <2> QED BY <2>1, RowsOfResults DEF Single
<1>7. CASE c.items # <<>>
  <2>1. N \in 0 .. N /\ N # 0
    <3>1. c.items \in Seq(Nodes)
      BY DEF Clause
    <3> QED BY <1>1, <1>7, <3>1, EmptySeq DEF N
  <2>2. Holds(N)
    BY <1>5, <2>1
  <2>3. Group(c, results) = p[N]
    BY <1>7 DEF Group, p, N
  <2>4. All(N) = {r \in Rows : \A m \in Items(c) : r \in RowsOf(results[m])}
    BY <1>1
  <2>5. \A m \in Items(c) : All(N) \subseteq RowsOf(results[m])
    BY <2>4
  <2> HIDE DEF All, Whole
  <2>6. p[N] # Rejected => \A m \in Items(c) : results[m] # Rejected
    BY <1>1, <2>2
  <2> QED BY <2>1, <2>2, <2>3, <2>4, <2>5, <2>6 DEF Whole
<1> QED BY <1>6, <1>7

-----------------------------------------------------------------------------
(* The levels of a filter. *)

\* The entry on which the compiler's loop returns (row_filter_compiler.py:48).
LEMMA FirstDecisive ==
  ASSUME NEW n \in Nodes, Decisive(n) # {}
  PROVE  /\ Min(Decisive(n)) \in Decisive(n)
         /\ Min(Decisive(n)) \in DOMAIN Clauses[n]
         /\ Clauses[n][Min(Decisive(n))] \in Clause
         /\ Clauses[n][Min(Decisive(n))] \in ClausesOf(n)
<1>1. Clauses[n] \in Seq(Clause)
  BY FilterConstants
<1>2. Decisive(n) \subseteq DOMAIN Clauses[n] /\ Decisive(n) \subseteq Nat
  BY <1>1 DEF Decisive
<1>3. \E x \in Decisive(n) : \A y \in Decisive(n) : x =< y
  BY <1>2, LeastNatural
<1>4. Min(Decisive(n)) \in Decisive(n)
  BY <1>3 DEF Min
<1> DEFINE i == Min(Decisive(n))
<1>5. i \in DOMAIN Clauses[n] /\ i \in Decisive(n)
  BY <1>2, <1>4
<1> HIDE DEF i
<1>6. Clauses[n][i] \in Clause /\ Clauses[n][i] \in ClausesOf(n)
  BY <1>1, <1>5 DEF ClausesOf
<1> QED BY <1>5, <1>6 DEF i

\* A comparison is compiled to a text or refused.
LEMMA CompileTestType ==
  ASSUME NEW t \in Test
  PROVE  CompileTest(t) \in Results /\ CompileTest(t) \in {Rejected, Text(<<t.rows>>)}
<1>1. <<t.rows>> \in Seq(SUBSET Rows) \ {<<>>}
  BY DEF Test
<1> QED BY <1>1 DEF CompileTest, Results

\* A node is compiled to a result.
LEMMA CompileNodeType ==
  ASSUME NEW n \in Nodes, NEW below \in [Nodes -> Results]
  PROVE  CompileNode(n, below) \in Results
<1>1. CASE Decisive(n) = {}
  BY <1>1 DEF CompileNode, Results
<1>2. CASE Decisive(n) # {}
  <2> DEFINE i == Min(Decisive(n))
             c == Clauses[n][i]
  <2>1. c \in Clause /\ i \in Decisive(n)
    BY <1>2, FirstDecisive
  <2>2. CompileNode(n, below) = IF c.key \in {"and", "or"} THEN Group(c, below)
                                ELSE IF c.key = "column" THEN CompileTest(c.tests[1])
                                ELSE Rejected
    BY <1>2 DEF CompileNode
  <2>3. c.key = "column" => c.tests # <<>>
    BY <2>1 DEF Decisive
  <2> HIDE DEF i, c
  <2>4. c.key = "column" => c.tests[1] \in Test
    BY <2>1, <2>3 DEF Clause
  <2>5. Group(c, below) \in Results
    BY <2>1, GroupType
  <2>6. c.key = "column" => CompileTest(c.tests[1]) \in Results
    BY <2>4, CompileTestType
  <2>7. Rejected \in Results
    BY DEF Results
  <2> QED BY <2>2, <2>5, <2>6, <2>7
<1> QED BY <1>1, <1>2

\* What compile answers to a node obeys its definition (row_filter_compiler.py:43).
LEMMA CompiledDef ==
  \A d \in 0 .. MaxDepth :
    /\ Compiled[d] \in [Nodes -> Results]
    /\ \A n \in Nodes : Compiled[d][n] = IF Empty(n) THEN Unrestricted
                                         ELSE IF d = 0 THEN Rejected
                                         ELSE CompileNode(n, Compiled[d - 1])
<1> DEFINE S == [Nodes -> Results]
           base == [n \in Nodes |-> IF Empty(n) THEN Unrestricted ELSE Rejected]
           Level(f) == [n \in Nodes |-> IF Empty(n) THEN Unrestricted ELSE CompileNode(n, f)]
           step == [d \in 1 .. MaxDepth |-> [f \in S |-> Level(f)]]
           P(g) == g = [d \in 0 .. MaxDepth |->
                          [n \in Nodes |-> IF Empty(n) THEN Unrestricted
                                           ELSE IF d = 0 THEN Rejected
                                           ELSE CompileNode(n, g[d - 1])]]
<1>0. MaxDepth \in Nat
  BY FilterConstants
<1>1. Unrestricted \in Results /\ Rejected \in Results
  BY DEF Results
<1>2. base \in S
  BY <1>1
<1>3. ASSUME NEW f \in S PROVE Level(f) \in S
  BY <1>1, CompileNodeType
<1>4. step \in [1 .. MaxDepth -> [S -> S]]
  <2> HIDE DEF S, Level
  <2> QED BY <1>3
<1>5. Recursion(MaxDepth, S, base, step)
  <2> HIDE DEF S, base, step
  <2> QED BY <1>0, <1>2, <1>4 DEF Recursion
<1>6. PICK g : Solution(g, MaxDepth, S, base, step)
  <2> HIDE DEF S, base, step
  <2> QED BY <1>5, RecursionExists
<1>7. ASSUME NEW d \in 0 .. MaxDepth
      PROVE  g[d] = [n \in Nodes |-> IF Empty(n) THEN Unrestricted
                                     ELSE IF d = 0 THEN Rejected
                                     ELSE CompileNode(n, g[d - 1])]
  <2>1. g[d] = IF d = 0 THEN base ELSE step[d][g[d - 1]]
    <3> HIDE DEF base, step
    <3> QED BY <1>6 DEF Solution
  <2>2. CASE d = 0
    BY <2>1, <2>2
  <2>3. CASE d # 0
    <3>1. d \in 1 .. MaxDepth /\ d - 1 \in 0 .. MaxDepth
      BY <1>0, <2>3
    <3>2. g[d - 1] \in S
      <4> HIDE DEF S, base, step
      <4> QED BY <1>6, <3>1 DEF Solution
    <3>3. step[d][g[d - 1]] = Level(g[d - 1])
      <4> HIDE DEF S, Level
      <4> QED BY <3>1, <3>2
    <3> HIDE DEF step
    <3> QED BY <2>1, <2>3, <3>3
  <2> QED BY <2>2, <2>3
<1>8. P(g)
  <2>1. g = [d \in 0 .. MaxDepth |-> g[d]]
    <3> HIDE DEF S, base, step
    <3> QED BY <1>6 DEF Solution
  <2> QED BY <1>7, <2>1
<1>9. Compiled = CHOOSE h : P(h)
  BY DEF Compiled
<1>10. P(Compiled)
  <2> HIDE DEF P
  <2> QED BY <1>8, <1>9
<1> DEFINE T == {d \in 0 .. MaxDepth : Compiled[d] \in S}
<1>11. ASSUME NEW d \in 0 .. MaxDepth
       PROVE  Compiled[d] = [n \in Nodes |-> IF Empty(n) THEN Unrestricted
                                             ELSE IF d = 0 THEN Rejected
                                             ELSE CompileNode(n, Compiled[d - 1])]
  BY <1>10
<1>12. 0 \in T
  <2>1. 0 \in 0 .. MaxDepth
    BY <1>0
  <2>2. Compiled[0] = base
    BY <1>11, <2>1
  <2> HIDE DEF S, base
  <2> QED BY <1>2, <2>1, <2>2
<1>13. ASSUME NEW d \in 0 .. (MaxDepth - 1), d \in T PROVE d + 1 \in T
  <2>1. d + 1 \in 0 .. MaxDepth /\ d + 1 # 0 /\ (d + 1) - 1 = d
    BY <1>0
  <2>2. Compiled[d + 1] = [n \in Nodes |-> IF Empty(n) THEN Unrestricted
                                           ELSE CompileNode(n, Compiled[d])]
    BY <1>11, <2>1
  <2> HIDE DEF S
  <2>3. Compiled[d] \in S
    BY <1>13
  <2>4. Compiled[d + 1] \in S
    BY <1>3, <2>2, <2>3
  <2> QED BY <2>1, <2>4
<1>14. 0 .. MaxDepth \subseteq T
  <2> HIDE DEF T
  <2> QED BY <1>0, <1>12, <1>13, InductionUpTo
<1>15. ASSUME NEW d \in 0 .. MaxDepth, NEW n \in Nodes
       PROVE  Compiled[d][n] = IF Empty(n) THEN Unrestricted
                               ELSE IF d = 0 THEN Rejected
                               ELSE CompileNode(n, Compiled[d - 1])
  <2> DEFINE e == [m \in Nodes |-> IF Empty(m) THEN Unrestricted
                                   ELSE IF d = 0 THEN Rejected
                                   ELSE CompileNode(m, Compiled[d - 1])]
  <2>1. Compiled[d] = e
    BY <1>11
  <2>2. e[n] = IF Empty(n) THEN Unrestricted
               ELSE IF d = 0 THEN Rejected
               ELSE CompileNode(n, Compiled[d - 1])
    OBVIOUS
  <2> HIDE DEF e
  <2> QED BY <2>1, <2>2
<1> QED BY <1>14, <1>15

\* The meaning of a node is a set of rows.
LEMMA MeansOfIsRows ==
  ASSUME NEW n, NEW below
  PROVE  MeansOf(n, below) \subseteq Rows
BY DEF MeansOf

\* The meaning of a filter obeys its definition.
LEMMA MeansDef ==
  \A d \in 0 .. MaxDepth : \A n \in Nodes :
    Means[d][n] = MeansOf(n, IF d = 0 THEN NoRows ELSE Means[d - 1])
<1> DEFINE S == [Nodes -> SUBSET Rows]
           base == [n \in Nodes |-> MeansOf(n, NoRows)]
           Level(f) == [n \in Nodes |-> MeansOf(n, f)]
           step == [d \in 1 .. MaxDepth |-> [f \in S |-> Level(f)]]
           At(d, g) == [n \in Nodes |-> MeansOf(n, IF d = 0 THEN NoRows ELSE g[d - 1])]
           P(g) == g = [d \in 0 .. MaxDepth |-> At(d, g)]
<1>0. MaxDepth \in Nat
  BY FilterConstants
<1>1. base \in S
  BY MeansOfIsRows
<1>2. \A f : Level(f) \in S
  BY MeansOfIsRows
<1>3. step \in [1 .. MaxDepth -> [S -> S]]
  <2> HIDE DEF S, Level
  <2> QED BY <1>2
<1>4. Recursion(MaxDepth, S, base, step)
  <2> HIDE DEF S, base, step
  <2> QED BY <1>0, <1>1, <1>3 DEF Recursion
<1>5. PICK g : Solution(g, MaxDepth, S, base, step)
  <2> HIDE DEF S, base, step
  <2> QED BY <1>4, RecursionExists
<1>6. ASSUME NEW d \in 0 .. MaxDepth PROVE g[d] = At(d, g)
  <2>1. g[d] = IF d = 0 THEN base ELSE step[d][g[d - 1]]
    <3> HIDE DEF base, step
    <3> QED BY <1>5 DEF Solution
  <2>2. CASE d = 0
    BY <2>1, <2>2
  <2>3. CASE d # 0
    <3>1. d \in 1 .. MaxDepth /\ d - 1 \in 0 .. MaxDepth
      BY <1>0, <2>3
    <3>2. g[d - 1] \in S
      <4> HIDE DEF S, base, step
      <4> QED BY <1>5, <3>1 DEF Solution
    <3>3. step[d][g[d - 1]] = Level(g[d - 1])
      <4> HIDE DEF S, Level
      <4> QED BY <3>1, <3>2
    <3>4. Level(g[d - 1]) = At(d, g)
      BY <1>0, <2>3
    <3> HIDE DEF step, Level, At
    <3> QED BY <2>1, <2>3, <3>3, <3>4
  <2> QED BY <2>2, <2>3
<1>7. P(g)
  <2>1. g = [d \in 0 .. MaxDepth |-> g[d]]
    <3> HIDE DEF S, base, step
    <3> QED BY <1>5 DEF Solution
  <2> HIDE DEF At
  <2> QED BY <1>6, <2>1
<1>8. Means = CHOOSE h : P(h)
  BY DEF Means
<1>9. P(Means)
  <2> HIDE DEF P
  <2> QED BY <1>7, <1>8
<1> SUFFICES ASSUME NEW d \in 0 .. MaxDepth, NEW n \in Nodes
             PROVE  Means[d][n] = MeansOf(n, IF d = 0 THEN NoRows ELSE Means[d - 1])
  OBVIOUS
<1>10. Means[d] = At(d, Means)
  <2> HIDE DEF At
  <2> QED BY <1>9
<1> QED BY <1>10

\* The plain form obeys its definition.
LEMMA PlainDef ==
  \A d \in 0 .. MaxDepth : \A n \in Nodes :
    n \in Plain[d] <=> PlainOver(n, IF d = 0 THEN Nodes ELSE Plain[d - 1])
<1> DEFINE S == SUBSET Nodes
           base == {n \in Nodes : PlainOver(n, Nodes)}
           Level(f) == {n \in Nodes : PlainOver(n, f)}
           step == [d \in 1 .. MaxDepth |-> [f \in S |-> Level(f)]]
           At(d, g) == {n \in Nodes : PlainOver(n, IF d = 0 THEN Nodes ELSE g[d - 1])}
           P(g) == g = [d \in 0 .. MaxDepth |-> At(d, g)]
<1>0. MaxDepth \in Nat
  BY FilterConstants
<1>1. base \in S
  OBVIOUS
<1>2. \A f : Level(f) \in S
  OBVIOUS
<1>3. step \in [1 .. MaxDepth -> [S -> S]]
  <2> HIDE DEF S, Level
  <2> QED BY <1>2
<1>4. Recursion(MaxDepth, S, base, step)
  <2> HIDE DEF S, base, step
  <2> QED BY <1>0, <1>1, <1>3 DEF Recursion
<1>5. PICK g : Solution(g, MaxDepth, S, base, step)
  <2> HIDE DEF S, base, step
  <2> QED BY <1>4, RecursionExists
<1>6. ASSUME NEW d \in 0 .. MaxDepth PROVE g[d] = At(d, g)
  <2>1. g[d] = IF d = 0 THEN base ELSE step[d][g[d - 1]]
    <3> HIDE DEF base, step
    <3> QED BY <1>5 DEF Solution
  <2>2. CASE d = 0
    BY <2>1, <2>2
  <2>3. CASE d # 0
    <3>1. d \in 1 .. MaxDepth /\ d - 1 \in 0 .. MaxDepth
      BY <1>0, <2>3
    <3>2. g[d - 1] \in S
      <4> HIDE DEF S, base, step
      <4> QED BY <1>5, <3>1 DEF Solution
    <3>3. step[d][g[d - 1]] = Level(g[d - 1])
      <4> HIDE DEF S, Level
      <4> QED BY <3>1, <3>2
    <3>4. Level(g[d - 1]) = At(d, g)
      BY <1>0, <2>3
    <3> HIDE DEF step, Level, At
    <3> QED BY <2>1, <2>3, <3>3, <3>4
  <2> QED BY <2>2, <2>3
<1>7. P(g)
  <2>1. g = [d \in 0 .. MaxDepth |-> g[d]]
    <3> HIDE DEF S, base, step
    <3> QED BY <1>5 DEF Solution
  <2> HIDE DEF At
  <2> QED BY <1>6, <2>1
<1>8. Plain = CHOOSE h : P(h)
  BY DEF Plain
<1>9. P(Plain)
  <2> HIDE DEF P
  <2> QED BY <1>7, <1>8
<1> SUFFICES ASSUME NEW d \in 0 .. MaxDepth, NEW n \in Nodes
             PROVE  n \in Plain[d] <=> PlainOver(n, IF d = 0 THEN Nodes ELSE Plain[d - 1])
  OBVIOUS
<1>10. Plain[d] = At(d, Plain)
  <2> HIDE DEF At
  <2> QED BY <1>9
<1> QED BY <1>10

-----------------------------------------------------------------------------
(* A filter in plain form and its text. *)

\* An object in plain form has one entry, on which the compiler returns unless it
\* is a column without tests (row_filter_compiler.py:48).
LEMMA OneEntry ==
  ASSUME NEW n \in Nodes, Simple(n), ~Empty(n)
  PROVE  \E c \in Clause :
           /\ ClausesOf(n) = {c}
           /\ c.key = "column" => c.tests = <<>> \/ \E t \in Test : c.tests = <<t>>
           /\ \A below : CompileNode(n, below) =
                IF c.key = "column" /\ c.tests = <<>> THEN Rejected
                ELSE IF c.key \in {"and", "or"} THEN Group(c, below)
                ELSE IF c.key = "column" THEN CompileTest(c.tests[1])
                ELSE Rejected
<1> DEFINE c == Clauses[n][1]
<1>1. Clauses[n] \in Seq(Clause) /\ Clauses[n] # <<>> /\ Len(Clauses[n]) <= 1
  BY FilterConstants DEF Simple, Empty
<1>2. Len(Clauses[n]) = 1 /\ DOMAIN Clauses[n] = {1}
  <2>1. Len(Clauses[n]) \in Nat \ {0} /\ DOMAIN Clauses[n] = 1 .. Len(Clauses[n])
    BY <1>1, EmptySeq, LenProperties
  <2> DEFINE k == Len(Clauses[n])
  <2>2. k \in Nat \ {0} /\ k <= 1
    BY <1>1, <2>1
  <2> HIDE DEF k
  <2>3. k = 1
    BY <2>2
  <2> QED BY <2>1, <2>3 DEF k
<1>3. c \in Clause /\ ClausesOf(n) = {c}
  BY <1>1, <1>2 DEF ClausesOf
<1>4. c.key = "column" => c.tests = <<>> \/ \E t \in Test : c.tests = <<t>>
  <2>1. c.tests \in Seq(Test) /\ Len(c.tests) <= 1
    BY <1>3 DEF Simple, Clause
  <2> DEFINE ts == c.tests
  <2> HIDE DEF c
  <2>2. ASSUME ts # <<>> PROVE ts[1] \in Test /\ ts = <<ts[1]>>
    BY <2>1, <2>2
  <2> QED BY <2>2
<1>5. Decisive(n) = IF c.key = "column" /\ c.tests = <<>> THEN {} ELSE {1}
  BY <1>2 DEF Decisive
<1>6. Min({1}) = 1
  <2>1. \E x \in {1} : \A y \in {1} : x =< y
    OBVIOUS
  <2> QED BY <2>1 DEF Min
<1>7. ASSUME NEW below
      PROVE  CompileNode(n, below) =
                IF c.key = "column" /\ c.tests = <<>> THEN Rejected
                ELSE IF c.key \in {"and", "or"} THEN Group(c, below)
                ELSE IF c.key = "column" THEN CompileTest(c.tests[1])
                ELSE Rejected
  <2>1. CASE c.key = "column" /\ c.tests = <<>>
    BY <1>5, <2>1 DEF CompileNode
  <2>2. CASE ~ (c.key = "column" /\ c.tests = <<>>)
    <3>1. Decisive(n) = {1} /\ Clauses[n][Min(Decisive(n))] = c
      BY <1>5, <1>6, <2>2
    <3> HIDE DEF c
    <3> QED BY <2>2, <3>1 DEF CompileNode
  <2> QED BY <2>1, <2>2
<1> HIDE DEF c
<1> QED BY <1>3, <1>4, <1>7

Narrow(d, n) ==
  /\ RowsOf(Compiled[d][n]) \subseteq Means[d][n]
  /\ ~Disjunctive(n) => Single(Compiled[d][n])

\* If the objects below a plain one are compiled to texts that select no row too
\* many, so is the object (row_filter_compiler.py:48).
LEMMA LevelIsNarrow ==
  ASSUME NEW d \in 0 .. MaxDepth, NEW n \in Nodes, n \in Plain[d],
         d > 0 => \A m \in Nodes : m \in Plain[d - 1] => Narrow(d - 1, m)
  PROVE  Narrow(d, n)
<1>1. /\ Means[d][n] = MeansOf(n, IF d = 0 THEN NoRows ELSE Means[d - 1])
      /\ Compiled[d][n] = IF Empty(n) THEN Unrestricted
                          ELSE IF d = 0 THEN Rejected
                          ELSE CompileNode(n, Compiled[d - 1])
      /\ PlainOver(n, IF d = 0 THEN Nodes ELSE Plain[d - 1])
  BY MeansDef, CompiledDef, PlainDef
<1>2. ASSUME Compiled[d][n] = Rejected PROVE Narrow(d, n)
  BY <1>2, RowsOfResults DEF Narrow, Single
<1>3. CASE Empty(n)
  <2>1. ClausesOf(n) = {}
    BY <1>3 DEF ClausesOf, Empty
  <2>2. Means[d][n] = Rows
    BY <1>1, <2>1 DEF MeansOf
  <2> QED BY <1>1, <1>3, <2>2, RowsOfResults DEF Narrow, Single
<1>4. CASE ~Empty(n) /\ d = 0
  BY <1>1, <1>2, <1>4
<1>5. CASE ~Empty(n) /\ d # 0
  <2> DEFINE below == Compiled[d - 1]
             means == Means[d - 1]
  <2>0. d > 0 /\ d - 1 \in 0 .. MaxDepth
    BY <1>5, FilterConstants
  <2>1. Simple(n) /\ \A c \in ClausesOf(n) : \A m \in Items(c) :
          m \in Plain[d - 1] /\ (c.key = "and" => ~Disjunctive(m))
    BY <1>1, <1>5 DEF PlainOver
  <2>2. PICK c \in Clause :
          /\ ClausesOf(n) = {c}
          /\ c.key = "column" => c.tests = <<>> \/ \E t \in Test : c.tests = <<t>>
          /\ CompileNode(n, below) =
                IF c.key = "column" /\ c.tests = <<>> THEN Rejected
                ELSE IF c.key \in {"and", "or"} THEN Group(c, below)
                ELSE IF c.key = "column" THEN CompileTest(c.tests[1])
                ELSE Rejected
    BY <1>5, <2>1, OneEntry
  <2>3. below \in [Nodes -> Results] /\ Compiled[d][n] = CompileNode(n, below)
    BY <1>1, <1>5, <2>0, CompiledDef
  <2>4. Means[d][n] = MeansOf(n, means)
    BY <1>1, <1>5
  <2>5. \A m \in Items(c) : m \in Nodes /\ RowsOf(below[m]) \subseteq means[m]
                            /\ (c.key = "and" => Single(below[m]))
    <3>1. \A m \in Items(c) : m \in Nodes
      BY DEF Items, Clause
    <3>2. \A m \in Items(c) : Narrow(d - 1, m) /\ (c.key = "and" => ~Disjunctive(m))
      BY <2>0, <2>1, <2>2, <3>1
    <3> QED BY <3>1, <3>2 DEF Narrow
  <2> HIDE DEF below, means
  <2>6. CASE c.key = "or"
    <3>1. Compiled[d][n] = Group(c, below) /\ Disjunctive(n)
      BY <2>2, <2>3, <2>6 DEF Disjunctive
    <3>2. RowsOf(Group(c, below)) \subseteq UNION {RowsOf(below[m]) : m \in Items(c)}
      BY <2>3, <2>6, GroupByOr
    <3>3. Group(c, below) \in Results
      BY <2>3, GroupType
    <3>4. RowsOf(Group(c, below)) \subseteq Rows
      BY <3>3, RowsOfResults
    <3>5. \A r \in RowsOf(Group(c, below)) : r \in Rows /\ \E m \in Items(c) : r \in means[m]
      BY <2>5, <3>2, <3>4
    <3>6. \A r \in Rows : (\E m \in Items(c) : r \in means[m]) => r \in MeansOf(n, means)
      BY <2>2, <2>6 DEF MeansOf
    <3> QED BY <2>4, <3>1, <3>5, <3>6 DEF Narrow
  <2>7. CASE c.key = "and"
    <3>1. Compiled[d][n] = Group(c, below)
      BY <2>2, <2>3, <2>7
    <3>2. /\ Single(Group(c, below))
          /\ \A m \in Items(c) : RowsOf(Group(c, below)) \subseteq RowsOf(below[m])
      BY <2>3, <2>5, <2>7, GroupByAnd
    <3>3. Group(c, below) \in Results
      BY <2>3, GroupType
    <3>4. RowsOf(Group(c, below)) \subseteq Rows
      BY <3>3, RowsOfResults
    <3>5. \A r \in RowsOf(Group(c, below)) : r \in Rows /\ \A m \in Items(c) : r \in means[m]
      BY <2>5, <3>2, <3>4
    <3>6. \A r \in Rows : (\A m \in Items(c) : r \in means[m]) => r \in MeansOf(n, means)
      BY <2>2, <2>7 DEF MeansOf
    <3> QED BY <2>4, <3>1, <3>2, <3>5, <3>6 DEF Narrow
  <2>8. CASE c.key = "column" /\ \E t \in Test : c.tests = <<t>>
    <3>1. PICK t \in Test : c.tests = <<t>>
      BY <2>8
    <3>2. c.tests[1] = t /\ Tests(c) = {t} /\ c.tests # <<>>
      BY <3>1 DEF Tests
    <3>3. Compiled[d][n] = CompileTest(t)
      BY <2>2, <2>3, <2>8, <3>2
    <3>4. Compiled[d][n] = Rejected \/ Compiled[d][n] = Text(<<t.rows>>)
      BY <3>3, CompileTestType
    <3>5. t.rows \subseteq Rows
      BY DEF Test
    <3>6. RowsOf(Text(<<t.rows>>)) = t.rows
      BY RowsOfOneTerm
    <3>7. Single(Text(<<t.rows>>))
      BY <3>5 DEF Single
    <3>8. t.rows \subseteq MeansOf(n, means)
      BY <2>2, <2>8, <3>2, <3>5 DEF MeansOf
    <3>9. Narrow(d, n) \/ Compiled[d][n] = Rejected
      BY <2>4, <3>4, <3>6, <3>7, <3>8 DEF Narrow
    <3> QED BY <1>2, <3>9
  <2>9. CASE c.key \notin {"and", "or"} /\ (c.key = "column" => c.tests = <<>>)
    BY <1>2, <2>2, <2>3, <2>9
  <2> QED BY <2>2, <2>6, <2>7, <2>8, <2>9
<1> QED BY <1>3, <1>4, <1>5

\* So it is at every level.
LEMMA PlainIsNarrow == \A d \in 0 .. MaxDepth : \A n \in Nodes : n \in Plain[d] => Narrow(d, n)
<1> DEFINE T == {d \in 0 .. MaxDepth : \A m \in Nodes : m \in Plain[d] => Narrow(d, m)}
<1>0. MaxDepth \in Nat
  BY FilterConstants
<1>1. 0 \in T
  <2>1. ASSUME NEW m \in Nodes, m \in Plain[0] PROVE Narrow(0, m)
    BY <1>0, <2>1, LevelIsNarrow
  <2> QED BY <1>0, <2>1
<1>2. ASSUME NEW d \in 0 .. (MaxDepth - 1), d \in T PROVE d + 1 \in T
  <2>1. d + 1 \in 0 .. MaxDepth /\ (d + 1) - 1 = d
    BY <1>0
  <2>2. \A m \in Nodes : m \in Plain[(d + 1) - 1] => Narrow((d + 1) - 1, m)
    BY <1>2, <2>1
  <2>3. ASSUME NEW m \in Nodes, m \in Plain[d + 1] PROVE Narrow(d + 1, m)
    BY <2>1, <2>2, <2>3, LevelIsNarrow
  <2> QED BY <2>1, <2>3
<1>3. 0 .. MaxDepth \subseteq T
  <2> HIDE DEF T
  <2> QED BY <1>0, <1>1, <1>2, InductionUpTo
<1> QED BY <1>3

\* The text of a plain filter selects no row that the filter does not mean, for
\* filters of any size and depth (permission_service.py:48, row_filter_compiler.py:43).
THEOREM CompileNeverWidens ==
  ASSUME NEW n \in Nodes, n \in PlainFilters
  PROVE  RowsOf(Compile(n)) \subseteq Means[MaxDepth][n]
<1>1. Narrow(MaxDepth, n)
  BY PlainIsNarrow, FilterConstants DEF PlainFilters
<1> QED BY <1>1 DEF Narrow, Compile

\* Nodes below which no object is empty.
Filled(D) ==
  D \subseteq Nodes
  /\ \A n \in D : \A c \in ClausesOf(n) : \A m \in Items(c) : m \in D /\ ~Empty(m)

Exact(d, n) ==
  Compiled[d][n] # Rejected =>
    /\ RowsOf(Compiled[d][n]) = Means[d][n]
    /\ ~Empty(n) => Compiled[d][n] # Unrestricted

\* If the objects below a plain one are compiled exactly or rejected, so is the
\* object (row_filter_compiler.py:48).
LEMMA LevelIsExact ==
  ASSUME NEW D, Filled(D), NEW d \in 0 .. MaxDepth, NEW n \in D, n \in Plain[d],
         d > 0 => \A m \in D : m \in Plain[d - 1] => Exact(d - 1, m) /\ Narrow(d - 1, m)
  PROVE  Exact(d, n)
<1>0. n \in Nodes
  BY DEF Filled
<1>1. /\ Means[d][n] = MeansOf(n, IF d = 0 THEN NoRows ELSE Means[d - 1])
      /\ Compiled[d][n] = IF Empty(n) THEN Unrestricted
                          ELSE IF d = 0 THEN Rejected
                          ELSE CompileNode(n, Compiled[d - 1])
      /\ PlainOver(n, IF d = 0 THEN Nodes ELSE Plain[d - 1])
  BY <1>0, MeansDef, CompiledDef, PlainDef
<1>2. ASSUME Compiled[d][n] = Rejected PROVE Exact(d, n)
  BY <1>2 DEF Exact
<1>3. CASE Empty(n)
  <2>1. ClausesOf(n) = {}
    BY <1>3 DEF ClausesOf, Empty
  <2>2. Means[d][n] = Rows
    BY <1>1, <2>1 DEF MeansOf
  <2> QED BY <1>1, <1>3, <2>2, RowsOfResults DEF Exact
<1>4. CASE ~Empty(n) /\ d = 0
  BY <1>1, <1>2, <1>4
<1>5. CASE ~Empty(n) /\ d # 0
  <2> SUFFICES ASSUME Compiled[d][n] # Rejected
               PROVE  RowsOf(Compiled[d][n]) = Means[d][n] /\ Compiled[d][n] # Unrestricted
    BY DEF Exact
  <2> DEFINE below == Compiled[d - 1]
             means == Means[d - 1]
  <2>0. d > 0 /\ d - 1 \in 0 .. MaxDepth
    BY <1>5, FilterConstants
  <2>1. Simple(n) /\ \A c \in ClausesOf(n) : \A m \in Items(c) :
          m \in Plain[d - 1] /\ (c.key = "and" => ~Disjunctive(m))
    BY <1>1, <1>5 DEF PlainOver
  <2>2. PICK c \in Clause :
          /\ ClausesOf(n) = {c}
          /\ c.key = "column" => c.tests = <<>> \/ \E t \in Test : c.tests = <<t>>
          /\ CompileNode(n, below) =
                IF c.key = "column" /\ c.tests = <<>> THEN Rejected
                ELSE IF c.key \in {"and", "or"} THEN Group(c, below)
                ELSE IF c.key = "column" THEN CompileTest(c.tests[1])
                ELSE Rejected
    BY <1>0, <1>5, <2>1, OneEntry
  <2>3. below \in [Nodes -> Results] /\ Compiled[d][n] = CompileNode(n, below)
    BY <1>1, <1>5, <2>0, CompiledDef
  <2>4. Means[d][n] = MeansOf(n, means)
    BY <1>1, <1>5
  <2>5. \A m \in Items(c) :
          /\ c.key = "and" => Single(below[m])
          /\ below[m] # Rejected => RowsOf(below[m]) = means[m] /\ below[m] # Unrestricted
    <3>1. \A m \in Items(c) : m \in D /\ ~Empty(m)
      BY <2>2 DEF Filled
    <3>2. \A m \in Items(c) : Exact(d - 1, m) /\ Narrow(d - 1, m) /\ (c.key = "and" => ~Disjunctive(m))
      BY <2>0, <2>1, <2>2, <3>1
    <3> QED BY <3>1, <3>2 DEF Narrow, Exact
  <2>6. CASE c.key = "or"
    <3> HIDE DEF below, means
    <3>1. Compiled[d][n] = Group(c, below) /\ Group(c, below) # Rejected
      BY <2>2, <2>3, <2>6
    <3>2. \A m \in Items(c) : below[m] # Rejected
      BY <2>3, <2>6, <3>1, GroupByOr
    <3>3. \A m \in Items(c) : below[m] # Unrestricted /\ RowsOf(below[m]) = means[m]
      BY <2>5, <3>2
    <3>4. /\ Group(c, below) # Unrestricted
          /\ RowsOf(Group(c, below)) = UNION {RowsOf(below[m]) : m \in Items(c)}
      BY <2>3, <2>6, <3>1, <3>3, GroupByOr
    <3>5. Group(c, below) \in Results
      BY <2>3, GroupType
    <3>6. RowsOf(Group(c, below)) \subseteq Rows
      BY <3>5, RowsOfResults
    <3>7. \A r : r \in RowsOf(Group(c, below)) <=> \E m \in Items(c) : r \in means[m]
      BY <3>3, <3>4
    <3>8. MeansOf(n, means) = {r \in Rows : \E m \in Items(c) : r \in means[m]}
      BY <2>2, <2>6 DEF MeansOf
    <3>9. RowsOf(Group(c, below)) = MeansOf(n, means)
      BY <3>6, <3>7, <3>8
    <3> QED BY <2>4, <3>1, <3>4, <3>9
  <2>7. CASE c.key = "and"
    <3> HIDE DEF below, means
    <3>1. Compiled[d][n] = Group(c, below) /\ Group(c, below) # Rejected
      BY <2>2, <2>3, <2>7
    <3>2. \A m \in Items(c) : Single(below[m])
      BY <2>5, <2>7
    <3>3. /\ \A m \in Items(c) : below[m] # Rejected
          /\ RowsOf(Group(c, below)) = {r \in Rows : \A m \in Items(c) : r \in RowsOf(below[m])}
          /\ (\A m \in Items(c) : below[m] # Unrestricted) => Group(c, below) # Unrestricted
      BY <2>3, <2>7, <3>1, <3>2, GroupByAnd
    <3>4. \A m \in Items(c) : below[m] # Unrestricted /\ RowsOf(below[m]) = means[m]
      BY <2>5, <3>3
    <3>5. MeansOf(n, means) = {r \in Rows : \A m \in Items(c) : r \in means[m]}
      BY <2>2, <2>7 DEF MeansOf
    <3>6. RowsOf(Group(c, below)) = MeansOf(n, means)
      BY <3>3, <3>4, <3>5
    <3> QED BY <2>4, <3>1, <3>3, <3>4, <3>6
  <2>8. CASE c.key = "column" /\ \E t \in Test : c.tests = <<t>>
    <3> HIDE DEF below, means
    <3>1. PICK t \in Test : c.tests = <<t>>
      BY <2>8
    <3>2. c.tests[1] = t /\ Tests(c) = {t} /\ c.tests # <<>>
      BY <3>1 DEF Tests
    <3>3. Compiled[d][n] = CompileTest(t)
      BY <2>2, <2>3, <2>8, <3>2
    <3>4. Compiled[d][n] = Text(<<t.rows>>)
      BY <3>3, CompileTestType
    <3>5. t.rows \subseteq Rows
      BY DEF Test
    <3>6. RowsOf(Text(<<t.rows>>)) = t.rows
      BY RowsOfOneTerm
    <3>7. t.rows = MeansOf(n, means)
      BY <2>2, <2>8, <3>2, <3>5 DEF MeansOf
    <3> QED BY <2>4, <3>4, <3>6, <3>7, RowsOfResults
  <2>9. CASE c.key \notin {"and", "or"} /\ (c.key = "column" => c.tests = <<>>)
    BY <2>2, <2>3, <2>9
  <2> QED BY <2>2, <2>6, <2>7, <2>8, <2>9
<1> QED BY <1>3, <1>4, <1>5

\* A plain filter without empty objects inside is rejected or its text selects all
\* the rows that the filter means (row_filter_compiler.py:43): what widening would
\* show too much of, narrowing would hide.
THEOREM CompileIsExact ==
  ASSUME NEW D, Filled(D), NEW n \in D, n \in PlainFilters, Compile(n) # Rejected
  PROVE  RowsOf(Compile(n)) = Means[MaxDepth][n]
<1> DEFINE T == {d \in 0 .. MaxDepth : \A m \in D : m \in Plain[d] => Exact(d, m) /\ Narrow(d, m)}
<1>0. MaxDepth \in Nat /\ D \subseteq Nodes
  BY FilterConstants DEF Filled
<1>1. 0 \in T
  <2>1. ASSUME NEW m \in D, m \in Plain[0] PROVE Exact(0, m) /\ Narrow(0, m)
    BY <1>0, <2>1, LevelIsNarrow, LevelIsExact
  <2> QED BY <1>0, <2>1
<1>2. ASSUME NEW d \in 0 .. (MaxDepth - 1), d \in T PROVE d + 1 \in T
  <2>1. d + 1 \in 0 .. MaxDepth /\ (d + 1) - 1 = d
    BY <1>0
  <2>2. \A m \in D : m \in Plain[(d + 1) - 1] => Exact((d + 1) - 1, m) /\ Narrow((d + 1) - 1, m)
    BY <1>2, <2>1
  <2>3. ASSUME NEW m \in D, m \in Plain[d + 1] PROVE Exact(d + 1, m)
    BY <2>1, <2>2, <2>3, LevelIsExact
  <2>4. ASSUME NEW m \in D, m \in Plain[d + 1] PROVE Narrow(d + 1, m)
    BY <1>0, <2>1, <2>4, PlainIsNarrow
  <2> QED BY <2>1, <2>3, <2>4
<1>3. 0 .. MaxDepth \subseteq T
  <2> HIDE DEF T
  <2> QED BY <1>0, <1>1, <1>2, InductionUpTo
<1>4. Exact(MaxDepth, n)
  BY <1>0, <1>3 DEF PlainFilters
<1> QED BY <1>4 DEF Exact, Compile
=============================================================================
