SPECIFICATION Spec
CONSTANTS
  t1 = t1
  t2 = t2
  t3 = t3
  Edits = {e1}
  Tests = {p1}
  Syncs = {s1, s2}
  Queries = {q1}
  Tables = {t1, t2, t3}
  Source <- MCSource
INVARIANT HealthyWasTested
CHECK_DEADLOCK FALSE
