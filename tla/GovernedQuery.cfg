SPECIFICATION Spec
CONSTANTS
  u = u
  r1 = r1
  r2 = r2
  t1 = t1
  t2 = t2
  t3 = t3
  t4 = t4
  t5 = t5
  n1 = n1
  n2 = n2
  n3 = n3
  n5 = n5
  x = x
  a = a
  b = b
  redact = redact
  hash = hash
  c1 = c1
  c2 = c2
  c3 = c3
  c4 = c4
  c5 = c5
  all = all
  odd = odd
  low = low
  both = both
  either = either
  loose = loose
  deep = deep
  knot = knot
  inverse = inverse
  Nodes = {all, odd, low, both, either, loose, deep, knot, inverse}
  Clauses <- MCClauses
  Rows <- MCRows
  MaxDepth = 3
  User = u
  Roles = {r1, r2}
  Tables = {t1, t2, t3, t4, t5}
  TableNames = {n1, n2, n3, n5, x}
  NameOf <- MCNameOf
  Names = {a, b}
  Columns <- MCColumns
  Sensitive <- MCSensitive
  Masks = {redact, hash}
  NoMask = NoMask
  Redact = redact
  Seeds <- MCSeeds
  Offers <- MCOffers
  Verdicts <- MCVerdicts
  MaxGrants = 3
  MaxEdits = 2
  Statements <- MCStatements
  Absent = Absent
  MaxRows = 2
  Connections = {c1, c2, c3, c4, c5}
  Stored = {c1, c2, c3, c5}
  Own = {c1, c2, c5}
  Active = {c1, c2, c3, c5}
  Ready = {c1, c3, c5}
  TablesOf <- MCTablesOf
  Selections <- MCSelections
  Mentions <- MCMentions
  RowBytes = {0, 2}
  MaxBytes = 1
INVARIANTS
  FiltersNeverWiden
  RoutingPrefersSelection
  QueriesStayInTenant
  RowsAreFiltered
  SensitiveIsMasked
  ShortAnswersAreWhole
  IInv
PROPERTIES
  ResolvesAMoment
  StandingDirectGrantRules
  ReadsWereGranted
