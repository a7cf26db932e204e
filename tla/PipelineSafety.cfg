SPECIFICATION Spec
CONSTANTS
  f1 = f1
  f2 = f2
  k1 = k1
  k2 = k2
  k3 = k3
  Files = {f1, f2}
  KBs = {k1, k2, k3}
  NoKB = NoKB
  TenantOf <- MCTenantOf
  Blank = {f2}
  Runs = {r1, r2}
  Deletes = {d1, d2}
  NoFile = NoFile
  Free = Free
  Faults <- SafetyFaults
SYMMETRY Symmetry
INVARIANTS
  TypeOK
  EvidenceIsLive
  CompletedHasChunks
  ChunksStayInTenant
  RowHasObject
  IInv
PROPERTY ImplementsCatalog
CHECK_DEADLOCK FALSE
