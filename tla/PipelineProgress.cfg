SPECIFICATION FairSpec
CONSTANTS
  f1 = f1
  f2 = f2
  k1 = k1
  k2 = k2
  k3 = k3
  Files = {f1}
  KBs = {k1, k2}
  NoKB = NoKB
  TenantOf <- MCTenantOf
  Blank = {}
  Runs = {r1, r2, r3}
  Deletes = {d1, d2}
  NoFile = NoFile
  Free = Free
  Faults <- ProgressFaults
INVARIANT OneVectorGeneration
PROPERTIES
  LockReleased
  DeleteCompletes
CHECK_DEADLOCK FALSE
