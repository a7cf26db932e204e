SPECIFICATION FairSpec
CONSTANTS
  f1 = f1
  f2 = f2
  k1 = k1
  k2 = k2
  k3 = k3
  Files = {f1}
  KBs = {k1}
  NoKB = NoKB
  TenantOf <- MCTenantOf
  Blank = {}
  Runs = {r1, r2}
  Deletes = {d1}
  NoFile = NoFile
  Free = Free
  Faults <- NoFaults
PROPERTY UploadIsProcessed
CHECK_DEADLOCK FALSE
