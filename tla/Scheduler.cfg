CONSTANTS
  a = a
  b = b
  c = c
  r1 = r1
  r2 = r2
  solo = solo
  shared = shared
  t1 = t1
  t2 = t2
  i1 = i1
  i2 = i2
  i3 = i3
  None = None
  Key <- MCKey
  ModelOf <- MCModelOf
  RuntimeOf <- MCRuntimeOf
  Single <- MCSingle
  Batch <- MCBatch
  MultiResident = {shared}
  Owner = {r1, r2}
  Allowlist = {a, c}
  Concurrent = {shared}
  LeaseId = {i1, i2, i3}
  Caller = {t1, t2}
  KeepLast = FALSE
  FlakyUnload = {a, b}
SPECIFICATION Spec
SYMMETRY Symmetry
INVARIANTS
  TypeOK
  Residency
  
  LeasesAreLive
PROPERTIES
  OnlyIdleLeaves
  FailedBatchLeavesNothing
  ServesLeases
