\* Two tenants whose artifacts share a file: holds, a copy and both deletions.
SPECIFICATION FairSpec
CONSTANTS
  a1 = a1
  a2 = a2
  r1 = r1
  r2 = r2
  t1 = t1
  t2 = t2
  p1 = p1
  Artifacts = {a1, a2}
  Runs = {r1, r2}
  Tenants = {t1, t2}
  Paths = {p1}
  Workers = {w1, w2}
  Exports = {e1}
  RunOf <- Results
  TenantOf <- Tenancy
  PathOf <- SharedPath
  Drivers = {"local", "other"}
  StorageRoots = {TRUE, FALSE}
  MaxAttempts = 2
  ClaimLimit = 2
  MaxFaults = 1
  None = None
INVARIANTS RecordsMatchFiles RetainedFilesExist
PROPERTIES FilesSurvive DeletionsSettle
CHECK_DEADLOCK FALSE
