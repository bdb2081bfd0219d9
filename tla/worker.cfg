SPECIFICATION WorkerFairSpec
CONSTANTS
  o1 = o1
  o2 = o2
  o3 = o3
  o4 = o4
  NoKey = NoKey
  InstallationLimit = 2
  RepositoryLimit = 1
  BatchLimit = 2
  Ops <- MCOps
  Scope <- WorkerScope
  Kind <- MCKind
  Tenant <- MCTenant
  Board <- MCBoard
INVARIANTS
  DrainsBeforeClose
PROPERTIES
  Ends
CHECK_DEADLOCK FALSE
