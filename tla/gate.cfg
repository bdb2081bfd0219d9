SPECIFICATION FairSpec
CONSTANTS
  o1 = o1
  o2 = o2
  o3 = o3
  o4 = o4
  o5 = o5
  NoKey = NoKey
  Ops <- MCOps
  Scope <- MCScope
  InstallationLimit = 2
  RepositoryLimit = 1
  BatchLimit = 2
INVARIANTS
  ScopeLimits
  WorkConserving
PROPERTIES
  NoUnfairOvertaking
  EveryCallStarts
