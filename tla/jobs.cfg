\* Two deliveries, or one accepted twice, with crashes, lost leases and a replay.
CONSTANTS
  Deliveries = {d1, d2}
  Workers = {w1, w2}
  Operations = {o1}
  MaxAttempts = 2
  ClaimLimit = 2
  MaxAcceptances = 2
  MaxCrashes = 1
  None = None
SPECIFICATION FairSpec
INVARIANTS InboxProjectsJob LeaseFencing ExecutionBudget
PROPERTIES ImplementsIntake DeliveriesSettle
