\* Two commits whose runs overtake each other.
SPECIFICATION Spec
CONSTANTS
  Runs = {1, 2}
  CommitOf <- PushOrder
  w1 = w1
  w2 = w2
  Workers = {w1, w2}
  None = None
  DispatchMode = "github-actions"
  Skips = {TRUE, FALSE}
  MaxAttempts = 1
  ClaimLimit = 1
  MaxRequests = 1
  MaxReruns = 1
  MaxReplays = 0
  MaxCrashes = 0
SYMMETRY Symmetry
INVARIANTS OneActiveCommit AttemptAgrees
PROPERTIES ImplementsLifecycle
CHECK_DEADLOCK FALSE
